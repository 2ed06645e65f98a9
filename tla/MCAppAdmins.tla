---------------------------- MODULE MCAppAdmins ----------------------------
(* Instances of AppAdmins for TLC.                                          *)
EXTENDS AppAdmins

CONSTANTS ann, bob, eve, g1, g2

Accounts == [g \in SignIns |-> IF g = g1 THEN bob ELSE eve]
=============================================================================
