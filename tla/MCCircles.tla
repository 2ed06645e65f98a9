----------------------------- MODULE MCCircles -----------------------------
(* Instances of Circles for TLC.                                           *)
EXTENDS Circles

CONSTANTS ann, bob, eve, a1, a2, b1, b2, e1

Accounts == [s \in Sessions |-> CASE s \in {a1, a2} -> ann [] s \in {b1, b2} -> bob [] OTHER -> eve]
=============================================================================
