------------------------- MODULE MCOutboxRetention -------------------------
(* Instances of OutboxRetention for TLC.                                   *)
EXTENDS OutboxRetention

CONSTANTS mail, bridged, old, w1, ann, pairing

OneType    == [e \in Events |-> pairing]
OneAccount == [e \in Events |-> ann]
=============================================================================
