------------------------------ MODULE MCOutbox ------------------------------
(* Instances of Outbox for TLC.                                            *)
EXTENDS Outbox, TLC

CONSTANTS mail, other, bridged, w1, w2, ann, bob, pairing, schedule

OneType    == [e \in Events |-> pairing]
TwoTypes   == [e \in Events |-> IF e = other THEN schedule ELSE pairing]
OneAccount == [e \in Events |-> ann]
Symmetric  == Permutations(Workers)

(* Bound: a message that has been replayed is the only one. Production and   *)
(* replay, the steps this holds back, have no fairness.                     *)
LiveNext ==
  /\ Next
  /\ \A d, e \in Events : d # e /\ row'[d].replays > 0 => row'[e].status = "absent"

LiveSpec == Init /\ [][LiveNext]_vars /\ Fairness
=============================================================================
