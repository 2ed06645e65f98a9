------------------------- MODULE MCAccountDeletion -------------------------
(* Instances of AccountDeletion for TLC.                                   *)
EXTENDS AccountDeletion, TLC

CONSTANTS ann, bob, a1, a2, b1

Accounts == [s \in Sessions |-> IF s = b1 THEN bob ELSE ann]
Alike == Permutations({a1, a2})
=============================================================================
