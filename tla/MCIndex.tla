------------------------------ MODULE MCIndex ------------------------------
(***************************************************************************)
(* Instances of Index for TLC: two keys in different shards, the second    *)
(* one scanned after the first.                                            *)
(***************************************************************************)
EXTENDS Index, TLC

CONSTANTS k1, k2

TwoKeys == {k1, k2}
OneShardEach == (k1 :> 1) @@ (k2 :> 2)
Symmetry == Permutations(Adders) \cup Permutations(Expirers)
=============================================================================
