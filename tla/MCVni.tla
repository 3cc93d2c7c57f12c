------------------------------- MODULE MCVni -------------------------------
(* Instances of Vni for TLC *)
EXTENDS Vni, TLC

CONSTANTS c1, c2, c3

\* Two connections from node 1 to node 2, one back
Three == {c1, c2, c3}
Pair == c1 :> 1 @@ c2 :> 1 @@ c3 :> 2
PairDst == c1 :> 2 @@ c2 :> 2 @@ c3 :> 1

\* The two are alike
Twins == Permutations({c1, c2})

=============================================================================
