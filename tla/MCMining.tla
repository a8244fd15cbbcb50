------------------------------ MODULE MCMining ------------------------------
(***************************************************************************)
(* A period of four blocks; every merkle tree of up to MaxLeaves leaves.   *)
(***************************************************************************)
EXTENDS Mining, Merkle

MaxLeaves == 20

ASSUME TreesSound == \A n \in 1..MaxLeaves : TreeSound([i \in 1..n |-> Leaf(i)])

=============================================================================
