---------------------------- MODULE MCRemoteChain ----------------------------
(* Two directions that may be exchanged for each other. *)
EXTENDS RemoteChain, TLC

Interchangeable == Permutations(Directions)
=============================================================================
