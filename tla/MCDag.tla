------------------------------- MODULE MCDag --------------------------------
(***************************************************************************)
(* Three peers, so that the quorum is one vertex and every interleaving of *)
(* proposing, learning and admitting is explored: a peer that is alone may *)
(* run to the end before another one starts.                               *)
(***************************************************************************)
EXTENDS DagProtocol, TLC

Symmetry == Permutations(Peers)
=============================================================================
