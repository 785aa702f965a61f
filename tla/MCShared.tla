------------------------------ MODULE MCShared ------------------------------
(***************************************************************************)
(* A validator connected to one other, with one check_round thread and     *)
(* two workers.                                                            *)
(***************************************************************************)
EXTENDS SharedMemory

CONSTANTS self, q1, c1, w1, w2
=============================================================================
