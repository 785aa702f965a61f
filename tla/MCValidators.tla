---------------------------- MODULE MCValidators ----------------------------
(***************************************************************************)
(* Two validators, every interleaving of their threads and messages.  The  *)
(* quorum is the peer's own vertex, so either may run ahead of the other   *)
(* and leave early.                                                        *)
(***************************************************************************)
EXTENDS Validators, TLC

CONSTANTS p1, p2

Order == <<p1, p2>>
=============================================================================
