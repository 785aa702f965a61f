---------------------------- MODULE MCHandshake -----------------------------
(***************************************************************************)
(* Two messages to hand over, one that the server drops, and two wake-ups  *)
(* for no reason: one makes the flag lie about the scan thread waiting,    *)
(* and with two it does so across a handoff.                               *)
(***************************************************************************)
EXTENDS Handshake

CONSTANTS m1, m2, n1
=============================================================================
