------------------------------ MODULE MCWaves -------------------------------
(***************************************************************************)
(* One validator through its waves, of two rounds each, with every         *)
(* interleaving of its own threads, while the other two fall behind: they  *)
(* propose and broadcast, and get no further than the rounds of Limit.     *)
(* The quorum of three peers is the peer's own vertex.                     *)
(***************************************************************************)
EXTENDS Validators, TLC

CONSTANTS p1, p2, p3

Order == <<p1, p2, p3>>

Limit == (p2 :> 1) @@ (p3 :> 2)

Slow(q) ==
  \/ round[q] < Limit[q] /\ Advance(q)
  \/ round[q] < Limit[q] /\ Wake(q)
  \/ EndPass(q)

WavesNext ==
  \/ ScanThread(p1) \/ ServerThread(p1) \/ CheckThreads(p1)
  \/ Slow(p2)
  \/ Slow(p3)

WavesSpec == VInit /\ [][WavesNext]_vvars
=============================================================================
