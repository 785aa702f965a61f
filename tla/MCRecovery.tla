----------------------------- MODULE MCRecovery -----------------------------
(***************************************************************************)
(* Four validators through waves of two rounds; the scan thread of the     *)
(* fourth never gets to run, so that the others are just a quorum and no   *)
(* round is complete without every vertex of theirs.                       *)
(*                                                                         *)
(* Peer p1 takes its steps at any moment: its messages come late or never, *)
(* it wakes up for no reason, it calls for help or not.  The peers of      *)
(* Prompt take theirs as soon as they can, one peer after the other, and   *)
(* wake up when there is something to do; p3 may also give up in the last  *)
(* round and be gone while p1 is stuck below it.  The check_round threads  *)
(* of p1 are prompt as well (MCWaves has them at any moment).              *)
(***************************************************************************)
EXTENDS Validators, TLC

CONSTANTS p1, p2, p3, p4

Order == <<p1, p4, p2, p3>>

HasWork(p) ==
  \/ Leaves(p)
  \/ requests[p] # {}
  \/ \E v \in buffer[p] : CanAdmit(p, v)

PromptScan(p) ==
  \/ Advance(p)
  \/ Idle(p)
  \/ HasWork(p) /\ Wake(p)
  \/ \E v \in unvisited[p] : Visit(p, v)
  \/ EndPass(p)

Prompt(p) == PromptScan(p) \/ ServerThread(p)

(* The server of p4 is up and has nothing to answer with. *)
Absentee == \E m \in request_msgs[p4] : ReceiveRequest(p4, m)

RecoveryNext ==
  \/ Prompt(p2)
  \/ ~ ENABLED Prompt(p2) /\ (Prompt(p3) \/ GiveUp(p3))
  \/ ~ ENABLED (Prompt(p2) \/ Prompt(p3)) /\ Absentee
  \/ ~ ENABLED (Prompt(p2) \/ Prompt(p3) \/ Absentee)
       /\ \/ CheckThreads(p1)
          \/ checks[p1] = {} /\ (ScanThread(p1) \/ ServerThread(p1))

RecoverySpec == VInit /\ [][RecoveryNext]_vvars

(* One of the four at any moment, and two others that make their first     *)
(* vertices and answer no request: it is stuck in the first round, or in   *)
(* the second one.                                                         *)
StuckNext ==
  \/ ScanThread(p1) \/ ServerThread(p1) \/ CheckThreads(p1)
  \/ round[p2] = 0 /\ Advance(p2)
  \/ round[p3] = 0 /\ Advance(p3)

(* The scan thread of p1 is scheduled, its condition variable is notified  *)
(* again and again (WaitingEnds of Handshake), and the clock, which is not *)
(* reset in the last round, is past the limit from some moment on.         *)
StuckSpec ==
  /\ VInit /\ [][StuckNext]_vvars
  /\ WF_vvars(ScanThread(p1))
  /\ SF_vvars(GiveUp(p1))

(* The fourth validator makes its first vertex and is slow from then on;   *)
(* the others all work promptly and get every message.                     *)
SlowNext ==
  \/ round[p4] = 0 /\ Advance(p4)
  \/ round[p4] = 1 /\ Prompt(p2)
  \/ round[p4] = 1 /\ ~ ENABLED Prompt(p2) /\ Prompt(p3)
  \/ round[p4] = 1 /\ ~ ENABLED (Prompt(p2) \/ Prompt(p3)) /\ Prompt(p1)

SlowSpec == VInit /\ [][SlowNext]_vvars

(* Whoever reaches the last round gets out of it, with a quorum or without *)
(* one, however the others fare: waiting there, it gives up.               *)
LastRoundEnds == round[p1] = LastRound ~> ~ Running(p1)
=============================================================================
