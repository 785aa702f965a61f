------------------------------- MODULE MCDag4 -------------------------------
(***************************************************************************)
(* Four peers, the smallest crowd with a fault to tolerate: the quorum is  *)
(* three.  The live peers take steps; they are all four, or one is down    *)
(* from the start.  A vertex that can be admitted is admitted before any   *)
(* other step (eager admission).  This loses nothing for the properties    *)
(* checked here: admissions of different peers commute, and a peer that    *)
(* proposes before it admits a vertex looks to the others like one that    *)
(* has not received that vertex yet.                                       *)
(*                                                                         *)
(* With one peer down all LastRound rounds are explored.  With all four,   *)
(* the vertices of the round before it reach one peer only, the observer;  *)
(* their other copies are lost, so that nobody else enters the last round. *)
(* What a peer makes of those vertices shows on any one peer.              *)
(***************************************************************************)
EXTENDS DagProtocol, TLC

VARIABLES
  live,        \* the peers that run
  observers    \* those that receive the vertices of round LastRound - 1

AllLive == live = Peers /\ \E p \in Peers : observers = {p}
OneDown == observers = live /\ \E p \in Peers : live = Peers \ {p}

LiveInit ==
  /\ live \in SUBSET Peers
  /\ observers \in SUBSET live
  /\ AllLive \/ OneDown
  /\ Init

Admissible == \E p \in live : \E v \in vertex_map[p] : CanAdmit(p, v)

ProposeOrLearn(p) ==
  \/ Propose(p)
  \/ \E q \in live \ {p} : \E v \in vertex_map[q] :
       /\ v.round < LastRound - 1 \/ p \in observers
       /\ Learn(p, v)

EagerNext ==
  /\ \/ \E p \in live : \E v \in vertex_map[p] : Admit(p, v)
     \/ ~ Admissible /\ \E p \in live : ProposeOrLearn(p)
  /\ UNCHANGED <<live, observers>>

EagerSpec == LiveInit /\ [][EagerNext]_<<vars, live, observers>>

Symmetry == Permutations(Peers)
=============================================================================
