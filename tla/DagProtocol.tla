---------------------------- MODULE DagProtocol -----------------------------
(***************************************************************************)
(* What the validators together promise: the round-based DAG every peer    *)
(* builds, independently of sockets, threads and retransmissions.          *)
(*                                                                         *)
(* Each peer keeps its round, the hashes it has put in its DAG image round *)
(* by round, and the map of all the vertices its process knows.  A vertex  *)
(* that is in the map and not in the DAG image sits in one of the lists    *)
(* between the server thread and the scan thread.                          *)
(*                                                                         *)
(* The network is read, not modelled: a peer may learn any vertex of the   *)
(* map of another peer.  Every vertex a process sends (its own by          *)
(* broadcast, the missing ones of another peer, the answer to a request)   *)
(* is taken from that map and no vertex ever leaves it, so this covers     *)
(* loss, delay, reordering and the duplicates of a retransmission.         *)
(***************************************************************************)
EXTENDS Thresholds, FiniteSets

CONSTANTS
  Peers,      \* the validators
  LastRound   \* the termination round of the command line

ASSUME PeersAssumption == IsFiniteSet(Peers) /\ Peers # {}
ASSUME LastRoundAssumption == LastRound \in Nat

VARIABLES
  round,       \* round[p]: Peer::round, 0 before the first vertex
  dag_image,   \* dag_image[p][r]: the hashes of round r in the DAG of p
  vertex_map   \* vertex_map[p]: the vertices in Server::vertex_map of p

vars == <<round, dag_image, vertex_map>>

Crowd == Cardinality(Peers)

(* The rounds that get a vertex; the source indexes them from 0.           *)
Rounds == 1 .. LastRound

(* Vertex::hash digests round and peer_id and nothing else.  SHA-256 is    *)
(* taken as injective, and the two decimal strings it is fed are           *)
(* unambiguous because all the identifiers (nanoseconds since the epoch)   *)
(* have the same number of digits.                                         *)
Hash(v) == <<v.round, v.peer_id>>

Hashes == Rounds \X Peers

(* The payload is a function of round and peer_id and is left out.         *)
Vertices == [round : Rounds, peer_id : Peers, references : SUBSET Hashes]

TypeOK ==
  /\ round \in [Peers -> 0 .. LastRound + 1]
  /\ dag_image \in [Peers -> [Rounds -> SUBSET Hashes]]
  /\ vertex_map \in [Peers -> SUBSET Vertices]

-----------------------------------------------------------------------------
Init ==
  /\ round = [p \in Peers |-> 0]
  /\ dag_image = [p \in Peers |-> [r \in Rounds |-> {}]]
  /\ vertex_map = [p \in Peers |-> {}]

(* Unordered_map::find with the hash of a vertex as its key.               *)
Knows(p, h) == \E v \in vertex_map[p] : Hash(v) = h

(* The scan thread goes on proposing until it has left the last round.     *)
StillProposing(p) == round[p] <= LastRound

CanAdvanceOnWeakQuorum(p) ==       \* mutant: f + 1 vertices are enough
  round[p] > 0 => Cardinality(dag_image[p][round[p]]) >= Byzantines(Crowd) + 1

(* The condition for leaving a round. *)
CanAdvance(p) ==
  round[p] > 0 => Cardinality(dag_image[p][round[p]]) >= RoundQuorum(Crowd)

HasNextVertexTooLate(p) == round[p] <= LastRound   \* mutant: test before ++

(* The round after the current one still gets a vertex. *)
HasNextVertex(p) == round[p] < LastRound

NewVertexOfStaleRound(p, r) ==  \* mutant: built before the round is advanced
  [round |-> IF r > 1 THEN r - 1 ELSE r, peer_id |-> p,
   references |-> IF r > 1 THEN dag_image[p][r - 1] ELSE {}]

(* The vertex peer p creates when it enters round r: add_ref copies the    *)
(* previous round of its DAG image as it is at that moment.                *)
NewVertex(p, r) ==
  [round |-> r, peer_id |-> p,
   references |-> IF r > 1 THEN dag_image[p][r - 1] ELSE {}]

ProposeUncounted(p) ==   \* mutant: the peer leaves its vertex out of its DAG
  /\ StillProposing(p)
  /\ CanAdvance(p)
  /\ round' = [round EXCEPT ![p] = @ + 1]
  /\ vertex_map' =
       IF HasNextVertex(p)
       THEN [vertex_map EXCEPT ![p] = @ \cup {NewVertex(p, round[p] + 1)}]
       ELSE vertex_map
  /\ UNCHANGED dag_image

(* Peer p enters its next round; unless that takes it past the last round, *)
(* it creates its vertex, stores it and puts it in its own DAG.            *)
Propose(p) ==
  /\ StillProposing(p)
  /\ CanAdvance(p)
  /\ round' = [round EXCEPT ![p] = @ + 1]
  /\ IF HasNextVertex(p)
       THEN LET v == NewVertex(p, round[p] + 1)
            IN  /\ vertex_map' = [vertex_map EXCEPT ![p] = @ \cup {v}]
                /\ dag_image' =
                     [dag_image EXCEPT ![p][v.round] = @ \cup {Hash(v)}]
       ELSE UNCHANGED <<dag_image, vertex_map>>

HasStrictMajority(v) ==   \* mutant: > for >=
  \/ Cardinality(v.references) > ServerMajority(Crowd)
  \/ v.round = 1

(* The filter the server applies to a received vertex. *)
HasMajority(v) ==
  \/ Cardinality(v.references) >= ServerMajority(Crowd)
  \/ v.round = 1

(* The server of peer p receives vertex v and keeps it if its hash is new. *)
Learn(p, v) ==
  /\ HasMajority(v)
  /\ ~ Knows(p, Hash(v))
  /\ vertex_map' = [vertex_map EXCEPT ![p] = @ \cup {v}]
  /\ UNCHANGED <<round, dag_image>>

RoundReachedEarly(p, v) == round[p] + 1 >= v.round   \* mutant: off by one

(* A vertex waits in the buffer until the peer has entered its round, *)
RoundReached(p, v) == round[p] >= v.round

MutualHistoryInPart(p, v) ==       \* mutant: one known reference is enough
  v.references \cap dag_image[p][v.round - 1] # {}

(* and until every vertex it refers to is in the DAG of p. *)
MutualHistory(p, v) == v.references \subseteq dag_image[p][v.round - 1]

Waiting(p, v) == Hash(v) \notin dag_image[p][v.round]

CanAdmit(p, v) ==
  /\ Waiting(p, v)
  /\ RoundReached(p, v)
  /\ v.round > 1 => MutualHistory(p, v)

(* The scan thread of peer p moves a waiting vertex into the DAG. *)
Admit(p, v) ==
  /\ CanAdmit(p, v)
  /\ dag_image' = [dag_image EXCEPT ![p][v.round] = @ \cup {Hash(v)}]
  /\ UNCHANGED <<round, vertex_map>>

(* The steps of one peer: its scan thread, its server thread. *)
Step(p) ==
  \/ Propose(p)
  \/ \E q \in Peers \ {p} : \E v \in vertex_map[q] : Learn(p, v)
  \/ \E v \in vertex_map[p] : Admit(p, v)

Next == \E p \in Peers : Step(p)

Spec == Init /\ [][Next]_vars

-----------------------------------------------------------------------------
(* Causal delivery: a vertex is in the DAG of a peer only together with    *)
(* everything it refers to, whatever order the network delivered them in   *)
(* and whatever the round of the peer was when they arrived.               *)
CausalHistory ==
  \A p \in Peers : \A v \in vertex_map[p] :
    Hash(v) \in dag_image[p][v.round] /\ v.round > 1 =>
      v.references \subseteq dag_image[p][v.round - 1]

(* One hash stands for one vertex in the whole system, although the hash   *)
(* does not cover the references: no two processes ever hold vertices of   *)
(* the same round and creator that refer to different pasts.               *)
NoEquivocation ==
  \A p, q \in Peers : \A u \in vertex_map[p], v \in vertex_map[q] :
    Hash(u) = Hash(v) => u = v

(* A process never sees a vertex its creator has not made: the creator is  *)
(* in that round or beyond, and holds the vertex and counts it in its DAG. *)
Authentic ==
  \A p \in Peers : \A v \in vertex_map[p] :
    /\ v \in vertex_map[v.peer_id]
    /\ round[v.peer_id] >= v.round
    /\ Hash(v) \in dag_image[v.peer_id][v.round]

(* The DAG image has an entry for the rounds entered so far and no other;  *)
(* a hash of a later round would be written behind the end of the vector.  *)
SlotsEntered ==
  \A p \in Peers : \A r \in Rounds :
    r > round[p] => dag_image[p][r] = {}

(* Peers move together: when a peer has entered round r, a quorum of the   *)
(* peers has entered round r - 1.                                          *)
NoneRunsAhead ==
  \A p \in Peers :
    round[p] > 1 =>
      Cardinality({q \in Peers : round[q] >= round[p] - 1})
        >= RoundQuorum(Crowd)

(* The vertices of one round build on a common past: any two vertices of a *)
(* round, held by any two processes, refer to more common vertices than    *)
(* there may be failed peers.  (For a crowd of 3f + 1.)                    *)
CommonReferences ==
  \A p, q \in Peers : \A u \in vertex_map[p], v \in vertex_map[q] :
    u.round = v.round /\ u.round > 1 =>
      Cardinality(u.references \cap v.references) > Byzantines(Crowd)

(* The creators of the vertices of the next round that refer to h, whoever *)
(* holds these vertices by now.                                            *)
Voters(h) ==
  {v.peer_id : v \in {u \in UNION {vertex_map[p] : p \in Peers} :
                       u.round = h[1] + 1 /\ h \in u.references}}

(* More voters than a quorum can do without. *)
IsVotedFor(h) == Cardinality(Voters(h)) > Crowd - RoundQuorum(Crowd)

IsShared(h) ==
  \A p \in Peers : round[p] > h[1] + 1 => h \in dag_image[p][h[1]]

(* A vertex that enough vertices of the next round refer to is in the DAG  *)
(* of everybody who has left that round, or will ever leave it, whichever  *)
(* quorum they left it with and whatever messages they never got.          *)
VotedIsShared == \A h \in Hashes : IsVotedFor(h) => IsShared(h)

(* And there is such a vertex in every round: once somebody has left round *)
(* r + 1, a vertex of round r is voted for, and the DAGs of all those who  *)
(* have left round r + 1 agree on it.  (For a crowd of 3f + 1.)            *)
CommonCore ==
  \A p \in Peers : \A r \in Rounds :
    round[p] > r + 1 =>
      \E h \in {r} \X Peers : IsVotedFor(h) /\ IsShared(h)

(* All that can still happen among the peers of R: a vertex one of them    *)
(* holds has not reached another one, or is admissible, or a round is over.*)
Quiet(R) ==
  \A p \in R :
    /\ ~ (StillProposing(p) /\ CanAdvance(p))
    /\ \A q \in R : \A v \in vertex_map[q] :
         HasMajority(v) => Knows(p, Hash(v))
    /\ \A v \in vertex_map[p] : ~ CanAdmit(p, v)

(* Then they are through with the last round.                              *)
QuietMeansDone(R) ==
  Quiet(R) => \A p \in R : round[p] = LastRound + 1

(* Nobody waits for ever on anybody: with a quorum R of the peers alive,   *)
(* once everything has been delivered and admitted no peer of R is left in *)
(* a round, waiting for vertices that nobody will create.                  *)
NobodyLeftWaiting ==
  \A R \in SUBSET Peers : Cardinality(R) >= RoundQuorum(Crowd) => QuietMeansDone(R)
=============================================================================
