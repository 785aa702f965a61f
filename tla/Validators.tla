----------------------------- MODULE Validators -----------------------------
(***************************************************************************)
(* The validators as they run: every peer is a process with a server       *)
(* thread (Server::start), a scan thread (Peer::buffer_scan_move_round)    *)
(* and the detached threads that look for missing vertices                 *)
(* (Peer::check_round), over a network that loses and reorders messages.   *)
(*                                                                         *)
(* A vertex travels vertex_msgs -> temp_list -> buffer -> dag_image.  The  *)
(* scan thread is at the top of its loop, waiting on the condition         *)
(* variable, in a pass over its buffer, or has left.  The lists are sets:  *)
(* a pass visits the buffer in any order, so in the order of the list.     *)
(* A task of the thread pool is on the wire as soon as it is enqueued; its *)
(* delay, the loss built into c_sendn and a queue that dies with the       *)
(* process are messages received late or never.  A message received twice  *)
(* has no effect the second time, so a vertex stays on the wire.           *)
(***************************************************************************)
EXTENDS DagProtocol, Waves, SequencesExt

CONSTANTS
  Wave,        \* WAVE
  PeerOrder,   \* the peers in the order of the network file, each once
  Failing,     \* the peers started with fail = true
  FailRound    \* the round in which those leave

ASSUME WaveAssumption == Wave \in Nat \ {0}
ASSUME PeerOrderAssumption ==
  PeerOrder \in Seq(Peers) /\ IsInjective(PeerOrder) /\ Range(PeerOrder) = Peers
ASSUME FailingAssumption == Failing \subseteq Peers /\ FailRound \in Nat

VARIABLES
  vertex_msgs,        \* vertex_msgs[p]: the vertices on the wire to p
  request_msgs,       \* request_msgs[p]: <<asking peer, hash>> on the wire
  temp_list,          \* vertices the server of p has not handed over
  temp_request_list,  \* <<asking peer, vertex>>, not handed over either
  buffer,             \* vertices handed over to the scan thread
  requests,           \* answers handed over to the scan thread
  pc,                 \* "top" | "wait" | "pass" | "left" | "crashed"
  unvisited,          \* the part of buffer the current pass has not seen
  missing,            \* the local variable set of the scan thread
  stop,               \* the round beyond which the scan thread leaves
  black_list,         \* peers p has given up on
  c_sockets,          \* the peers p broadcasts to, in this order
  checks              \* <<round, peer>>: iterations the check_round
                      \*   threads of p still have to run

wires == <<vertex_msgs, request_msgs>>
lists == <<temp_list, temp_request_list, buffer, requests>>
scan  == <<pc, unvisited, missing, stop>>
help  == <<black_list, c_sockets, checks>>
vvars == <<vars, wires, lists, scan, help>>

Answers == Peers \X Vertices

ValidatorsTypeOK ==
  /\ TypeOK
  /\ vertex_msgs \in [Peers -> SUBSET Vertices]
  /\ request_msgs \in [Peers -> SUBSET (Peers \X Hashes)]
  /\ temp_list \in [Peers -> SUBSET Vertices]
  /\ temp_request_list \in [Peers -> SUBSET Answers]
  /\ buffer \in [Peers -> SUBSET Vertices]
  /\ requests \in [Peers -> SUBSET Answers]
  /\ pc \in [Peers -> {"top", "wait", "pass", "left", "crashed"}]
  /\ unvisited \in [Peers -> SUBSET Vertices]
  /\ missing \in [Peers -> SUBSET Hashes]
  /\ stop \in [Peers -> {LastRound, LastRound - 1}]
  /\ black_list \in [Peers -> SUBSET Peers]
  /\ c_sockets \in [Peers -> Seq(Peers)]
  /\ checks \in [Peers -> SUBSET Hashes]

-----------------------------------------------------------------------------
Running(p) == pc[p] \notin {"left", "crashed"}

(* A vector of peers without some of them: the places that stay are        *)
(* numbered anew.  (By ranks and not by recursion, to be reasoned about.)  *)
Kept(s, dead) == {i \in DOMAIN s : s[i] \notin dead}

Rank(places, i) == Cardinality({j \in places : j <= i})

Without(s, dead) ==
  LET places == Kept(s, dead)
  IN  [k \in 1 .. Cardinality(places) |->
         s[CHOOSE i \in places : Rank(places, i) = k]]

VInit ==
  /\ Init
  /\ vertex_msgs = [p \in Peers |-> {}]
  /\ request_msgs = [p \in Peers |-> {}]
  /\ temp_list = [p \in Peers |-> {}]
  /\ temp_request_list = [p \in Peers |-> {}]
  /\ buffer = [p \in Peers |-> {}]
  /\ requests = [p \in Peers |-> {}]
  /\ pc = [p \in Peers |-> "top"]
  /\ unvisited = [p \in Peers |-> {}]
  /\ missing = [p \in Peers |-> {}]
  /\ stop = [p \in Peers |-> LastRound]
  /\ black_list = [p \in Peers |-> {}]
  /\ c_sockets = [p \in Peers |-> Without(PeerOrder, {p})]
  /\ checks = [p \in Peers |-> {}]

Send(vs, to) ==
  vertex_msgs' =
    [q \in Peers |-> IF q \in to THEN vertex_msgs[q] \cup vs ELSE vertex_msgs[q]]

-----------------------------------------------------------------------------
(* The rounds of a window in which p lacks a vertex.                       *)
Incomplete(p, window) == {r \in window : Cardinality(dag_image[p][r]) < Crowd}

(* dag_scan: a thread per incomplete round, an iteration per other peer.   *)
DagScan(p, window) ==
  checks' = [checks EXCEPT ![p] = @ \cup (Incomplete(p, window) \X (Peers \ {p}))]

(* The creators total_order finds missing. *)
Absent(p, window) ==
  {q \in Peers \ {p} :
     \E r \in Incomplete(p, window) : <<r, q>> \notin dag_image[p][r]}

(* Erasing the last socket moves the iterator past the end of the vector:  *)
(* the loop goes on through the heap until the process is killed.          *)
ErasesLastSocket(p, dead) == c_sockets[p] # <<>> /\ Last(c_sockets[p]) \in dead

TotalOrderKeepingSockets(p, window) ==    \* mutant: the sockets stay
  LET dead == Absent(p, window)
  IN  /\ ~ ErasesLastSocket(p, dead)
      /\ black_list' = [black_list EXCEPT ![p] = @ \cup dead]
      /\ UNCHANGED c_sockets

(* total_order: black-list the absent peers and drop their sockets. *)
TotalOrder(p, window) ==
  LET dead == Absent(p, window)
  IN  /\ ~ ErasesLastSocket(p, dead)
      /\ black_list' = [black_list EXCEPT ![p] = @ \cup dead]
      /\ c_sockets' = [c_sockets EXCEPT ![p] = Without(@, dead)]

(* The housekeeping of a peer that leaves its round. *)
Housekeeping(p) ==
  \/ /\ ScanDue(Wave, round[p])
     /\ DagScan(p, ScanWindow(Wave, round[p]))
     /\ UNCHANGED <<black_list, c_sockets>>
  \/ /\ OrderDue(Wave, round[p])
     /\ TotalOrder(p, OrderWindow(Wave, round[p]))
     /\ UNCHANGED checks
  \/ /\ ~ ScanDue(Wave, round[p]) /\ ~ OrderDue(Wave, round[p])
     /\ UNCHANGED help

(* A peer with a quorum in its round enters the next one and broadcasts    *)
(* its new vertex to the sockets it has left.                              *)
Advance(p) ==
  /\ pc[p] = "top"
  /\ Propose(p)
  /\ Housekeeping(p)
  /\ Send(vertex_map'[p] \ vertex_map[p], Range(c_sockets'[p]))
  /\ pc' = [pc EXCEPT ![p] = "wait"]
  /\ UNCHANGED <<request_msgs, lists, unvisited, missing, stop>>

(* It crashes on the way if the last socket is one of those to go. *)
Crash(p) ==
  /\ pc[p] = "top"
  /\ StillProposing(p) /\ CanAdvance(p)
  /\ OrderDue(Wave, round[p])
  /\ ErasesLastSocket(p, Absent(p, OrderWindow(Wave, round[p])))
  /\ pc' = [pc EXCEPT ![p] = "crashed"]
  /\ UNCHANGED <<vars, wires, lists, unvisited, missing, stop, help>>

(* Without a quorum, once the time of the round is over: look for what is  *)
(* missing,                                                                *)
AskForHelp(p) ==
  /\ pc[p] = "top"
  /\ round[p] < LastRound /\ ~ CanAdvance(p)
  /\ DagScan(p, HelpWindow(Wave, round[p]))
  /\ pc' = [pc EXCEPT ![p] = "wait"]
  /\ UNCHANGED <<vars, wires, lists, unvisited, missing, stop, black_list, c_sockets>>

GiveUpInVain(p) ==                  \* mutant: without last_round--
  /\ pc[p] = "top"
  /\ round[p] = LastRound /\ ~ CanAdvance(p)
  /\ pc' = [pc EXCEPT ![p] = "wait"]
  /\ UNCHANGED <<vars, wires, lists, unvisited, missing, stop, help>>

(* or, in the last round, give up. *)
GiveUp(p) ==
  /\ pc[p] = "top"
  /\ round[p] = LastRound /\ ~ CanAdvance(p)
  /\ stop' = [stop EXCEPT ![p] = @ - 1]
  /\ pc' = [pc EXCEPT ![p] = "wait"]
  /\ UNCHANGED <<vars, wires, lists, unvisited, missing, help>>

(* The time is not over yet, or there is no round left to leave. *)
Idle(p) ==
  /\ pc[p] = "top"
  /\ ~ (StillProposing(p) /\ CanAdvance(p))
  /\ pc' = [pc EXCEPT ![p] = "wait"]
  /\ UNCHANGED <<vars, wires, lists, unvisited, missing, stop, help>>

(* What deliver_request sends to peer q. *)
Answered(p, q) == {a[2] : a \in {b \in requests[p] : b[1] = q}}

(* The condition variable wakes the scan thread, for a reason or not; it   *)
(* sends the answers it was handed and turns to its buffer.                *)
Wake(p) ==
  /\ pc[p] = "wait"
  /\ vertex_msgs' = [q \in Peers |-> vertex_msgs[q] \cup Answered(p, q)]
  /\ requests' = [requests EXCEPT ![p] = {}]
  /\ unvisited' = [unvisited EXCEPT ![p] = buffer[p]]
  /\ pc' = [pc EXCEPT ![p] = "pass"]
  /\ UNCHANGED <<vars, request_msgs, temp_list, temp_request_list, buffer,
                 missing, stop, help>>

(* A vertex of the buffer that has to wait; a look at its references       *)
(* leaves the set of missing vertices empty.                               *)
Postpone(p, v) ==
  /\ ~ RoundReached(p, v) \/ (v.round > 1 /\ ~ MutualHistory(p, v))
  /\ missing' = [missing EXCEPT ![p] = IF RoundReached(p, v) THEN {} ELSE @]
  /\ UNCHANGED <<vars, vertex_msgs, buffer>>

(* What mutual_history leaves in set: the vertices of the previous round   *)
(* the creator of v did not have.  A first-round vertex does not go        *)
(* through mutual_history, and set is what it was.                         *)
MissingAt(p, v) ==
  IF v.round = 1 THEN missing[p]
  ELSE dag_image[p][v.round - 1] \ v.references

(* send_missing_vertices: what the map has under the hashes of the set. *)
SendMissing(p, set, to) ==
  Send({u \in vertex_map[p] : Hash(u) \in set}, {to})

TakeUnchecked(p, v) ==           \* mutant: without the test of the history
  /\ RoundReached(p, v)
  /\ dag_image' = [dag_image EXCEPT ![p][v.round] = @ \cup {Hash(v)}]
  /\ buffer' = [buffer EXCEPT ![p] = @ \ {v}]
  /\ UNCHANGED <<round, vertex_map, missing, vertex_msgs>>

(* A vertex of the buffer enters the DAG; its creator may be sent what it  *)
(* seems to lack.                                                          *)
Take(p, v) ==
  /\ RoundReached(p, v)
  /\ v.round > 1 => MutualHistory(p, v)
  /\ dag_image' = [dag_image EXCEPT ![p][v.round] = @ \cup {Hash(v)}]
  /\ buffer' = [buffer EXCEPT ![p] = @ \ {v}]
  /\ \/ /\ missing' = [missing EXCEPT ![p] = MissingAt(p, v)]
        /\ UNCHANGED vertex_msgs
     \/ /\ MissingAt(p, v) # {}
        /\ missing' = [missing EXCEPT ![p] = {}]
        /\ SendMissing(p, MissingAt(p, v), v.peer_id)
  /\ UNCHANGED <<round, vertex_map>>

Visit(p, v) ==
  /\ pc[p] = "pass"
  /\ v \in unvisited[p]
  /\ unvisited' = [unvisited EXCEPT ![p] = @ \ {v}]
  /\ Take(p, v) \/ Postpone(p, v)
  /\ UNCHANGED <<request_msgs, temp_list, temp_request_list, requests, pc,
                 stop, help>>

(* The reasons for the scan thread to leave. *)
Leaves(p) == round[p] > stop[p] \/ (p \in Failing /\ round[p] = FailRound)

EndPassClosingEarly(p) ==        \* mutant: the sockets go a round too early
  /\ pc[p] = "pass"
  /\ unvisited[p] = {}
  /\ pc' = [pc EXCEPT ![p] = IF Leaves(p) THEN "left" ELSE "top"]
  /\ c_sockets' = [c_sockets EXCEPT ![p] = IF round[p] >= stop[p] THEN <<>> ELSE @]
  /\ UNCHANGED <<vars, wires, lists, unvisited, missing, stop, black_list, checks>>

EndPass(p) ==
  /\ pc[p] = "pass"
  /\ unvisited[p] = {}
  /\ pc' = [pc EXCEPT ![p] = IF Leaves(p) THEN "left" ELSE "top"]
  /\ c_sockets' = [c_sockets EXCEPT ![p] = IF Leaves(p) THEN <<>> ELSE @]
  /\ UNCHANGED <<vars, wires, lists, unvisited, missing, stop, black_list, checks>>

-----------------------------------------------------------------------------
(* The server outlives the scan thread: it goes through the events it has, *)
(* and may hand over once more, before it looks at is_up.                  *)
ServerUp(p) == pc[p] # "crashed"

ReceiveVertexUnmapped(p, v) ==   \* mutant: without vertex_map.insert
  /\ ServerUp(p)
  /\ HasMajority(v)
  /\ ~ Knows(p, Hash(v))
  /\ temp_list' = [temp_list EXCEPT ![p] = @ \cup {v}]
  /\ UNCHANGED <<vars, wires, temp_request_list, buffer, requests, scan, help>>

(* The server receives a vertex, which it keeps the first time,            *)
ReceiveVertex(p, v) ==
  /\ ServerUp(p)
  /\ HasMajority(v)
  /\ ~ Knows(p, Hash(v))
  /\ vertex_map' = [vertex_map EXCEPT ![p] = @ \cup {v}]
  /\ temp_list' = [temp_list EXCEPT ![p] = @ \cup {v}]
  /\ UNCHANGED <<round, dag_image, wires, temp_request_list, buffer, requests,
                 scan, help>>

(* or a request, which it answers if it knows the vertex.                  *)
ReceiveRequest(p, m) ==
  /\ ServerUp(p)
  /\ request_msgs' = [request_msgs EXCEPT ![p] = @ \ {m}]
  /\ temp_request_list' =
       [temp_request_list EXCEPT ![p] =
          @ \cup {<<m[1], v>> : v \in {u \in vertex_map[p] : Hash(u) = m[2]}}]
  /\ UNCHANGED <<vars, vertex_msgs, temp_list, buffer, requests, scan, help>>

HandoffUncleared(p) ==           \* mutant: without temp_list.clear
  /\ pc[p] \in {"top", "wait", "left"}
  /\ temp_list[p] # {} \/ temp_request_list[p] # {}
  /\ buffer' = [buffer EXCEPT ![p] = @ \cup temp_list[p]]
  /\ requests' = [requests EXCEPT ![p] = @ \cup temp_request_list[p]]
  /\ temp_request_list' = [temp_request_list EXCEPT ![p] = {}]
  /\ UNCHANGED <<vars, wires, temp_list, scan, help>>

(* The server hands over what it has; the lock keeps it out of a pass.     *)
Handoff(p) ==
  /\ pc[p] \in {"top", "wait", "left"}
  /\ temp_list[p] # {} \/ temp_request_list[p] # {}
  /\ buffer' = [buffer EXCEPT ![p] = @ \cup temp_list[p]]
  /\ requests' = [requests EXCEPT ![p] = @ \cup temp_request_list[p]]
  /\ temp_list' = [temp_list EXCEPT ![p] = {}]
  /\ temp_request_list' = [temp_request_list EXCEPT ![p] = {}]
  /\ UNCHANGED <<vars, wires, scan, help>>

-----------------------------------------------------------------------------
(* The recipients of a request for a vertex of owner: f + 1 of the sockets *)
(* left, at random, and the owner.  (With fewer than f + 1 of them, but    *)
(* some, make_request reads descriptors behind the end of its vector; what *)
(* it sends there reaches no server.)                                      *)
Recipients(p, owner) ==
  LET sockets == Range(c_sockets[p])
      size == IF Cardinality(sockets) <= Byzantines(Crowd)
              THEN Cardinality(sockets) ELSE Byzantines(Crowd) + 1
  IN  {S \cup {owner} : S \in kSubset(size, sockets)}

(* What a check_round thread asks for: h = <<round, creator>>.             *)
IsAskedFor(p, h) == h[2] \notin black_list[p] /\ ~ Knows(p, h)

(* One iteration of a check_round thread, which may outlive the scan       *)
(* thread too.                                                             *)
Check(p, h) ==
  /\ pc[p] # "crashed"
  /\ checks' = [checks EXCEPT ![p] = @ \ {h}]
  /\ IF ~ IsAskedFor(p, h)
       THEN UNCHANGED request_msgs
       ELSE \E to \in Recipients(p, h[2]) :
              request_msgs' =
                [q \in Peers |-> IF q \in to THEN request_msgs[q] \cup {<<p, h>>}
                                             ELSE request_msgs[q]]
  /\ IsAskedFor(p, h) => c_sockets[p] # <<>>
  /\ UNCHANGED <<vars, vertex_msgs, lists, scan, black_list, c_sockets>>

(* With no socket left the copy of c_sockets has no storage at all, and    *)
(* reading its first element kills the process.                            *)
CheckCrash(p, h) ==
  /\ pc[p] # "crashed"
  /\ IsAskedFor(p, h) /\ c_sockets[p] = <<>>
  /\ pc' = [pc EXCEPT ![p] = "crashed"]
  /\ UNCHANGED <<vars, wires, lists, unvisited, missing, stop, help>>

-----------------------------------------------------------------------------
ScanThread(p) ==
  \/ Advance(p)
  \/ Crash(p)
  \/ AskForHelp(p)
  \/ GiveUp(p)
  \/ Idle(p)
  \/ Wake(p)
  \/ \E v \in unvisited[p] : Visit(p, v)
  \/ EndPass(p)

ServerThread(p) ==
  \/ \E v \in vertex_msgs[p] : ReceiveVertex(p, v)
  \/ \E m \in request_msgs[p] : ReceiveRequest(p, m)
  \/ Handoff(p)

CheckThreads(p) == \E h \in checks[p] : Check(p, h) \/ CheckCrash(p, h)

VNext == \E p \in Peers : ScanThread(p) \/ ServerThread(p) \/ CheckThreads(p)

VSpec == VInit /\ [][VNext]_vvars

-----------------------------------------------------------------------------
(* Nothing is lost on the way: the server takes a vertex once and drops    *)
(* every later copy, so a vertex of the map that is neither with the       *)
(* server, nor in the buffer, nor in the DAG could never get into the DAG. *)
(* It is never in two of these places either.                              *)
HeldOnce ==
  \A p \in Peers :
    /\ \A v \in vertex_map[p] :
         \/ v \in temp_list[p] /\ v \notin buffer[p] /\ Waiting(p, v)
         \/ v \in buffer[p] /\ v \notin temp_list[p] /\ Waiting(p, v)
         \/ v \notin temp_list[p] \cup buffer[p] /\ ~ Waiting(p, v)
    /\ temp_list[p] \cup buffer[p] \subseteq vertex_map[p]
    /\ unvisited[p] \subseteq buffer[p]

(* send_missing_vertices does not look whether find_in_map found anything: *)
(* however old the set is when it is sent, the map has all of it.          *)
MissingAreKnown ==
  \A p \in Peers : \A h \in missing[p] : Knows(p, h)

(* The sockets and the black list, kept in two containers and changed in   *)
(* two loops, stay two halves of one thing: a running peer broadcasts once *)
(* to every peer it has not given up on.                                   *)
SocketsAndBlackList ==
  \A p \in Peers :
    Running(p) =>
      /\ Range(c_sockets[p]) = Peers \ (black_list[p] \cup {p})
      /\ IsInjective(c_sockets[p])

(* make_request takes f + 1 sockets without counting them, in a thread     *)
(* that may outlive the scan thread, which closes them.  There are fewer   *)
(* for two reasons only: the peer is one that leaves, or it has given up on*)
(* more peers than the protocol tolerates (or it is alone).                *)
SocketsSuffice ==
  \A p \in Peers :
    Len(c_sockets[p]) <= Byzantines(Crowd) =>
      Leaves(p) \/ Cardinality(black_list[p]) > Byzantines(Crowd)

(* Nobody leaves below the last round, unless it is one that is to fail.   *)
LeavesInTime(p) ==
  pc[p] = "left" =>
    round[p] >= LastRound \/ (p \in Failing /\ round[p] = FailRound)

(* Help is at hand among the peers of R: when p lacks the vertex some peer *)
(* q of R has made of the round p is in, then                              *)
(*   - what p asks for when it calls for help includes that vertex, and as *)
(*     long as p runs it has enough sockets left to ask on;                *)
(*   - q, which is always asked, knows the vertex and has not left, unless *)
(*     it is in the last round or one that is to fail.                     *)
(* So q can answer while it runs.  Where it does not run any more, having  *)
(* died or given up in the last round, nobody else need know the vertex.   *)
HelpIsAtHand(R) ==
  \A p, q \in R :
    LET r == round[p]
        h == <<r, q>>
    IN  r \in 1 .. LastRound - 1 /\ r <= round[q] /\ ~ Knows(p, h) =>
          /\ r \in Incomplete(p, HelpWindow(Wave, r))
          /\ IsAskedFor(p, h)
          /\ Running(p) => Len(c_sockets[p]) > Byzantines(Crowd)
          /\ Knows(q, h)
          /\ LeavesInTime(p) /\ LeavesInTime(q)

(* Whenever those that have not even started leave just a quorum or less,  *)
(* help is at hand among the rest, however many messages were lost before. *)
HelpForTheQuorum ==
  \A R \in SUBSET Peers :
    /\ Cardinality(R) <= RoundQuorum(Crowd)
    /\ \A p \in Peers \ R : round[p] = 0
    => HelpIsAtHand(R)

(* And nothing else is missing: whatever any of them holds of the rounds p *)
(* has reached is admissible at p as soon as it arrives.  No vertex waits  *)
(* for an ancestor p does not have, which the call for help, looking back  *)
(* a wave from the round of p, might not ask for.                          *)
HelpIsEnough ==
  \A R \in SUBSET Peers :
    /\ Cardinality(R) <= RoundQuorum(Crowd)
    /\ \A p \in Peers \ R : round[p] = 0
    => \A p, q \in R : \A v \in vertex_map[q] :
         RoundReached(p, v) /\ v.round > 1 => MutualHistory(p, v)

(* Whoever is on a black list has failed: the comment in total_order and   *)
(* the column KNOWN FAILED VALIDATORS of the records take it so.           *)
BlackListedHaveFailed ==
  \A p \in Peers : \A q \in black_list[p] : ~ Running(q)
=============================================================================
