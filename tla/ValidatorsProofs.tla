-------------------------- MODULE ValidatorsProofs --------------------------
(***************************************************************************)
(* The validators, with their threads, lists and lossy network, implement  *)
(* the DAG protocol: for every crowd, termination round, length of a wave, *)
(* order of the network file and choice of failing peers.                  *)
(***************************************************************************)
EXTENDS Validators, DagProtocolProofs

(* The parts of the state a vertex travels through. *)
flow == <<vars, vertex_msgs, lists, unvisited>>

FlowTypes ==
  /\ TypeOK
  /\ vertex_msgs \in [Peers -> SUBSET Vertices]
  /\ DOMAIN request_msgs = Peers
  /\ temp_list \in [Peers -> SUBSET Vertices]
  /\ temp_request_list \in [Peers -> SUBSET Answers]
  /\ buffer \in [Peers -> SUBSET Vertices]
  /\ requests \in [Peers -> SUBSET Answers]
  /\ unvisited \in [Peers -> SUBSET Vertices]

(* Nothing comes from nowhere: what is on the wire is in the map of some   *)
(* process, what is in a list of a process is in its own map, and requests *)
(* come from peers.                                                        *)
Sourced ==
  /\ \A p \in Peers : \A m \in request_msgs[p] : m[1] \in Peers
  /\ \A p \in Peers : \A v \in vertex_msgs[p] : \E q \in Peers : v \in vertex_map[q]
  /\ \A p \in Peers : temp_list[p] \subseteq vertex_map[p]
  /\ \A p \in Peers : buffer[p] \subseteq vertex_map[p]
  /\ \A p \in Peers : unvisited[p] \subseteq vertex_map[p]
  /\ \A p \in Peers : \A a \in temp_request_list[p] : a[2] \in vertex_map[p]
  /\ \A p \in Peers : \A a \in requests[p] : a[2] \in vertex_map[p]

FlowInv == FlowTypes /\ Sourced

-----------------------------------------------------------------------------
(* Before the first proposal there is nothing in flow. *)
LEMMA FlowInit == VInit => FlowInv
<1> SUFFICES ASSUME VInit
             PROVE  FlowInv
  OBVIOUS
<1>1. TypeOK
  BY TypeInit DEF VInit
<1>2. QED
  BY <1>1 DEF VInit, FlowInv, FlowTypes, Sourced

(* The steps that move no vertex. *)
LEMMA IdleSteps ==
  ASSUME NEW p \in Peers,
         \/ Crash(p) \/ AskForHelp(p) \/ GiveUp(p) \/ Idle(p) \/ EndPass(p)
         \/ CheckThreads(p)
         \/ UNCHANGED vvars
  PROVE  UNCHANGED flow
<1> USE DEF flow, vars, wires, lists, scan, help
<1>1. CASE Crash(p)
  BY <1>1 DEF Crash
<1>2. CASE AskForHelp(p)
  BY <1>2 DEF AskForHelp
<1>3. CASE GiveUp(p)
  BY <1>3 DEF GiveUp
<1>4. CASE Idle(p)
  BY <1>4 DEF Idle
<1>5. CASE EndPass(p)
  BY <1>5 DEF EndPass
<1>6. CASE CheckThreads(p)
  BY <1>6 DEF CheckThreads, Check, CheckCrash
<1>7. CASE UNCHANGED vvars
  BY <1>7 DEF vvars
<1>8. QED
  BY <1>1, <1>2, <1>3, <1>4, <1>5, <1>6, <1>7

-----------------------------------------------------------------------------
(* Taking a vertex of the buffer is admitting it, or nothing when its hash *)
(* is in the DAG already.                                                  *)
LEMMA TakeMaps ==
  ASSUME FlowInv, NEW p \in Peers, NEW v \in unvisited[p], Take(p, v)
  PROVE  [Next]_vars
<1>1. v \in vertex_map[p] /\ v \in Vertices
  BY DEF FlowInv, FlowTypes, TypeOK, Sourced
<1>2. CASE Waiting(p, v)
  <2>1. Admit(p, v)
    BY <1>2 DEF Take, Admit, CanAdmit
  <2>2. QED
    BY <1>1, <2>1 DEF Next, Step
<1>3. CASE ~ Waiting(p, v)
  <2>1. Hash(v) \in dag_image[p][v.round]
    BY <1>3 DEF Waiting
  <2>2. dag_image' = dag_image
    <3>1. v.round \in Rounds
      BY <1>1 DEF Vertices
    <3>2. dag_image \in [Peers -> [Rounds -> SUBSET Hashes]]
      BY DEF FlowInv, FlowTypes, TypeOK
    <3>3. QED
      BY <2>1, <3>1, <3>2 DEF Take
  <2>3. QED
    BY <2>2 DEF Take, vars
<1>4. QED
  BY <1>2, <1>3

(* What the server keeps has been made by another peer. *)
LEMMA ReceiveMaps ==
  ASSUME FlowInv, NEW p \in Peers, NEW v \in vertex_msgs[p], ReceiveVertex(p, v)
  PROVE  Next
<1>1. PICK q \in Peers : v \in vertex_map[q]
  BY DEF FlowInv, Sourced
<1>2. q # p
  BY <1>1 DEF ReceiveVertex, Knows
<1>3. Learn(p, v)
  BY DEF ReceiveVertex, Learn
<1>4. QED
  BY <1>1, <1>2, <1>3 DEF Next, Step

(* Every step of a validator is a step of the protocol or leaves its       *)
(* state alone.                                                            *)
LEMMA StepMaps == FlowInv /\ [VNext]_vvars => [Next]_vars
<1> SUFFICES ASSUME FlowInv, [VNext]_vvars
             PROVE  [Next]_vars
  OBVIOUS
<1>1. CASE UNCHANGED vvars
  BY <1>1 DEF vvars
<1>2. ASSUME NEW p \in Peers, ScanThread(p)
      PROVE  [Next]_vars
  <2>1. CASE Advance(p)
    BY <2>1 DEF Advance, Next, Step
  <2>2. CASE Crash(p) \/ AskForHelp(p) \/ GiveUp(p) \/ Idle(p) \/ EndPass(p)
    BY <2>2, IdleSteps DEF flow
  <2>3. CASE Wake(p)
    BY <2>3 DEF Wake
  <2>4. ASSUME NEW v \in unvisited[p], Visit(p, v)
        PROVE  [Next]_vars
    <3>1. CASE Take(p, v)
      BY <3>1, TakeMaps
    <3>2. CASE Postpone(p, v)
      BY <3>2 DEF Postpone
    <3>3. QED
      BY <2>4, <3>1, <3>2 DEF Visit
  <2>5. QED
    BY <1>2, <2>1, <2>2, <2>3, <2>4 DEF ScanThread
<1>3. ASSUME NEW p \in Peers, ServerThread(p)
      PROVE  [Next]_vars
  <2>1. CASE Handoff(p) \/ \E m \in request_msgs[p] : ReceiveRequest(p, m)
    BY <2>1 DEF Handoff, ReceiveRequest
  <2>2. QED
    BY <1>3, <2>1, ReceiveMaps DEF ServerThread
<1>4. ASSUME NEW p \in Peers, CheckThreads(p)
      PROVE  [Next]_vars
  BY <1>4, IdleSteps DEF flow
<1>5. QED
  BY <1>1, <1>2, <1>3, <1>4 DEF VNext

-----------------------------------------------------------------------------
(* A process forgets no vertex. *)
LEMMA MapGrows ==
  ASSUME TypeOK, [Next]_vars, NEW p \in Peers
  PROVE  vertex_map[p] \subseteq vertex_map'[p]
<1>1. ASSUME NEW q \in Peers, Propose(q)
      PROVE  vertex_map[p] \subseteq vertex_map'[p]
  BY <1>1 DEF Propose, TypeOK
<1>2. ASSUME NEW q \in Peers, NEW v, Learn(q, v)
      PROVE  vertex_map[p] \subseteq vertex_map'[p]
  BY <1>2 DEF Learn, TypeOK
<1>3. ASSUME NEW q \in Peers, NEW v, Admit(q, v)
      PROVE  vertex_map[p] \subseteq vertex_map'[p]
  BY <1>3 DEF Admit
<1>4. CASE UNCHANGED vars
  BY <1>4 DEF vars
<1>5. QED
  BY <1>1, <1>2, <1>3, <1>4 DEF Next, Step

(* What a process sends out of its map keeps the wires sourced. *)
LEMMA SendSourced ==
  ASSUME FlowInv, TypeOK', NEW p \in Peers, NEW vs, NEW to,
         \A q \in Peers : vertex_map[q] \subseteq vertex_map'[q],
         vs \subseteq vertex_map'[p],
         Send(vs, to)
  PROVE  /\ vertex_msgs' \in [Peers -> SUBSET Vertices]
         /\ \A q \in Peers : \A v \in vertex_msgs'[q] :
              \E r \in Peers : v \in vertex_map'[r]
<1>1. vs \subseteq Vertices
  BY DEF TypeOK
<1>2. vertex_msgs \in [Peers -> SUBSET Vertices]
  BY DEF FlowInv, FlowTypes
<1>3. \A q \in Peers : vertex_msgs'[q] \subseteq vertex_msgs[q] \cup vs
  BY DEF Send
<1>4. vertex_msgs' \in [Peers -> SUBSET Vertices]
  BY <1>1, <1>2 DEF Send
<1>5. ASSUME NEW q \in Peers, NEW v \in vertex_msgs'[q]
      PROVE  \E r \in Peers : v \in vertex_map'[r]
  BY <1>3, <1>5 DEF FlowInv, Sourced
<1>6. QED
  BY <1>4, <1>5
(* Entering a round sends the new vertex of the peer. *)
LEMMA AdvanceFlows ==
  ASSUME FlowInv, TypeOK', NEW p \in Peers, Advance(p),
         \A q \in Peers : vertex_map[q] \subseteq vertex_map'[q]
  PROVE  FlowInv'
<1>1. Send(vertex_map'[p] \ vertex_map[p], Range(c_sockets'[p]))
  BY DEF Advance
<1>2. UNCHANGED <<request_msgs, lists, unvisited>>
  BY DEF Advance
<1>3. vertex_map'[p] \ vertex_map[p] \subseteq vertex_map'[p]
  OBVIOUS
<1>4. /\ vertex_msgs' \in [Peers -> SUBSET Vertices]
      /\ \A q \in Peers : \A v \in vertex_msgs'[q] :
           \E r \in Peers : v \in vertex_map'[r]
  BY <1>1, <1>3, SendSourced
<1>5. QED
  BY <1>2, <1>4 DEF FlowInv, FlowTypes, Sourced, lists

(* A wake-up sends the answers, and starts a pass over the buffer. *)
LEMMA WakeFlows ==
  ASSUME FlowInv, NEW p \in Peers, Wake(p)
  PROVE  FlowInv'
<1> USE DEF FlowInv, FlowTypes, Sourced
<1>1. /\ UNCHANGED vars
      /\ UNCHANGED <<request_msgs, temp_list, temp_request_list, buffer>>
  BY DEF Wake
<1>2. ASSUME NEW q \in Peers
      PROVE  Answered(p, q) \subseteq vertex_map[p] /\ Answered(p, q) \subseteq Vertices
  BY DEF Answered, Answers
<1>3. vertex_msgs' = [q \in Peers |-> vertex_msgs[q] \cup Answered(p, q)]
  BY DEF Wake
<1>4. vertex_msgs' \in [Peers -> SUBSET Vertices]
  BY <1>2, <1>3
<1>5. ASSUME NEW q \in Peers, NEW v \in vertex_msgs'[q]
      PROVE  \E r \in Peers : v \in vertex_map[r]
  BY <1>2, <1>3, <1>5
<1>6. /\ requests' \in [Peers -> SUBSET Answers]
      /\ \A q \in Peers : requests'[q] \subseteq requests[q]
  BY DEF Wake
<1>7. /\ unvisited' \in [Peers -> SUBSET Vertices]
      /\ \A q \in Peers : unvisited'[q] \subseteq vertex_map[q]
  BY DEF Wake
<1>8. TypeOK'
  BY <1>1 DEF TypeOK, vars
<1>9. QED
  BY <1>1, <1>4, <1>5, <1>6, <1>7, <1>8 DEF vars

(* A visit takes the vertex out of the buffer or leaves it there, and may  *)
(* send what the map has.                                                  *)
LEMMA VisitFlows ==
  ASSUME FlowInv, TypeOK', NEW p \in Peers, NEW v \in unvisited[p], Visit(p, v)
  PROVE  FlowInv'
<1> USE DEF FlowInv, FlowTypes, Sourced
<1>1. UNCHANGED <<request_msgs, vertex_map, temp_list, temp_request_list, requests>>
  BY DEF Visit, Take, Postpone, vars
<1>2. /\ unvisited' \in [Peers -> SUBSET Vertices]
      /\ \A q \in Peers : unvisited'[q] \subseteq unvisited[q]
  BY DEF Visit
<1>3. /\ buffer' \in [Peers -> SUBSET Vertices]
      /\ \A q \in Peers : buffer'[q] \subseteq buffer[q]
  BY DEF Visit, Take, Postpone
<1>4. /\ vertex_msgs' \in [Peers -> SUBSET Vertices]
      /\ \A q \in Peers : \A u \in vertex_msgs'[q] :
           \E r \in Peers : u \in vertex_map'[r]
  <2>1. CASE UNCHANGED vertex_msgs
    BY <1>1, <2>1
  <2>2. CASE SendMissing(p, MissingAt(p, v), v.peer_id)
    BY <1>1, <2>2, SendSourced DEF SendMissing
  <2>3. QED
    BY <2>1, <2>2 DEF Visit, Take, Postpone
<1>5. QED
  BY <1>1, <1>2, <1>3, <1>4

(* What the server does with a message, and the handoff. *)
LEMMA ServerFlows ==
  ASSUME FlowInv, TypeOK', NEW p \in Peers, ServerThread(p)
  PROVE  FlowInv'
<1> USE DEF FlowInv, FlowTypes, Sourced
<1>1. ASSUME NEW v \in vertex_msgs[p], ReceiveVertex(p, v)
      PROVE  FlowInv'
  <2>1. UNCHANGED <<wires, temp_request_list, buffer, requests, unvisited>>
    BY <1>1 DEF ReceiveVertex, scan
  <2>2. vertex_map' = [vertex_map EXCEPT ![p] = @ \cup {v}]
    BY <1>1 DEF ReceiveVertex
  <2>3. temp_list' = [temp_list EXCEPT ![p] = @ \cup {v}]
    BY <1>1 DEF ReceiveVertex
  <2>4. \A q \in Peers : vertex_map[q] \subseteq vertex_map'[q]
    BY <2>2 DEF TypeOK
  <2>5. v \in vertex_map'[p]
    BY <2>2 DEF TypeOK
  <2>6. QED
    BY <2>1, <2>3, <2>4, <2>5 DEF wires
<1>2. ASSUME NEW m \in request_msgs[p], ReceiveRequest(p, m)
      PROVE  FlowInv'
  <2>1. UNCHANGED <<vars, vertex_msgs, temp_list, buffer, requests, unvisited>>
    BY <1>2 DEF ReceiveRequest, scan
  <2>2. request_msgs' = [request_msgs EXCEPT ![p] = @ \ {m}]
    BY <1>2 DEF ReceiveRequest
  <2>3. DEFINE answers == {<<m[1], v>> : v \in {u \in vertex_map[p] : Hash(u) = m[2]}}
  <2>4. /\ answers \subseteq Answers
        /\ \A a \in answers : a[2] \in vertex_map[p]
    <3>1. m[1] \in Peers /\ vertex_map[p] \subseteq Vertices
      BY DEF TypeOK
    <3>2. QED
      BY <3>1 DEF Answers
  <2>5. temp_request_list' = [temp_request_list EXCEPT ![p] = @ \cup answers]
    BY <1>2 DEF ReceiveRequest
  <2>6. QED
    <3> HIDE DEF answers
    <3> QED
      BY <2>1, <2>2, <2>4, <2>5 DEF vars
<1>3. CASE Handoff(p)
  <2>1. UNCHANGED <<vars, vertex_msgs, request_msgs, unvisited>>
    BY <1>3 DEF Handoff, wires, scan
  <2>2. /\ buffer' = [buffer EXCEPT ![p] = @ \cup temp_list[p]]
        /\ requests' = [requests EXCEPT ![p] = @ \cup temp_request_list[p]]
        /\ temp_list' = [temp_list EXCEPT ![p] = {}]
        /\ temp_request_list' = [temp_request_list EXCEPT ![p] = {}]
    BY <1>3 DEF Handoff
  <2>3. QED
    BY <2>1, <2>2 DEF vars
<1>4. QED
  BY <1>1, <1>2, <1>3 DEF ServerThread

(* The steps that move no vertex preserve the invariant; a thread that     *)
(* looks for missing vertices signs its requests.                          *)
LEMMA IdleFlows ==
  ASSUME FlowInv, NEW p \in Peers,
         \/ Crash(p) \/ AskForHelp(p) \/ GiveUp(p) \/ Idle(p) \/ EndPass(p)
         \/ CheckThreads(p)
         \/ UNCHANGED vvars
  PROVE  FlowInv'
<1>1. UNCHANGED flow
  BY IdleSteps
<1>2. /\ DOMAIN request_msgs' = Peers
      /\ \A q \in Peers : \A m \in request_msgs'[q] : m[1] \in Peers
  <2> USE DEF FlowInv, FlowTypes, Sourced
  <2>1. CASE UNCHANGED request_msgs
    BY <2>1
  <2>2. ASSUME NEW h, Check(p, h)
        PROVE  <1>2
    <3>1. CASE IsAskedFor(p, h)
      <4>1. PICK to : request_msgs' =
                [q \in Peers |-> IF q \in to THEN request_msgs[q] \cup {<<p, h>>}
                                             ELSE request_msgs[q]]
        BY <2>2, <3>1 DEF Check
      <4>2. QED
        BY <4>1
    <3>2. CASE ~ IsAskedFor(p, h)
      BY <2>1, <2>2, <3>2 DEF Check
    <3>3. QED
      BY <3>1, <3>2
  <2>3. ASSUME NEW h, CheckCrash(p, h)
        PROVE  UNCHANGED request_msgs
    BY <2>3 DEF CheckCrash, wires
  <2>4. QED
    BY <2>1, <2>2, <2>3 DEF Crash, AskForHelp, GiveUp, Idle, EndPass, CheckThreads,
                            vvars, wires
<1>3. QED
  BY <1>1, <1>2 DEF flow, vars, lists, FlowInv, FlowTypes, Sourced, TypeOK

(* The invariant is inductive. *)
LEMMA FlowStep == FlowInv /\ [VNext]_vvars => FlowInv'
<1> SUFFICES ASSUME FlowInv, [VNext]_vvars
             PROVE  FlowInv'
  OBVIOUS
<1>1. TypeOK /\ [Next]_vars
  BY StepMaps DEF FlowInv, FlowTypes
<1>2. TypeOK'
  BY <1>1, TypeStep
<1>3. \A q \in Peers : vertex_map[q] \subseteq vertex_map'[q]
  BY <1>1, MapGrows
<1>4. CASE UNCHANGED vvars
  <2>1. PICK p \in Peers : TRUE
    BY PeersAssumption
  <2>2. QED
    BY <1>4, <2>1, IdleFlows
<1>5. ASSUME NEW p \in Peers, ScanThread(p)
      PROVE  FlowInv'
  BY <1>2, <1>3, <1>5, AdvanceFlows, WakeFlows, VisitFlows, IdleFlows DEF ScanThread
<1>6. ASSUME NEW p \in Peers, ServerThread(p)
      PROVE  FlowInv'
  BY <1>2, <1>6, ServerFlows
<1>7. ASSUME NEW p \in Peers, CheckThreads(p)
      PROVE  FlowInv'
  BY <1>7, IdleFlows
<1>8. QED
  BY <1>4, <1>5, <1>6, <1>7 DEF VNext

(* Every list and every wire holds vertices only, and none that its        *)
(* process, or the process that sent it, does not know.                    *)
THEOREM FlowSafe == VSpec => []FlowInv
  BY FlowInit, FlowStep, PTL DEF VSpec

(* The validators implement the DAG protocol: whatever the threads, the    *)
(* lists, the retransmissions and the network do, each of their steps is a *)
(* step of one peer of the protocol, or none.                              *)
THEOREM ValidatorsImplementDag == VSpec => Spec
<1>1. VInit => Init
  BY DEF VInit
<1>2. QED
  BY <1>1, StepMaps, FlowSafe, PTL DEF VSpec, Spec

(* So the validators inherit what holds of the protocol.                   *)
THEOREM ValidatorsAreSafe == VSpec => []SafeInv
  BY ValidatorsImplementDag, Safety, PTL

-----------------------------------------------------------------------------
(* HeldOnce, peer by peer.  It needs the safety of the protocol: a vertex  *)
(* another vertex shares its hash with would be overtaken in the buffer.   *)
HeldBy(p) ==
  /\ temp_list[p] \cap buffer[p] = {}
  /\ \A v \in vertex_map[p] : Waiting(p, v) <=> v \in temp_list[p] \cup buffer[p]
  /\ unvisited[p] \subseteq buffer[p]

HeldInv == FlowInv /\ SafeInv /\ \A p \in Peers : HeldBy(p)

(* The two ways of saying it agree. *)
LEMMA HeldIsHeldOnce == HeldInv => HeldOnce
  BY DEF HeldInv, HeldBy, HeldOnce, FlowInv, Sourced

(* Nothing is held at the start. *)
LEMMA HeldInit == VInit => HeldInv
<1> SUFFICES ASSUME VInit
             PROVE  HeldInv
  OBVIOUS
<1>1. FlowInv /\ SafeInv
  BY FlowInit, SafeInit DEF VInit
<1>2. \A p \in Peers : HeldBy(p)
  BY DEF VInit, Init, HeldBy
<1>3. QED
  BY <1>1, <1>2 DEF HeldInv

(* What a peer holds does not depend on the lists of another. *)
LEMMA HeldElsewhere ==
  ASSUME NEW p \in Peers, HeldBy(p),
         /\ vertex_map'[p] = vertex_map[p] /\ dag_image'[p] = dag_image[p]
         /\ temp_list'[p] = temp_list[p] /\ buffer'[p] = buffer[p]
         /\ unvisited'[p] = unvisited[p]
  PROVE  HeldBy(p)'
  BY DEF HeldBy, Waiting

(* The vertex a peer creates goes into its DAG at once; its hash is new,   *)
(* so no vertex that waits is taken for it.                                *)
LEMMA AdvanceHolds ==
  ASSUME HeldInv, NEW p \in Peers, Advance(p), NEW q \in Peers
  PROVE  HeldBy(q)'
<1>1. HeldBy(q) /\ TypeOK
  BY DEF HeldInv, SafeInv
<1>2. Propose(p) /\ UNCHANGED <<temp_list, buffer, unvisited>>
  BY DEF Advance, lists
<1>3. CASE q # p \/ ~ HasNextVertex(p)
  <2>1. vertex_map'[q] = vertex_map[q] /\ dag_image'[q] = dag_image[q]
    BY <1>1, <1>2, <1>3 DEF Propose, TypeOK
  <2>2. QED
    BY <1>1, <1>2, <2>1, HeldElsewhere
<1>4. CASE q = p /\ HasNextVertex(p)
  <2>0. PICK v : v = NewVertex(p, round[p] + 1)
    OBVIOUS
  <2>1. /\ v \in Vertices /\ v.round = round[p] + 1 /\ v.round \in Rounds
        /\ \A u \in vertex_map[p] : Hash(u) # Hash(v)
    BY <1>1, <1>4, <2>0, NewVertexType, NewVertexIsFresh DEF HeldInv
  <2>2. /\ vertex_map'[p] = vertex_map[p] \cup {v}
        /\ dag_image'[p] = [dag_image[p] EXCEPT ![v.round] = @ \cup {Hash(v)}]
    BY <1>1, <1>2, <1>4, <2>0, <2>1 DEF Propose, TypeOK
  <2>3. v \notin temp_list[p] \cup buffer[p]
    BY <2>1 DEF HeldInv, FlowInv, Sourced
  <2>4. ~ Waiting(p, v)'
    BY <1>1, <2>1, <2>2 DEF Waiting, TypeOK
  <2>5. ASSUME NEW u \in vertex_map[p]
        PROVE  Waiting(p, u)' <=> Waiting(p, u)
    <3>1. u.round \in Rounds
      BY <1>1 DEF TypeOK, Vertices
    <3>2. QED
      BY <1>1, <2>1, <2>2, <3>1 DEF Waiting, TypeOK
  <2>6. QED
    BY <1>1, <1>2, <1>4, <2>2, <2>3, <2>4, <2>5 DEF HeldBy
<1>5. QED
  BY <1>3, <1>4

(* A vertex that leaves the buffer enters the DAG, and no other vertex     *)
(* with it, for no other has its hash.                                     *)
LEMMA VisitHolds ==
  ASSUME HeldInv, NEW p \in Peers, NEW v \in unvisited[p], Visit(p, v),
         NEW q \in Peers
  PROVE  HeldBy(q)'
<1>1. HeldBy(q) /\ TypeOK
  BY DEF HeldInv, SafeInv
<1>2. v \in vertex_map[p] /\ v.round \in Rounds /\ v \in buffer[p]
  BY <1>1 DEF HeldInv, HeldBy, FlowInv, Sourced, TypeOK, Vertices
<1>3. unvisited' = [unvisited EXCEPT ![p] = @ \ {v}] /\ UNCHANGED temp_list
  BY DEF Visit
<1>4. CASE Postpone(p, v)
  <2>1. UNCHANGED <<vertex_map, dag_image, buffer>>
    BY <1>4 DEF Postpone, vars
  <2>2. unvisited'[q] \subseteq unvisited[q]
    BY <1>3 DEF HeldInv, FlowInv, FlowTypes
  <2>3. QED
    BY <1>1, <1>3, <2>1, <2>2 DEF HeldBy, Waiting
<1>5. CASE Take(p, v)
  <2>1. /\ UNCHANGED vertex_map
        /\ dag_image' = [dag_image EXCEPT ![p][v.round] = @ \cup {Hash(v)}]
        /\ buffer' = [buffer EXCEPT ![p] = @ \ {v}]
    BY <1>5 DEF Take
  <2>2. CASE q # p
    BY <1>1, <1>3, <2>1, <2>2, HeldElsewhere DEF TypeOK, HeldInv, FlowInv, FlowTypes
  <2>3. CASE q = p
    <3>1. /\ dag_image'[p] = [dag_image[p] EXCEPT ![v.round] = @ \cup {Hash(v)}]
          /\ buffer'[p] = buffer[p] \ {v}
          /\ unvisited'[p] = unvisited[p] \ {v}
      BY <1>1, <1>3, <2>1 DEF TypeOK, HeldInv, FlowInv, FlowTypes
    <3>2. ASSUME NEW u \in vertex_map[p], u # v
          PROVE  Waiting(p, u)' <=> Waiting(p, u)
      <4>1. Hash(u) # Hash(v)
        BY <1>2, <3>2 DEF HeldInv, SafeInv, NoEquivocation
      <4>2. u.round \in Rounds
        BY <1>1 DEF TypeOK, Vertices
      <4>3. QED
        BY <1>1, <1>2, <3>1, <4>1, <4>2 DEF Waiting, TypeOK
    <3>3. ~ Waiting(p, v)'
      BY <1>1, <1>2, <3>1 DEF Waiting, TypeOK
    <3>4. QED
      BY <1>1, <1>2, <1>3, <2>1, <2>3, <3>1, <3>2, <3>3 DEF HeldBy
  <2>4. QED
    BY <2>2, <2>3
<1>6. QED
  BY <1>4, <1>5 DEF Visit

(* The server puts a vertex into its list when its hash is new; a hash in  *)
(* the DAG is known, so the vertex waits.  The handoff moves it on.        *)
LEMMA ServerHolds ==
  ASSUME HeldInv, NEW p \in Peers, ServerThread(p), NEW q \in Peers
  PROVE  HeldBy(q)'
<1>1. HeldBy(q) /\ TypeOK
  BY DEF HeldInv, SafeInv
<1> USE DEF wires, scan
<1>2. ASSUME NEW v \in vertex_msgs[p], ReceiveVertex(p, v)
      PROVE  HeldBy(q)'
  <2>1. /\ UNCHANGED <<dag_image, buffer, unvisited>>
        /\ vertex_map' = [vertex_map EXCEPT ![p] = @ \cup {v}]
        /\ temp_list' = [temp_list EXCEPT ![p] = @ \cup {v}]
        /\ ~ Knows(p, Hash(v))
    BY <1>2 DEF ReceiveVertex
  <2>2. CASE q # p
    BY <1>1, <2>1, <2>2, HeldElsewhere DEF TypeOK, HeldInv, FlowInv, FlowTypes
  <2>3. CASE q = p
    <3>1. v.round \in Rounds
      BY DEF HeldInv, FlowInv, FlowTypes, Vertices
    <3>2. Waiting(p, v)
      <4>1. \A h \in dag_image[p][v.round] : Knows(p, h)
        BY <3>1 DEF HeldInv, SafeInv, DagIsKnown
      <4>2. QED
        BY <2>1, <4>1 DEF Waiting
    <3>3. v \notin buffer[p]
      BY <2>1 DEF HeldInv, FlowInv, Sourced, Knows
    <3>4. /\ vertex_map'[p] = vertex_map[p] \cup {v}
          /\ temp_list'[p] = temp_list[p] \cup {v}
      BY <2>1 DEF HeldInv, FlowInv, FlowTypes, TypeOK
    <3>5. \A u : Waiting(p, u)' <=> Waiting(p, u)
      BY <2>1 DEF Waiting
    <3>6. QED
      BY <1>1, <2>1, <2>3, <3>2, <3>3, <3>4, <3>5 DEF HeldBy
  <2>4. QED
    BY <2>2, <2>3
<1>3. ASSUME NEW m \in request_msgs[p], ReceiveRequest(p, m)
      PROVE  HeldBy(q)'
  BY <1>1, <1>3, HeldElsewhere DEF ReceiveRequest, vars
<1>4. CASE Handoff(p)
  <2>1. /\ UNCHANGED <<vars, unvisited>>
        /\ buffer' = [buffer EXCEPT ![p] = @ \cup temp_list[p]]
        /\ temp_list' = [temp_list EXCEPT ![p] = {}]
    BY <1>4 DEF Handoff
  <2>2. CASE q # p
    BY <1>1, <2>1, <2>2, HeldElsewhere DEF HeldInv, FlowInv, FlowTypes, vars
  <2>3. CASE q = p
    <3>1. buffer'[p] = buffer[p] \cup temp_list[p] /\ temp_list'[p] = {}
      BY <2>1 DEF HeldInv, FlowInv, FlowTypes
    <3>2. QED
      BY <1>1, <2>1, <2>3, <3>1 DEF HeldBy, Waiting, vars
  <2>4. QED
    BY <2>2, <2>3
<1>5. QED
  BY <1>2, <1>3, <1>4 DEF ServerThread

(* The invariant is inductive. *)
LEMMA HeldStep == HeldInv /\ [VNext]_vvars => HeldInv'
<1> SUFFICES ASSUME HeldInv, [VNext]_vvars
             PROVE  HeldInv'
  OBVIOUS
<1>1. FlowInv'
  BY FlowStep DEF HeldInv
<1>2. SafeInv'
  BY StepMaps, SafeStep DEF HeldInv
<1>3. ASSUME NEW q \in Peers
      PROVE  HeldBy(q)'
  <2>1. ASSUME UNCHANGED flow
        PROVE  HeldBy(q)'
    BY <2>1, HeldElsewhere DEF flow, vars, lists, HeldInv
  <2>2. CASE UNCHANGED vvars
    BY <2>1, <2>2, IdleSteps
  <2>3. ASSUME NEW p \in Peers, ScanThread(p)
        PROVE  HeldBy(q)'
    <3>1. CASE Wake(p)
      <4>1. UNCHANGED <<vars, temp_list, buffer>>
        BY <3>1 DEF Wake
      <4>2. unvisited'[q] \subseteq buffer[q]
        BY <3>1 DEF Wake, HeldInv, HeldBy, FlowInv, FlowTypes
      <4>3. QED
        BY <4>1, <4>2 DEF HeldInv, HeldBy, Waiting, vars
    <3>2. QED
      BY <2>1, <2>3, <3>1, AdvanceHolds, VisitHolds, IdleSteps DEF ScanThread
  <2>4. ASSUME NEW p \in Peers, ServerThread(p)
        PROVE  HeldBy(q)'
    BY <2>4, ServerHolds
  <2>5. ASSUME NEW p \in Peers, CheckThreads(p)
        PROVE  HeldBy(q)'
    BY <2>1, <2>5, IdleSteps
  <2>6. QED
    BY <2>2, <2>3, <2>4, <2>5 DEF VNext
<1>4. QED
  BY <1>1, <1>2, <1>3 DEF HeldInv

(* Nothing is lost between the socket and the DAG, and nothing is there    *)
(* twice (the lists of Server::start and buffer_scan_move_round).          *)
THEOREM HeldOnceHolds == VSpec => []HeldOnce
<1>1. VSpec => []HeldInv
  BY HeldInit, HeldStep, PTL DEF VSpec
<1>2. QED
  BY <1>1, HeldIsHeldOnce, PTL

-----------------------------------------------------------------------------
(* MissingAreKnown: the set of the scan thread is made of hashes of the    *)
(* DAG, and the DAG is known (DagIsKnown); the map only grows while the    *)
(* set waits for the next visit.                                           *)
MissingInv ==
  /\ FlowInv
  /\ SafeInv
  /\ DOMAIN missing = Peers
  /\ MissingAreKnown

(* What a visit finds missing at the creator of a vertex is known. *)
LEMMA MissingAtIsKnown ==
  ASSUME MissingInv, NEW p \in Peers, NEW v \in unvisited[p], NEW h \in MissingAt(p, v)
  PROVE  Knows(p, h)
<1>1. CASE v.round = 1
  BY <1>1 DEF MissingAt, MissingInv, MissingAreKnown
<1>2. CASE v.round # 1
  <2>1. v.round - 1 \in Rounds
    <3>1. v.round \in Rounds
      BY DEF MissingInv, FlowInv, FlowTypes, Vertices
    <3>2. QED
      BY <1>2, <3>1, LastRoundAssumption DEF Rounds
  <2>2. h \in dag_image[p][v.round - 1]
    BY <1>2 DEF MissingAt
  <2>3. QED
    BY <2>1, <2>2 DEF MissingInv, SafeInv, DagIsKnown
<1>3. QED
  BY <1>1, <1>2

(* A visit leaves the set as it is, empties it, or makes it anew. *)
LEMMA VisitMissing ==
  ASSUME MissingInv, NEW p \in Peers, NEW v \in unvisited[p], Visit(p, v)
  PROVE  /\ DOMAIN missing' = Peers
         /\ UNCHANGED vertex_map
         /\ \A q \in Peers : \A h \in missing'[q] : h \in missing[q] \/ Knows(q, h)
<1>1. CASE Postpone(p, v)
  BY <1>1 DEF Postpone, vars, MissingInv
<1>2. CASE Take(p, v)
  <2>1. \/ missing' = [missing EXCEPT ![p] = MissingAt(p, v)]
        \/ missing' = [missing EXCEPT ![p] = {}]
    BY <1>2 DEF Take
  <2>2. UNCHANGED vertex_map
    BY <1>2 DEF Take
  <2>3. QED
    BY <2>1, <2>2, MissingAtIsKnown DEF MissingInv
<1>3. QED
  BY <1>1, <1>2 DEF Visit

(* The other steps of a validator leave it alone. *)
LEMMA OthersKeepMissing ==
  ASSUME NEW p \in Peers,
         \/ Advance(p) \/ Crash(p) \/ AskForHelp(p) \/ GiveUp(p) \/ Idle(p)
         \/ Wake(p) \/ EndPass(p) \/ ServerThread(p) \/ CheckThreads(p)
  PROVE  UNCHANGED missing
<1> USE DEF scan
<1>1. CASE Advance(p) \/ Crash(p) \/ AskForHelp(p) \/ GiveUp(p) \/ Idle(p)
  BY <1>1 DEF Advance, Crash, AskForHelp, GiveUp, Idle
<1>2. CASE Wake(p) \/ EndPass(p)
  BY <1>2 DEF Wake, EndPass
<1>3. CASE ServerThread(p)
  BY <1>3 DEF ServerThread, ReceiveVertex, ReceiveRequest, Handoff
<1>4. CASE CheckThreads(p)
  BY <1>4 DEF CheckThreads, Check, CheckCrash
<1>5. QED
  BY <1>1, <1>2, <1>3, <1>4

(* The invariant is inductive. *)
LEMMA MissingStep == MissingInv /\ [VNext]_vvars => MissingInv'
<1> SUFFICES ASSUME MissingInv, [VNext]_vvars
             PROVE  MissingInv'
  OBVIOUS
<1>1. FlowInv'
  BY FlowStep DEF MissingInv
<1>2. TypeOK /\ [Next]_vars
  BY StepMaps DEF MissingInv, FlowInv, FlowTypes
<1>3. SafeInv'
  BY <1>2, SafeStep DEF MissingInv
<1>4. \A q \in Peers : vertex_map[q] \subseteq vertex_map'[q]
  BY <1>2, MapGrows
<1>5. ASSUME UNCHANGED missing
      PROVE  DOMAIN missing' = Peers /\ MissingAreKnown'
  BY <1>4, <1>5 DEF MissingInv, MissingAreKnown, Knows
<1>6. CASE UNCHANGED vvars
  BY <1>1, <1>3, <1>5, <1>6 DEF vvars, scan, MissingInv
<1>7. ASSUME NEW p \in Peers, NEW v \in unvisited[p], Visit(p, v)
      PROVE  DOMAIN missing' = Peers /\ MissingAreKnown'
  BY <1>7, VisitMissing DEF MissingInv, MissingAreKnown, Knows
<1>8. ASSUME NEW p \in Peers, ScanThread(p) \/ ServerThread(p) \/ CheckThreads(p)
      PROVE  DOMAIN missing' = Peers /\ MissingAreKnown'
  BY <1>5, <1>7, <1>8, OthersKeepMissing DEF ScanThread
<1>9. QED
  BY <1>1, <1>3, <1>6, <1>8 DEF VNext, MissingInv

(* send_missing_vertices never dereferences the end of the map, however    *)
(* old the set is that mutual_history left behind.                         *)
THEOREM MissingAreKnownHolds == VSpec => []MissingAreKnown
<1>1. VInit => MissingInv
  BY FlowInit, SafeInit DEF VInit, MissingInv, MissingAreKnown
<1>2. MissingInv => MissingAreKnown
  BY DEF MissingInv
<1>3. QED
  BY <1>1, <1>2, MissingStep, PTL DEF VSpec
-----------------------------------------------------------------------------
(* Erasing from a vector.  The ranks of n places are the numbers up to n:  *)
(* they are different, and as many.                                        *)
LEMMA RanksNumber ==
  ASSUME NEW K \in SUBSET Nat, IsFiniteSet(K)
  PROVE  /\ Cardinality(K) \in Nat
         /\ \A i \in K : Rank(K, i) \in 1 .. Cardinality(K)
         /\ \A i, j \in K : Rank(K, i) = Rank(K, j) => i = j
         /\ \A k \in 1 .. Cardinality(K) : \E i \in K : Rank(K, i) = k
<1> DEFINE Below(i) == {j \in K : j <= i}
<1>1. ASSUME NEW i \in K
      PROVE  /\ IsFiniteSet(Below(i))
             /\ Rank(K, i) = Cardinality(Below(i))
             /\ Rank(K, i) \in 1 .. Cardinality(K)
  <2>1. Below(i) \in SUBSET K /\ i \in Below(i)
    OBVIOUS
  <2> HIDE DEF Below
  <2>2. IsFiniteSet(Below(i)) /\ Cardinality(Below(i)) <= Cardinality(K)
    BY <2>1, FS_Subset
  <2>3. Cardinality(Below(i)) \in Nat /\ Cardinality(K) \in Nat
    BY <2>2, FS_CardinalityType
  <2>4. Cardinality(Below(i)) # 0
    BY <2>1, <2>2, FS_EmptySet
  <2>5. Rank(K, i) = Cardinality(Below(i))
    BY DEF Rank, Below
  <2>6. QED
    BY <2>2, <2>3, <2>4, <2>5
<1>2. ASSUME NEW i \in K, NEW j \in K, i < j
      PROVE  Rank(K, i) # Rank(K, j)
  <2>0. i \in Nat /\ j \in Nat /\ \A k \in K : k \in Nat
    OBVIOUS
  <2>1. Below(i) \in SUBSET Below(j) /\ j \in Below(j) /\ j \notin Below(i)
    <3>1. \A k \in K : k <= i => k <= j
      BY <1>2, <2>0
    <3>2. j <= j /\ ~ (j <= i)
      BY <1>2, <2>0
    <3>3. QED
      BY <3>1, <3>2
  <2> HIDE DEF Below
  <2>2. IsFiniteSet(Below(j)) /\ Below(i) # Below(j)
    BY <1>1, <2>1
  <2>3. Cardinality(Below(i)) # Cardinality(Below(j))
    BY <2>1, <2>2, FS_Subset
  <2>4. QED
    BY <1>1, <2>3
<1>3. \A i, j \in K : Rank(K, i) = Rank(K, j) => i = j
  BY <1>2
<1>4. Cardinality(K) \in Nat
  BY FS_CardinalityType
<1>5. \A k \in 1 .. Cardinality(K) : \E i \in K : Rank(K, i) = k
  <2> DEFINE f == [i \in K |-> Rank(K, i)]
             T == 1 .. Cardinality(K)
  <2>1. f \in Injection(K, T)
    <3>1. f \in [K -> T]
      BY <1>1
    <3>2. \A i, j \in K : f[i] = f[j] => i = j
      BY <1>3
    <3>3. QED
      BY <3>1, <3>2 DEF Injection, IsInjective
  <2>2. IsFiniteSet(T) /\ Cardinality(T) = Cardinality(K)
    <3>1. 1 \in Int /\ Cardinality(K) \in Int
      BY <1>4
    <3>2. QED
      BY <1>4, <3>1, FS_Interval
  <2> HIDE DEF T, f
  <2>3. f \in Surjection(K, T)
    BY <2>1, <2>2, FS_Injection
  <2>4. \A k \in T : \E i \in K : f[i] = k
    BY <2>3 DEF Surjection
  <2>5. QED
    BY <2>4 DEF T, f
<1>6. QED
  BY <1>1, <1>3, <1>4, <1>5

(* What is left of a vector has the elements that were not to go, as often *)
(* as before: once, if the vector had them once.                           *)
LEMMA WithoutKeepsTheOthers ==
  ASSUME NEW S, NEW s \in Seq(S), NEW dead
  PROVE  /\ Without(s, dead) \in Seq(S)
         /\ Range(Without(s, dead)) = Range(s) \ dead
         /\ IsInjective(s) => IsInjective(Without(s, dead))
<1> DEFINE K == Kept(s, dead)
           n == Cardinality(K)
           at == [k \in 1 .. n |-> CHOOSE i \in K : Rank(K, i) = k]
           t == Without(s, dead)
<1>1. K \in SUBSET Nat /\ K \in SUBSET (1 .. Len(s)) /\ IsFiniteSet(K)
  <2>1. DOMAIN s = 1 .. Len(s) /\ Len(s) \in Nat
    OBVIOUS
  <2>2. K \in SUBSET (1 .. Len(s))
    BY <2>1 DEF Kept
  <2> HIDE DEF K
  <2>3. IsFiniteSet(1 .. Len(s))
    <3>1. 1 \in Int /\ Len(s) \in Int
      BY <2>1
    <3>2. QED
      BY <3>1, FS_Interval
  <2>4. IsFiniteSet(K)
    BY <2>2, <2>3, FS_Subset
  <2>5. QED
    BY <2>1, <2>2, <2>4
<1>2. K = {i \in 1 .. Len(s) : s[i] \notin dead}
  BY DEF Kept
<1>3. t = [k \in 1 .. n |-> s[at[k]]]
  BY DEF Without
<1> HIDE DEF K, t
<1>4. n \in Nat
  BY <1>1, RanksNumber
<1>5. ASSUME NEW k \in 1 .. n
      PROVE  at[k] \in K /\ Rank(K, at[k]) = k
  <2>1. \E i \in K : Rank(K, i) = k
    BY <1>1, RanksNumber
  <2>2. at[k] = CHOOSE i \in K : Rank(K, i) = k
    OBVIOUS
  <2> HIDE DEF at
  <2>3. QED
    BY <2>1, <2>2
<1>6. ASSUME NEW i \in K
      PROVE  \E k \in 1 .. n : at[k] = i
  <2>1. Rank(K, i) \in 1 .. n
    BY <1>1, RanksNumber
  <2>2. at[Rank(K, i)] \in K /\ Rank(K, at[Rank(K, i)]) = Rank(K, i)
    BY <1>5, <2>1
  <2> HIDE DEF n, at
  <2>3. at[Rank(K, i)] = i
    BY <1>1, <2>2, RanksNumber
  <2>4. QED
    BY <2>1, <2>3
<1> HIDE DEF n, at
<1>7. DOMAIN t = 1 .. n /\ \A k \in 1 .. n : t[k] = s[at[k]]
  BY <1>3
<1>8. t \in Seq(S)
  <2>1. \A k \in 1 .. n : t[k] \in S
    BY <1>2, <1>5, <1>7
  <2>2. t \in [1 .. n -> S]
    BY <1>3, <1>7, <2>1
  <2>3. QED
    BY <1>4, <2>2
<1>9. Range(t) = Range(s) \ dead
  <2>1. ASSUME NEW x \in Range(t)
        PROVE  x \in Range(s) \ dead
    <3>1. PICK k \in 1 .. n : x = s[at[k]]
      BY <1>7 DEF Range
    <3>2. at[k] \in 1 .. Len(s) /\ s[at[k]] \notin dead
      BY <1>2, <1>5
    <3>3. QED
      BY <3>1, <3>2 DEF Range
  <2>2. ASSUME NEW x \in Range(s) \ dead
        PROVE  x \in Range(t)
    <3>1. PICK i \in 1 .. Len(s) : x = s[i]
      BY DEF Range
    <3>2. i \in K
      BY <1>2, <2>2, <3>1
    <3>3. PICK k \in 1 .. n : at[k] = i
      BY <1>6, <3>2
    <3>4. QED
      BY <1>7, <3>1, <3>3 DEF Range
  <2>3. QED
    BY <2>1, <2>2
<1>10. ASSUME IsInjective(s)
       PROVE  IsInjective(t)
  <2> SUFFICES ASSUME NEW j \in 1 .. n, NEW k \in 1 .. n, t[j] = t[k]
               PROVE  j = k
    BY <1>7 DEF IsInjective
  <2>1. at[j] \in 1 .. Len(s) /\ at[k] \in 1 .. Len(s)
    BY <1>2, <1>5
  <2>2. at[j] = at[k]
    BY <1>7, <1>10, <2>1 DEF IsInjective
  <2>3. QED
    BY <1>5, <2>2
<1>11. QED
  BY <1>8, <1>9, <1>10 DEF t
-----------------------------------------------------------------------------
(* The types of the variables a vertex does not travel through.            *)
RestTypes ==
  /\ request_msgs \in [Peers -> SUBSET (Peers \X Hashes)]
  /\ pc \in [Peers -> {"top", "wait", "pass", "left", "crashed"}]
  /\ missing \in [Peers -> SUBSET Hashes]
  /\ stop \in [Peers -> {LastRound, LastRound - 1}]
  /\ black_list \in [Peers -> SUBSET Peers]
  /\ c_sockets \in [Peers -> Seq(Peers)]
  /\ checks \in [Peers -> SUBSET Hashes]

(* A scan thread gives up once: it leaves at the end of the next pass.     *)
GivesUpOnce ==
  \A p \in Peers : stop[p] # LastRound => round[p] >= LastRound /\ pc[p] # "top"

ScanInv == FlowInv /\ RestTypes /\ GivesUpOnce /\ SocketsAndBlackList

(* The housekeeping of a peer that leaves a round, and a call for help,    *)
(* look at rounds of the DAG.                                              *)
LEMMA WindowsAreRounds ==
  ASSUME NEW r \in 0 .. LastRound
  PROVE  /\ ScanWindow(Wave, r) \subseteq Rounds
         /\ OrderWindow(Wave, r) \subseteq Rounds
         /\ HelpWindow(Wave, r) \subseteq Rounds
<1> USE LastRoundAssumption
<1>1. Wave \in Nat /\ HalfWave(Wave) \in Nat
  BY WaveAssumption DEF HalfWave
<1>2. ASSUME NEW a \in Int, NEW b \in Int, b <= LastRound
      PROVE  Window(a, b) \subseteq Rounds
  BY <1>2 DEF Window, Rounds
<1>3. /\ r - 2 * Wave \in Int /\ r - Wave \in Int /\ r - Wave <= LastRound
      /\ r \in Int /\ r <= LastRound
  BY <1>1
<1>4. r - (Wave + HalfWave(Wave)) \in Int /\ r - (Wave + HalfWave(Wave)) <= LastRound
  BY <1>1
<1>5. ScanWindow(Wave, r) \subseteq Rounds
  BY <1>2, <1>3 DEF ScanWindow
<1>6. HelpWindow(Wave, r) \subseteq Rounds
  BY <1>2, <1>3 DEF HelpWindow
<1>7. OrderWindow(Wave, r) \subseteq Rounds
  <2>1. r - (Wave + HalfWave(Wave)) - Wave \in Int
    BY <1>1
  <2>2. QED
    BY <1>2, <1>4, <2>1 DEF OrderWindow
<1>8. QED
  BY <1>5, <1>6, <1>7

(* A look at rounds of the DAG gives hashes to look for. *)
LEMMA DagScanTypes ==
  ASSUME RestTypes, NEW p \in Peers, NEW window \in SUBSET Rounds, DagScan(p, window)
  PROVE  checks' \in [Peers -> SUBSET Hashes]
<1>1. Incomplete(p, window) \X (Peers \ {p}) \subseteq Hashes
  BY DEF Incomplete, Hashes
<1>2. QED
  BY <1>1 DEF DagScan, RestTypes

(* total_order moves peers from the sockets to the black list. *)
LEMMA TotalOrderKeeps ==
  ASSUME RestTypes, SocketsAndBlackList, NEW p \in Peers, NEW window,
         Running(p), TotalOrder(p, window)
  PROVE  /\ black_list' \in [Peers -> SUBSET Peers]
         /\ c_sockets' \in [Peers -> Seq(Peers)]
         /\ \A q \in Peers : Running(q) =>
              /\ Range(c_sockets'[q]) = Peers \ (black_list'[q] \cup {q})
              /\ IsInjective(c_sockets'[q])
<1> DEFINE dead == Absent(p, window)
           left == Without(c_sockets[p], dead)
<1>1. dead \in SUBSET (Peers \ {p})
  BY DEF Absent
<1>2. /\ black_list' = [black_list EXCEPT ![p] = @ \cup dead]
      /\ c_sockets' = [c_sockets EXCEPT ![p] = left]
  BY DEF TotalOrder
<1>3. c_sockets[p] \in Seq(Peers)
  BY DEF RestTypes
<1> HIDE DEF dead
<1>4. /\ left \in Seq(Peers)
      /\ Range(left) = Range(c_sockets[p]) \ dead
      /\ IsInjective(c_sockets[p]) => IsInjective(left)
  BY <1>3, WithoutKeepsTheOthers
<1>5. /\ Range(c_sockets[p]) = Peers \ (black_list[p] \cup {p})
      /\ IsInjective(c_sockets[p])
  BY DEF SocketsAndBlackList
<1> HIDE DEF left
<1>6. /\ black_list' \in [Peers -> SUBSET Peers]
      /\ c_sockets' \in [Peers -> Seq(Peers)]
  BY <1>1, <1>2, <1>4 DEF RestTypes
<1>7. ASSUME NEW q \in Peers, Running(q)
      PROVE  /\ Range(c_sockets'[q]) = Peers \ (black_list'[q] \cup {q})
             /\ IsInjective(c_sockets'[q])
  <2>1. CASE q = p
    <3>1. c_sockets'[p] = left /\ black_list'[p] = black_list[p] \cup dead
      BY <1>2 DEF RestTypes
    <3>2. QED
      BY <1>4, <1>5, <2>1, <3>1
  <2>2. CASE q # p
    <3>1. c_sockets'[q] = c_sockets[q] /\ black_list'[q] = black_list[q]
      BY <1>2, <2>2 DEF RestTypes
    <3>2. QED
      BY <1>7, <3>1 DEF SocketsAndBlackList
  <2>3. QED
    BY <2>1, <2>2
<1>8. QED
  BY <1>6, <1>7

(* The whole of the housekeeping. *)
LEMMA HousekeepingKeeps ==
  ASSUME ScanInv, NEW p \in Peers, Running(p), StillProposing(p), Housekeeping(p)
  PROVE  /\ checks' \in [Peers -> SUBSET Hashes]
         /\ black_list' \in [Peers -> SUBSET Peers]
         /\ c_sockets' \in [Peers -> Seq(Peers)]
         /\ \A q \in Peers : Running(q) =>
              /\ Range(c_sockets'[q]) = Peers \ (black_list'[q] \cup {q})
              /\ IsInjective(c_sockets'[q])
<1>1. round[p] \in 0 .. LastRound
  BY DEF ScanInv, FlowInv, FlowTypes, TypeOK, StillProposing
<1>2. RestTypes /\ SocketsAndBlackList
  BY DEF ScanInv
<1>3. CASE DagScan(p, ScanWindow(Wave, round[p])) /\ UNCHANGED <<black_list, c_sockets>>
  <2>1. ScanWindow(Wave, round[p]) \in SUBSET Rounds
    BY <1>1, WindowsAreRounds
  <2>2. checks' \in [Peers -> SUBSET Hashes]
    BY <1>2, <1>3, <2>1, DagScanTypes
  <2>3. QED
    BY <1>2, <1>3, <2>2 DEF RestTypes, SocketsAndBlackList
<1>4. CASE TotalOrder(p, OrderWindow(Wave, round[p])) /\ UNCHANGED checks
  BY <1>2, <1>4, TotalOrderKeeps DEF RestTypes
<1>5. CASE UNCHANGED help
  BY <1>2, <1>5 DEF RestTypes, SocketsAndBlackList, help
<1>6. QED
  BY <1>3, <1>4, <1>5 DEF Housekeeping
(* Sockets nobody touches go on matching the black list, as no peer comes  *)
(* back to life.                                                           *)
LEMMA SocketsLeftAlone ==
  ASSUME SocketsAndBlackList, UNCHANGED <<black_list, c_sockets>>,
         \A q \in Peers : Running(q)' => Running(q)
  PROVE  SocketsAndBlackList'
  BY DEF SocketsAndBlackList

(* A peer that enters its next round has not given up. *)
LEMMA AdvanceScans ==
  ASSUME ScanInv, NEW p \in Peers, Advance(p)
  PROVE  RestTypes' /\ GivesUpOnce' /\ SocketsAndBlackList'
<1> USE DEF ScanInv
<1>1. /\ pc[p] = "top" /\ pc' = [pc EXCEPT ![p] = "wait"]
      /\ Propose(p) /\ StillProposing(p) /\ Housekeeping(p)
      /\ UNCHANGED <<request_msgs, missing, stop>>
  BY DEF Advance, Propose
<1>2. \A q \in Peers : pc'[q] = IF q = p THEN "wait" ELSE pc[q]
  BY <1>1 DEF RestTypes
<1>3. Running(p) /\ \A q \in Peers : Running(q)' => Running(q)
  BY <1>1, <1>2 DEF Running
<1>4. /\ checks' \in [Peers -> SUBSET Hashes]
      /\ black_list' \in [Peers -> SUBSET Peers]
      /\ c_sockets' \in [Peers -> Seq(Peers)]
      /\ \A q \in Peers : Running(q) =>
           /\ Range(c_sockets'[q]) = Peers \ (black_list'[q] \cup {q})
           /\ IsInjective(c_sockets'[q])
  BY <1>1, <1>3, HousekeepingKeeps
<1>5. RestTypes'
  BY <1>1, <1>4 DEF RestTypes
<1>6. SocketsAndBlackList'
  BY <1>3, <1>4 DEF SocketsAndBlackList
<1>7. GivesUpOnce'
  <2> SUFFICES ASSUME NEW q \in Peers, stop'[q] # LastRound
               PROVE  round'[q] >= LastRound /\ pc'[q] # "top"
    BY DEF GivesUpOnce
  <2>1. stop[q] # LastRound
    BY <1>1
  <2>2. round[q] >= LastRound /\ pc[q] # "top" /\ q # p
    BY <1>1, <2>1 DEF GivesUpOnce
  <2>3. round'[q] = round[q]
    BY <1>1, <2>2 DEF Propose, FlowInv, FlowTypes, TypeOK
  <2>4. QED
    BY <1>2, <2>2, <2>3
<1>8. QED
  BY <1>5, <1>6, <1>7

(* The other steps that begin at the top of the loop. *)
LEMMA TopScans ==
  ASSUME ScanInv, NEW p \in Peers,
         Crash(p) \/ AskForHelp(p) \/ GiveUp(p) \/ Idle(p)
  PROVE  RestTypes' /\ GivesUpOnce' /\ SocketsAndBlackList'
<1> USE DEF ScanInv
<1>1. /\ pc[p] = "top"
      /\ pc' = [pc EXCEPT ![p] = "wait"] \/ pc' = [pc EXCEPT ![p] = "crashed"]
      /\ UNCHANGED <<round, request_msgs, missing, black_list, c_sockets>>
  BY DEF Crash, AskForHelp, GiveUp, Idle, vars, wires, scan, help
<1>2. /\ pc' \in [Peers -> {"top", "wait", "pass", "left", "crashed"}]
      /\ pc'[p] # "top"
      /\ \A q \in Peers : pc'[q] = "top" => pc[q] = "top"
      /\ \A q \in Peers : Running(q)' => Running(q)
  BY <1>1 DEF RestTypes, Running
<1>3. checks' \in [Peers -> SUBSET Hashes]
  <2>1. CASE AskForHelp(p)
    <3>1. round[p] \in 0 .. LastRound
      BY <2>1, LastRoundAssumption DEF AskForHelp, FlowInv, FlowTypes, TypeOK
    <3>2. HelpWindow(Wave, round[p]) \in SUBSET Rounds
      BY <3>1, WindowsAreRounds
    <3>3. QED
      BY <2>1, <3>2, DagScanTypes DEF AskForHelp
  <2>2. CASE ~ AskForHelp(p)
    BY <2>2 DEF Crash, GiveUp, Idle, help, RestTypes
  <2>3. QED
    BY <2>1, <2>2
<1>4. /\ stop' \in [Peers -> {LastRound, LastRound - 1}]
      /\ \A q \in Peers : stop'[q] # LastRound =>
           (stop[q] # LastRound \/ (q = p /\ round[p] = LastRound))
  <2>1. CASE GiveUp(p)
    <3>1. stop[p] = LastRound
      BY <1>1 DEF GivesUpOnce
    <3>2. stop' = [stop EXCEPT ![p] = LastRound - 1] /\ round[p] = LastRound
      BY <2>1, <3>1 DEF GiveUp
    <3>3. QED
      BY <3>2 DEF RestTypes
  <2>2. CASE ~ GiveUp(p)
    <3>1. UNCHANGED stop
      BY <2>2 DEF Crash, AskForHelp, Idle, scan
    <3>2. QED
      BY <3>1 DEF RestTypes
  <2>3. QED
    BY <2>1, <2>2
<1>5. RestTypes'
  BY <1>1, <1>2, <1>3, <1>4 DEF RestTypes
<1>6. GivesUpOnce'
  <2> SUFFICES ASSUME NEW q \in Peers, stop'[q] # LastRound
               PROVE  round'[q] >= LastRound /\ pc'[q] # "top"
    BY DEF GivesUpOnce
  <2>1. CASE stop[q] # LastRound
    BY <1>1, <1>2, <2>1 DEF GivesUpOnce
  <2>2. CASE q = p /\ round[p] = LastRound
    BY <1>1, <1>2, <2>2, LastRoundAssumption
  <2>3. QED
    BY <1>4, <2>1, <2>2
<1>7. QED
  BY <1>1, <1>2, <1>5, <1>6, SocketsLeftAlone

(* A wake-up, and a visit: the set of missing vertices is made of hashes.  *)
LEMMA PassScans ==
  ASSUME ScanInv, NEW p \in Peers,
         Wake(p) \/ \E v \in unvisited[p] : Visit(p, v)
  PROVE  RestTypes' /\ GivesUpOnce' /\ SocketsAndBlackList'
<1> USE DEF ScanInv
<1>1. CASE Wake(p)
  <2>1. /\ pc[p] = "wait" /\ pc' = [pc EXCEPT ![p] = "pass"]
        /\ UNCHANGED <<round, request_msgs, missing, stop, black_list, c_sockets, checks>>
    BY <1>1 DEF Wake, vars, help
  <2>2. /\ pc' \in [Peers -> {"top", "wait", "pass", "left", "crashed"}]
        /\ \A q \in Peers : pc'[q] = "top" => pc[q] = "top"
        /\ \A q \in Peers : Running(q)' => Running(q)
    BY <2>1 DEF RestTypes, Running
  <2>3. RestTypes' /\ GivesUpOnce'
    BY <2>1, <2>2 DEF RestTypes, GivesUpOnce
  <2>4. QED
    BY <2>1, <2>2, <2>3, SocketsLeftAlone
<1>2. ASSUME NEW v \in unvisited[p], Visit(p, v)
      PROVE  RestTypes' /\ GivesUpOnce' /\ SocketsAndBlackList'
  <2>1. UNCHANGED <<round, request_msgs, pc, stop, black_list, c_sockets, checks>>
    BY <1>2 DEF Visit, Take, Postpone, vars, help
  <2>2. MissingAt(p, v) \in SUBSET Hashes
    <3>1. v \in Vertices
      BY DEF FlowInv, FlowTypes
    <3>2. v.round = 1 \/ v.round - 1 \in Rounds
      BY <3>1, LastRoundAssumption DEF Vertices, Rounds
    <3>3. QED
      BY <3>2 DEF MissingAt, RestTypes, FlowInv, FlowTypes, TypeOK
  <2>3. missing' \in [Peers -> SUBSET Hashes]
    BY <1>2, <2>2 DEF Visit, Take, Postpone, RestTypes
  <2>4. RestTypes' /\ GivesUpOnce'
    BY <2>1, <2>3 DEF RestTypes, GivesUpOnce
  <2>5. \A q \in Peers : Running(q)' => Running(q)
    BY <2>1 DEF Running
  <2>6. QED
    BY <2>1, <2>4, <2>5, SocketsLeftAlone
<1>3. QED
  BY <1>1, <1>2

(* At the end of a pass a peer closes its sockets exactly when it leaves,  *)
(* and one that has given up leaves.                                       *)
LEMMA EndPassScans ==
  ASSUME ScanInv, NEW p \in Peers, EndPass(p)
  PROVE  RestTypes' /\ GivesUpOnce' /\ SocketsAndBlackList'
<1> USE DEF ScanInv
<1>1. /\ pc[p] = "pass"
      /\ pc' = [pc EXCEPT ![p] = IF Leaves(p) THEN "left" ELSE "top"]
      /\ c_sockets' = [c_sockets EXCEPT ![p] = IF Leaves(p) THEN <<>> ELSE @]
      /\ UNCHANGED <<round, request_msgs, missing, stop, black_list, checks>>
  BY DEF EndPass, vars, wires
<1>2. /\ pc' \in [Peers -> {"top", "wait", "pass", "left", "crashed"}]
      /\ Running(p)
      /\ \A q \in Peers : Running(q)' => Running(q) /\ c_sockets'[q] = c_sockets[q]
  BY <1>1 DEF RestTypes, Running
<1>3. c_sockets' \in [Peers -> Seq(Peers)]
  <2>1. <<>> \in Seq(Peers)
    OBVIOUS
  <2>2. QED
    BY <1>1, <2>1 DEF RestTypes
<1>4. RestTypes'
  BY <1>1, <1>2, <1>3 DEF RestTypes
<1>5. SocketsAndBlackList'
  BY <1>1, <1>2 DEF SocketsAndBlackList
<1>6. GivesUpOnce'
  <2> SUFFICES ASSUME NEW q \in Peers, stop[q] # LastRound
               PROVE  round'[q] >= LastRound /\ pc'[q] # "top"
    BY <1>1 DEF GivesUpOnce
  <2>1. round[q] >= LastRound /\ pc[q] # "top"
    BY DEF GivesUpOnce
  <2>2. CASE q = p
    <3>1. stop[p] = LastRound - 1 /\ round[p] \in Nat
      BY <2>2 DEF RestTypes, FlowInv, FlowTypes, TypeOK
    <3>2. Leaves(p)
      BY <2>1, <2>2, <3>1, LastRoundAssumption DEF Leaves
    <3>3. QED
      BY <1>1, <2>1, <2>2, <3>2 DEF RestTypes
  <2>3. CASE q # p
    BY <1>1, <2>1, <2>3 DEF RestTypes
  <2>4. QED
    BY <2>2, <2>3
<1>7. QED
  BY <1>4, <1>5, <1>6

(* The server thread only takes requests off the wire. *)
LEMMA ServerScans ==
  ASSUME ScanInv, NEW p \in Peers, ServerThread(p)
  PROVE  RestTypes' /\ GivesUpOnce' /\ SocketsAndBlackList'
<1> USE DEF ScanInv
<1>1. /\ UNCHANGED <<round, pc, missing, stop, black_list, c_sockets, checks>>
      /\ \/ UNCHANGED request_msgs
         \/ \E m : request_msgs' = [request_msgs EXCEPT ![p] = @ \ {m}]
  <2> USE DEF vars, wires, scan, help
  <2>1. ASSUME NEW v, ReceiveVertex(p, v)
        PROVE  <1>1
    BY <2>1 DEF ReceiveVertex
  <2>2. ASSUME NEW m, ReceiveRequest(p, m)
        PROVE  <1>1
    BY <2>2 DEF ReceiveRequest
  <2>3. CASE Handoff(p)
    BY <2>3 DEF Handoff
  <2>4. QED
    BY <2>1, <2>2, <2>3 DEF ServerThread
<1>2. request_msgs' \in [Peers -> SUBSET (Peers \X Hashes)]
  <2>1. CASE UNCHANGED request_msgs
    BY <2>1 DEF RestTypes
  <2>2. ASSUME NEW m, request_msgs' = [request_msgs EXCEPT ![p] = @ \ {m}]
        PROVE  <1>2
    BY <2>2 DEF RestTypes
  <2>3. QED
    BY <1>1, <2>1, <2>2
<1>3. RestTypes' /\ GivesUpOnce'
  BY <1>1, <1>2 DEF RestTypes, GivesUpOnce
<1>4. \A q \in Peers : Running(q)' => Running(q)
  BY <1>1 DEF Running
<1>5. QED
  BY <1>1, <1>3, <1>4, SocketsLeftAlone

(* A check_round thread puts a request on the wire, or takes the process   *)
(* down.                                                                   *)
LEMMA CheckScans ==
  ASSUME ScanInv, NEW p \in Peers, CheckThreads(p)
  PROVE  RestTypes' /\ GivesUpOnce' /\ SocketsAndBlackList'
<1> USE DEF ScanInv
<1>1. PICK h \in checks[p] : Check(p, h) \/ CheckCrash(p, h)
  BY DEF CheckThreads
<1>2. CASE Check(p, h)
  <2>1. /\ UNCHANGED <<round, pc, missing, stop, black_list, c_sockets>>
        /\ checks' = [checks EXCEPT ![p] = @ \ {h}]
    BY <1>2 DEF Check, vars, scan
  <2>2. request_msgs' \in [Peers -> SUBSET (Peers \X Hashes)]
    <3>1. <<p, h>> \in Peers \X Hashes
      BY DEF RestTypes
    <3>2. CASE IsAskedFor(p, h)
      <4>1. PICK to : request_msgs' =
                [q \in Peers |-> IF q \in to THEN request_msgs[q] \cup {<<p, h>>}
                                             ELSE request_msgs[q]]
        BY <1>2, <3>2 DEF Check
      <4>2. QED
        BY <3>1, <4>1 DEF RestTypes
    <3>3. CASE ~ IsAskedFor(p, h)
      BY <1>2, <3>3 DEF Check, RestTypes
    <3>4. QED
      BY <3>2, <3>3
  <2>3. RestTypes' /\ GivesUpOnce'
    BY <2>1, <2>2 DEF RestTypes, GivesUpOnce
  <2>4. \A q \in Peers : Running(q)' => Running(q)
    BY <2>1 DEF Running
  <2>5. QED
    BY <2>1, <2>3, <2>4, SocketsLeftAlone
<1>3. CASE CheckCrash(p, h)
  <2>1. /\ pc' = [pc EXCEPT ![p] = "crashed"]
        /\ UNCHANGED <<round, request_msgs, missing, stop, black_list, c_sockets, checks>>
    BY <1>3 DEF CheckCrash, vars, wires, help
  <2>2. /\ pc' \in [Peers -> {"top", "wait", "pass", "left", "crashed"}]
        /\ \A q \in Peers : pc'[q] = "top" => pc[q] = "top"
        /\ \A q \in Peers : Running(q)' => Running(q)
    BY <2>1 DEF RestTypes, Running
  <2>3. RestTypes' /\ GivesUpOnce'
    BY <2>1, <2>2 DEF RestTypes, GivesUpOnce
  <2>4. QED
    BY <2>1, <2>2, <2>3, SocketsLeftAlone
<1>4. QED
  BY <1>1, <1>2, <1>3
(* At the start a peer has a socket to every other one. *)
LEMMA ScanInit == VInit => ScanInv
<1> SUFFICES ASSUME VInit
             PROVE  ScanInv
  OBVIOUS
<1>1. FlowInv
  BY FlowInit
<1>2. ASSUME NEW p \in Peers
      PROVE  /\ Without(PeerOrder, {p}) \in Seq(Peers)
             /\ Range(Without(PeerOrder, {p})) = Peers \ {p}
             /\ IsInjective(Without(PeerOrder, {p}))
  BY PeerOrderAssumption, WithoutKeepsTheOthers
<1>3. RestTypes
  <2>1. c_sockets \in [Peers -> Seq(Peers)]
    BY <1>2 DEF VInit
  <2>2. QED
    BY <2>1 DEF VInit, RestTypes
<1>4. GivesUpOnce
  BY DEF VInit, GivesUpOnce
<1>5. SocketsAndBlackList
  BY <1>2 DEF VInit, SocketsAndBlackList
<1>6. QED
  BY <1>1, <1>3, <1>4, <1>5 DEF ScanInv

(* The invariant is inductive. *)
LEMMA ScanStep == ScanInv /\ [VNext]_vvars => ScanInv'
<1> SUFFICES ASSUME ScanInv, [VNext]_vvars
             PROVE  ScanInv'
  OBVIOUS
<1>1. FlowInv'
  BY FlowStep DEF ScanInv
<1>2. CASE UNCHANGED vvars
  BY <1>2 DEF vvars, vars, wires, lists, scan, help, ScanInv, FlowInv, RestTypes,
              GivesUpOnce, SocketsAndBlackList, Running, FlowTypes, TypeOK, Sourced
<1>3. ASSUME NEW p \in Peers, ScanThread(p)
      PROVE  RestTypes' /\ GivesUpOnce' /\ SocketsAndBlackList'
  BY <1>3, AdvanceScans, TopScans, PassScans, EndPassScans DEF ScanThread
<1>4. ASSUME NEW p \in Peers, ServerThread(p)
      PROVE  RestTypes' /\ GivesUpOnce' /\ SocketsAndBlackList'
  BY <1>4, ServerScans
<1>5. ASSUME NEW p \in Peers, CheckThreads(p)
      PROVE  RestTypes' /\ GivesUpOnce' /\ SocketsAndBlackList'
  BY <1>5, CheckScans
<1>6. QED
  BY <1>1, <1>2, <1>3, <1>4, <1>5 DEF VNext, ScanInv

(* What the scan threads rely on holds throughout. *)
THEOREM ScanInvariant == VSpec => []ScanInv
  BY ScanInit, ScanStep, PTL DEF VSpec

(* The state of a validator is well typed, for every crowd, wave and order *)
(* of the network file: in particular the housekeeping only looks at       *)
(* rounds the DAG has, and last_round-- happens at most once.              *)
THEOREM ValidatorsTypeCorrect == VSpec => []ValidatorsTypeOK
<1>1. ScanInv => ValidatorsTypeOK
  BY DEF ScanInv, FlowInv, FlowTypes, RestTypes, ValidatorsTypeOK
<1>2. QED
  BY <1>1, ScanInvariant, PTL

(* The sockets of a running peer are those of the peers it has not given   *)
(* up on, one for each (the two loops of total_order, and EndPass).        *)
THEOREM SocketsAndBlackListHold == VSpec => []SocketsAndBlackList
<1>1. ScanInv => SocketsAndBlackList
  BY DEF ScanInv
<1>2. QED
  BY <1>1, ScanInvariant, PTL

(* The sockets of a peer are as many as the peers it has not given up on.  *)
LEMMA SocketsByCounting ==
  ASSUME NEW s \in Seq(Peers), NEW B \in SUBSET Peers, NEW p \in Peers,
         Range(s) = Peers \ (B \cup {p})
  PROVE  /\ Len(s) \in Nat /\ Cardinality(B) \in Nat /\ Crowd \in Nat
         /\ Len(s) >= Crowd - Cardinality(B) - 1
<1> DEFINE given == B \cup {p}
<1>1. /\ IsFiniteSet(Peers) /\ Crowd = Cardinality(Peers) /\ Crowd \in Nat
      /\ IsFiniteSet(B) /\ Cardinality(B) \in Nat
  BY PeersAssumption, FS_Subset, FS_CardinalityType DEF Crowd
<1>2. /\ given \in SUBSET Peers
      /\ IsFiniteSet(given) /\ Cardinality(given) \in Nat
      /\ Cardinality(given) <= Cardinality(B) + 1
  <2>0. given \in SUBSET Peers
    OBVIOUS
  <2>1. CASE p \in B
    <3>1. given = B
      BY <2>1
    <3> HIDE DEF given
    <3>2. QED
      BY <1>1, <2>0, <3>1
  <2>2. CASE p \notin B
    <3>1. IsFiniteSet(given) /\ Cardinality(given) = Cardinality(B) + 1
      BY <1>1, <2>2, FS_AddElement
    <3> HIDE DEF given
    <3>2. QED
      BY <1>1, <2>0, <3>1
  <2>3. QED
    BY <2>1, <2>2
<1>3. Range(s) = Peers \ given
  OBVIOUS
<1> HIDE DEF given
<1>4. Cardinality(Peers \ given) = Crowd - Cardinality(given)
  <2>1. Peers \cap given = given
    BY <1>2
  <2>2. Cardinality(Peers \ given) = Cardinality(Peers) - Cardinality(Peers \cap given)
    BY <1>1, FS_Difference
  <2>3. QED
    BY <1>1, <2>1, <2>2
<1>5. Cardinality(Peers \ given) <= Len(s)
  <2>1. s \in Surjection(1 .. Len(s), Range(s))
    BY DEF Range, Surjection
  <2>2. PICK len \in Nat : len = Len(s)
    OBVIOUS
  <2>3. IsFiniteSet(1 .. len) /\ Cardinality(1 .. len) = IF 1 > len THEN 0 ELSE len - 1 + 1
    <3>1. 1 \in Int /\ len \in Int
      OBVIOUS
    <3>2. QED
      BY <3>1, FS_Interval
  <2>4. Cardinality(1 .. len) = len
    BY <2>3
  <2>5. IsFiniteSet(1 .. Len(s)) /\ Cardinality(1 .. Len(s)) = Len(s)
    BY <2>2, <2>3, <2>4
  <2>6. Cardinality(Range(s)) <= Cardinality(1 .. Len(s))
    BY <2>1, <2>5, FS_Surjection
  <2>7. QED
    BY <1>3, <2>5, <2>6
<1>6. Len(s) \in Nat
  OBVIOUS
<1>7. QED
  BY <1>1, <1>2, <1>4, <1>5, <1>6

(* What is left of a peer that does not run any more.  Its scan thread has *)
(* left for a reason; and its sockets are those of the peers it has not    *)
(* given up on, as they were when it died, or it has left before.          *)
GoneInv ==
  \A p \in Peers :
    /\ pc[p] = "left" => Leaves(p)
    /\ \/ Running(p)
       \/ Range(c_sockets[p]) = Peers \ (black_list[p] \cup {p})
       \/ Leaves(p)

(* What a reason to leave and the sockets are made of. *)
SameScan(p) ==
  /\ round'[p] = round[p] /\ stop'[p] = stop[p]
  /\ black_list'[p] = black_list[p] /\ c_sockets'[p] = c_sockets[p]

(* The threads of a peer change only its own,                              *)
LEMMA OthersStay ==
  ASSUME ScanInv, NEW p \in Peers, NEW q \in Peers, p # q,
         ScanThread(q) \/ ServerThread(q) \/ CheckThreads(q)
  PROVE  SameScan(p) /\ pc'[p] = pc[p]
<1> USE DEF ScanInv, RestTypes, SameScan
<1>0. TypeOK
  BY DEF FlowInv, FlowTypes
<1>1. CASE Advance(q)
  <2>1. /\ pc' = [pc EXCEPT ![q] = "wait"] /\ stop' = stop
        /\ round' = [round EXCEPT ![q] = @ + 1] /\ Housekeeping(q)
    BY <1>1 DEF Advance, Propose
  <2>2. black_list'[p] = black_list[p] /\ c_sockets'[p] = c_sockets[p]
    BY <2>1 DEF Housekeeping, TotalOrder, help
  <2>3. QED
    BY <1>0, <2>1, <2>2 DEF TypeOK
<1>2. CASE Crash(q) \/ AskForHelp(q) \/ GiveUp(q) \/ Idle(q) \/ Wake(q) \/ EndPass(q)
  BY <1>2 DEF Crash, AskForHelp, GiveUp, Idle, Wake, EndPass, vars, scan, help
<1>3. ASSUME NEW v \in unvisited[q], Visit(q, v)
      PROVE  SameScan(p) /\ pc'[p] = pc[p]
  BY <1>3 DEF Visit, Take, Postpone, vars, help
<1>4. CASE ServerThread(q)
  BY <1>4 DEF ServerThread, ReceiveVertex, ReceiveRequest, Handoff, vars, scan, help
<1>5. CASE CheckThreads(q)
  BY <1>5 DEF CheckThreads, Check, CheckCrash, vars, scan, help
<1>6. QED
  BY <1>1, <1>2, <1>3, <1>4, <1>5 DEF ScanThread

(* and where a peer does not run any more after a step, it has died in it, *)
(* left in it or was gone before.                                          *)
LEMMA GoneSteps ==
  ASSUME ScanInv, [VNext]_vvars, NEW p \in Peers, ~ Running(p)'
  PROVE  \/ SameScan(p) /\ pc'[p] \in {pc[p], "crashed"}
         \/ EndPass(p)
<1> USE DEF ScanInv, RestTypes
<1> DEFINE Goal == \/ SameScan(p) /\ pc'[p] \in {pc[p], "crashed"}
                   \/ EndPass(p)
<1>1. CASE UNCHANGED vvars
  BY <1>1 DEF vvars, vars, scan, help, SameScan
<1>2. ASSUME NEW q \in Peers, q # p,
             ScanThread(q) \/ ServerThread(q) \/ CheckThreads(q)
      PROVE  Goal
  BY <1>2, OthersStay
<1>3. ASSUME Advance(p) \/ AskForHelp(p) \/ GiveUp(p) \/ Idle(p) \/ Wake(p)
      PROVE  FALSE
  <2>1. pc' = [pc EXCEPT ![p] = "wait"] \/ pc' = [pc EXCEPT ![p] = "pass"]
    BY <1>3 DEF Advance, AskForHelp, GiveUp, Idle, Wake
  <2>2. QED
    BY <2>1 DEF Running
<1>4. CASE Crash(p)
  BY <1>4 DEF Crash, vars, help, SameScan
<1>5. ASSUME NEW v \in unvisited[p], Visit(p, v)
      PROVE  Goal
  BY <1>5 DEF Visit, Take, Postpone, vars, help, SameScan
<1>6. CASE ServerThread(p)
  BY <1>6 DEF ServerThread, ReceiveVertex, ReceiveRequest, Handoff, vars, scan, help, SameScan
<1>7. CASE CheckThreads(p)
  BY <1>7 DEF CheckThreads, Check, CheckCrash, vars, scan, help, SameScan
<1>8. QED
  BY <1>1, <1>2, <1>3, <1>4, <1>5, <1>6, <1>7 DEF VNext, ScanThread

(* The invariant is inductive next to that of the scan threads. *)
LEMMA GoneStep == ScanInv /\ GoneInv /\ [VNext]_vvars => GoneInv'
<1> SUFFICES ASSUME ScanInv, GoneInv, [VNext]_vvars, NEW p \in Peers, ~ Running(p)'
             PROVE  /\ (pc[p] = "left" => Leaves(p))'
                    /\ (Range(c_sockets[p]) = Peers \ (black_list[p] \cup {p}))' \/ Leaves(p)'
  BY DEF GoneInv, Running
<1> USE DEF ScanInv, RestTypes
<1>1. CASE SameScan(p) /\ pc'[p] \in {pc[p], "crashed"}
  <2>1. Leaves(p)' <=> Leaves(p)
    BY <1>1 DEF SameScan, Leaves
  <2>2. Range(c_sockets[p]) = Peers \ (black_list[p] \cup {p}) \/ Leaves(p)
    BY DEF GoneInv, SocketsAndBlackList
  <2>3. pc'[p] = "left" => pc[p] = "left"
    BY <1>1
  <2>4. QED
    BY <1>1, <2>1, <2>2, <2>3 DEF GoneInv, SameScan
<1>2. CASE EndPass(p)
  <2>1. /\ pc' = [pc EXCEPT ![p] = IF Leaves(p) THEN "left" ELSE "top"]
        /\ UNCHANGED <<round, stop>>
    BY <1>2 DEF EndPass, vars
  <2>2. Leaves(p)
    BY <2>1 DEF Running
  <2>3. Leaves(p)'
    BY <2>1, <2>2 DEF Leaves
  <2>4. QED
    BY <2>3
<1>3. QED
  BY <1>1, <1>2, GoneSteps

(* Scan threads leave for a reason, and nothing else closes the sockets.   *)
THEOREM GoneInvariant == VSpec => [](ScanInv /\ GoneInv)
<1>1. VInit => GoneInv
  BY DEF VInit, GoneInv, Running
<1>2. QED
  BY <1>1, ScanInit, ScanStep, GoneStep, PTL DEF VSpec

(* A peer that has others finds f + 1 sockets to ask for a vertex, unless  *)
(* it leaves or has given up on more than f of them (make_request).        *)
THEOREM SocketsSufficeHolds ==
  ASSUME Crowd >= 2
  PROVE  VSpec => []SocketsSuffice
<1>1. ScanInv /\ GoneInv => SocketsSuffice
  <2>0. SUFFICES ASSUME ScanInv, GoneInv
                 PROVE  SocketsSuffice
    OBVIOUS
  <2>1. ASSUME NEW p \in Peers, ~ Leaves(p)
        PROVE  \/ Len(c_sockets[p]) > Byzantines(Crowd)
               \/ Cardinality(black_list[p]) > Byzantines(Crowd)
    <3>1. /\ c_sockets[p] \in Seq(Peers) /\ black_list[p] \in SUBSET Peers
          /\ Range(c_sockets[p]) = Peers \ (black_list[p] \cup {p})
      BY <2>0, <2>1 DEF ScanInv, RestTypes, GoneInv, SocketsAndBlackList
    <3>2. /\ Len(c_sockets[p]) \in Nat /\ Cardinality(black_list[p]) \in Nat /\ Crowd \in Nat
          /\ Len(c_sockets[p]) >= Crowd - Cardinality(black_list[p]) - 1
      BY <3>1, SocketsByCounting
    <3>3. Byzantines(Crowd) \in Nat /\ 3 * Byzantines(Crowd) < Crowd
      BY <3>2, CrowdIsPositive, ByzantinesBounds
    <3>4. QED
      BY <3>2, <3>3
  <2>2. ASSUME NEW p \in Peers
        PROVE  /\ Len(c_sockets[p]) \in Nat /\ Cardinality(black_list[p]) \in Nat
               /\ Byzantines(Crowd) \in Nat
    <3>1. black_list[p] \in SUBSET Peers /\ c_sockets[p] \in Seq(Peers)
      BY <2>0 DEF ScanInv, RestTypes
    <3>2. IsFiniteSet(black_list[p])
      BY <3>1, PeersAssumption, FS_Subset
    <3>3. Cardinality(black_list[p]) \in Nat
      BY <3>2, FS_CardinalityType
    <3>4. Len(c_sockets[p]) \in Nat
      BY <3>1
    <3>5. Byzantines(Crowd) \in Nat
      BY CrowdIsPositive, ByzantinesBounds
    <3>6. QED
      BY <3>3, <3>4, <3>5
  <2>3. ASSUME NEW p \in Peers, Len(c_sockets[p]) <= Byzantines(Crowd)
        PROVE  Leaves(p) \/ Cardinality(black_list[p]) > Byzantines(Crowd)
    BY <2>1, <2>2, <2>3
  <2>4. QED
    BY <2>3 DEF SocketsSuffice
<1>2. QED
  BY <1>1, GoneInvariant, PTL
-----------------------------------------------------------------------------
(* Help is at hand.  Nobody is given up on before a quorum of the others   *)
(* has started: the round that lacks a vertex of the peer given up on has  *)
(* been left, with a quorum of vertices of others.                         *)
StartedWithout(q) == {s \in Peers \ {q} : round[s] > 0}

GivenUpByAQuorum ==
  \A p \in Peers : \A q \in black_list[p] :
    Cardinality(StartedWithout(q)) >= RoundQuorum(Crowd)

HelpInv == ScanInv /\ QuorumInv /\ OwnVertices /\ GivenUpByAQuorum

(* What is in the DAG of a peer has been made by a peer that is in that    *)
(* round or beyond.                                                        *)
LEMMA CreatorHasStarted ==
  ASSUME SafeInv, NEW p \in Peers, NEW r \in Rounds, NEW h \in dag_image[p][r]
  PROVE  h[1] = r /\ h[2] \in Peers /\ h = <<r, h[2]>> /\ round[h[2]] >= r
<1> USE DEF SafeInv
<1>1. h[1] = r /\ Knows(p, h) /\ h \in Hashes
  BY DEF DagIsKnown, TypeOK
<1>2. PICK v \in vertex_map[p] : Hash(v) = h
  BY <1>1 DEF Knows
<1>3. v \in Vertices
  BY DEF TypeOK
<1>4. v.round = r /\ v.peer_id = h[2] /\ v.peer_id \in Peers
  BY <1>1, <1>2, <1>3, HashType
<1>5. round[v.peer_id] >= v.round
  BY DEF Authentic
<1>6. QED
  BY <1>1, <1>4, <1>5 DEF Hashes

(* The peers total_order finds absent. *)
LEMMA AbsentIsOutnumbered ==
  ASSUME QuorumInv, NEW p \in Peers, StillProposing(p),
         NEW q \in Absent(p, OrderWindow(Wave, round[p]))
  PROVE  Cardinality(StartedWithout(q)) >= RoundQuorum(Crowd)
<1> USE DEF QuorumInv, SafeInv
<1>1. round[p] \in 0 .. LastRound
  BY LastRoundAssumption DEF TypeOK, StillProposing
<1>2. PICK r \in OrderWindow(Wave, round[p]) : <<r, q>> \notin dag_image[p][r]
  BY DEF Absent, Incomplete
<1>3. r \in Rounds /\ r < round[p]
  <2>1. r \in Rounds
    BY <1>1, WindowsAreRounds
  <2>2. r <= round[p] - (Wave + HalfWave(Wave))
    BY DEF OrderWindow, Window
  <2>3. Wave \in Nat \ {0} /\ HalfWave(Wave) \in Nat
    BY WaveAssumption DEF HalfWave
  <2>4. QED
    BY <1>1, <2>1, <2>2, <2>3 DEF Rounds
<1> DEFINE H == dag_image[p][r]
           T == StartedWithout(q)
<1>4. H \in SUBSET Hashes /\ Cardinality(H) >= RoundQuorum(Crowd)
  BY <1>3 DEF QuorumBehind, TypeOK
<1>5. ASSUME NEW h \in H
      PROVE  h[1] = r /\ h[2] \in T
  <2>1. h[1] = r /\ h[2] \in Peers /\ h = <<r, h[2]>> /\ round[h[2]] >= r
    BY <1>3, CreatorHasStarted
  <2>2. h[2] # q
    BY <1>2, <2>1
  <2>3. round[h[2]] > 0
    BY <1>3, <2>1 DEF Rounds, TypeOK
  <2>4. QED
    BY <2>1, <2>2, <2>3 DEF StartedWithout
<1>6. T \in SUBSET Peers
  BY DEF StartedWithout
<1> HIDE DEF H, T
<1>7. Cardinality(H) <= Cardinality(T)
  BY <1>4, <1>5, <1>6, CreatorsOfHashes
<1>8. Cardinality(H) \in Nat /\ Cardinality(T) \in Nat
  BY <1>4, <1>6, HashesAreFinite, PeersAssumption, FS_Subset, FS_CardinalityType
<1>9. QED
  BY <1>4, <1>7, <1>8, QuorumIsPositive DEF T

(* Who has started has started for good. *)
LEMMA StartedGrow ==
  ASSUME TypeOK, [Next]_vars, NEW q \in Peers
  PROVE  /\ Cardinality(StartedWithout(q)) \in Nat
         /\ Cardinality(StartedWithout(q))' \in Nat
         /\ Cardinality(StartedWithout(q)) <= Cardinality(StartedWithout(q))'
<1>1. ASSUME NEW s \in Peers, round[s] > 0
      PROVE  round'[s] > 0
  <2>1. CASE Propose(s)
    BY <1>1, <2>1 DEF Propose, TypeOK
  <2>2. CASE ~ Propose(s)
    <3>1. round'[s] = round[s]
      BY <2>2 DEF Next, Step, Propose, Learn, Admit, vars, TypeOK
    <3>2. QED
      BY <1>1, <3>1
  <2>3. QED
    BY <2>1, <2>2
<1> DEFINE T == StartedWithout(q)
           U == StartedWithout(q)'
<1>2. T \in SUBSET U /\ T \in SUBSET Peers /\ U \in SUBSET Peers
  BY <1>1 DEF StartedWithout
<1> HIDE DEF T, U
<1>3. IsFiniteSet(T) /\ IsFiniteSet(U)
  BY <1>2, PeersAssumption, FS_Subset
<1>4. Cardinality(T) \in Nat /\ Cardinality(U) \in Nat /\ Cardinality(T) <= Cardinality(U)
  BY <1>2, <1>3, FS_Subset, FS_CardinalityType
<1>5. QED
  BY <1>4 DEF T, U

(* The black list of a peer grows when it leaves a round, and then only.   *)
LEMMA BlackListGrows ==
  ASSUME RestTypes, [VNext]_vvars
  PROVE  \/ UNCHANGED black_list
         \/ \E p \in Peers :
              /\ StillProposing(p)
              /\ \A q \in Peers \ {p} : black_list'[q] = black_list[q]
              /\ black_list'[p] = black_list[p] \cup Absent(p, OrderWindow(Wave, round[p]))
<1> DEFINE Claim == \/ UNCHANGED black_list
                    \/ \E p \in Peers :
                        /\ StillProposing(p)
                        /\ \A q \in Peers \ {p} : black_list'[q] = black_list[q]
                        /\ black_list'[p] = black_list[p] \cup Absent(p, OrderWindow(Wave, round[p]))
<1>1. ASSUME NEW p \in Peers, Advance(p)
      PROVE  Claim
  <2>1. Housekeeping(p) /\ StillProposing(p)
    BY <1>1 DEF Advance, Propose
  <2>2. CASE TotalOrder(p, OrderWindow(Wave, round[p]))
    <3>1. black_list' = [black_list EXCEPT ![p] = @ \cup Absent(p, OrderWindow(Wave, round[p]))]
      BY <2>2 DEF TotalOrder
    <3>2. /\ \A q \in Peers \ {p} : black_list'[q] = black_list[q]
          /\ black_list'[p] = black_list[p] \cup Absent(p, OrderWindow(Wave, round[p]))
      BY <3>1 DEF RestTypes
    <3>3. QED
      BY <2>1, <3>2
  <2>3. CASE UNCHANGED black_list
    BY <2>3
  <2>4. QED
    BY <2>1, <2>2, <2>3 DEF Housekeeping, help
<1>2. ASSUME NEW p \in Peers, ScanThread(p), ~ Advance(p)
      PROVE  UNCHANGED black_list
  BY <1>2 DEF ScanThread, Crash, AskForHelp, GiveUp, Idle, Wake, Visit, EndPass, help
<1>3. ASSUME NEW p \in Peers, ServerThread(p) \/ CheckThreads(p)
      PROVE  UNCHANGED black_list
  BY <1>3 DEF ServerThread, ReceiveVertex, ReceiveRequest, Handoff,
              CheckThreads, Check, CheckCrash, help
<1>4. CASE UNCHANGED vvars
  BY <1>4 DEF vvars, help
<1>5. QED
  BY <1>1, <1>2, <1>3, <1>4 DEF VNext

(* The invariant is inductive. *)
LEMMA HelpStep == HelpInv /\ [VNext]_vvars => HelpInv'
<1> SUFFICES ASSUME HelpInv, [VNext]_vvars
             PROVE  HelpInv'
  OBVIOUS
<1>1. ScanInv' /\ RestTypes
  BY ScanStep DEF HelpInv, ScanInv
<1>2. [Next]_vars /\ TypeOK
  BY StepMaps DEF HelpInv, ScanInv, FlowInv, FlowTypes
<1>3. QuorumInv' /\ OwnVertices'
  BY <1>2, QuorumStep, OwnVerticesStep DEF HelpInv
<1>4. ASSUME NEW p \in Peers, NEW q \in black_list'[p]
      PROVE  Cardinality(StartedWithout(q))' >= RoundQuorum(Crowd)
  <2>1. q \in Peers
    BY <1>1, <1>4 DEF ScanInv, RestTypes
  <2>2. Cardinality(StartedWithout(q)) >= RoundQuorum(Crowd)
    <3>1. CASE q \in black_list[p]
      BY <3>1 DEF HelpInv, GivenUpByAQuorum
    <3>2. CASE q \notin black_list[p]
      <4>1. StillProposing(p) /\ q \in Absent(p, OrderWindow(Wave, round[p]))
        BY <1>1, <1>4, <3>2, BlackListGrows
      <4>2. QED
        BY <4>1, AbsentIsOutnumbered DEF HelpInv
    <3>3. QED
      BY <3>1, <3>2
  <2>3. RoundQuorum(Crowd) \in Nat
    BY QuorumIsPositive
  <2>4. QED
    BY <1>2, <2>1, <2>2, <2>3, StartedGrow
<1>5. GivenUpByAQuorum'
  BY <1>4 DEF GivenUpByAQuorum
<1>6. QED
  BY <1>1, <1>3, <1>5 DEF HelpInv

(* It holds at the start. *)
LEMMA HelpInit == VInit => HelpInv
<1> SUFFICES ASSUME VInit
             PROVE  HelpInv
  OBVIOUS
<1>1. ScanInv /\ QuorumInv
  BY ScanInit, QuorumInit DEF VInit
<1>2. OwnVertices
  BY DEF VInit, Init, OwnVertices, Rounds
<1>3. GivenUpByAQuorum
  BY DEF VInit, GivenUpByAQuorum
<1>4. QED
  BY <1>1, <1>2, <1>3 DEF HelpInv

(* A round without the vertex of some peer is incomplete. *)
LEMMA LackingIsIncomplete ==
  ASSUME SafeInv, NEW p \in Peers, NEW q \in Peers, NEW r \in Rounds,
         ~ Knows(p, <<r, q>>)
  PROVE  Cardinality(dag_image[p][r]) < Crowd
<1> USE DEF SafeInv
<1> DEFINE H == dag_image[p][r]
           T == Peers \ {q}
<1>1. H \in SUBSET Hashes /\ T \in SUBSET Peers
  BY DEF TypeOK
<1>2. ASSUME NEW h \in H
      PROVE  h[1] = r /\ h[2] \in T
  <2>1. h[1] = r /\ h[2] \in Peers /\ h = <<r, h[2]>>
    BY CreatorHasStarted
  <2>2. Knows(p, h)
    BY DEF DagIsKnown
  <2>3. QED
    BY <2>1, <2>2
<1>3. /\ IsFiniteSet(Peers) /\ Crowd = Cardinality(Peers) /\ Crowd \in Nat
      /\ Cardinality(T) = Crowd - 1
  BY PeersAssumption, FS_RemoveElement, FS_CardinalityType DEF Crowd
<1> HIDE DEF H, T
<1>4. Cardinality(H) <= Cardinality(T) /\ Cardinality(H) \in Nat
  BY <1>1, <1>2, CreatorsOfHashes, HashesAreFinite
<1>5. QED
  BY <1>3, <1>4 DEF H

(* When the peers of R are a quorum at most and nobody else has started,   *)
(* none of them has been given up on: that takes a quorum of others.       *)
LEMMA NobodyIsGivenUp ==
  ASSUME HelpInv, NEW R \in SUBSET Peers,
         Cardinality(R) <= RoundQuorum(Crowd),
         \A s \in Peers \ R : round[s] = 0,
         NEW p \in Peers, NEW q \in R
  PROVE  q \notin black_list[p]
<1> SUFFICES ASSUME q \in black_list[p]
             PROVE  FALSE
  OBVIOUS
<1>1. Cardinality(StartedWithout(q)) >= RoundQuorum(Crowd)
  BY DEF HelpInv, GivenUpByAQuorum
<1> DEFINE T == StartedWithout(q)
           U == R \ {q}
<1>2. T \in SUBSET U
  BY DEF StartedWithout
<1>3. /\ IsFiniteSet(R) /\ Cardinality(R) \in Nat
      /\ IsFiniteSet(U) /\ Cardinality(U) = Cardinality(R) - 1
  BY PeersAssumption, FS_Subset, FS_RemoveElement, FS_CardinalityType
<1> HIDE DEF T, U
<1>4. Cardinality(T) <= Cardinality(U) /\ Cardinality(T) \in Nat
  BY <1>2, <1>3, FS_Subset, FS_CardinalityType
<1>5. QED
  BY <1>1, <1>3, <1>4, QuorumIsPositive DEF T

(* So whoever has given up on somebody has not given up on R, and R is a   *)
(* quorum: there are sockets enough.                                       *)
LEMMA SocketsForTheQuorum ==
  ASSUME HelpInv, NEW R \in SUBSET Peers,
         Cardinality(R) <= RoundQuorum(Crowd),
         \A s \in Peers \ R : round[s] = 0,
         NEW p \in R, NEW q \in R, p # q, Running(p)
  PROVE  Len(c_sockets[p]) > Byzantines(Crowd)
<1> USE DEF HelpInv
<1> DEFINE B == black_list[p]
<1>1. /\ c_sockets[p] \in Seq(Peers) /\ B \in SUBSET Peers
      /\ Range(c_sockets[p]) = Peers \ (B \cup {p})
  BY DEF ScanInv, RestTypes, SocketsAndBlackList
<1>2. B \in SUBSET (Peers \ R)
  BY <1>1, NobodyIsGivenUp
<1>3. \A s \in B : Cardinality(StartedWithout(s)) >= RoundQuorum(Crowd)
  BY DEF GivenUpByAQuorum
<1> HIDE DEF B
<1>4. /\ Len(c_sockets[p]) \in Nat /\ Cardinality(B) \in Nat /\ Crowd \in Nat
      /\ Len(c_sockets[p]) >= Crowd - Cardinality(B) - 1
  BY <1>1, SocketsByCounting
<1>5. /\ IsFiniteSet(R) /\ Cardinality(R) \in Nat /\ Cardinality(R) >= 2
  <2>1. IsFiniteSet(R) /\ Cardinality(R) \in Nat
    BY PeersAssumption, FS_Subset, FS_CardinalityType
  <2>2. {p} \cup {q} \in SUBSET R /\ Cardinality({p} \cup {q}) = 2
    <3>1. IsFiniteSet({p}) /\ Cardinality({p}) = 1
      BY FS_Singleton
    <3>2. Cardinality({p} \cup {q}) = 2
      BY <3>1, FS_AddElement
    <3>3. QED
      BY <3>2
  <2>3. Cardinality({p} \cup {q}) <= Cardinality(R)
    BY <2>1, <2>2, FS_Subset
  <2>4. QED
    BY <2>1, <2>2, <2>3
<1>6. /\ Byzantines(Crowd) \in Nat /\ 3 * Byzantines(Crowd) < Crowd
      /\ RoundQuorum(Crowd) = 2 * Byzantines(Crowd) + 1
  BY CrowdIsPositive, ByzantinesBounds DEF RoundQuorum
<1>7. Byzantines(Crowd) >= 1
  BY <1>5, <1>6
<1>8. Cardinality(B) <= Crowd - RoundQuorum(Crowd)
  <2>1. CASE B = {}
    <3>1. Cardinality(B) = 0
      BY <2>1, FS_EmptySet
    <3>2. QED
      BY <1>4, <1>6, <3>1
  <2>2. ASSUME NEW s \in B
        PROVE  Cardinality(B) <= Crowd - RoundQuorum(Crowd)
    <3>1. StartedWithout(s) \in SUBSET R
      BY <1>2 DEF StartedWithout
    <3>2. Cardinality(StartedWithout(s)) <= Cardinality(R) /\ Cardinality(StartedWithout(s)) \in Nat
      <4>1. Cardinality(StartedWithout(s)) <= Cardinality(R) /\ IsFiniteSet(StartedWithout(s))
        BY <1>5, <3>1, FS_Subset
      <4>2. QED
        BY <4>1, FS_CardinalityType
    <3>3. Cardinality(R) = RoundQuorum(Crowd)
      BY <1>3, <1>5, <1>6, <3>2
    <3>4. IsFiniteSet(Peers \ R) /\ Cardinality(Peers \ R) = Crowd - Cardinality(R)
      <4>1. Peers \cap R = R
        OBVIOUS
      <4>2. QED
        BY <4>1, PeersAssumption, FS_Difference DEF Crowd
    <3>5. Cardinality(B) <= Cardinality(Peers \ R)
      BY <1>2, <3>4, FS_Subset
    <3>6. QED
      BY <1>4, <1>5, <3>3, <3>4, <3>5
  <2>3. QED
    BY <2>1, <2>2
<1>9. QED
  BY <1>4, <1>6, <1>7, <1>8

(* However many messages were lost before, as long as those that have      *)
(* started are a quorum at most, each of them can get the vertices it      *)
(* lacks in its round: while it runs it asks for them (dag_scan,           *)
(* check_round) on sockets it has, has not black-listed their creators,    *)
(* and these know them and are there to answer, unless they have died or   *)
(* have come to the end, which is not below the last round.                *)
THEOREM HelpForTheQuorumHolds == VSpec => []HelpForTheQuorum
<1>1. HelpInv /\ GoneInv => HelpForTheQuorum
  <2> SUFFICES ASSUME HelpInv, GoneInv, NEW R \in SUBSET Peers,
                      Cardinality(R) <= RoundQuorum(Crowd),
                      \A s \in Peers \ R : round[s] = 0,
                      NEW p \in R, NEW q \in R,
                      round[p] \in 1 .. LastRound - 1, round[p] <= round[q],
                      ~ Knows(p, <<round[p], q>>)
               PROVE  /\ round[p] \in Incomplete(p, HelpWindow(Wave, round[p]))
                      /\ IsAskedFor(p, <<round[p], q>>)
                      /\ Running(p) => Len(c_sockets[p]) > Byzantines(Crowd)
                      /\ Knows(q, <<round[p], q>>)
                      /\ LeavesInTime(p) /\ LeavesInTime(q)
    BY DEF HelpForTheQuorum, HelpIsAtHand
  <2> USE DEF HelpInv, QuorumInv
  <2>1. round[p] \in Rounds
    BY LastRoundAssumption DEF Rounds
  <2>2. round[p] \in HelpWindow(Wave, round[p])
    BY WaveAssumption DEF HelpWindow, Window
  <2>3. round[p] \in Incomplete(p, HelpWindow(Wave, round[p]))
    BY <2>1, <2>2, LackingIsIncomplete DEF Incomplete
  <2>4. q \notin black_list[p]
    BY NobodyIsGivenUp
  <2>5. Knows(q, <<round[p], q>>)
    BY <2>1 DEF OwnVertices, SafeInv, DagIsKnown
  <2>6. p # q
    BY <2>5
  <2>7. Running(p) => Len(c_sockets[p]) > Byzantines(Crowd)
    BY <2>6, SocketsForTheQuorum
  <2>8. ASSUME NEW s \in Peers
        PROVE  LeavesInTime(s)
    <3>1. pc[s] = "left" => Leaves(s)
      BY DEF GoneInv
    <3>2. round[s] \in Nat /\ LastRound \in Nat /\ stop[s] \in {LastRound, LastRound - 1}
      BY LastRoundAssumption DEF ScanInv, RestTypes, SafeInv, TypeOK
    <3>3. QED
      BY <3>1, <3>2 DEF Leaves, LeavesInTime
  <2>9. QED
    BY <2>3, <2>4, <2>5, <2>7, <2>8 DEF IsAskedFor
<1>2. QED
  BY <1>1, GoneInvariant, HelpInit, HelpStep, PTL DEF VSpec
(* Among a quorum of peers at most that have started, whoever has left a   *)
(* round has all of it; so a vertex on the next round waits for nothing.   *)
(* The guard of buffer_scan_move_round, and the test of mutual_history,    *)
(* against the window of the call for help.                                *)
THEOREM HelpIsEnoughHolds == VSpec => []HelpIsEnough
<1>1. QuorumInv => HelpIsEnough
  <2>0. SUFFICES ASSUME QuorumInv, NEW R \in SUBSET Peers,
                        Cardinality(R) <= RoundQuorum(Crowd),
                        \A s \in Peers \ R : round[s] = 0,
                        NEW p \in R, NEW q \in R, NEW v \in vertex_map[q],
                        RoundReached(p, v), v.round > 1,
                        NEW h \in v.references,
                        h \notin dag_image[p][v.round - 1]
                 PROVE  FALSE
    BY DEF HelpIsEnough, MutualHistory
  <2> DEFINE r == v.round - 1
             D == dag_image[p][r]
  <2>1. SafeInv /\ QuorumBehind /\ TypeOK
    BY <2>0 DEF QuorumInv, SafeInv
  <2>2. v \in Vertices /\ v.peer_id \in Peers /\ v.round \in Nat
    BY <2>1 DEF TypeOK, Vertices, Rounds
  <2>3. r \in Rounds /\ r \in Nat /\ r >= 1 /\ r < round[p]
    BY <2>0, <2>1, <2>2, LastRoundAssumption
      DEF TypeOK, Vertices, Rounds, RoundReached
  <2>4. h \in dag_image[v.peer_id][r]
    <3>1. v \in vertex_map[v.peer_id] /\ Hash(v) \in dag_image[v.peer_id][v.round]
      BY <2>1 DEF SafeInv, Authentic
    <3>2. QED
      BY <2>0, <2>1, <2>2, <3>1 DEF SafeInv, CausalHistory
  <2>5. h = <<r, h[2]>> /\ h[2] \in R
    <3>1. h[1] = r /\ h[2] \in Peers /\ h = <<r, h[2]>> /\ round[h[2]] >= r
      BY <2>1, <2>2, <2>3, <2>4, CreatorHasStarted
    <3>2. QED
      BY <2>0, <2>3, <3>1
  <2>6. ASSUME NEW g \in D
        PROVE  g[1] = r /\ g[2] \in R \ {h[2]}
    <3>1. g[1] = r /\ g[2] \in Peers /\ g = <<r, g[2]>> /\ round[g[2]] >= r
      BY <2>1, <2>3, CreatorHasStarted
    <3>2. g[2] \in R
      BY <2>0, <2>3, <3>1
    <3>3. g # h
      BY <2>0
    <3>4. QED
      BY <2>5, <3>1, <3>2, <3>3
  <2>7. D \in SUBSET Hashes /\ Cardinality(D) >= RoundQuorum(Crowd)
    BY <2>1, <2>3 DEF QuorumBehind, TypeOK
  <2> HIDE DEF D, r
  <2>8. Cardinality(D) <= Cardinality(R \ {h[2]})
    BY <2>6, <2>7, CreatorsOfHashes
  <2>9. /\ IsFiniteSet(R) /\ Cardinality(R) \in Nat
        /\ Cardinality(R \ {h[2]}) = Cardinality(R) - 1
    BY <2>5, PeersAssumption, FS_Subset, FS_CardinalityType, FS_RemoveElement
  <2>10. Cardinality(D) \in Nat
    BY <2>7, HashesAreFinite
  <2>11. QED
    BY <2>0, <2>7, <2>8, <2>9, <2>10, QuorumIsPositive
<1>2. QED
  BY <1>1, QuorumInvariant, ValidatorsImplementDag, PTL

(* The validators inherit the shared past of the protocol: what enough     *)
(* vertices refer to is in the DAG of everybody two rounds on, and with a  *)
(* crowd of 3f + 1 there is such a vertex in every round, whatever the     *)
(* threads, the loss and the black lists do.                               *)
THEOREM ValidatorsShareThePast ==
  ASSUME NEW f \in Nat, Crowd = 3 * f + 1
  PROVE  VSpec => [](VotedIsShared /\ CommonCore)
  BY CommonCoreHolds, VotedIsSharedHolds, ValidatorsImplementDag, PTL
=============================================================================
