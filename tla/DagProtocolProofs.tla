------------------------- MODULE DagProtocolProofs --------------------------
(***************************************************************************)
(* The DAG, for every finite set of peers and every termination round: its *)
(* safety first, and then what the quorums are for.  Peers move together,  *)
(* vertices of a round build on a common past, and a quorum of live peers  *)
(* never waits for anybody else.                                           *)
(***************************************************************************)
EXTENDS DagProtocol, Integers, FiniteSetTheorems, WellFoundedInduction, TLAPS

(* The DAG image of a peer names only vertices the process holds, each in  *)
(* the entry of its own round: the link between the two containers.        *)
DagIsKnown ==
  \A p \in Peers : \A r \in Rounds : \A h \in dag_image[p][r] :
    h[1] = r /\ Knows(p, h)

(* The part of the invariant that is inductive on its own.                 *)
SafeInv ==
  /\ TypeOK
  /\ DagIsKnown
  /\ SlotsEntered
  /\ Authentic
  /\ NoEquivocation
  /\ CausalHistory

USE LastRoundAssumption
USE DEF HasNextVertex

(* The hash of a vertex names its round and its creator.                   *)
LEMMA HashType ==
  ASSUME NEW v \in Vertices
  PROVE  /\ Hash(v) \in Hashes
         /\ v.round \in Rounds
         /\ v.peer_id \in Peers
         /\ Hash(v)[1] = v.round
         /\ Hash(v)[2] = v.peer_id
  BY DEF Vertices, Hash, Hashes

(* The vertex a peer is about to create has the type of a vertex. *)
LEMMA NewVertexType ==
  ASSUME TypeOK, NEW p \in Peers, HasNextVertex(p)
  PROVE  /\ round[p] + 1 \in Rounds
         /\ NewVertex(p, round[p] + 1) \in Vertices
         /\ NewVertex(p, round[p] + 1).round = round[p] + 1
         /\ NewVertex(p, round[p] + 1).peer_id = p
         /\ Hash(NewVertex(p, round[p] + 1)) = <<round[p] + 1, p>>
<1> DEFINE r == round[p] + 1
<1>1. r \in Rounds /\ (r > 1 => r - 1 \in Rounds)
  BY DEF TypeOK, Rounds
<1>2. (IF r > 1 THEN dag_image[p][r - 1] ELSE {}) \in SUBSET Hashes
  BY <1>1 DEF TypeOK
<1>3. QED
  BY <1>1, <1>2 DEF NewVertex, Vertices, Hash

(* The peers start well typed. *)
LEMMA TypeInit == Init => TypeOK
  BY DEF Init, TypeOK, Rounds

(* Every step of a peer leaves the state well typed: no round, hash or     *)
(* vertex beyond the last round.                                           *)
LEMMA TypeStep == TypeOK /\ [Next]_vars => TypeOK'
<1> SUFFICES ASSUME TypeOK, [Next]_vars PROVE TypeOK'
  OBVIOUS
<1>1. ASSUME NEW p \in Peers, Propose(p) PROVE TypeOK'
  <2>1. round' \in [Peers -> 0 .. LastRound + 1]
    BY <1>1 DEF Propose, StillProposing, TypeOK
  <2>2. CASE HasNextVertex(p)
    <3> DEFINE v == NewVertex(p, round[p] + 1)
    <3>1. v \in Vertices /\ v.round \in Rounds /\ Hash(v) \in Hashes
      BY <2>2, NewVertexType, HashType
    <3>2. /\ vertex_map' = [vertex_map EXCEPT ![p] = @ \cup {v}]
          /\ dag_image' = [dag_image EXCEPT ![p][v.round] = @ \cup {Hash(v)}]
      BY <1>1, <2>2 DEF Propose
    <3> HIDE DEF v
    <3>3. vertex_map' \in [Peers -> SUBSET Vertices]
      BY <3>1, <3>2 DEF TypeOK
    <3>4. dag_image' \in [Peers -> [Rounds -> SUBSET Hashes]]
      BY <3>1, <3>2 DEF TypeOK
    <3>5. QED
      BY <2>1, <3>3, <3>4 DEF TypeOK
  <2>3. CASE ~ HasNextVertex(p)
    BY <1>1, <2>1, <2>3 DEF Propose, TypeOK
  <2>4. QED
    BY <2>2, <2>3
<1>2. ASSUME NEW p \in Peers, NEW q \in Peers, NEW v \in vertex_map[q],
             Learn(p, v)
      PROVE  TypeOK'
  <2>1. v \in Vertices
    BY DEF TypeOK
  <2>2. QED
    BY <1>2, <2>1 DEF Learn, TypeOK
<1>3. ASSUME NEW p \in Peers, NEW v \in vertex_map[p], Admit(p, v)
      PROVE  TypeOK'
  <2>1. v \in Vertices
    BY DEF TypeOK
  <2>2. Hash(v) \in Hashes /\ v.round \in Rounds
    BY <2>1, HashType
  <2>3. dag_image' \in [Peers -> [Rounds -> SUBSET Hashes]]
    BY <1>3, <2>2 DEF Admit, TypeOK
  <2>4. QED
    BY <1>3, <2>3 DEF Admit, TypeOK
<1>4. CASE UNCHANGED vars
  BY <1>4 DEF vars, TypeOK
<1>5. QED
  BY <1>1, <1>2, <1>3, <1>4 DEF Next, Step

(* Type correctness of the DAG protocol. *)
THEOREM TypeCorrect == Spec => []TypeOK
  BY TypeInit, TypeStep, PTL DEF Spec

-----------------------------------------------------------------------------
(* Before the first proposal there is nothing to be unsafe about. *)
LEMMA SafeInit == Init => SafeInv
<1> SUFFICES ASSUME Init PROVE SafeInv
  OBVIOUS
<1>1. TypeOK
  BY TypeInit
<1>2. QED
  BY <1>1 DEF Init, SafeInv, DagIsKnown, SlotsEntered, Authentic,
              NoEquivocation, CausalHistory

(* A vertex about to be created is new: Authentic says that its creator    *)
(* would otherwise have entered its round already.                         *)
LEMMA NewVertexIsFresh ==
  ASSUME SafeInv, NEW p \in Peers, HasNextVertex(p)
  PROVE  /\ \A q \in Peers : \A u \in vertex_map[q] :
              Hash(u) # Hash(NewVertex(p, round[p] + 1))
         /\ dag_image[p][round[p] + 1] = {}
<1>1. ASSUME NEW q \in Peers, NEW u \in vertex_map[q],
             Hash(u) = Hash(NewVertex(p, round[p] + 1))
      PROVE  FALSE
  <2>1. u \in Vertices /\ round[p] \in Nat
    BY DEF SafeInv, TypeOK
  <2>2. u.peer_id = p /\ u.round = round[p] + 1
    BY <1>1, <2>1, NewVertexType DEF Hash, SafeInv
  <2>3. round[p] >= round[p] + 1
    BY <2>2 DEF SafeInv, Authentic
  <2>4. QED
    BY <2>1, <2>3
<1>2. dag_image[p][round[p] + 1] = {}
  BY NewVertexType DEF SafeInv, SlotsEntered, TypeOK
<1>3. QED
  BY <1>1, <1>2

(* Entering a round preserves the invariant. *)
LEMMA ProposeSafe ==
  ASSUME SafeInv, TypeOK', NEW p \in Peers, Propose(p)
  PROVE  SafeInv'
<1> USE DEF SafeInv
<1>1. CASE ~ HasNextVertex(p)
  <2>1. UNCHANGED <<dag_image, vertex_map>>
    BY <1>1 DEF Propose
  <2>2. \A q \in Peers : round[q] \in Nat /\ round'[q] \in Nat /\ round'[q] >= round[q]
    BY DEF Propose, TypeOK
  <2>3. DagIsKnown'
    BY <2>1 DEF DagIsKnown, Knows
  <2>4. SlotsEntered'
    BY <2>1, <2>2 DEF SlotsEntered, Rounds
  <2>5. Authentic'
    <3> SUFFICES ASSUME NEW q \in Peers, NEW v \in vertex_map[q]
                 PROVE  round'[v.peer_id] >= v.round
      BY <2>1 DEF Authentic
    <3>1. v \in Vertices
      BY DEF TypeOK
    <3>2. round[v.peer_id] >= v.round
      BY DEF Authentic
    <3>3. QED
      BY <2>2, <3>1, <3>2 DEF Vertices, Rounds
  <2>6. NoEquivocation' /\ CausalHistory'
    BY <2>1 DEF NoEquivocation, CausalHistory
  <2>7. QED
    BY <2>3, <2>4, <2>5, <2>6
<1>2. CASE HasNextVertex(p)
  <2> DEFINE r == round[p] + 1
             v == NewVertex(p, r)
  <2>1. /\ r \in Rounds
        /\ v \in Vertices
        /\ v.round = r
        /\ v.peer_id = p
        /\ Hash(v) = <<r, p>>
    BY <1>2, NewVertexType
  <2>2. v.round > 1 => v.references = dag_image[p][r - 1]
    BY <2>1 DEF NewVertex
  <2>3. /\ round' = [round EXCEPT ![p] = r]
        /\ vertex_map' = [vertex_map EXCEPT ![p] = @ \cup {v}]
        /\ dag_image' = [dag_image EXCEPT ![p][r] = @ \cup {Hash(v)}]
    BY <1>2, <2>1 DEF Propose
  <2>4. \A q \in Peers : \A u \in vertex_map[q] : Hash(u) # Hash(v)
    BY <1>2, NewVertexIsFresh
  <2> HIDE DEF v
  <2>5. /\ \A q \in Peers : vertex_map[q] \subseteq Vertices
        /\ \A q \in Peers : round[q] \in Nat
        /\ dag_image \in [Peers -> [Rounds -> SUBSET Hashes]]
    BY DEF TypeOK
  <2>6. DagIsKnown'
    <3> SUFFICES ASSUME NEW q \in Peers, NEW s \in Rounds,
                        NEW h \in dag_image'[q][s]
                 PROVE  h[1] = s /\ \E u \in vertex_map'[q] : Hash(u) = h
      BY DEF DagIsKnown, Knows
    <3>1. CASE h \in dag_image[q][s]
      <4>1. h[1] = s /\ \E u \in vertex_map[q] : Hash(u) = h
        BY <3>1 DEF DagIsKnown, Knows
      <4>2. vertex_map[q] \subseteq vertex_map'[q]
        BY <2>3 DEF TypeOK
      <4>3. QED
        BY <4>1, <4>2
    <3>2. CASE h \notin dag_image[q][s]
      <4>1. q = p /\ s = r /\ h = Hash(v)
        BY <2>1, <2>3, <2>5, <3>2
      <4>2. v \in vertex_map'[p]
        BY <2>3 DEF TypeOK
      <4>3. QED
        BY <2>1, <4>1, <4>2
    <3>3. QED
      BY <3>1, <3>2
  <2>7. SlotsEntered'
    <3> SUFFICES ASSUME NEW q \in Peers, NEW s \in Rounds, s > round'[q]
                 PROVE  dag_image'[q][s] = {}
      BY DEF SlotsEntered
    <3>1. s > round[q] /\ ~ (q = p /\ s = r)
      BY <2>1, <2>3, <2>5 DEF Rounds, TypeOK
    <3>2. dag_image'[q][s] = dag_image[q][s]
      BY <2>1, <2>3, <2>5, <3>1
    <3>3. QED
      BY <3>1, <3>2 DEF SlotsEntered
  <2>8. Authentic'
    <3> SUFFICES ASSUME NEW q \in Peers, NEW u \in vertex_map'[q]
                 PROVE  /\ u \in vertex_map'[u.peer_id]
                        /\ round'[u.peer_id] >= u.round
                        /\ Hash(u) \in dag_image'[u.peer_id][u.round]
      BY DEF Authentic
    <3>1. CASE u \in vertex_map[q]
      <4>1. /\ u \in Vertices
            /\ u \in vertex_map[u.peer_id]
            /\ round[u.peer_id] >= u.round
            /\ Hash(u) \in dag_image[u.peer_id][u.round]
        BY <2>5, <3>1 DEF Authentic
      <4>2. u.peer_id \in Peers /\ u.round \in Rounds
        BY <4>1 DEF Vertices
      <4>3. u \in vertex_map'[u.peer_id]
        BY <2>3, <4>1, <4>2 DEF TypeOK
      <4>4. round'[u.peer_id] >= u.round
        BY <2>3, <2>5, <4>1, <4>2 DEF TypeOK, Rounds
      <4>5. Hash(u) \in dag_image'[u.peer_id][u.round]
        BY <2>1, <2>3, <2>5, <4>1, <4>2
      <4>6. QED
        BY <4>3, <4>4, <4>5
    <3>2. CASE u \notin vertex_map[q]
      <4>1. q = p /\ u = v
        BY <2>3, <3>2 DEF TypeOK
      <4>2. v \in vertex_map'[p] /\ round'[p] = r
        BY <2>3 DEF TypeOK
      <4>3. Hash(v) \in dag_image'[p][r]
        BY <2>1, <2>3, <2>5
      <4>4. QED
        BY <2>1, <4>1, <4>2, <4>3 DEF Rounds
    <3>3. QED
      BY <3>1, <3>2
  <2>9. NoEquivocation'
    <3> SUFFICES ASSUME NEW q1 \in Peers, NEW q2 \in Peers,
                        NEW u1 \in vertex_map'[q1], NEW u2 \in vertex_map'[q2],
                        Hash(u1) = Hash(u2)
                 PROVE  u1 = u2
      BY DEF NoEquivocation
    <3>1. /\ u1 \in vertex_map[q1] \/ u1 = v
          /\ u2 \in vertex_map[q2] \/ u2 = v
      BY <2>3 DEF TypeOK
    <3>2. QED
      BY <2>4, <3>1 DEF NoEquivocation
  <2>10. CausalHistory'
    <3> SUFFICES ASSUME NEW q \in Peers, NEW u \in vertex_map'[q],
                        Hash(u) \in dag_image'[q][u.round], u.round > 1
                 PROVE  u.references \subseteq dag_image'[q][u.round - 1]
      BY DEF CausalHistory
    <3>0. \A q1 \in Peers : \A s \in Rounds :
            dag_image[q1][s] \subseteq dag_image'[q1][s]
      BY <2>3, <2>5
    <3>1. CASE u = v /\ q = p
      <4>1. r - 1 \in Rounds
        BY <2>1, <3>1 DEF Rounds
      <4>2. QED
        BY <2>1, <2>2, <3>0, <3>1, <4>1
    <3>2. CASE u \in vertex_map[q]
      <4>1. u \in Vertices /\ u.round \in Rounds /\ Hash(u) # Hash(v)
        BY <2>4, <2>5, <3>2 DEF Vertices
      <4>2. Hash(u) \in dag_image[q][u.round]
        BY <2>3, <2>5, <4>1
      <4>3. u.references \subseteq dag_image[q][u.round - 1]
        BY <3>2, <4>2 DEF CausalHistory
      <4>4. u.round - 1 \in Rounds
        BY <4>1 DEF Rounds
      <4>5. QED
        BY <3>0, <4>3, <4>4
    <3>3. QED
      BY <2>3, <3>1, <3>2 DEF TypeOK
  <2>11. QED
    BY <2>6, <2>7, <2>8, <2>9, <2>10
<1>3. QED
  BY <1>1, <1>2

(* Keeping a received vertex preserves the invariant: its hash is new to   *)
(* the process, so the vertex cannot be in the DAG yet, and its creator    *)
(* goes on holding it.                                                     *)
LEMMA LearnSafe ==
  ASSUME SafeInv, TypeOK', NEW p \in Peers, NEW q \in Peers,
         NEW v \in vertex_map[q], Learn(p, v)
  PROVE  SafeInv'
<1> USE DEF SafeInv
<1>1. /\ \A s \in Peers : vertex_map[s] \subseteq Vertices
      /\ v \in Vertices
  BY DEF TypeOK
<1>2. /\ ~ Knows(p, Hash(v))
      /\ vertex_map' = [vertex_map EXCEPT ![p] = @ \cup {v}]
      /\ UNCHANGED <<round, dag_image>>
  BY DEF Learn
<1>3. \A s \in Peers : vertex_map[s] \subseteq vertex_map'[s]
  BY <1>2 DEF TypeOK
<1>4. \A s \in Peers : \A u \in vertex_map'[s] :
        u \in vertex_map[s] \/ (s = p /\ u = v)
  BY <1>2 DEF TypeOK
<1>5. DagIsKnown' /\ SlotsEntered'
  <2>1. \A s \in Peers, h \in Hashes : Knows(s, h) => Knows(s, h)'
    BY <1>3 DEF Knows
  <2>2. \A s \in Peers, r \in Rounds : dag_image[s][r] \subseteq Hashes
    BY DEF TypeOK
  <2>3. QED
    BY <1>2, <2>1, <2>2 DEF DagIsKnown, SlotsEntered
<1>6. Authentic'
  <2> SUFFICES ASSUME NEW s \in Peers, NEW u \in vertex_map'[s]
               PROVE  /\ u \in vertex_map'[u.peer_id]
                      /\ round[u.peer_id] >= u.round
                      /\ Hash(u) \in dag_image[u.peer_id][u.round]
    BY <1>2 DEF Authentic
  <2>1. PICK s0 \in Peers : u \in vertex_map[s0]
    BY <1>4
  <2>2. u \in Vertices
    BY <1>1, <2>1
  <2>3. u.peer_id \in Peers
    BY <2>2, HashType
  <2>4. QED
    BY <1>3, <2>1, <2>3 DEF Authentic
<1>7. NoEquivocation'
  BY <1>4 DEF NoEquivocation
<1>8. CausalHistory'
  <2> SUFFICES ASSUME NEW s \in Peers, NEW u \in vertex_map'[s],
                      Hash(u) \in dag_image[s][u.round], u.round > 1
               PROVE  u.references \subseteq dag_image[s][u.round - 1]
    BY <1>2 DEF CausalHistory
  <2>1. CASE u \in vertex_map[s]
    BY <2>1 DEF CausalHistory
  <2>2. CASE s = p /\ u = v
    <3>1. Knows(p, Hash(v))
      BY <1>1, <2>2, HashType DEF DagIsKnown
    <3>2. QED
      BY <1>2, <3>1
  <2>3. QED
    BY <1>4, <2>1, <2>2
<1>9. QED
  BY <1>5, <1>6, <1>7, <1>8

(* Moving a waiting vertex into the DAG preserves the invariant: another   *)
(* vertex of the same hash would be the same vertex.                       *)
LEMMA AdmitSafe ==
  ASSUME SafeInv, TypeOK', NEW p \in Peers, NEW v \in vertex_map[p],
         Admit(p, v)
  PROVE  SafeInv'
<1> USE DEF SafeInv
<1>1. /\ \A s \in Peers : vertex_map[s] \subseteq Vertices
      /\ dag_image \in [Peers -> [Rounds -> SUBSET Hashes]]
      /\ v \in Vertices
  BY DEF TypeOK
<1>2. /\ v.round \in Rounds
      /\ Hash(v) \in Hashes
      /\ Hash(v)[1] = v.round
  BY <1>1, HashType
<1>3. /\ dag_image' = [dag_image EXCEPT ![p][v.round] = @ \cup {Hash(v)}]
      /\ UNCHANGED <<round, vertex_map>>
  BY DEF Admit
<1>4. \A s \in Peers, r \in Rounds : dag_image[s][r] \subseteq dag_image'[s][r]
  BY <1>1, <1>2, <1>3
<1>5. \A s \in Peers, r \in Rounds : \A h \in dag_image'[s][r] :
        h \in dag_image[s][r] \/ (s = p /\ r = v.round /\ h = Hash(v))
  BY <1>1, <1>2, <1>3
<1>6. DagIsKnown'
  <2>1. Knows(p, Hash(v))
    BY DEF Knows
  <2>2. \A s, h : Knows(s, h)' <=> Knows(s, h)
    BY <1>3 DEF Knows
  <2>3. QED
    BY <1>2, <1>5, <2>1, <2>2 DEF DagIsKnown
<1>7. SlotsEntered'
  <2>1. round[p] >= v.round /\ round[p] \in Nat /\ v.round \in Nat
    BY <1>2 DEF Admit, CanAdmit, RoundReached, TypeOK, Rounds
  <2>2. ASSUME NEW s \in Peers, NEW r \in Rounds, r > round[s]
        PROVE  dag_image'[s][r] = {}
    <3>1. dag_image[s][r] = {}
      BY <2>2 DEF SlotsEntered
    <3>2. ~ (s = p /\ r = v.round)
      BY <2>1, <2>2
    <3>3. QED
      BY <1>5, <3>1, <3>2
  <2>3. QED
    BY <1>3, <2>2 DEF SlotsEntered
<1>8. Authentic'
  <2> SUFFICES ASSUME NEW s \in Peers, NEW u \in vertex_map[s]
               PROVE  Hash(u) \in dag_image'[u.peer_id][u.round]
    BY <1>3 DEF Authentic
  <2>1. u.peer_id \in Peers /\ u.round \in Rounds
    BY <1>1, HashType
  <2>2. QED
    BY <1>4, <2>1 DEF Authentic
<1>9. NoEquivocation'
  BY <1>3 DEF NoEquivocation
<1>10. CausalHistory'
  <2> SUFFICES ASSUME NEW s \in Peers, NEW u \in vertex_map[s],
                      Hash(u) \in dag_image'[s][u.round], u.round > 1
               PROVE  u.references \subseteq dag_image'[s][u.round - 1]
    BY <1>3 DEF CausalHistory
  <2>1. u \in Vertices /\ u.round \in Rounds
    BY <1>1, HashType
  <2>2. u.round - 1 \in Rounds
    BY <2>1 DEF Rounds
  <2>3. u.references \subseteq dag_image[s][u.round - 1]
    <3>1. CASE Hash(u) \in dag_image[s][u.round]
      BY <3>1 DEF CausalHistory
    <3>2. CASE s = p /\ Hash(u) = Hash(v)
      <4>1. u = v
        BY <3>2 DEF NoEquivocation
      <4>2. QED
        BY <3>2, <4>1 DEF Admit, CanAdmit, MutualHistory
    <3>3. QED
      BY <1>5, <2>1, <3>1, <3>2
  <2>4. QED
    BY <1>4, <2>2, <2>3
<1>11. QED
  BY <1>6, <1>7, <1>8, <1>9, <1>10

(* Each of the three kinds of step preserves the invariant. *)
LEMMA SafeStep == SafeInv /\ [Next]_vars => SafeInv'
<1> SUFFICES ASSUME SafeInv, [Next]_vars PROVE SafeInv'
  OBVIOUS
<1>1. TypeOK'
  BY TypeStep DEF SafeInv
<1>2. ASSUME NEW p \in Peers, Propose(p) PROVE SafeInv'
  BY <1>1, <1>2, ProposeSafe
<1>3. ASSUME NEW p \in Peers, NEW q \in Peers, NEW v \in vertex_map[q],
             Learn(p, v)
      PROVE  SafeInv'
  BY <1>1, <1>3, LearnSafe
<1>4. ASSUME NEW p \in Peers, NEW v \in vertex_map[p], Admit(p, v)
      PROVE  SafeInv'
  BY <1>1, <1>4, AdmitSafe
<1>5. CASE UNCHANGED vars
  BY <1>1, <1>5 DEF vars, SafeInv, DagIsKnown, Knows, SlotsEntered, Authentic,
                    NoEquivocation, CausalHistory
<1>6. QED
  BY <1>2, <1>3, <1>4, <1>5 DEF Next, Step

(* The invariant holds of every behaviour, for every crowd and every       *)
(* termination round.                                                      *)
THEOREM Safety == Spec => []SafeInv
  BY SafeInit, SafeStep, PTL DEF Spec

(* The DAG of a peer is closed under the references of its vertices,       *)
(* whatever the network does to the messages (the buffer scan of           *)
(* buffer_scan_move_round and mutual_history).                             *)
THEOREM CausalHistoryHolds == Spec => []CausalHistory
<1>1. SafeInv => CausalHistory
  BY DEF SafeInv
<1>2. QED
  BY <1>1, Safety, PTL

(* A hash of round and creator stands for one vertex in the whole system.  *)
THEOREM NoEquivocationHolds == Spec => []NoEquivocation
<1>1. SafeInv => NoEquivocation
  BY DEF SafeInv
<1>2. QED
  BY <1>1, Safety, PTL

(* A vertex is known anywhere only after its creator has made it.          *)
THEOREM AuthenticHolds == Spec => []Authentic
<1>1. SafeInv => Authentic
  BY DEF SafeInv
<1>2. QED
  BY <1>1, Safety, PTL

(* No entry of dag_image is written before the peer has entered its round. *)
THEOREM SlotsEnteredHolds == Spec => []SlotsEntered
<1>1. SafeInv => SlotsEntered
  BY DEF SafeInv
<1>2. QED
  BY <1>1, Safety, PTL

-----------------------------------------------------------------------------
(* byzantines is the largest f with 3f < crowd. *)
THEOREM ByzantinesBounds ==
  ASSUME NEW crowd \in Nat \ {0}
  PROVE  /\ Byzantines(crowd) \in Nat
         /\ 3 * Byzantines(crowd) < crowd
         /\ crowd <= 3 * Byzantines(crowd) + 3
  BY DEF Byzantines, CeilThird

(* The two places that compute a threshold agree, and a quorum is a        *)
(* positive number of vertices that the peers alive can supply when        *)
(* byzantines of them are down.                                            *)
THEOREM QuorumIsAttainable ==
  ASSUME NEW crowd \in Nat \ {0}
  PROVE  /\ RoundQuorum(crowd) \in Nat \ {0}
         /\ ServerMajority(crowd) = RoundQuorum(crowd)
         /\ RoundQuorum(crowd) <= crowd - Byzantines(crowd)
  BY ByzantinesBounds DEF RoundQuorum, ServerMajority

(* A crowd of 3f + 1 is the one for which two quorums share more peers     *)
(* than may fail.                                                          *)
THEOREM QuorumsOverlap ==
  ASSUME NEW f \in Nat
  PROVE  /\ Byzantines(3 * f + 1) = f
         /\ 2 * RoundQuorum(3 * f + 1) - (3 * f + 1) > f
  BY DEF Byzantines, CeilThird, RoundQuorum

-----------------------------------------------------------------------------
USE PeersAssumption, LastRoundAssumption DEF HasNextVertex

(* A peer has left a round only with a quorum of that round in its DAG.    *)
QuorumBehind ==
  \A p \in Peers : \A r \in Rounds :
    r < round[p] => Cardinality(dag_image[p][r]) >= RoundQuorum(Crowd)

(* A vertex refers to a quorum of vertices of the round before its own.    *)
QuorumReferenced ==
  \A p \in Peers : \A v \in vertex_map[p] :
    v.round > 1 =>
      /\ \A h \in v.references : h[1] = v.round - 1
      /\ Cardinality(v.references) >= RoundQuorum(Crowd)

QuorumInv == SafeInv /\ QuorumBehind /\ QuorumReferenced

-----------------------------------------------------------------------------
(* There is a peer to count. *)
LEMMA CrowdIsPositive == Crowd \in Nat \ {0}
<1>1. Crowd \in Nat
  BY FS_CardinalityType DEF Crowd
<1>2. Crowd # 0
  BY FS_EmptySet DEF Crowd
<1>3. QED
  BY <1>1, <1>2

(* The quorum of a round is at least one vertex, and the server asks for   *)
(* as many references.                                                     *)
LEMMA QuorumIsPositive ==
  /\ RoundQuorum(Crowd) \in Nat \ {0}
  /\ ServerMajority(Crowd) = RoundQuorum(Crowd)
  BY CrowdIsPositive, QuorumIsAttainable

(* The sets of hashes that are counted are finite. *)
LEMMA HashesAreFinite ==
  ASSUME NEW H \in SUBSET Hashes
  PROVE  IsFiniteSet(H) /\ Cardinality(H) \in Nat
<1>1. IsFiniteSet(Hashes)
  <2>1. IsFiniteSet(Rounds)
    BY FS_Interval DEF Rounds
  <2>2. QED
    BY <2>1, FS_Product DEF Hashes
<1>2. QED
  BY <1>1, FS_Subset, FS_CardinalityType

(* Distinct hashes of one round have distinct creators. *)
LEMMA CreatorsOfHashes ==
  ASSUME NEW r, NEW T \in SUBSET Peers, NEW H \in SUBSET Hashes,
         \A h \in H : h[1] = r /\ h[2] \in T
  PROVE  Cardinality(H) <= Cardinality(T)
<1> DEFINE f == [h \in H |-> h[2]]
<1>1. f \in [H -> T]
  OBVIOUS
<1>2. \A g, h \in H : f[g] = f[h] => g = h
  BY DEF Hashes
<1>3. f \in Injection(H, T)
  BY <1>1, <1>2 DEF Injection, IsInjective
<1>4. IsFiniteSet(T)
  BY FS_Subset
<1>5. QED
  <2> HIDE DEF f
  <2> QED
    BY <1>3, <1>4, FS_Injection

(* A set of naturals has a least element: the induction used below. *)
LEMMA LeastNatural ==
  ASSUME NEW T \in SUBSET Nat, T # {}
  PROVE  \E x \in T : \A y \in T : x <= y
<1> DEFINE U == {0 .. n : n \in T}
<1>1. \A n \in T : IsFiniteSet(0 .. n)
  BY FS_Interval
<1>2. \A I \in U : I \in FiniteSubsetsOf(Nat)
  <2> SUFFICES ASSUME NEW n \in T PROVE 0 .. n \in FiniteSubsetsOf(Nat)
    OBVIOUS
  <2>1. 0 .. n \in SUBSET Nat
    OBVIOUS
  <2>2. QED
    BY <1>1, <2>1 DEF FiniteSubsetsOf
<1>3. U # {}
  OBVIOUS
<1>4. PICK I \in U : \A J \in U : ~ (<<J, I>> \in StrictSubsetOrdering(Nat))
  <2> HIDE DEF U
  <2> QED
    BY <1>2, <1>3, WFMin, FS_StrictSubsetOrderingWellFounded
<1>5. PICK x \in T : I = 0 .. x
  OBVIOUS
<1>6. ASSUME NEW y \in T, y < x
      PROVE  FALSE
  <2>1. /\ 0 .. y \in U
        /\ 0 .. y \subseteq 0 .. x
        /\ x \in 0 .. x
        /\ x \notin 0 .. y
    BY <1>6
  <2>2. <<0 .. y, 0 .. x>> \in StrictSubsetOrdering(Nat)
    BY <2>1 DEF StrictSubsetOrdering
  <2>3. QED
    BY <1>4, <1>5, <2>1, <2>2
<1>7. QED
  BY <1>6

-----------------------------------------------------------------------------
(* No round has been left at the start. *)
LEMMA QuorumInit == Init => QuorumInv
<1> SUFFICES ASSUME Init PROVE QuorumInv
  OBVIOUS
<1>1. SafeInv
  BY SafeInit
<1>2. QuorumBehind
  BY DEF Init, QuorumBehind, Rounds
<1>3. QuorumReferenced
  BY DEF Init, QuorumReferenced
<1>4. QED
  BY <1>1, <1>2, <1>3 DEF QuorumInv

(* The DAG image of a peer only grows. *)
LEMMA DagGrows ==
  ASSUME TypeOK, [Next]_vars, NEW p \in Peers, NEW r \in Rounds
  PROVE  dag_image[p][r] \subseteq dag_image'[p][r]
<1>1. ASSUME NEW q \in Peers, Propose(q)
      PROVE  dag_image[p][r] \subseteq dag_image'[p][r]
  <2>1. CASE HasNextVertex(q)
    <3> DEFINE v == NewVertex(q, round[q] + 1)
    <3>1. dag_image' = [dag_image EXCEPT ![q][v.round] = @ \cup {Hash(v)}]
      BY <1>1, <2>1 DEF Propose
    <3>2. v.round \in Rounds
      BY <2>1, NewVertexType
    <3> HIDE DEF v
    <3>3. QED
      BY <3>1, <3>2 DEF TypeOK
  <2>2. CASE ~ HasNextVertex(q)
    BY <1>1, <2>2 DEF Propose
  <2>3. QED
    BY <2>1, <2>2
<1>2. ASSUME NEW q \in Peers, NEW s \in Peers, NEW v \in vertex_map[s],
             Learn(q, v)
      PROVE  dag_image[p][r] \subseteq dag_image'[p][r]
  BY <1>2 DEF Learn
<1>3. ASSUME NEW q \in Peers, NEW v \in vertex_map[q], Admit(q, v)
      PROVE  dag_image[p][r] \subseteq dag_image'[p][r]
  <2>1. v \in Vertices /\ v.round \in Rounds
    BY DEF TypeOK, Vertices
  <2>2. QED
    BY <1>3, <2>1 DEF Admit, TypeOK
<1>4. CASE UNCHANGED vars
  BY <1>4 DEF vars
<1>5. QED
  BY <1>1, <1>2, <1>3, <1>4 DEF Next, Step

(* A round is left through Propose alone, which has counted its vertices;  *)
(* later on they can only become more.                                     *)
LEMMA QuorumBehindStep ==
  ASSUME QuorumInv, SafeInv', [Next]_vars
  PROVE  QuorumBehind'
<1> USE DEF QuorumInv, SafeInv
<1> SUFFICES ASSUME NEW p \in Peers, NEW r \in Rounds, r < round'[p]
             PROVE  Cardinality(dag_image'[p][r]) >= RoundQuorum(Crowd)
  BY DEF QuorumBehind
<1>1. Cardinality(dag_image[p][r]) >= RoundQuorum(Crowd)
  <2>1. CASE r < round[p]
    BY <2>1 DEF QuorumBehind
  <2>2. CASE ~ (r < round[p])
    <3>1. round'[p] # round[p]
      BY <2>2
    <3>2. Propose(p)
      BY <3>1 DEF Next, Step, Propose, Learn, Admit, vars, TypeOK
    <3>3. round'[p] = round[p] + 1 /\ round[p] \in Nat
      BY <3>2 DEF Propose, TypeOK
    <3>4. r = round[p] /\ round[p] > 0
      BY <2>2, <3>3 DEF Rounds
    <3>5. QED
      BY <3>2, <3>4 DEF Propose, CanAdvance
  <2>3. QED
    BY <2>1, <2>2
<1>2. /\ dag_image[p][r] \subseteq dag_image'[p][r]
      /\ dag_image[p][r] \in SUBSET Hashes
      /\ dag_image'[p][r] \in SUBSET Hashes
  BY DagGrows DEF TypeOK
<1>3. /\ IsFiniteSet(dag_image'[p][r])
      /\ Cardinality(dag_image[p][r]) \in Nat
      /\ Cardinality(dag_image'[p][r]) \in Nat
  BY <1>2, HashesAreFinite
<1>4. Cardinality(dag_image[p][r]) <= Cardinality(dag_image'[p][r])
  BY <1>2, <1>3, FS_Subset
<1>5. QED
  BY <1>1, <1>3, <1>4, QuorumIsPositive

(* The references of a new vertex are the round its creator is leaving.    *)
LEMMA QuorumReferencedStep ==
  ASSUME QuorumInv, [Next]_vars
  PROVE  QuorumReferenced'
<1> USE DEF QuorumInv, SafeInv
<1>1. ASSUME NEW q \in Peers, Propose(q)
      PROVE  QuorumReferenced'
  <2>1. CASE HasNextVertex(q)
    <3> DEFINE v == NewVertex(q, round[q] + 1)
    <3>1. vertex_map' = [vertex_map EXCEPT ![q] = @ \cup {v}]
      BY <1>1, <2>1 DEF Propose
    <3>2. v.round > 1 =>
            /\ \A h \in v.references : h[1] = v.round - 1
            /\ Cardinality(v.references) >= RoundQuorum(Crowd)
      <4> SUFFICES ASSUME v.round > 1
                   PROVE  /\ \A h \in v.references : h[1] = v.round - 1
                          /\ Cardinality(v.references) >= RoundQuorum(Crowd)
        OBVIOUS
      <4>1. v.round = round[q] + 1 /\ v.references = dag_image[q][round[q]]
        BY DEF NewVertex, TypeOK
      <4>2. round[q] > 0 /\ round[q] \in Rounds
        BY <2>1, <4>1 DEF TypeOK, Rounds
      <4>3. Cardinality(dag_image[q][round[q]]) >= RoundQuorum(Crowd)
        BY <1>1, <4>2 DEF Propose, CanAdvance
      <4>4. \A h \in dag_image[q][round[q]] : h[1] = round[q]
        BY <4>2 DEF DagIsKnown
      <4>5. v.round - 1 = round[q]
        BY <4>1, <4>2 DEF Rounds
      <4>6. QED
        BY <4>1, <4>3, <4>4, <4>5
    <3> HIDE DEF v
    <3>3. \A p \in Peers : \A u \in vertex_map'[p] : u \in vertex_map[p] \/ u = v
      BY <3>1 DEF TypeOK
    <3>4. QED
      BY <3>2, <3>3 DEF QuorumReferenced
  <2>2. CASE ~ HasNextVertex(q)
    BY <1>1, <2>2 DEF Propose, QuorumReferenced
  <2>3. QED
    BY <2>1, <2>2
<1>2. ASSUME NEW q \in Peers, NEW s \in Peers, NEW v \in vertex_map[s],
             Learn(q, v)
      PROVE  QuorumReferenced'
  <2>1. \A p \in Peers : \A u \in vertex_map'[p] : u \in vertex_map[p] \/ u = v
    BY <1>2 DEF Learn, TypeOK
  <2>2. QED
    BY <2>1 DEF QuorumReferenced
<1>3. ASSUME NEW q \in Peers, NEW v \in vertex_map[q], Admit(q, v)
      PROVE  QuorumReferenced'
  BY <1>3 DEF Admit, QuorumReferenced
<1>4. CASE UNCHANGED vars
  BY <1>4 DEF vars, QuorumReferenced
<1>5. QED
  BY <1>1, <1>2, <1>3, <1>4 DEF Next, Step

(* The invariant is inductive together with the one of Safety. *)
LEMMA QuorumStep == QuorumInv /\ [Next]_vars => QuorumInv'
<1> SUFFICES ASSUME QuorumInv, [Next]_vars PROVE QuorumInv'
  OBVIOUS
<1>1. SafeInv'
  BY SafeStep DEF QuorumInv
<1>2. QED
  BY <1>1, QuorumBehindStep, QuorumReferencedStep DEF QuorumInv

(* Behind every round a peer has left, and under every vertex built on     *)
(* one, there is a quorum of vertices of that round.                       *)
THEOREM QuorumInvariant == Spec => []QuorumInv
  BY QuorumInit, QuorumStep, PTL DEF Spec

(* Peers move together (the advance guard of buffer_scan_move_round): a    *)
(* peer in round r + 1 has counted a quorum of vertices of round r, their  *)
(* creators are distinct, and each of them was in round r to make its own. *)
THEOREM NoneRunsAheadHolds == Spec => []NoneRunsAhead
<1>1. QuorumInv => NoneRunsAhead
  <2> SUFFICES ASSUME QuorumInv, NEW p \in Peers, round[p] > 1
               PROVE  Cardinality({q \in Peers : round[q] >= round[p] - 1})
                        >= RoundQuorum(Crowd)
    BY DEF NoneRunsAhead
  <2> USE DEF QuorumInv, SafeInv
  <2> DEFINE r == round[p] - 1
             T == {q \in Peers : round[q] >= r}
             H == dag_image[p][r]
  <2>1. r \in Rounds /\ r < round[p] /\ r \in Nat
    BY DEF TypeOK, Rounds
  <2>2. H \in SUBSET Hashes
    BY <2>1 DEF TypeOK
  <2>3. Cardinality(H) >= RoundQuorum(Crowd)
    BY <2>1 DEF QuorumBehind
  <2>4. ASSUME NEW h \in H
        PROVE  h[1] = r /\ h[2] \in T
    <3>1. h[1] = r /\ Knows(p, h)
      BY <2>1 DEF DagIsKnown
    <3>2. PICK v \in vertex_map[p] : Hash(v) = h
      BY <3>1 DEF Knows
    <3>3. v \in Vertices
      BY DEF TypeOK
    <3>4. v.round = r /\ v.peer_id = h[2] /\ v.peer_id \in Peers
      BY <3>1, <3>2, <3>3, HashType
    <3>5. round[v.peer_id] >= v.round
      BY DEF Authentic
    <3>6. QED
      BY <3>1, <3>4, <3>5
  <2>5. T \in SUBSET Peers
    OBVIOUS
  <2> HIDE DEF T, H
  <2>6. Cardinality(H) <= Cardinality(T)
    BY <2>2, <2>4, <2>5, CreatorsOfHashes
  <2>7. Cardinality(H) \in Nat /\ Cardinality(T) \in Nat
    BY <2>2, <2>5, HashesAreFinite, FS_Subset, FS_CardinalityType
  <2>8. Cardinality(T) >= RoundQuorum(Crowd)
    BY <2>3, <2>6, <2>7, QuorumIsPositive
  <2>9. QED
    BY <2>8 DEF T
<1>2. QED
  BY <1>1, QuorumInvariant, PTL

(* With a crowd of 3f + 1, any two vertices of one round share more        *)
(* references than there may be failed peers.                              *)
THEOREM CommonReferencesHold ==
  ASSUME NEW f \in Nat, Crowd = 3 * f + 1
  PROVE  Spec => []CommonReferences
<1>1. QuorumInv => CommonReferences
  <2> SUFFICES ASSUME QuorumInv, NEW p \in Peers, NEW q \in Peers,
                      NEW u \in vertex_map[p], NEW v \in vertex_map[q],
                      u.round = v.round, u.round > 1
               PROVE  Cardinality(u.references \cap v.references)
                        > Byzantines(Crowd)
    BY DEF CommonReferences
  <2> USE DEF QuorumInv, SafeInv
  <2> DEFINE A == u.references
             B == v.references
  <2>1. A \in SUBSET Hashes /\ B \in SUBSET Hashes
    BY DEF TypeOK, Vertices
  <2>2. /\ \A h \in A \cup B : h[1] = u.round - 1
        /\ Cardinality(A) >= RoundQuorum(Crowd)
        /\ Cardinality(B) >= RoundQuorum(Crowd)
    BY DEF QuorumReferenced
  <2> HIDE DEF A, B
  <2>3. A \cup B \in SUBSET Hashes /\ \A h \in A \cup B : h[2] \in Peers
    BY <2>1 DEF Hashes
  <2>4. Cardinality(A \cup B) <= Crowd
    BY <2>2, <2>3, CreatorsOfHashes DEF Crowd
  <2>5. /\ IsFiniteSet(A) /\ Cardinality(A) \in Nat
        /\ IsFiniteSet(B) /\ Cardinality(B) \in Nat
        /\ Cardinality(A \cup B) \in Nat
        /\ Cardinality(A \cap B) \in Nat
    BY <2>1, <2>3, HashesAreFinite
  <2>6. Cardinality(A \cup B)
          = Cardinality(A) + Cardinality(B) - Cardinality(A \cap B)
    BY <2>5, FS_Union
  <2>7. Byzantines(Crowd) = f /\ 2 * RoundQuorum(Crowd) - Crowd > f
    BY QuorumsOverlap
  <2>8. Cardinality(A \cap B) > Byzantines(Crowd)
    BY <2>2, <2>4, <2>5, <2>6, <2>7, QuorumIsPositive
  <2>9. QED
    BY <2>8 DEF A, B
<1>2. QED
  BY <1>1, QuorumInvariant, PTL

-----------------------------------------------------------------------------
(* Among live peers that have nothing left to exchange or to admit, the    *)
(* slowest one has everything the others have of the rounds it is through  *)
(* with: a vertex of theirs that it misses would, in the lowest such       *)
(* round, be admissible.                                                   *)
LEMMA SlowestHasAll ==
  ASSUME QuorumInv, NEW R \in SUBSET Peers, Quiet(R),
         NEW p \in R, \A q \in R : round[p] <= round[q],
         NEW q \in R
  PROVE  \A r \in Rounds : r <= round[p] => dag_image[q][r] \subseteq dag_image[p][r]
<1> USE DEF QuorumInv, SafeInv
<1> DEFINE Missing == {r \in Rounds : /\ r <= round[p]
                                      /\ ~ (dag_image[q][r] \subseteq dag_image[p][r])}
<1> SUFFICES ASSUME Missing # {} PROVE FALSE
  OBVIOUS
<1>1. Missing \in SUBSET Nat
  BY DEF Rounds
<1>2. PICK r \in Missing : \A s \in Missing : r <= s
  <2> HIDE DEF Missing
  <2> QED
    BY <1>1, LeastNatural
<1>3. PICK h \in dag_image[q][r] : h \notin dag_image[p][r]
  OBVIOUS
<1>4. PICK v \in vertex_map[q] : Hash(v) = h
  BY DEF DagIsKnown, Knows
<1>5. /\ v \in Vertices
      /\ v.round = r
      /\ v.round \in Nat
  BY <1>4, HashType DEF DagIsKnown, TypeOK, Rounds
<1>6. HasMajority(v)
  BY <1>5, QuorumIsPositive DEF HasMajority, QuorumReferenced, Vertices, Rounds
<1>7. v \in vertex_map[p]
  <2>1. Knows(p, Hash(v))
    BY <1>6 DEF Quiet
  <2>2. QED
    BY <2>1 DEF Knows, NoEquivocation
<1>8. v.round > 1 => MutualHistory(p, v)
  <2> SUFFICES ASSUME v.round > 1
               PROVE  v.references \subseteq dag_image[p][v.round - 1]
    BY DEF MutualHistory
  <2>1. v.references \subseteq dag_image[q][v.round - 1]
    BY <1>3, <1>4, <1>5 DEF CausalHistory
  <2>2. r - 1 \in Rounds /\ r - 1 <= round[p] /\ r - 1 < r
    BY <1>5 DEF Rounds, TypeOK
  <2>3. r - 1 \notin Missing
    BY <1>2, <2>2, <1>5
  <2>4. QED
    BY <1>5, <2>1, <2>2, <2>3
<1>9. CanAdmit(p, v)
  BY <1>3, <1>4, <1>5, <1>8 DEF CanAdmit, Waiting, RoundReached, TypeOK, Rounds
<1>10. QED
  BY <1>7, <1>9 DEF Quiet

(* Every peer holds its own vertex of each round it has entered.           *)
OwnVertices ==
  \A p \in Peers : \A r \in Rounds :
    r <= round[p] => <<r, p>> \in dag_image[p][r]

(* Propose files the vertex of the round it enters. *)
LEMMA OwnVerticesStep == TypeOK /\ OwnVertices /\ [Next]_vars => OwnVertices'
<1> SUFFICES ASSUME TypeOK, OwnVertices, [Next]_vars,
                    NEW p \in Peers, NEW r \in Rounds, r <= round'[p]
             PROVE  <<r, p>> \in dag_image'[p][r]
  BY DEF OwnVertices
<1>1. CASE r <= round[p]
  BY <1>1, DagGrows DEF OwnVertices
<1>2. CASE ~ (r <= round[p])
  <2>1. round'[p] # round[p]
    BY <1>2
  <2>2. Propose(p)
    BY <2>1 DEF Next, Step, Propose, Learn, Admit, vars, TypeOK
  <2>3. round'[p] = round[p] + 1 /\ round[p] \in Nat
    BY <2>2 DEF Propose, TypeOK
  <2>4. r = round[p] + 1 /\ HasNextVertex(p)
    BY <1>2, <2>3 DEF Rounds
  <2> DEFINE v == NewVertex(p, round[p] + 1)
  <2>5. dag_image' = [dag_image EXCEPT ![p][v.round] = @ \cup {Hash(v)}]
    BY <2>2, <2>4 DEF Propose
  <2>6. v.round = r /\ Hash(v) = <<r, p>>
    BY <2>4, NewVertexType
  <2> HIDE DEF v
  <2>7. QED
    BY <2>5, <2>6 DEF TypeOK
<1>3. QED
  BY <1>1, <1>2

(* Nobody waits for ever on anybody: when a quorum R of the peers is alive *)
(* and everything they hold has been delivered among them and admitted,    *)
(* each of them has left the last round.                                   *)
THEOREM NobodyLeftWaitingHolds == Spec => []NobodyLeftWaiting
<1> DEFINE Inv == QuorumInv /\ OwnVertices
<1>1. Init => Inv
  <2>1. Init => OwnVertices
    BY DEF Init, OwnVertices, Rounds
  <2>2. QED
    BY <2>1, QuorumInit
<1>2. Inv /\ [Next]_vars => Inv'
  BY QuorumStep, OwnVerticesStep DEF QuorumInv, SafeInv
<1>3. Inv => NobodyLeftWaiting
  <2> SUFFICES ASSUME QuorumInv, OwnVertices,
                      NEW R \in SUBSET Peers, Cardinality(R) >= RoundQuorum(Crowd),
                      Quiet(R), NEW p0 \in R, round[p0] # LastRound + 1
               PROVE  FALSE
    BY DEF NobodyLeftWaiting, QuietMeansDone
  <2> USE DEF QuorumInv, SafeInv
  <2> DEFINE S == {round[q] : q \in R}
  <2>1. S \in SUBSET Nat /\ S # {} /\ \A q \in R : round[q] \in S
    BY DEF TypeOK
  <2>2. PICK m \in S : \A n \in S : m <= n
    <3> HIDE DEF S
    <3> QED
      BY <2>1, LeastNatural
  <2>3. PICK p \in R : /\ \A q \in R : round[p] <= round[q]
                       /\ round[p] \in Nat
                       /\ round[p] <= LastRound
    <3>1. PICK p \in R : round[p] = m
      OBVIOUS
    <3>2. \A q \in R : round[p] <= round[q]
      BY <2>1, <2>2, <3>1
    <3>3. round[p0] \in 0 .. LastRound + 1 /\ round[p] \in 0 .. LastRound + 1
      BY DEF TypeOK
    <3>4. round[p] <= LastRound
      BY <3>2, <3>3
    <3>5. QED
      BY <3>2, <3>3, <3>4
  <2>4. ~ CanAdvance(p)
    BY <2>3 DEF Quiet, StillProposing
  <2>5. round[p] > 0 /\ round[p] \in Rounds
    BY <2>3, <2>4 DEF CanAdvance, Rounds
  <2>6. \A q \in R : <<round[p], q>> \in dag_image[p][round[p]]
    <3> TAKE q \in R
    <3>1. <<round[p], q>> \in dag_image[q][round[p]]
      BY <2>3, <2>5 DEF OwnVertices
    <3>2. QED
      BY <2>3, <2>5, <3>1, SlowestHasAll
  <2>7. Cardinality(R) <= Cardinality(dag_image[p][round[p]])
    <3> DEFINE f == [q \in R |-> <<round[p], q>>]
    <3>1. f \in [R -> dag_image[p][round[p]]]
      BY <2>6
    <3>2. \A a, b \in R : f[a] = f[b] => a = b
      OBVIOUS
    <3>3. f \in Injection(R, dag_image[p][round[p]])
      BY <3>1, <3>2 DEF Injection, IsInjective
    <3>4. IsFiniteSet(dag_image[p][round[p]])
      BY <2>5, HashesAreFinite DEF TypeOK
    <3> HIDE DEF f
    <3>5. QED
      BY <3>3, <3>4, FS_Injection
  <2>8. /\ Cardinality(R) \in Nat
        /\ Cardinality(dag_image[p][round[p]]) \in Nat
    BY <2>5, HashesAreFinite, FS_Subset, FS_CardinalityType DEF TypeOK
  <2>9. Cardinality(dag_image[p][round[p]]) >= RoundQuorum(Crowd)
    BY <2>7, <2>8, QuorumIsPositive
  <2>10. QED
    BY <2>4, <2>9 DEF CanAdvance
<1>4. QED
  <2> HIDE DEF Inv
  <2> QED
    BY <1>1, <1>2, <1>3, PTL DEF Spec-----------------------------------------------------------------------------
(* A vertex whose references are known to a voter is in the DAG of whoever *)
(* counts that voter's vertex.                                             *)
LEMMA VotersAreKnown ==
  ASSUME QuorumInv, NEW h \in Hashes,
         NEW p \in Peers, h[1] + 1 \in Rounds,
         NEW g \in dag_image[p][h[1] + 1], g[2] \in Voters(h)
  PROVE  h \in dag_image[p][h[1]]
<1> USE DEF QuorumInv, SafeInv
<1>1. PICK s \in Peers : \E u \in vertex_map[s] :
        u.round = h[1] + 1 /\ h \in u.references /\ u.peer_id = g[2]
  BY DEF Voters
<1>2. PICK u \in vertex_map[s] :
        u.round = h[1] + 1 /\ h \in u.references /\ u.peer_id = g[2]
  BY <1>1
<1>3. g[1] = h[1] + 1 /\ Knows(p, g) /\ g \in Hashes
  BY DEF DagIsKnown, TypeOK
<1>4. PICK v \in vertex_map[p] : Hash(v) = g
  BY <1>3 DEF Knows
<1>5. Hash(u) = g
  BY <1>2, <1>3 DEF Hash, Hashes
<1>6. u = v
  BY <1>4, <1>5 DEF NoEquivocation
<1>7. h[1] \in Rounds /\ h[1] \in Nat
  BY DEF Hashes, Rounds
<1>8. v.round > 1 /\ v.round - 1 = h[1]
  BY <1>2, <1>6, <1>7 DEF Rounds
<1>9. v.references \subseteq dag_image[p][v.round - 1]
  BY <1>2, <1>4, <1>6, <1>8 DEF CausalHistory
<1>10. QED
  BY <1>2, <1>6, <1>8, <1>9

(* Voters are peers. *)
LEMMA VotersArePeers ==
  ASSUME TypeOK, NEW h
  PROVE  Voters(h) \in SUBSET Peers
  BY DEF Voters, TypeOK, Vertices

(* More voters than a quorum can do without meet every quorum of vertices  *)
(* of the next round.                                                      *)
LEMMA VotedIsInEveryDag ==
  ASSUME QuorumInv, NEW h \in Hashes, IsVotedFor(h)
  PROVE  IsShared(h)
<1> USE DEF QuorumInv, SafeInv
<1> SUFFICES ASSUME NEW p \in Peers, round[p] > h[1] + 1
             PROVE  h \in dag_image[p][h[1]]
  BY DEF IsShared
<1> DEFINE r == h[1] + 1
           D == dag_image[p][r]
           C == {g[2] : g \in D}
           V == Voters(h)
<1>1. r \in Rounds /\ r < round[p]
  BY DEF TypeOK, Rounds, Hashes
<1>2. D \in SUBSET Hashes /\ Cardinality(D) >= RoundQuorum(Crowd)
  BY <1>1 DEF QuorumBehind, TypeOK
<1>3. \A g \in D : g[1] = r /\ g[2] \in C
  BY <1>1 DEF DagIsKnown
<1>4. C \in SUBSET Peers /\ V \in SUBSET Peers
  BY <1>2, VotersArePeers DEF Hashes
<1>5. Cardinality(V) > Crowd - RoundQuorum(Crowd)
  BY DEF IsVotedFor
<1>6. PICK c \in C : c \in V
  <2> HIDE DEF D, C, V, r
  <2>1. Cardinality(D) <= Cardinality(C)
    BY <1>2, <1>3, <1>4, CreatorsOfHashes
  <2>2. /\ IsFiniteSet(C) /\ IsFiniteSet(V) /\ IsFiniteSet(C \cup V)
        /\ Cardinality(C \cup V) <= Crowd
    BY <1>4, FS_Subset DEF Crowd
  <2>3. /\ Cardinality(C) \in Nat /\ Cardinality(V) \in Nat
        /\ Cardinality(C \cup V) \in Nat /\ Cardinality(C \cap V) \in Nat
        /\ Cardinality(D) \in Nat
        /\ IsFiniteSet(C \cap V)
    BY <1>2, <2>2, HashesAreFinite, FS_CardinalityType, FS_Subset
  <2>4. Cardinality(C \cup V)
          = Cardinality(C) + Cardinality(V) - Cardinality(C \cap V)
    BY <2>2, FS_Union
  <2>5. Cardinality(C \cap V) # 0
    BY <1>2, <1>5, <2>1, <2>2, <2>3, <2>4, CrowdIsPositive, QuorumIsPositive
  <2>6. C \cap V # {}
    BY <2>5, FS_EmptySet
  <2>7. QED
    BY <2>6
<1>7. PICK g \in D : g[2] = c
  OBVIOUS
<1>8. QED
  BY <1>1, <1>6, <1>7, VotersAreKnown

(* The guard of buffer_scan_move_round makes a vertex that enough others   *)
(* build on part of the DAG of everybody two rounds on.                    *)
THEOREM VotedIsSharedHolds == Spec => []VotedIsShared
<1>1. QuorumInv => VotedIsShared
  BY VotedIsInEveryDag DEF VotedIsShared
<1>2. QED
  BY <1>1, QuorumInvariant, PTL
-----------------------------------------------------------------------------
(* A set of n elements or more can be numbered in part, by 1 .. n; *)
LEMMA Numbering ==
  ASSUME NEW S, IsFiniteSet(S), NEW n \in Nat, n <= Cardinality(S)
  PROVE  \E g : g \in Injection(1 .. n, S)
<1>1. Cardinality(S) \in Nat /\ ExistsBijection(1 .. Cardinality(S), S)
  BY FS_CardinalityType
<1>2. PICK b : b \in Bijection(1 .. Cardinality(S), S)
  BY <1>1 DEF ExistsBijection
<1>3. b \in [1 .. Cardinality(S) -> S] /\ IsInjective(b)
  BY <1>2 DEF Bijection, Injection
<1>4. 1 .. n \subseteq 1 .. Cardinality(S)
  BY <1>1
<1> DEFINE g == [i \in 1 .. n |-> b[i]]
<1>5. g \in [1 .. n -> S]
  BY <1>3, <1>4
<1>6. IsInjective(g)
  BY <1>3, <1>4 DEF IsInjective
<1>7. QED
  BY <1>5, <1>6 DEF Injection

(* and a set of at most n elements gets different numbers from 1 .. n.     *)
LEMMA Numbered ==
  ASSUME NEW S, IsFiniteSet(S), NEW n \in Nat, Cardinality(S) <= n
  PROVE  \E g : g \in Injection(S, 1 .. n)
<1>1. Cardinality(S) \in Nat /\ ExistsBijection(S, 1 .. Cardinality(S))
  <2>1. Cardinality(S) \in Nat
    BY FS_CardinalityType
  <2>2. /\ IsFiniteSet(1 .. Cardinality(S))
        /\ Cardinality(1 .. Cardinality(S)) = Cardinality(S)
    BY <2>1, FS_Interval
  <2>3. QED
    BY <2>1, <2>2, FS_SameCardinalityBij
<1>2. PICK b : b \in Bijection(S, 1 .. Cardinality(S))
  BY <1>1 DEF ExistsBijection
<1>3. b \in [S -> 1 .. Cardinality(S)] /\ IsInjective(b)
  BY <1>2 DEF Bijection, Injection
<1>4. b \in [S -> 1 .. n]
  BY <1>1, <1>3
<1>5. QED
  BY <1>3, <1>4 DEF Injection

(* Counting the pairs of a relation from both sides: where every element   *)
(* of A has at least q partners in B and every element of B at most k in A.*)
LEMMA CountedTwice ==
  ASSUME NEW A, IsFiniteSet(A), NEW B, IsFiniteSet(B),
         NEW partners, \A a \in A : partners[a] \subseteq B,
         NEW q \in Nat, \A a \in A : q <= Cardinality(partners[a]),
         NEW k \in Nat,
         \A b \in B : Cardinality({a \in A : b \in partners[a]}) <= k
  PROVE  Cardinality(A) * q <= Cardinality(B) * k
<1> DEFINE back(b) == {a \in A : b \in partners[a]}
           there == [a \in A |-> CHOOSE g : g \in Injection(1 .. q, partners[a])]
           home == [b \in B |-> CHOOSE g : g \in Injection(back(b), 1 .. k)]
<1>1. ASSUME NEW a \in A
      PROVE  there[a] \in Injection(1 .. q, partners[a])
  <2>1. IsFiniteSet(partners[a]) /\ q <= Cardinality(partners[a])
    BY FS_Subset
  <2>2. \E g : g \in Injection(1 .. q, partners[a])
    BY <2>1, Numbering
  <2>3. QED
    BY <2>2
<1>2. ASSUME NEW b \in B
      PROVE  home[b] \in Injection(back(b), 1 .. k)
  <2>1. IsFiniteSet(back(b)) /\ Cardinality(back(b)) <= k
    BY FS_Subset
  <2>2. \E g : g \in Injection(back(b), 1 .. k)
    <3> HIDE DEF back
    <3> QED
      BY <2>1, Numbered
  <2>3. QED
    BY <2>2
<1> HIDE DEF there, home
<1> DEFINE X == A \X (1 .. q)
           Y == B \X (1 .. k)
           f == [x \in X |-> <<there[x[1]][x[2]], home[there[x[1]][x[2]]][x[1]]>>]
<1>3. ASSUME NEW x \in X
      PROVE  /\ there[x[1]][x[2]] \in partners[x[1]]
             /\ there[x[1]][x[2]] \in B
             /\ x[1] \in back(there[x[1]][x[2]])
             /\ home[there[x[1]][x[2]]][x[1]] \in 1 .. k
  <2>1. x[1] \in A /\ x[2] \in 1 .. q
    OBVIOUS
  <2>2. there[x[1]] \in [1 .. q -> partners[x[1]]]
    BY <1>1, <2>1 DEF Injection
  <2>3. there[x[1]][x[2]] \in partners[x[1]] /\ there[x[1]][x[2]] \in B
    BY <2>1, <2>2
  <2>4. x[1] \in back(there[x[1]][x[2]])
    BY <2>1, <2>3
  <2>5. home[there[x[1]][x[2]]] \in [back(there[x[1]][x[2]]) -> 1 .. k]
    BY <1>2, <2>3 DEF Injection
  <2>6. QED
    BY <2>3, <2>4, <2>5
<1>4. f \in [X -> Y]
  BY <1>3
<1>5. ASSUME NEW x \in X, NEW y \in X, f[x] = f[y]
      PROVE  x = y
  <2>1. /\ there[x[1]][x[2]] = there[y[1]][y[2]]
        /\ home[there[x[1]][x[2]]][x[1]] = home[there[x[1]][x[2]]][y[1]]
    BY <1>5
  <2> DEFINE b == there[x[1]][x[2]]
  <2>2. b \in B /\ x[1] \in back(b) /\ y[1] \in back(b)
    BY <1>3, <2>1
  <2>3. x[1] = y[1]
    <3>1. home[b] \in Injection(back(b), 1 .. k)
      BY <1>2, <2>2
    <3>2. home[b][x[1]] = home[b][y[1]]
      BY <2>1
    <3> HIDE DEF b, back
    <3>3. QED
      BY <2>2, <3>1, <3>2 DEF Injection, IsInjective
  <2>4. x[2] = y[2]
    <3>1. x[1] \in A /\ x[2] \in 1 .. q /\ y[2] \in 1 .. q
      OBVIOUS
    <3>2. there[x[1]] \in Injection(1 .. q, partners[x[1]])
      BY <1>1, <3>1
    <3>3. there[x[1]][x[2]] = there[x[1]][y[2]]
      BY <2>1, <2>3
    <3>4. QED
      BY <3>1, <3>2, <3>3 DEF Injection, IsInjective
  <2>5. QED
    BY <2>3, <2>4
<1>6. f \in Injection(X, Y)
  <2> HIDE DEF X, Y, f
  <2> QED
    BY <1>4, <1>5 DEF Injection, IsInjective
<1>7. /\ IsFiniteSet(1 .. q) /\ Cardinality(1 .. q) = q
      /\ IsFiniteSet(1 .. k) /\ Cardinality(1 .. k) = k
  BY FS_Interval
<1>8. /\ IsFiniteSet(X) /\ Cardinality(X) = Cardinality(A) * q
      /\ IsFiniteSet(Y) /\ Cardinality(Y) = Cardinality(B) * k
  BY <1>7, FS_Product
<1>9. Cardinality(X) <= Cardinality(Y)
  <2> HIDE DEF X, Y, f
  <2> QED
    BY <1>6, <1>8, FS_Injection
<1>10. QED
  BY <1>8, <1>9
-----------------------------------------------------------------------------
(* What the numbers come to with a crowd of 3f + 1: a quorum of vertices   *)
(* with a quorum of references each are too many for f votes per vertex.   *)
LEMMA TooManyVotes ==
  ASSUME NEW f \in Nat, NEW d \in Nat, d >= 2 * f + 1,
         NEW b \in Nat, b <= 3 * f + 1
  PROVE  ~ (d * (2 * f + 1) <= b * f)
<1>1. (2 * f + 1) * (2 * f + 1) <= d * (2 * f + 1)
  OBVIOUS
<1>2. b * f <= (3 * f + 1) * f
  OBVIOUS
<1>3. (2 * f + 1) * (2 * f + 1) = 4 * (f * f) + 4 * f + 1
  OBVIOUS
<1>4. (3 * f + 1) * f = 3 * (f * f) + f
  OBVIOUS
<1>5. f * f \in Nat
  OBVIOUS
<1>6. d * (2 * f + 1) \in Nat /\ b * f \in Nat
  OBVIOUS
<1>7. QED
  BY <1>1, <1>2, <1>3, <1>4, <1>5, <1>6

(* The vertex of p that has the hash g; *)
Behind(p, g) == CHOOSE v \in vertex_map[p] : Hash(v) = g

(* when p counts it, it refers to a quorum of vertices of the round before,*)
(* and its creator is one of their voters.                                 *)
LEMMA CountedVertex ==
  ASSUME QuorumInv, NEW p \in Peers, NEW r \in Rounds, r + 1 \in Rounds,
         NEW g \in dag_image[p][r + 1]
  PROVE  /\ Behind(p, g).references \in SUBSET ({r} \X Peers)
         /\ RoundQuorum(Crowd) <= Cardinality(Behind(p, g).references)
         /\ \A h \in Behind(p, g).references : g[2] \in Voters(h)
<1> USE DEF QuorumInv, SafeInv
<1> DEFINE v == Behind(p, g)
<1>1. g[1] = r + 1 /\ Knows(p, g) /\ g \in Hashes
  BY DEF DagIsKnown, TypeOK
<1>2. v \in vertex_map[p] /\ Hash(v) = g
  BY <1>1 DEF Knows, Behind
<1> HIDE DEF v
<1>3. v \in Vertices /\ r \in Nat /\ r >= 1
  BY <1>2 DEF TypeOK, Rounds
<1>4. v.round = r + 1 /\ v.peer_id = g[2]
  BY <1>1, <1>2, <1>3, HashType DEF Hash
<1>5. v.references \in SUBSET Hashes
  BY <1>3 DEF Vertices
<1>6. v.round > 1 /\ v.round - 1 = r
  BY <1>3, <1>4
<1>7. /\ \A h \in v.references : h[1] = r
      /\ Cardinality(v.references) >= RoundQuorum(Crowd)
  BY <1>2, <1>6 DEF QuorumReferenced
<1>8. v.references \in SUBSET ({r} \X Peers)
  BY <1>5, <1>7 DEF Hashes
<1>9. ASSUME NEW h \in v.references
      PROVE  g[2] \in Voters(h)
  <2>1. h[1] = r
    BY <1>7
  <2>2. v \in UNION {vertex_map[s] : s \in Peers}
    BY <1>2
  <2>3. QED
    BY <1>4, <2>1, <2>2 DEF Voters
<1>10. RoundQuorum(Crowd) <= Cardinality(v.references)
  BY <1>5, <1>7, HashesAreFinite, QuorumIsPositive
<1>11. QED
  BY <1>8, <1>9, <1>10 DEF v

(* Some vertex of a round gets more votes than a quorum can do without.    *)
LEMMA SomeVertexIsVotedFor ==
  ASSUME NEW f \in Nat, Crowd = 3 * f + 1, QuorumInv,
         NEW p \in Peers, NEW r \in Rounds, round[p] > r + 1
  PROVE  \E h \in {r} \X Peers : IsVotedFor(h)
<1>0. SUFFICES ASSUME \A h \in {r} \X Peers : ~ IsVotedFor(h)
               PROVE  FALSE
  OBVIOUS
<1> DEFINE D == dag_image[p][r + 1]
           B == {r} \X Peers
           partners == [g \in D |-> Behind(p, g).references]
<1>1. r + 1 \in Rounds /\ r + 1 < round[p]
  BY DEF QuorumInv, SafeInv, TypeOK, Rounds
<1>2. D \in SUBSET Hashes /\ Cardinality(D) >= RoundQuorum(Crowd)
  BY <1>1 DEF QuorumBehind, QuorumInv, SafeInv, TypeOK
<1>3. /\ IsFiniteSet(D) /\ Cardinality(D) \in Nat
  BY <1>2, HashesAreFinite
<1>4. \A g \in D : g[1] = r + 1
  BY <1>1 DEF DagIsKnown, QuorumInv, SafeInv
<1>5. B \in SUBSET Hashes /\ IsFiniteSet(B) /\ Cardinality(B) \in Nat
  <2>1. B \in SUBSET Hashes
    BY DEF Hashes
  <2> HIDE DEF B
  <2>2. QED
    BY <2>1, HashesAreFinite
<1>6. Cardinality(B) <= Crowd
  <2>1. \A h \in B : h[1] = r /\ h[2] \in Peers
    OBVIOUS
  <2> HIDE DEF B
  <2>2. QED
    BY <1>5, <2>1, CreatorsOfHashes DEF Crowd
<1>7. RoundQuorum(Crowd) = 2 * f + 1
  BY <1>0, QuorumsOverlap DEF RoundQuorum
<1>8. ASSUME NEW g \in D
      PROVE  /\ partners[g] \subseteq B
             /\ 2 * f + 1 <= Cardinality(partners[g])
             /\ \A h \in partners[g] : g[2] \in Voters(h)
  BY <1>1, <1>7, CountedVertex
<1>9. ASSUME NEW h \in B
      PROVE  Cardinality({g \in D : h \in partners[g]}) <= f
  <2> DEFINE S == {g \in D : h \in partners[g]}
             V == Voters(h)
  <2>1. S \in SUBSET Hashes /\ \A g \in S : g[1] = r + 1 /\ g[2] \in V
    BY <1>2, <1>4, <1>8
  <2>2. V \in SUBSET Peers
    BY VotersArePeers DEF QuorumInv, SafeInv
  <2>3. ~ (Cardinality(V) > Crowd - RoundQuorum(Crowd))
    BY <1>0 DEF IsVotedFor
  <2> HIDE DEF S, V
  <2>4. Cardinality(S) <= Cardinality(V)
    BY <2>1, <2>2, CreatorsOfHashes
  <2>5. Cardinality(V) \in Nat /\ Cardinality(S) \in Nat
    BY <2>1, <2>2, HashesAreFinite, FS_Subset, FS_CardinalityType
  <2>6. Cardinality(S) <= f
    BY <1>7, <2>3, <2>4, <2>5
  <2>7. QED
    BY <2>6 DEF S
<1> HIDE DEF partners, D, B
<1>10. Cardinality(D) * (2 * f + 1) <= Cardinality(B) * f
  <2>1. 2 * f + 1 \in Nat
    OBVIOUS
  <2>2. QED
    BY <1>3, <1>5, <1>8, <1>9, <2>1, CountedTwice
<1>11. Cardinality(D) >= 2 * f + 1 /\ Cardinality(B) <= 3 * f + 1
  BY <1>2, <1>6, <1>7
<1>12. QED
  BY <1>3, <1>5, <1>10, <1>11, TooManyVotes

(* The DAGs have a common core: of every round somebody is two rounds      *)
(* beyond, some vertex has so many votes that all who are have it.         *)
THEOREM CommonCoreHolds ==
  ASSUME NEW f \in Nat, Crowd = 3 * f + 1
  PROVE  Spec => []CommonCore
<1>1. QuorumInv => CommonCore
  <2> SUFFICES ASSUME QuorumInv, NEW p \in Peers, NEW r \in Rounds,
                      round[p] > r + 1
               PROVE  \E h \in {r} \X Peers : IsVotedFor(h) /\ IsShared(h)
    BY DEF CommonCore
  <2>1. PICK h \in {r} \X Peers : IsVotedFor(h)
    BY SomeVertexIsVotedFor
  <2>2. h \in Hashes
    BY DEF Hashes
  <2>3. IsShared(h)
    BY <2>1, <2>2, VotedIsInEveryDag
  <2>4. QED
    BY <2>1, <2>3
<1>2. QED
  BY <1>1, QuorumInvariant, PTL
=============================================================================
