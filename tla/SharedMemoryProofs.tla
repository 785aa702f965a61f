------------------------- MODULE SharedMemoryProofs -------------------------
(***************************************************************************)
(* What the locks of a validator achieve, for any crowd, any number of     *)
(* check_round threads and workers, and any number of rounds.              *)
(***************************************************************************)
EXTENDS SharedMemory, ThreadPoolProofs

-----------------------------------------------------------------------------
(* An access to the vertex map holds its mutex from its beginning to its   *)
(* end, so there is one at most.                                           *)
LockInv ==
  /\ DOMAIN mtx = Objects
  /\ DOMAIN access = Objects
  /\ \A a \in access["vertex_map"] : mtx["vertex_map"] \in Threads
  /\ \A a, b \in access["vertex_map"] : a = b

(* The string in place of a thread is none of them. *)
LEMMA FreeIsNoThread == "free" \notin Threads
  BY CheckersAssumption DEF Threads

(* The steps that touch a lock begin an access or end one. *)
LEMMA Accesses ==
  ASSUME [Next]_svars
  PROVE  \/ UNCHANGED locks
         \/ \E t \in Threads, o \in Objects, mode \in {"read", "write"} :
              BeginAccess(t, o, mode) \/ EndAccess(t, o, mode)
<1> DEFINE Touch == \E t \in Threads, o \in Objects, mode \in {"read", "write"} :
                      BeginAccess(t, o, mode) \/ EndAccess(t, o, mode)
<1> USE DEF locks, Objects
<1>0. "scan" \in Threads /\ "server" \in Threads /\ Checkers \subseteq Threads
  BY DEF Threads
<1>1. CASE UNCHANGED svars \/ Exit
  BY <1>1 DEF svars, Exit
<1>2. CASE ScanThread
  <2>1. CASE Emplace
    <3>1. EndAccess("scan", "black_list", "write")
      BY <2>1 DEF Emplace
    <3>2. QED
      BY <1>0, <3>1
  <2>2. CASE Erase
    <3>1. EndAccess("scan", "c_sockets", "write")
      BY <2>2 DEF Erase
    <3>2. QED
      BY <1>0, <3>1
  <2>3. CASE Store
    <3>1. EndAccess("scan", "vertex_map", "write")
      BY <2>3 DEF Store
    <3>2. QED
      BY <1>0, <3>1
  <2>4. CASE Close
    <3>1. EndAccess("scan", "c_sockets", "write")
      BY <2>4 DEF Close
    <3>2. QED
      BY <1>0, <3>1
  <2>5. QED
    BY <1>2, <2>1, <2>2, <2>3, <2>4
       DEF ScanThread, FindMissing, NextRound, StartChecker, Finish
<1>3. CASE ServerThread
  <2>1. CASE Find
    <3>1. EndAccess("server", "vertex_map", "read")
      BY <2>1 DEF Find
    <3>2. QED
      BY <1>0, <3>1
  <2>2. CASE Insert
    <3>1. EndAccess("server", "vertex_map", "write")
      BY <2>2 DEF Insert
    <3>2. QED
      BY <1>0, <3>1
  <2>3. QED
    BY <1>3, <2>1, <2>2 DEF ServerThread, Receive, ServerStops
<1>4. ASSUME NEW c \in Checkers, CheckThread(c)
      PROVE  Touch \/ UNCHANGED locks
  <2>1. CASE LookAtBlackList(c)
    <3>1. EndAccess(c, "black_list", "read")
      BY <2>1 DEF LookAtBlackList
    <3>2. QED
      BY <1>0, <3>1
  <2>2. CASE LookAtMap(c)
    <3>1. EndAccess(c, "vertex_map", "read")
      BY <2>2 DEF LookAtMap
    <3>2. QED
      BY <1>0, <3>1
  <2>3. CASE Copy(c) \/ CopyTooFew(c)
    <3>1. EndAccess(c, "c_sockets", "read")
      BY <2>3 DEF Copy, CopyTooFew
    <3>2. QED
      BY <1>0, <3>1
  <2>4. QED
    BY <1>4, <2>1, <2>2, <2>3 DEF CheckThread, NextPeer
<1>5. ASSUME NEW t \in Threads, AnyThread(t)
      PROVE  Touch \/ UNCHANGED locks
  <2>1. CASE BeginWhatItNeeds(t)
    <3>1. Needs(t)[1] \in Objects /\ Needs(t)[2] \in {"read", "write"}
      BY <2>1 DEF BeginWhatItNeeds, Needs
    <3>2. BeginAccess(t, Needs(t)[1], Needs(t)[2])
      BY <2>1 DEF BeginWhatItNeeds
    <3>3. QED
      BY <3>1, <3>2
  <2>2. QED
    BY <1>5, <2>1 DEF AnyThread, Enqueue, Announce, EndEnqueue
<1>6. ASSUME NEW w \in Workers,
             \/ PoolThread(w)
             \/ WakeForNoReason(w) /\ UNCHANGED <<containers, locks, pc, locals>>
      PROVE  UNCHANGED locks
  BY <1>6 DEF PoolThread
<1>7. QED
  BY <1>1, <1>2, <1>3, <1>4, <1>5, <1>6 DEF Next

(* The invariant is inductive. *)
LEMMA LockStep == LockInv /\ [Next]_svars => LockInv'
<1> SUFFICES ASSUME LockInv, [Next]_svars
             PROVE  LockInv'
  OBVIOUS
<1>1. CASE UNCHANGED locks
  BY <1>1 DEF locks, LockInv
<1>2. ASSUME NEW t \in Threads, NEW o \in Objects, NEW mode, BeginAccess(t, o, mode)
      PROVE  LockInv'
  <2>1. CASE o = "vertex_map"
    <3>1. mtx[o] = "free"
      BY <1>2, <2>1 DEF BeginAccess, TakesLock
    <3>2. access["vertex_map"] = {}
      BY <2>1, <3>1, FreeIsNoThread DEF LockInv
    <3>3. /\ mtx' = [mtx EXCEPT ![o] = t]
          /\ access' = [access EXCEPT ![o] = {<<t, mode>>}]
      BY <1>2, <2>1, <3>2 DEF BeginAccess, HoldsLock, LockInv
    <3>4. QED
      BY <2>1, <3>3 DEF LockInv
  <2>2. CASE o # "vertex_map"
    <3>1. /\ DOMAIN mtx' = Objects /\ DOMAIN access' = Objects
          /\ mtx'["vertex_map"] = mtx["vertex_map"]
          /\ access'["vertex_map"] = access["vertex_map"]
      BY <1>2, <2>2 DEF BeginAccess, LockInv
    <3>2. QED
      BY <3>1 DEF LockInv
  <2>3. QED
    BY <2>1, <2>2
<1>3. ASSUME NEW t \in Threads, NEW o \in Objects, NEW mode, EndAccess(t, o, mode)
      PROVE  LockInv'
  <2>1. CASE o = "vertex_map"
    <3>1. access' = [access EXCEPT ![o] = {}] /\ DOMAIN mtx' = Objects
      BY <1>3, <2>1 DEF EndAccess, LockInv
    <3>2. QED
      BY <2>1, <3>1 DEF LockInv
  <2>2. CASE o # "vertex_map"
    <3>1. /\ DOMAIN mtx' = Objects /\ DOMAIN access' = Objects
          /\ mtx'["vertex_map"] = mtx["vertex_map"]
          /\ access'["vertex_map"] = access["vertex_map"]
      BY <1>3, <2>2 DEF EndAccess, LockInv
    <3>2. QED
      BY <3>1 DEF LockInv
  <2>3. QED
    BY <2>1, <2>2
<1>4. QED
  BY <1>1, <1>2, <1>3, Accesses

(* The vertex map is never read while it is changed: what the scoped_lock  *)
(* at the beginning of its members is for.                                 *)
THEOREM MapIsThreadSafeHolds == Spec => []MapIsThreadSafe
<1>1. Init => LockInv
  BY DEF Init, LockInv, Objects
<1>2. LockInv => MapIsThreadSafe
  BY DEF LockInv, MapIsThreadSafe, Race
<1>3. QED
  BY <1>1, <1>2, LockStep, PTL DEF Spec

-----------------------------------------------------------------------------
(* What the threads keep about tasks: each only enqueues messages of its   *)
(* own, about keys that exist, to peers.                                   *)
OtherKeys == (1 .. LastRound) \X Others

Shapes ==
  /\ c_sockets \subseteq Others
  /\ round \in 0 .. LastRound
  /\ DOMAIN pc = Threads
  /\ DOMAIN arg = Threads
  /\ pending \in [Checkers -> SUBSET OtherKeys]
  /\ todo \in [Threads -> SUBSET Tasks]
  /\ \A t \in Threads : \A m \in todo[t] : m[1] = t
  /\ pc["scan"] = "store" => round # 0
  /\ \A c \in Checkers :
       pc[c] \in {"black_list", "map", "copy"} => arg[c] \in OtherKeys

(* The names of the threads are different. *)
LEMMA ThreadNames ==
  /\ "scan" \in Threads /\ "server" \in Threads /\ Checkers \subseteq Threads
  /\ "scan" \notin Checkers /\ "server" \notin Checkers
  BY CheckersAssumption DEF Threads

(* At the start no thread has a task. *)
LEMMA ShapesInit == Init => Shapes
<1> SUFFICES ASSUME Init
             PROVE  Shapes
  OBVIOUS
<1>1. \A t \in Threads : pc[t] \in {"top", "poll", "unborn"} /\ todo[t] = {}
  BY DEF Init
<1>2. QED
  BY <1>1, ThreadNames, LastRoundAssumption DEF Init, Shapes

(* The scan thread broadcasts its own vertices. *)
LEMMA ScanShapes == Shapes /\ ScanThread => Shapes'
<1> SUFFICES ASSUME Shapes, ScanThread
             PROVE  Shapes'
  OBVIOUS
<1> USE ThreadNames, LastRoundAssumption DEF locals, containers, locks
<1>1. ASSUME NEW k \in Keys, FindMissing(k)
      PROVE  Shapes'
  BY <1>1 DEF FindMissing, Goto, Shapes
<1>2. CASE Emplace
  BY <1>2 DEF Emplace, Goto, Shapes
<1>3. CASE Erase
  BY <1>3 DEF Erase, Goto, Forget, Shapes
<1>4. CASE NextRound
  BY <1>4 DEF NextRound, Goto, Shapes
<1>5. CASE Store
  <2>1. round \in 1 .. LastRound
    BY <1>5 DEF Store, Shapes
  <2>2. \A m \in Broadcast(round) : m \in Tasks /\ m[1] = "scan"
    BY <2>1, TasksAssumption DEF Broadcast, Messages, Keys, Shapes
  <2>3. todo' = [todo EXCEPT !["scan"] = Broadcast(round)]
    BY <1>5 DEF Store
  <2>4. /\ UNCHANGED <<c_sockets, round, arg, pending>>
        /\ pc' = [pc EXCEPT !["scan"] = "enqueue"]
    BY <1>5 DEF Store, Goto
  <2>5. QED
    BY <2>2, <2>3, <2>4 DEF Shapes
<1>6. ASSUME NEW c \in Checkers, StartChecker(c)
      PROVE  Shapes'
  <2>1. PICK r \in 1 .. round : pending' = [pending EXCEPT ![c] = {r} \X Others]
    BY <1>6 DEF StartChecker
  <2>2. {r} \X Others \subseteq OtherKeys
    BY DEF OtherKeys, Shapes
  <2>3. pending' \in [Checkers -> SUBSET OtherKeys]
    BY <2>1, <2>2 DEF Shapes
  <2>4. QED
    BY <1>6, <2>3 DEF StartChecker, Goto, Shapes
<1>7. CASE Finish
  BY <1>7 DEF Finish, Goto, Shapes
<1>8. CASE Close
  BY <1>8 DEF Close, Goto, Shapes
<1>9. QED
  BY <1>1, <1>2, <1>3, <1>4, <1>5, <1>6, <1>7, <1>8 DEF ScanThread

(* The server enqueues nothing. *)
LEMMA ServerShapes == Shapes /\ ServerThread => Shapes'
<1> SUFFICES ASSUME Shapes, ServerThread
             PROVE  Shapes'
  OBVIOUS
<1>1. /\ UNCHANGED <<c_sockets, round, pending, todo>>
      /\ DOMAIN pc' = Threads /\ DOMAIN arg' = Threads
      /\ \A t \in Threads \ {"server"} : pc'[t] = pc[t] /\ arg'[t] = arg[t]
  <2>1. ASSUME NEW k \in Arriving, Receive(k)
        PROVE  <1>1
    BY <2>1 DEF Receive, Goto, Shapes, containers
  <2>2. CASE Find
    BY <2>2 DEF Find, Goto, Forget, Shapes, containers
  <2>3. CASE Insert
    BY <2>3 DEF Insert, Goto, Forget, Shapes
  <2>4. CASE ServerStops
    BY <2>4 DEF ServerStops, Goto, Shapes, containers, locals
  <2>5. QED
    BY <2>1, <2>2, <2>3, <2>4 DEF ServerThread
<1>2. QED
  BY <1>1, ThreadNames DEF Shapes

(* A check_round thread asks for the vertices of the others. *)
LEMMA CheckShapes == \A c \in Checkers : Shapes /\ CheckThread(c) => Shapes'
<1> SUFFICES ASSUME NEW c \in Checkers, Shapes, CheckThread(c)
             PROVE  Shapes'
  OBVIOUS
<1> USE ThreadNames DEF containers, locals
<1>1. CASE NextPeer(c)
  <2>1. CASE pending[c] = {}
    BY <1>1, <2>1 DEF NextPeer, Goto, Shapes
  <2>2. CASE pending[c] # {}
    <3>1. PICK k \in pending[c] :
             /\ arg' = [arg EXCEPT ![c] = k]
             /\ pending' = [pending EXCEPT ![c] = @ \ {k}]
             /\ Goto(c, "black_list")
      BY <1>1, <2>2 DEF NextPeer
    <3>2. k \in OtherKeys
      BY DEF Shapes
    <3>3. UNCHANGED <<c_sockets, round, todo>>
      BY <1>1 DEF NextPeer
    <3>4. QED
      BY <3>1, <3>2, <3>3 DEF Goto, Shapes
  <2>3. QED
    BY <2>1, <2>2
<1>2. CASE LookAtBlackList(c)
  BY <1>2 DEF LookAtBlackList, Goto, Shapes
<1>3. CASE LookAtMap(c)
  BY <1>3 DEF LookAtMap, Goto, Shapes
<1>4. ASSUME NEW S, S \subseteq c_sockets, pc[c] = "copy"
      PROVE  \A m \in {<<c, arg[c], q>> : q \in S \cup {arg[c][2]}} : m \in Tasks /\ m[1] = c
  <2>1. arg[c] \in OtherKeys /\ S \subseteq Others
    BY <1>4 DEF Shapes
  <2>2. arg[c] \in Keys /\ arg[c][2] \in Others
    BY <2>1 DEF OtherKeys, Keys
  <2>3. QED
    BY <2>1, <2>2, TasksAssumption DEF Messages
<1>5. CASE Copy(c)
  <2>1. PICK S \in kSubset(Byzantines(Crowd) + 1, c_sockets) :
          todo' = [todo EXCEPT ![c] = {<<c, arg[c], q>> : q \in S \cup {arg[c][2]}}]
    BY <1>5 DEF Copy
  <2>2. S \subseteq c_sockets
    BY DEF kSubset
  <2>3. DEFINE M == {<<c, arg[c], q>> : q \in S \cup {arg[c][2]}}
  <2>4. \A m \in M : m \in Tasks /\ m[1] = c
    BY <1>4, <1>5, <2>2 DEF Copy
  <2>5. /\ todo' = [todo EXCEPT ![c] = M]
        /\ UNCHANGED <<c_sockets, round, arg, pending>>
        /\ pc' = [pc EXCEPT ![c] = "enqueue"]
    BY <1>5, <2>1 DEF Copy, Goto
  <2>6. QED
    <3> HIDE DEF M
    <3> QED
      BY <2>4, <2>5 DEF Shapes
<1>6. CASE CopyTooFew(c)
  <2>1. CASE UNCHANGED <<pc, todo>>
    BY <1>6, <2>1 DEF CopyTooFew, Shapes
  <2>2. CASE ~ UNCHANGED <<pc, todo>>
    <3>1. DEFINE M == {<<c, arg[c], q>> : q \in c_sockets \cup {arg[c][2]}}
    <3>2. \A m \in M : m \in Tasks /\ m[1] = c
      BY <1>4, <1>6 DEF CopyTooFew
    <3>3. /\ todo' = [todo EXCEPT ![c] = M]
          /\ UNCHANGED <<c_sockets, round, arg, pending>>
          /\ pc' = [pc EXCEPT ![c] = "enqueue"]
      BY <1>6, <2>2 DEF CopyTooFew, Goto
    <3>4. QED
      <4> HIDE DEF M
      <4> QED
        BY <3>2, <3>3 DEF Shapes
  <2>3. QED
    BY <2>1, <2>2
<1>7. QED
  BY <1>1, <1>2, <1>3, <1>5, <1>6, <1>4 DEF CheckThread

(* Enqueueing and accesses leave all this as it is. *)
LEMMA AnyShapes == \A t \in Threads : Shapes /\ AnyThread(t) => Shapes'
<1> SUFFICES ASSUME NEW t \in Threads, Shapes, AnyThread(t)
             PROVE  Shapes'
  OBVIOUS
<1> USE ThreadNames DEF containers, locals
<1>1. CASE BeginWhatItNeeds(t)
  BY <1>1 DEF BeginWhatItNeeds, BeginAccess, Shapes
<1>2. CASE Enqueue(t)
  BY <1>2 DEF Enqueue, Shapes
<1>3. CASE Announce(t)
  BY <1>3 DEF Announce, Shapes
<1>4. CASE EndEnqueue(t)
  BY <1>4 DEF EndEnqueue, Goto, Forget, Shapes
<1>5. QED
  BY <1>1, <1>2, <1>3, <1>4 DEF AnyThread

(* The shapes are kept by every step. *)
LEMMA ShapesStep == Shapes /\ [Next]_svars => Shapes'
<1> SUFFICES ASSUME Shapes, [Next]_svars
             PROVE  Shapes'
  OBVIOUS
<1>1. ASSUME UNCHANGED <<containers, pc, locals>>
      PROVE  Shapes'
  BY <1>1 DEF Shapes, containers, locals
<1>2. CASE UNCHANGED svars \/ Exit
  BY <1>1, <1>2 DEF svars, Exit
<1>3. ASSUME NEW w \in Workers,
             \/ PoolThread(w)
             \/ WakeForNoReason(w) /\ UNCHANGED <<containers, locks, pc, locals>>
      PROVE  Shapes'
  BY <1>1, <1>3 DEF PoolThread
<1>4. QED
  BY <1>2, <1>3, ScanShapes, ServerShapes, CheckShapes, AnyShapes DEF Next

-----------------------------------------------------------------------------
(* The threads use the pool as it is meant to be used. *)
LEMMA UseOfThePool == Shapes /\ PoolInv /\ [Next]_svars => [PoolNext]_pvars
<1> SUFFICES ASSUME Shapes, PoolInv, [Next]_svars
             PROVE  [PoolNext]_pvars
  OBVIOUS
<1> USE DEF PoolNext
<1>1. CASE UNCHANGED svars
  BY <1>1 DEF svars
<1>2. CASE ScanThread
  BY <1>2 DEF ScanThread, FindMissing, Emplace, Erase, NextRound, Store, StartChecker,
              Finish, Close
<1>3. CASE ServerThread
  BY <1>3 DEF ServerThread, Receive, Find, Insert, ServerStops
<1>4. ASSUME NEW c \in Checkers, CheckThread(c), ~ exited
      PROVE  [PoolNext]_pvars
  BY <1>4 DEF CheckThread, NextPeer, LookAtBlackList, LookAtMap, Copy, CopyTooFew, pvars
<1>5. ASSUME NEW t \in Threads, AnyThread(t), ~ exited
      PROVE  [PoolNext]_pvars
  <2>1. CASE BeginWhatItNeeds(t) \/ EndEnqueue(t)
    BY <2>1 DEF BeginWhatItNeeds, BeginAccess, EndEnqueue
  <2>2. CASE Enqueue(t)
    <3>1. PICK m \in todo[t] : Put(m)
      BY <2>2 DEF Enqueue
    <3>2. m \in Tasks
      BY DEF Shapes
    <3>3. QED
      BY <1>5, <3>1, <3>2
  <2>3. CASE Announce(t)
    <3>1. PICK m \in unannounced : Notify(m)
      BY <2>3 DEF Announce
    <3>2. m \in Tasks
      BY DEF PoolInv, PoolTypeOK
    <3>3. QED
      BY <1>5, <3>1, <3>2
  <2>4. QED
    BY <1>5, <2>1, <2>2, <2>3 DEF AnyThread
<1>6. ASSUME NEW w \in Workers, PoolThread(w) \/ WakeForNoReason(w), ~ exited
      PROVE  [PoolNext]_pvars
  BY <1>6 DEF PoolThread
<1>7. CASE Exit
  BY <1>7 DEF Exit, pvars
<1>8. QED
  BY <1>1, <1>2, <1>3, <1>4, <1>5, <1>6, <1>7 DEF Next

(* So what holds of the pool holds in the validator.                       *)
LEMMA ValidatorUsesPool == Spec => PoolSpec /\ []Shapes /\ []PoolInv
<1>1. Init => PoolInit
  BY DEF Init
<1>2. QED
  BY <1>1, ShapesInit, ShapesStep, PoolStart, PoolStep, UseOfThePool, PTL
     DEF Spec, PoolSpec

(* No wake-up is lost: the queue is never left alone with all the workers  *)
(* asleep and no notification to come.                                     *)
THEOREM NoLostWakeupHolds == Spec => []NoLostWakeup
  BY ValidatorUsesPool, PoolIsAwake, PTL

(* No message is sent twice for one enqueue, and none that was not. *)
THEOREM PoolImplementsTaskBag == Spec => ImplementsTaskBag
  BY ValidatorUsesPool, PoolIsBag, PTL

-----------------------------------------------------------------------------
(* What is enqueued comes from the tasks of a thread.                      *)
LEMMA NewTasks ==
  ASSUME Shapes, PoolInv, [Next]_svars, NEW x \in Enqueued' \ Enqueued
  PROVE  \E t \in Threads : x \in todo[t] /\ Enqueue(t)
<1>1. [PoolNext]_pvars
  BY UseOfThePool
<1>2. Put(x) /\ x \in Tasks
  <2>1. PoolInv'
    BY <1>1, PoolStep
  <2>2. x \in Tasks
    BY <2>1 DEF PoolInv, PoolTypeOK, Enqueued, Queued
  <2>3. QED
    BY <1>1, <2>2, EnqueuedByPut
<1>3. Queued' = Queued \cup {x} /\ x \notin Queued
  BY <1>2, PutQueues DEF Put
<1>4. ASSUME UNCHANGED task_queue
      PROVE  FALSE
  BY <1>3, <1>4 DEF Queued
<1>5. ASSUME NEW w \in Workers, Take(w)
      PROVE  FALSE
  BY <1>3, <1>5, TakeQueues DEF Take
<1> USE DEF pvars, pool
<1>6. CASE UNCHANGED svars \/ Exit
  BY <1>4, <1>6 DEF svars, Exit
<1>7. CASE ScanThread
  BY <1>4, <1>7 DEF ScanThread, FindMissing, Emplace, Erase, NextRound, Store,
              StartChecker, Finish, Close
<1>8. CASE ServerThread
  BY <1>4, <1>8 DEF ServerThread, Receive, Find, Insert, ServerStops
<1>9. ASSUME NEW c \in Checkers, CheckThread(c)
      PROVE  FALSE
  BY <1>4, <1>9 DEF CheckThread, NextPeer, LookAtBlackList, LookAtMap, Copy, CopyTooFew
<1>10. ASSUME NEW w \in Workers, PoolThread(w) \/ WakeForNoReason(w)
       PROVE  FALSE
  BY <1>4, <1>5, <1>10 DEF PoolThread, Work, Wait, WakeForNoReason, Execute
<1>11. ASSUME NEW t \in Threads, AnyThread(t)
       PROVE  x \in todo[t] /\ Enqueue(t)
  <2>1. Enqueue(t)
    BY <1>4, <1>11 DEF AnyThread, BeginWhatItNeeds, BeginAccess, Announce, Notify, EndEnqueue
  <2>2. PICK m \in todo[t] : Put(m)
    BY <2>1 DEF Enqueue
  <2>3. Queued' = Queued \cup {m}
    BY <2>2, PutQueues DEF Shapes
  <2>4. QED
    BY <1>3, <2>1, <2>2, <2>3
<1>12. QED
  BY <1>6, <1>7, <1>8, <1>9, <1>10, <1>11 DEF Next

-----------------------------------------------------------------------------
(* InsertsOnlyNew: the scan thread is the only one to insert vertices of   *)
(* this validator.  One of them comes back only when it has been sent, and *)
(* it is sent only when it is in the map; the server then finds it there.  *)
SentIsStored ==
  \A m \in todo["scan"] \cup Enqueued : m[1] = "scan" => m[2] \in vertex_map

FoundIsStored ==
  pc["server"] \in {"find", "insert"} =>
    arg["server"][2] # Self \/ arg["server"] \in vertex_map

InsertInv == Shapes /\ PoolInv /\ SentIsStored /\ FoundIsStored /\ InsertsOnlyNew

(* The key of the vertex the scan thread stores is its own. *)
LEMMA StoreKeepsNew == InsertInv /\ Store => FoundIsStored' /\ InsertsOnlyNew'
<1> SUFFICES ASSUME InsertInv, Store
             PROVE  FoundIsStored' /\ InsertsOnlyNew'
  OBVIOUS
<1>1. /\ vertex_map' = vertex_map \cup {<<round, Self>>}
      /\ UNCHANGED arg /\ pc'["server"] = pc["server"]
  BY ThreadNames DEF Store, Goto, InsertInv, Shapes
<1>2. arg["server"] # <<round, Self>> \/ arg["server"][2] = Self
  OBVIOUS
<1>3. QED
  BY <1>1, <1>2 DEF InsertInv, FoundIsStored, InsertsOnlyNew

(* The server, step by step. *)
LEMMA ServerKeepsNew == InsertInv /\ ServerThread => FoundIsStored' /\ InsertsOnlyNew'
<1> SUFFICES ASSUME InsertInv, ServerThread
             PROVE  FoundIsStored' /\ InsertsOnlyNew'
  OBVIOUS
<1> USE ThreadNames DEF Goto, Forget, containers, locals
<1>1. ASSUME NEW k \in Arriving, Receive(k)
      PROVE  FoundIsStored' /\ InsertsOnlyNew'
  <2>1. k[2] # Self \/ k \in vertex_map
    BY DEF Arriving, InsertInv, SentIsStored, Enqueued
  <2>2. arg'["server"] = k /\ pc'["server"] = "find" /\ UNCHANGED vertex_map
    BY <1>1 DEF Receive, InsertInv, Shapes
  <2>3. QED
    BY <2>1, <2>2 DEF FoundIsStored, InsertsOnlyNew
<1>2. CASE Find
  <2>1. CASE arg["server"] \in vertex_map
    <3>1. pc'["server"] = "poll"
      BY <1>2, <2>1 DEF Find, InsertInv, Shapes
    <3>2. QED
      BY <3>1 DEF FoundIsStored, InsertsOnlyNew
  <2>2. CASE arg["server"] \notin vertex_map
    <3>1. pc["server"] = "find" /\ UNCHANGED <<arg, vertex_map>>
      BY <1>2, <2>2 DEF Find
    <3>2. QED
      BY <2>2, <3>1 DEF FoundIsStored, InsertsOnlyNew, InsertInv
  <2>3. QED
    BY <2>1, <2>2
<1>3. CASE Insert
  <2>1. pc'["server"] = "poll"
    BY <1>3 DEF Insert, InsertInv, Shapes
  <2>2. QED
    BY <2>1 DEF FoundIsStored, InsertsOnlyNew
<1>4. CASE ServerStops
  <2>1. pc'["server"] = "stopped"
    BY <1>4 DEF ServerStops, InsertInv, Shapes
  <2>2. QED
    BY <2>1 DEF FoundIsStored, InsertsOnlyNew
<1>5. QED
  BY <1>1, <1>2, <1>3, <1>4 DEF ServerThread

(* The other steps do not come near the server or the map. *)
LEMMA OthersKeepNew ==
  ASSUME InsertInv, [Next]_svars, ~ Store, ~ ServerThread
  PROVE  /\ FoundIsStored' /\ InsertsOnlyNew'
         /\ vertex_map' = vertex_map
         /\ todo'["scan"] \subseteq todo["scan"]
<1> DEFINE Kept == /\ UNCHANGED vertex_map
                   /\ pc'["server"] = pc["server"] \/ pc'["server"] = "next"
                   /\ arg'["server"] = arg["server"] \/ pc'["server"] = "next"
                   /\ todo'["scan"] \subseteq todo["scan"]
<1>1. Kept
  <2> USE ThreadNames DEF Goto, Forget, containers, locals, InsertInv, Shapes
  <2>1. CASE UNCHANGED svars \/ Exit
    BY <2>1 DEF svars, Exit
  <2>2. CASE ScanThread
    BY <2>2 DEF ScanThread, FindMissing, Emplace, Erase, NextRound, StartChecker, Finish, Close
  <2>3. ASSUME NEW c \in Checkers, CheckThread(c)
        PROVE  Kept
    <3>1. CASE NextPeer(c) \/ LookAtBlackList(c) \/ LookAtMap(c)
      BY <3>1 DEF NextPeer, LookAtBlackList, LookAtMap
    <3>2. CASE Copy(c) \/ CopyTooFew(c)
      <4>1. /\ UNCHANGED <<vertex_map, arg>>
            /\ UNCHANGED pc \/ pc' = [pc EXCEPT ![c] = "enqueue"]
            /\ UNCHANGED todo \/ \E M : todo' = [todo EXCEPT ![c] = M]
        BY <3>2 DEF Copy, CopyTooFew
      <4>2. QED
        BY <4>1
    <3>3. QED
      BY <2>3, <3>1, <3>2 DEF CheckThread
  <2>4. ASSUME NEW t \in Threads, AnyThread(t)
        PROVE  Kept
    <3>1. CASE BeginWhatItNeeds(t) \/ Announce(t)
      BY <3>1 DEF BeginWhatItNeeds, BeginAccess, Announce
    <3>2. CASE Enqueue(t)
      BY <3>2 DEF Enqueue
    <3>3. CASE EndEnqueue(t)
      BY <3>3 DEF EndEnqueue
    <3>4. QED
      BY <2>4, <3>1, <3>2, <3>3 DEF AnyThread
  <2>5. ASSUME NEW w \in Workers,
               \/ PoolThread(w)
               \/ WakeForNoReason(w) /\ UNCHANGED <<containers, locks, pc, locals>>
        PROVE  Kept
    BY <2>5 DEF PoolThread
  <2>6. QED
    BY <2>1, <2>2, <2>3, <2>4, <2>5 DEF Next
<1>2. QED
  BY <1>1 DEF InsertInv, FoundIsStored, InsertsOnlyNew

(* The invariant is inductive. *)
LEMMA InsertStep == InsertInv /\ [Next]_svars => InsertInv'
<1> SUFFICES ASSUME InsertInv, [Next]_svars
             PROVE  InsertInv'
  OBVIOUS
<1>1. Shapes' /\ PoolInv'
  BY ShapesStep, UseOfThePool, PoolStep DEF InsertInv
<1>2. FoundIsStored' /\ InsertsOnlyNew'
  BY StoreKeepsNew, ServerKeepsNew, OthersKeepNew
<1>3. vertex_map \subseteq vertex_map'
  <2>1. CASE Store
    BY <2>1 DEF Store
  <2>2. CASE ServerThread
    BY <2>2 DEF ServerThread, Receive, Find, Insert, ServerStops, containers
  <2>3. QED
    BY <2>1, <2>2, OthersKeepNew
<1>4. \A m \in todo'["scan"] : m[2] \in vertex_map' \/ m \in todo["scan"]
  <2>1. CASE Store
    <3>1. /\ vertex_map' = vertex_map \cup {<<round, Self>>}
          /\ todo'["scan"] = Broadcast(round)
      BY <2>1, ThreadNames DEF Store, InsertInv, Shapes
    <3>2. QED
      BY <3>1 DEF Broadcast
  <2>2. CASE ServerThread
    BY <2>2 DEF ServerThread, Receive, Find, Insert, ServerStops, locals
  <2>3. QED
    BY <2>1, <2>2, OthersKeepNew
<1>5. SentIsStored'
  <2>1. ASSUME NEW m \in todo'["scan"], m[1] = "scan"
        PROVE  m[2] \in vertex_map'
    BY <1>3, <1>4, <2>1 DEF InsertInv, SentIsStored
  <2>2. ASSUME NEW m \in Enqueued', m[1] = "scan"
        PROVE  m[2] \in vertex_map'
    <3>1. CASE m \in Enqueued
      BY <1>3, <2>2, <3>1 DEF InsertInv, SentIsStored
    <3>2. CASE m \notin Enqueued
      <4>1. PICK t \in Threads : m \in todo[t]
        BY <2>2, <3>2, NewTasks DEF InsertInv
      <4>2. t = "scan"
        BY <2>2, <4>1 DEF InsertInv, Shapes
      <4>3. QED
        BY <1>3, <2>2, <4>1, <4>2 DEF InsertInv, SentIsStored
    <3>3. QED
      BY <3>1, <3>2
  <2>3. QED
    BY <2>1, <2>2 DEF SentIsStored
<1>6. QED
  BY <1>1, <1>2, <1>5 DEF InsertInv

(* The server never inserts a vertex that is in the map already, although  *)
(* it looks for it and inserts it in two critical sections (Server::start).*)
THEOREM InsertsOnlyNewHolds == Spec => []InsertsOnlyNew
<1>1. Init => InsertInv
  <2> SUFFICES ASSUME Init
               PROVE  InsertInv
    OBVIOUS
  <2>1. Shapes /\ PoolInv
    BY ShapesInit, PoolStart DEF Init
  <2>2. /\ todo["scan"] = {} /\ pc["server"] = "poll"
        /\ task_queue = <<>> /\ done = {} /\ \A w \in Workers : worker[w] = "ready"
    BY ThreadNames DEF Init, PoolInit
  <2>3. Enqueued = {}
    BY <2>2 DEF Enqueued, Queued, Running
  <2>4. QED
    BY <2>1, <2>2, <2>3 DEF InsertInv, SentIsStored, FoundIsStored, InsertsOnlyNew
<1>2. InsertInv => InsertsOnlyNew
  BY DEF InsertInv
<1>3. QED
  BY <1>1, <1>2, InsertStep, PTL DEF Spec

-----------------------------------------------------------------------------
(* The types of what is shared, and what the invariants above leave open   *)
(* of the rest.  A vertex the server deals with exists: it is one of the   *)
(* others, or one of its own that has been sent.                           *)
ScanPlaces   == {"top", "emplace", "erase", "store", "enqueue", "close", "left"}
ServerPlaces == {"poll", "find", "insert", "stopped"}
CheckPlaces  == {"unborn", "next", "black_list", "map", "copy", "enqueue", "ended"}

Modes == {"read", "write"}

LockTypes ==
  /\ mtx \in [Objects -> Threads \cup {"free"}]
  /\ access \in [Objects -> SUBSET (Threads \X Modes)]

SharedTypes ==
  /\ vertex_map \subseteq Keys
  /\ black_list \subseteq Others
  /\ pc["scan"] \in ScanPlaces
  /\ pc["server"] \in ServerPlaces
  /\ \A c \in Checkers : pc[c] \in CheckPlaces
  /\ pc["scan"] \in {"emplace", "erase"} => arg["scan"][2] \in Others
  /\ pc["server"] \in {"find", "insert"} => arg["server"] \in Keys

(* Threads access the objects of the list, to read or to write. *)
LEMMA LockTypesStep == LockTypes /\ [Next]_svars => LockTypes'
<1> SUFFICES ASSUME LockTypes, [Next]_svars
             PROVE  LockTypes'
  OBVIOUS
<1>1. CASE UNCHANGED locks
  BY <1>1 DEF locks, LockTypes
<1>2. ASSUME NEW t \in Threads, NEW o \in Objects, NEW mode \in Modes,
             BeginAccess(t, o, mode)
      PROVE  LockTypes'
  BY <1>2 DEF BeginAccess, LockTypes
<1>3. ASSUME NEW t \in Threads, NEW o \in Objects, NEW mode \in Modes,
             EndAccess(t, o, mode)
      PROVE  LockTypes'
  BY <1>3 DEF EndAccess, LockTypes
<1>4. QED
  BY <1>1, <1>2, <1>3, Accesses DEF Modes

(* Whose vertex the scan thread misses, it has a socket to. *)
LEMMA ScanTypes == Shapes /\ SharedTypes /\ ScanThread => SharedTypes'
<1> SUFFICES ASSUME Shapes, SharedTypes, ScanThread
             PROVE  SharedTypes'
  OBVIOUS
<1> USE ThreadNames
    DEF Shapes, SharedTypes, ScanPlaces, ServerPlaces, CheckPlaces, Goto, Forget,
        containers, locals
<1>1. ASSUME NEW k \in Keys, FindMissing(k)
      PROVE  SharedTypes'
  BY <1>1 DEF FindMissing
<1>2. CASE Emplace
  BY <1>2 DEF Emplace
<1>3. CASE Erase
  BY <1>3 DEF Erase
<1>4. CASE NextRound
  BY <1>4 DEF NextRound
<1>5. CASE Store
  <2>1. <<round, Self>> \in Keys
    BY <1>5 DEF Store, Keys
  <2>2. QED
    BY <1>5, <2>1 DEF Store
<1>6. ASSUME NEW c \in Checkers, StartChecker(c)
      PROVE  SharedTypes'
  BY <1>6 DEF StartChecker
<1>7. CASE Finish
  BY <1>7 DEF Finish
<1>8. CASE Close
  BY <1>8 DEF Close
<1>9. QED
  BY <1>1, <1>2, <1>3, <1>4, <1>5, <1>6, <1>7, <1>8 DEF ScanThread

(* What arrives exists: tasks are about keys that do. *)
LEMMA ServerTypes == Shapes /\ PoolInv /\ SharedTypes /\ ServerThread => SharedTypes'
<1> SUFFICES ASSUME Shapes, PoolInv, SharedTypes, ServerThread
             PROVE  SharedTypes'
  OBVIOUS
<1>0. Arriving \subseteq Keys
  <2>1. \A m \in done : m[2] \in Keys
    BY TasksAssumption DEF PoolInv, PoolTypeOK, Messages
  <2>2. QED
    BY <2>1 DEF Arriving
<1> USE ThreadNames
    DEF Shapes, SharedTypes, ScanPlaces, ServerPlaces, CheckPlaces, Goto, Forget,
        containers, locals
<1>1. ASSUME NEW k \in Arriving, Receive(k)
      PROVE  SharedTypes'
  BY <1>0, <1>1 DEF Receive
<1>2. CASE Find
  BY <1>2 DEF Find
<1>3. CASE Insert
  BY <1>3 DEF Insert
<1>4. CASE ServerStops
  BY <1>4 DEF ServerStops
<1>5. QED
  BY <1>1, <1>2, <1>3, <1>4 DEF ServerThread

(* The other steps move the threads between their places. *)
LEMMA SharedTypesStep == Shapes /\ PoolInv /\ SharedTypes /\ [Next]_svars => SharedTypes'
<1> SUFFICES ASSUME Shapes, PoolInv, SharedTypes, [Next]_svars
             PROVE  SharedTypes'
  OBVIOUS
<1> USE ThreadNames DEF containers, locals
<1>1. ASSUME UNCHANGED <<containers, pc, arg>>
      PROVE  SharedTypes'
  BY <1>1 DEF SharedTypes
<1>2. ASSUME NEW t \in Threads, NEW l, UNCHANGED <<containers, round>>,
             pc' = [pc EXCEPT ![t] = l],
             t = "scan" => l = "top",
             t # "server",
             t \in Checkers => l \in CheckPlaces,
             UNCHANGED arg \/ \E x : arg' = [arg EXCEPT ![t] = x]
      PROVE  SharedTypes'
  BY <1>2 DEF Shapes, SharedTypes, ScanPlaces, ServerPlaces, CheckPlaces
<1>3. CASE UNCHANGED svars \/ Exit
  BY <1>1, <1>3 DEF svars, Exit
<1>4. ASSUME NEW c \in Checkers, CheckThread(c)
      PROVE  SharedTypes'
  <2> USE DEF CheckPlaces, Goto
  <2>1. CASE NextPeer(c)
    <3>1. CASE pending[c] = {}
      BY <1>2, <2>1, <3>1 DEF NextPeer
    <3>2. CASE pending[c] # {}
      <4>1. /\ \E x : arg' = [arg EXCEPT ![c] = x]
            /\ pc' = [pc EXCEPT ![c] = "black_list"]
            /\ UNCHANGED <<containers, round>>
        BY <2>1, <3>2 DEF NextPeer
      <4>2. QED
        BY <1>2, <4>1
    <3>3. QED
      BY <3>1, <3>2
  <2>2. CASE LookAtBlackList(c)
    BY <1>2, <2>2 DEF LookAtBlackList
  <2>3. CASE LookAtMap(c)
    BY <1>2, <2>3 DEF LookAtMap
  <2>4. CASE Copy(c) \/ CopyTooFew(c)
    <3>1. /\ UNCHANGED <<containers, round, arg>>
          /\ UNCHANGED pc \/ pc' = [pc EXCEPT ![c] = "enqueue"]
      BY <2>4 DEF Copy, CopyTooFew
    <3>2. QED
      BY <1>1, <1>2, <3>1
  <2>5. QED
    BY <1>4, <2>1, <2>2, <2>3, <2>4 DEF CheckThread
<1>5. ASSUME NEW t \in Threads, AnyThread(t)
      PROVE  SharedTypes'
  <2>1. CASE BeginWhatItNeeds(t) \/ Enqueue(t) \/ Announce(t)
    BY <1>1, <2>1 DEF BeginWhatItNeeds, BeginAccess, Enqueue, Announce
  <2>2. CASE EndEnqueue(t)
    <3>1. t # "server"
      BY <2>2 DEF EndEnqueue, SharedTypes, ServerPlaces
    <3>2. t \in Checkers => t # "scan"
      OBVIOUS
    <3>3. QED
      BY <1>2, <2>2, <3>1, <3>2 DEF EndEnqueue, Goto, Forget, CheckPlaces
  <2>3. QED
    BY <1>5, <2>1, <2>2 DEF AnyThread
<1>6. ASSUME NEW w \in Workers,
             \/ PoolThread(w)
             \/ WakeForNoReason(w) /\ UNCHANGED <<containers, locks, pc, locals>>
      PROVE  SharedTypes'
  BY <1>1, <1>6 DEF PoolThread
<1>7. QED
  BY <1>3, <1>4, <1>5, <1>6, ScanTypes, ServerTypes DEF Next

(* The types of what the threads of a validator share: their containers,   *)
(* their locks and their places (peer.cpp, threadsafe.h).                  *)
THEOREM SharedTypesCorrect == Spec => []TypeOK
<1> DEFINE Types == LockTypes /\ SharedTypes
<1>1. Init => Types
  <2>1. Init => LockTypes
    BY DEF Init, LockTypes
  <2>2. Init => SharedTypes
    BY ThreadNames DEF Init, SharedTypes, ScanPlaces, ServerPlaces, CheckPlaces
  <2>3. QED
    BY <2>1, <2>2
<1>2. Shapes /\ PoolInv /\ Types /\ [Next]_svars => Types'
  BY LockTypesStep, SharedTypesStep
<1>3. Shapes /\ PoolInv /\ Types => TypeOK
  <2> SUFFICES ASSUME Shapes, PoolInv, Types
               PROVE  TypeOK
    OBVIOUS
  <2>1. pending \in [Checkers -> SUBSET Keys]
    <3>1. OtherKeys \subseteq Keys
      BY DEF OtherKeys, Keys
    <3>2. QED
      BY <3>1 DEF Shapes
  <2>2. QED
    BY <2>1 DEF Shapes, PoolInv, LockTypes, SharedTypes, Modes, ScanPlaces,
                      ServerPlaces, CheckPlaces, TypeOK
<1>4. QED
  BY <1>1, <1>2, <1>3, ValidatorUsesPool, PTL DEF Spec
=============================================================================
