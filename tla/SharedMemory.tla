---------------------------- MODULE SharedMemory ----------------------------
(***************************************************************************)
(* What the threads of one validator share, at the grain of its locks: the *)
(* vertex map (an Unordered_map), the black list (an Unordered_set), the   *)
(* plain vector of sockets, and the thread pool.  An access to one of them *)
(* has a beginning and an end; between the two another thread may begin    *)
(* one, if no lock keeps it out.                                           *)
(*                                                                         *)
(* The scan thread makes vertices, stores and broadcasts them, gives up on *)
(* peers, and leaves; the server receives vertices; check_round threads    *)
(* look for vertices and ask for them.  A vertex is its key.               *)
(***************************************************************************)
EXTENDS ThreadPool, Thresholds, FiniteSetsExt

CONSTANTS
  Self,       \* this validator
  Others,     \* the peers it is connected to
  LastRound,  \* the termination round
  Checkers    \* the check_round threads

ASSUME OthersAssumption == Self \notin Others /\ IsFiniteSet(Others)
ASSUME LastRoundAssumption == LastRound \in Nat
ASSUME CheckersAssumption == Checkers \cap {"scan", "server", "free"} = {}

Threads == {"scan", "server"} \cup Checkers
Keys    == (1 .. LastRound) \X (Others \cup {Self})
Crowd   == Cardinality(Others) + 1
Objects == {"vertex_map", "black_list", "c_sockets"}

(* A task sends the message about a key to a peer: <<thread, key, peer>>.  *)
Messages == Threads \X Keys \X Others

ASSUME TasksAssumption == Tasks = Messages

VARIABLES
  vertex_map,  \* the keys of the vertices
  black_list,  \* the peers given up on
  c_sockets,   \* the peers with an open socket
  mtx,         \* mtx[o]: the thread that has locked object o, or "free"
  access,      \* access[o]: the accesses to o that have begun
  pc,          \* pc[t]: what thread t does next
  round,       \* the round of the scan thread
  arg,         \* arg[t]: the key thread t is dealing with
  pending,     \* pending[c]: the keys thread c has not looked for yet
  todo         \* todo[t]: the tasks thread t has still to enqueue

containers == <<vertex_map, black_list, c_sockets>>
locks      == <<mtx, access>>
locals     == <<round, arg, pending, todo>>
svars      == <<pvars, containers, locks, pc, locals>>

TypeOK ==
  /\ PoolTypeOK
  /\ vertex_map \subseteq Keys
  /\ black_list \subseteq Others
  /\ c_sockets \subseteq Others
  /\ mtx \in [Objects -> Threads \cup {"free"}]
  /\ access \in [Objects -> SUBSET (Threads \X {"read", "write"})]
  /\ round \in 0 .. LastRound
  /\ pending \in [Checkers -> SUBSET Keys]
  /\ todo \in [Threads -> SUBSET Tasks]
  /\ pc["scan"] \in {"top", "emplace", "erase", "store", "enqueue", "close", "left"}
  /\ pc["server"] \in {"poll", "find", "insert", "stopped"}
  /\ \A c \in Checkers :
       pc[c] \in {"unborn", "next", "black_list", "map", "copy", "enqueue", "ended"}

Init ==
  /\ PoolInit
  /\ vertex_map = {}
  /\ black_list = {}
  /\ c_sockets = Others
  /\ mtx = [o \in Objects |-> "free"]
  /\ access = [o \in Objects |-> {}]
  /\ pc = [t \in Threads |-> CASE t = "scan" -> "top"
                               [] t = "server" -> "poll"
                               [] OTHER -> "unborn"]
  /\ round = 0
  /\ arg \in [Threads -> {None}]
  /\ pending = [c \in Checkers |-> {}]
  /\ todo = [t \in Threads |-> {}]

-----------------------------------------------------------------------------
HoldsLockToWrite(o, mode) ==   \* mutant: the scoped_lock of find is a temporary
  o \in {"vertex_map", "black_list"} /\ mode = "write"

(* The members of the two containers begin with a scoped_lock.  The one of *)
(* Unordered_set::find is a temporary: it takes the mutex and releases it  *)
(* at once.                                                                *)
TakesLock(o) == o \in {"vertex_map", "black_list"}

HoldsLock(o, mode) ==
  \/ o = "vertex_map"
  \/ o = "black_list" /\ mode = "write"

Inside(t, o) == \E mode \in {"read", "write"} : <<t, mode>> \in access[o]

BeginAccess(t, o, mode) ==
  /\ ~ Inside(t, o)
  /\ TakesLock(o) => mtx[o] = "free"
  /\ mtx' = IF HoldsLock(o, mode) THEN [mtx EXCEPT ![o] = t] ELSE mtx
  /\ access' = [access EXCEPT ![o] = @ \cup {<<t, mode>>}]
  /\ UNCHANGED <<pvars, containers, pc, locals>>

EndAccess(t, o, mode) ==
  /\ <<t, mode>> \in access[o]
  /\ mtx' = IF HoldsLock(o, mode) THEN [mtx EXCEPT ![o] = "free"] ELSE mtx
  /\ access' = [access EXCEPT ![o] = @ \ {<<t, mode>>}]

Goto(t, l) == pc' = [pc EXCEPT ![t] = l]

Forget(t) == arg' = [arg EXCEPT ![t] = None]

(* The object the next step of a thread is about, and how. *)
Needs(t) ==
  CASE pc[t] = "emplace"    -> <<"black_list", "write">>
    [] pc[t] = "erase"      -> <<"c_sockets", "write">>
    [] pc[t] = "close"      -> <<"c_sockets", "write">>
    [] pc[t] = "store"      -> <<"vertex_map", "write">>
    [] pc[t] = "insert"     -> <<"vertex_map", "write">>
    [] pc[t] = "find"       -> <<"vertex_map", "read">>
    [] pc[t] = "map"        -> <<"vertex_map", "read">>
    [] pc[t] = "black_list" -> <<"black_list", "read">>
    [] pc[t] = "copy"       -> <<"c_sockets", "read">>
    [] OTHER                -> <<"none", "none">>

BeginWhatItNeeds(t) ==
  /\ Needs(t)[1] \in Objects
  /\ BeginAccess(t, Needs(t)[1], Needs(t)[2])

(* Enqueueing tasks one by one, each with its notification. *)
Enqueue(t) ==
  /\ pc[t] = "enqueue"
  /\ \A m \in unannounced : m[1] # t
  /\ \E m \in todo[t] : /\ Put(m)
                        /\ todo' = [todo EXCEPT ![t] = @ \ {m}]
  /\ UNCHANGED <<containers, locks, pc, round, arg, pending>>

Announce(t) ==
  /\ \E m \in unannounced : m[1] = t /\ Notify(m)
  /\ UNCHANGED <<containers, locks, pc, locals>>

EndEnqueue(t) ==
  /\ pc[t] = "enqueue" /\ todo[t] = {}
  /\ \A m \in unannounced : m[1] # t
  /\ Goto(t, IF t = "scan" THEN "top" ELSE "next")
  /\ Forget(t)
  /\ UNCHANGED <<pvars, containers, locks, round, pending, todo>>

-----------------------------------------------------------------------------
(* The scan thread.  total_order finds the vertex of a peer missing, *)
FindMissing(k) ==
  /\ pc["scan"] = "top"
  /\ k[1] <= round /\ k[2] \in c_sockets
  /\ arg' = [arg EXCEPT !["scan"] = k]
  /\ Goto("scan", "emplace")
  /\ UNCHANGED <<pvars, containers, locks, round, pending, todo>>

(* puts the peer on the black list, *)
Emplace ==
  /\ pc["scan"] = "emplace"
  /\ EndAccess("scan", "black_list", "write")
  /\ black_list' = black_list \cup {arg["scan"][2]}
  /\ Goto("scan", "erase")
  /\ UNCHANGED <<pvars, vertex_map, c_sockets, locals>>

(* and erases its socket. *)
Erase ==
  /\ pc["scan"] = "erase"
  /\ EndAccess("scan", "c_sockets", "write")
  /\ c_sockets' = c_sockets \ {arg["scan"][2]}
  /\ Goto("scan", "top")
  /\ Forget("scan")
  /\ UNCHANGED <<pvars, vertex_map, black_list, round, pending, todo>>

(* What broadcast enqueues for the vertex of a round. *)
Broadcast(r) == {<<"scan", <<r, Self>>, q>> : q \in c_sockets}

NextRoundBroadcastFirst ==   \* mutant: broadcast begins before add_to_map
  /\ pc["scan"] = "top" /\ round < LastRound
  /\ round' = round + 1
  /\ \E m \in Broadcast(round + 1) : Put(m)
  /\ Goto("scan", "store")
  /\ UNCHANGED <<containers, locks, arg, pending, todo>>

NextRoundPastTheLast ==      \* mutant: the round is tested before the ++ only
  /\ pc["scan"] = "top" /\ round <= LastRound
  /\ round' = round + 1
  /\ Goto("scan", "store")
  /\ UNCHANGED <<pvars, containers, locks, arg, pending, todo>>

(* A round is over: the vertex of the next one is made and stored, *)
NextRound ==
  /\ pc["scan"] = "top" /\ round < LastRound
  /\ round' = round + 1
  /\ Goto("scan", "store")
  /\ UNCHANGED <<pvars, containers, locks, arg, pending, todo>>

(* and then broadcast. *)
Store ==
  /\ pc["scan"] = "store"
  /\ EndAccess("scan", "vertex_map", "write")
  /\ vertex_map' = vertex_map \cup {<<round, Self>>}
  /\ todo' = [todo EXCEPT !["scan"] = Broadcast(round)]
  /\ Goto("scan", "enqueue")
  /\ UNCHANGED <<pvars, black_list, c_sockets, round, arg, pending>>

StartChecker(c) ==
  /\ pc["scan"] = "top" /\ pc[c] = "unborn"
  /\ \E r \in 1 .. round : pending' = [pending EXCEPT ![c] = {r} \X Others]
  /\ Goto(c, "next")
  /\ UNCHANGED <<pvars, containers, locks, round, arg, todo>>

Finish ==
  /\ pc["scan"] = "top" /\ round = LastRound
  /\ Goto("scan", "close")
  /\ UNCHANGED <<pvars, containers, locks, locals>>

Close ==
  /\ pc["scan"] = "close"
  /\ EndAccess("scan", "c_sockets", "write")
  /\ c_sockets' = {}
  /\ Goto("scan", "left")
  /\ UNCHANGED <<pvars, vertex_map, black_list, locals>>

-----------------------------------------------------------------------------
(* The server.  Its own vertices come back to it from peers that have got  *)
(* them (send_missing_vertices).                                           *)
Arriving ==
  {k \in Keys : k[2] # Self} \cup {m[2] : m \in {x \in done : x[1] = "scan"}}

Receive(k) ==
  /\ pc["server"] = "poll"
  /\ arg' = [arg EXCEPT !["server"] = k]
  /\ Goto("server", "find")
  /\ UNCHANGED <<pvars, containers, locks, round, pending, todo>>

Find ==
  /\ pc["server"] = "find"
  /\ EndAccess("server", "vertex_map", "read")
  /\ IF arg["server"] \in vertex_map
       THEN Goto("server", "poll") /\ Forget("server")
       ELSE Goto("server", "insert") /\ UNCHANGED arg
  /\ UNCHANGED <<pvars, containers, round, pending, todo>>

Insert ==
  /\ pc["server"] = "insert"
  /\ EndAccess("server", "vertex_map", "write")
  /\ vertex_map' = vertex_map \cup {arg["server"]}
  /\ Goto("server", "poll")
  /\ Forget("server")
  /\ UNCHANGED <<pvars, black_list, c_sockets, round, pending, todo>>

ServerStops ==
  /\ pc["scan"] = "left" /\ pc["server"] = "poll"
  /\ Goto("server", "stopped")
  /\ UNCHANGED <<pvars, containers, locks, locals>>

-----------------------------------------------------------------------------
(* A check_round thread takes the peers one after the other, *)
NextPeer(c) ==
  /\ pc[c] = "next"
  /\ IF pending[c] = {}
       THEN /\ Goto(c, "ended")
            /\ UNCHANGED <<arg, pending>>
       ELSE \E k \in pending[c] :
              /\ arg' = [arg EXCEPT ![c] = k]
              /\ pending' = [pending EXCEPT ![c] = @ \ {k}]
              /\ Goto(c, "black_list")
  /\ UNCHANGED <<pvars, containers, locks, round, todo>>

LookAtBlackList(c) ==
  /\ pc[c] = "black_list"
  /\ EndAccess(c, "black_list", "read")
  /\ Goto(c, IF arg[c][2] \in black_list THEN "next" ELSE "map")
  /\ UNCHANGED <<pvars, containers, locals>>

LookAtMap(c) ==
  /\ pc[c] = "map"
  /\ EndAccess(c, "vertex_map", "read")
  /\ Goto(c, IF arg[c] \in vertex_map THEN "next" ELSE "copy")
  /\ UNCHANGED <<pvars, containers, locals>>

(* and asks f + 1 of the sockets it copies, and the creator. *)
Copy(c) ==
  /\ pc[c] = "copy"
  /\ EndAccess(c, "c_sockets", "read")
  /\ Cardinality(c_sockets) > Byzantines(Crowd)
  /\ \E S \in kSubset(Byzantines(Crowd) + 1, c_sockets) :
       todo' = [todo EXCEPT ![c] = {<<c, arg[c], q>> : q \in S \cup {arg[c][2]}}]
  /\ Goto(c, "enqueue")
  /\ UNCHANGED <<pvars, containers, round, arg, pending>>

(* With fewer sockets it reads behind the end of its copy: the process     *)
(* dies, or a descriptor is made up that reaches no peer.                  *)
CopyTooFew(c) ==
  /\ pc[c] = "copy"
  /\ EndAccess(c, "c_sockets", "read")
  /\ Cardinality(c_sockets) <= Byzantines(Crowd)
  /\ \/ /\ exited' = TRUE
        /\ UNCHANGED <<pc, todo>>
     \/ /\ c_sockets # {}
        /\ Goto(c, "enqueue")
        /\ todo' = [todo EXCEPT ![c] =
                      {<<c, arg[c], q>> : q \in c_sockets \cup {arg[c][2]}}]
        /\ UNCHANGED exited
  /\ UNCHANGED <<pool, containers, round, arg, pending>>

(* main joins the two threads and leaves with exit().                      *)
Exit ==
  /\ pc["scan"] = "left" /\ pc["server"] = "stopped"
  /\ exited' = TRUE
  /\ UNCHANGED <<pool, containers, locks, pc, locals>>

-----------------------------------------------------------------------------
ScanThread ==
  \/ \E k \in Keys : FindMissing(k)
  \/ Emplace
  \/ Erase
  \/ NextRound
  \/ Store
  \/ \E c \in Checkers : StartChecker(c)
  \/ Finish
  \/ Close

ServerThread ==
  \/ \E k \in Arriving : Receive(k)
  \/ Find
  \/ Insert
  \/ ServerStops

CheckThread(c) ==
  \/ NextPeer(c)
  \/ LookAtBlackList(c)
  \/ LookAtMap(c)
  \/ Copy(c)
  \/ CopyTooFew(c)

AnyThread(t) ==
  \/ BeginWhatItNeeds(t)
  \/ Enqueue(t)
  \/ Announce(t)
  \/ EndEnqueue(t)

PoolThread(w) == Work(w) /\ UNCHANGED <<containers, locks, pc, locals>>

Next ==
  /\ ~ exited
  /\ \/ ScanThread
     \/ ServerThread
     \/ \E c \in Checkers : CheckThread(c)
     \/ \E t \in Threads : AnyThread(t)
     \/ \E w \in Workers : PoolThread(w)
     \/ \E w \in Workers : WakeForNoReason(w) /\ UNCHANGED <<containers, locks, pc, locals>>
     \/ Exit

Spec == Init /\ [][Next]_svars

(* The workers and the threads that notify them are scheduled.             *)
FairSpec ==
  /\ Spec
  /\ \A w \in Workers : WF_svars(~ exited /\ PoolThread(w))
  /\ \A t \in Threads : WF_svars(~ exited /\ Announce(t))

-----------------------------------------------------------------------------
(* Two accesses to an object at once, one of which changes it.             *)
Race(o) ==
  \E a, b \in access[o] : a # b /\ "write" \in {a[2], b[2]}

(* The vertex map is never read while it is changed.                       *)
MapIsThreadSafe == ~ Race("vertex_map")

(* The containers are "a thread safe implementation" (src/README.md:10).   *)
BlackListIsThreadSafe == ~ Race("black_list")

(* The server looks a vertex up and inserts it in two critical sections;   *)
(* in between, the scan thread inserts its own vertices.  Still the server *)
(* never takes a vertex that is in the map already: neither twice, nor one *)
(* of its own that comes back.  So the two sections act like one.          *)
InsertsOnlyNew ==
  pc["server"] = "insert" => arg["server"] \notin vertex_map
=============================================================================
