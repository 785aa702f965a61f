----------------------------- MODULE Handshake ------------------------------
(***************************************************************************)
(* How the server thread hands what it has received to the scan thread of  *)
(* the same validator: two atomic flags, a mutex and a condition variable. *)
(* One action per access to any of them.                                   *)
(*                                                                         *)
(* The condition variable is waited on without a predicate: the scan       *)
(* thread goes on whenever it wakes up, for a reason or not, and a         *)
(* notification while it is not waiting is lost.  Wake-ups for no reason   *)
(* are limited to Spurious.  What the scan thread does between two passes  *)
(* and its decision to leave are left open.                                *)
(***************************************************************************)
EXTENDS Naturals

CONSTANTS
  Messages,   \* what may arrive: vertices and requests that can be answered
  Noise,      \* messages the server drops (known vertices, other requests)
  Spurious    \* bound on the wake-ups for no reason

ASSUME SpuriousAssumption == Spurious \in Nat

VARIABLES
  net,         \* what has not arrived yet
  held,        \* temp_list and temp_request_list of the server
  buffer,      \* the buffer and the requests of the peer
  unvisited,   \* the part of the buffer the current pass has not reached
  seen,        \* history: what a pass has visited
  ready,       \* scan_buffer_thread_ready
  is_up,       \* is_up
  mutex,       \* "free" | "scan" | "server": the holder of the mutex
  scan,        \* where the scan thread is
  server,      \* where the server thread is
  wakeups      \* wake-ups for no reason so far

lists   == <<held, buffer, unvisited, seen>>
threads == <<scan, server>>
hvars   == <<net, lists, ready, is_up, mutex, threads, wakeups>>

TypeOK ==
  /\ net \subseteq Messages \cup Noise
  /\ held \subseteq Messages
  /\ buffer \subseteq Messages
  /\ unvisited \subseteq buffer
  /\ seen \subseteq Messages
  /\ ready \in BOOLEAN
  /\ is_up \in BOOLEAN
  /\ mutex \in {"free", "scan", "server"}
  /\ scan \in {"top", "locked", "signalled", "waiting", "woken", "pass",
               "down", "release", "left"}
  /\ server \in {"test", "poll", "spin", "claim", "lock", "insert", "notify",
                 "clear", "stopped"}
  /\ wakeups \in 0 .. Spurious

Init ==
  /\ net = Messages \cup Noise
  /\ held = {}
  /\ buffer = {}
  /\ unvisited = {}
  /\ seen = {}
  /\ ready = FALSE
  /\ is_up = TRUE
  /\ mutex = "free"
  /\ scan = "top"
  /\ server = "test"
  /\ wakeups = 0

-----------------------------------------------------------------------------
(* The scan thread, from the end of its work on the rounds. *)
ScanLock ==
  /\ scan = "top" /\ mutex = "free"
  /\ mutex' = "scan"
  /\ scan' = "locked"
  /\ UNCHANGED <<net, lists, ready, is_up, server, wakeups>>

SignalReady ==
  /\ scan = "locked"
  /\ ready' = TRUE
  /\ scan' = "signalled"
  /\ UNCHANGED <<net, lists, is_up, mutex, server, wakeups>>

(* cv.wait releases the mutex and blocks in one step. *)
Wait ==
  /\ scan = "signalled"
  /\ mutex' = "free"
  /\ scan' = "waiting"
  /\ UNCHANGED <<net, lists, ready, is_up, server, wakeups>>

WakeForNoReason ==
  /\ scan = "waiting" /\ wakeups < Spurious
  /\ wakeups' = wakeups + 1
  /\ scan' = "woken"
  /\ UNCHANGED <<net, lists, ready, is_up, mutex, server>>

(* Awake, cv.wait takes the mutex back before it returns. *)
StartPass ==
  /\ scan = "woken" /\ mutex = "free"
  /\ mutex' = "scan"
  /\ unvisited' = buffer
  /\ scan' = "pass"
  /\ UNCHANGED <<net, held, buffer, seen, ready, is_up, server, wakeups>>

VisitOne(m) ==
  /\ scan = "pass"
  /\ m \in unvisited
  /\ unvisited' = unvisited \ {m}
  /\ seen' = seen \cup {m}
  /\ buffer' \in {buffer, buffer \ {m}}
  /\ UNCHANGED <<net, held, ready, is_up, mutex, threads, wakeups>>

GoOn ==
  /\ scan = "pass" /\ unvisited = {}
  /\ mutex' = "free"
  /\ scan' = "top"
  /\ UNCHANGED <<net, lists, ready, is_up, server, wakeups>>

(* The three steps of leaving: is_up, scan_buffer_thread_ready, mutex. *)
Leave ==
  /\ scan = "pass" /\ unvisited = {}
  /\ is_up' = FALSE
  /\ scan' = "down"
  /\ UNCHANGED <<net, lists, ready, mutex, server, wakeups>>

ReleaseUnsignalled ==  \* mutant: the flag is not set on the way out
  /\ scan = "down"
  /\ scan' = "release"
  /\ UNCHANGED <<net, lists, ready, is_up, mutex, server, wakeups>>

ReleaseServer ==
  /\ scan = "down"
  /\ ready' = TRUE
  /\ scan' = "release"
  /\ UNCHANGED <<net, lists, is_up, mutex, server, wakeups>>

Left ==
  /\ scan = "release"
  /\ mutex' = "free"
  /\ scan' = "left"
  /\ UNCHANGED <<net, lists, ready, is_up, server, wakeups>>

-----------------------------------------------------------------------------
(* The server thread. *)
TestIsUp ==
  /\ server = "test"
  /\ server' = IF is_up THEN "poll" ELSE "stopped"
  /\ UNCHANGED <<net, lists, ready, is_up, mutex, scan, wakeups>>

PollUnfiltered(batch) ==    \* mutant: what should be dropped is kept
  /\ server = "poll"
  /\ net' = net \ batch
  /\ held' = held \cup batch
  /\ server' = IF held' # {} \/ batch = {} THEN "spin" ELSE "test"
  /\ UNCHANGED <<buffer, unvisited, seen, ready, is_up, mutex, scan, wakeups>>

PollWithoutTick(batch) ==   \* mutant: no handoff when nothing has arrived
  /\ server = "poll"
  /\ net' = net \ batch
  /\ held' = held \cup (batch \cap Messages)
  /\ server' = IF held' # {} THEN "spin" ELSE "test"
  /\ UNCHANGED <<buffer, unvisited, seen, ready, is_up, mutex, scan, wakeups>>

(* epoll_wait does not block: the server handles what has arrived, maybe   *)
(* nothing at all, and then has something to hand over or notifies anyway. *)
Poll(batch) ==
  /\ server = "poll"
  /\ net' = net \ batch
  /\ held' = held \cup (batch \cap Messages)
  /\ server' = IF held' # {} \/ batch = {} THEN "spin" ELSE "test"
  /\ UNCHANGED <<buffer, unvisited, seen, ready, is_up, mutex, scan, wakeups>>

(* The busy waiting for the flag ends, *)
Spin ==
  /\ server = "spin" /\ ready
  /\ server' = "claim"
  /\ UNCHANGED <<net, lists, ready, is_up, mutex, scan, wakeups>>

(* and the server takes the flag down. *)
Claim ==
  /\ server = "claim"
  /\ ready' = FALSE
  /\ server' = "lock"
  /\ UNCHANGED <<net, lists, is_up, mutex, scan, wakeups>>

ServerGoesAhead ==     \* mutant: without the lock
  /\ server = "lock"
  /\ server' = "insert"
  /\ UNCHANGED <<net, lists, ready, is_up, mutex, scan, wakeups>>

ServerLock ==
  /\ server = "lock" /\ mutex = "free"
  /\ mutex' = "server"
  /\ server' = "insert"
  /\ UNCHANGED <<net, lists, ready, is_up, scan, wakeups>>

Insert ==
  /\ server = "insert"
  /\ buffer' = buffer \cup held
  /\ mutex' = "free"
  /\ server' = "notify"
  /\ UNCHANGED <<net, held, unvisited, seen, ready, is_up, scan, wakeups>>

Notify ==
  /\ server = "notify"
  /\ scan' = IF scan = "waiting" THEN "woken" ELSE scan
  /\ server' = "clear"
  /\ UNCHANGED <<net, lists, ready, is_up, mutex, wakeups>>

Clear ==
  /\ server = "clear"
  /\ held' = {}
  /\ server' = "test"
  /\ UNCHANGED <<net, buffer, unvisited, seen, ready, is_up, mutex, scan, wakeups>>

-----------------------------------------------------------------------------
ScanThread ==
  \/ ScanLock
  \/ SignalReady
  \/ Wait
  \/ StartPass
  \/ \E m \in unvisited : VisitOne(m)
  \/ GoOn
  \/ Leave
  \/ ReleaseServer
  \/ Left

ServerThread ==
  \/ TestIsUp
  \/ \E batch \in SUBSET net : Poll(batch)
  \/ Spin
  \/ Claim
  \/ ServerLock
  \/ Insert
  \/ Notify
  \/ Clear

Next == ScanThread \/ WakeForNoReason \/ ServerThread

Spec == Init /\ [][Next]_hvars

(* Both threads are scheduled; nothing makes the network deliver, nor the  *)
(* scan thread wake up by itself.                                          *)
FairSpec == Spec /\ WF_hvars(ScanThread) /\ WF_hvars(ServerThread)

-----------------------------------------------------------------------------
(* The flags, the mutex and the condition variable make a mailbox: the     *)
(* handoff is one step, which no pass over the buffer overlaps.  It takes  *)
(* effect as the server inserts; the copies it clears later are its own.   *)
MB == INSTANCE Mailbox WITH
        held <- IF server \in {"notify", "clear"} THEN {} ELSE held,
        passing <- scan = "pass"

ImplementsMailbox == MB!Spec

(* What the server has received is visited by the scan thread in the end,  *)
(* however many notifications get lost, unless the scan thread leaves.     *)
HeldIsSeen ==
  \A m \in Messages : m \in held ~> m \in seen \/ scan \in {"down", "release", "left"}

(* The scan thread never waits for ever, even if nothing arrives any more: *)
(* it is up to it to notice that the time of its round is over.            *)
WaitingEnds == scan = "waiting" ~> scan # "waiting"

(* When the scan thread has left, the server stops, so that the joins of   *)
(* both threads return.                                                    *)
ServerStops == scan = "left" ~> server = "stopped"
=============================================================================
