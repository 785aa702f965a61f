------------------------------ MODULE Mailbox -------------------------------
(***************************************************************************)
(* What the server thread and the scan thread of a validator promise each  *)
(* other: what the server has received gets into the buffer all at once    *)
(* and never while the scan thread is walking the buffer; every pass       *)
(* visits all that is in the buffer when it starts, and nothing else.      *)
(***************************************************************************)
CONSTANT Messages   \* vertices and answers alike

VARIABLES
  held,        \* received, not handed over
  buffer,      \* handed over, not disposed of
  passing,     \* the scan thread is walking the buffer
  unvisited,   \* the part of the buffer that is still before it
  seen         \* what some pass has visited

vars == <<held, buffer, passing, unvisited, seen>>

Init ==
  /\ held = {}
  /\ buffer = {}
  /\ passing = FALSE
  /\ unvisited = {}
  /\ seen = {}

Receive(ms) ==
  /\ held' = held \cup ms
  /\ UNCHANGED <<buffer, passing, unvisited, seen>>

HandOver ==
  /\ ~ passing
  /\ buffer' = buffer \cup held
  /\ held' = {}
  /\ UNCHANGED <<passing, unvisited, seen>>

StartPass ==
  /\ ~ passing
  /\ passing' = TRUE
  /\ unvisited' = buffer
  /\ UNCHANGED <<held, buffer, seen>>

(* The message leaves the buffer, or waits for another pass. *)
VisitOne(m) ==
  /\ m \in unvisited
  /\ unvisited' = unvisited \ {m}
  /\ seen' = seen \cup {m}
  /\ buffer' \in {buffer, buffer \ {m}}
  /\ UNCHANGED <<held, passing>>

EndPass ==
  /\ passing /\ unvisited = {}
  /\ passing' = FALSE
  /\ UNCHANGED <<held, buffer, unvisited, seen>>

Next ==
  \/ \E ms \in SUBSET Messages : Receive(ms)
  \/ HandOver
  \/ StartPass
  \/ \E m \in unvisited : VisitOne(m)
  \/ EndPass

Spec == Init /\ [][Next]_vars
=============================================================================
