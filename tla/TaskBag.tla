------------------------------ MODULE TaskBag -------------------------------
(***************************************************************************)
(* What the thread pool of a validator promises: a task that is added is   *)
(* executed at most once, in any order and next to others, until the       *)
(* process ends and takes along what is left.                              *)
(***************************************************************************)
CONSTANT Tasks

VARIABLES
  added,     \* not begun
  begun,     \* being executed
  done,      \* executed
  exited     \* the process has ended

bvars == <<added, begun, done, exited>>

BInit ==
  /\ added = {}
  /\ begun = {}
  /\ done = {}
  /\ exited = FALSE

Add(t) ==
  /\ ~ exited
  /\ t \notin added \cup begun \cup done
  /\ added' = added \cup {t}
  /\ UNCHANGED <<begun, done, exited>>

Begin(t) ==
  /\ ~ exited
  /\ t \in added
  /\ added' = added \ {t}
  /\ begun' = begun \cup {t}
  /\ UNCHANGED <<done, exited>>

Finish(t) ==
  /\ ~ exited
  /\ t \in begun
  /\ begun' = begun \ {t}
  /\ done' = done \cup {t}
  /\ UNCHANGED <<added, exited>>

Exit ==
  /\ exited' = TRUE
  /\ UNCHANGED <<added, begun, done>>

BNext == Exit \/ \E t \in Tasks : Add(t) \/ Begin(t) \/ Finish(t)

BSpec == BInit /\ [][BNext]_bvars
=============================================================================
