------------------------------ MODULE Launcher ------------------------------
(***************************************************************************)
(* main: the launcher forks the validators one after the other and waits   *)
(* until each has built its server and stopped itself; it wakes them all,  *)
(* and each connects to the others, runs and writes a digest of its DAG to *)
(* a pipe.  The launcher reads after each exit, whoever's digest that is,  *)
(* and compares what it has read.                                          *)
(***************************************************************************)
EXTENDS Naturals, Sequences

CONSTANTS
  N,           \* how many validators there are
  Wave,        \* rounds in a wave, WAVE
  DAGs         \* what the DAG of a validator may be when it has run: a
               \* sequence with the creators of the vertices of each round

ASSUME NAssumption == N \in Nat \ {0}
ASSUME WaveAssumption == Wave \in Nat \ {0}
ASSUME DAGsAssumption == DAGs \subseteq Seq(SUBSET (1 .. N))

Peers == 1 .. N

VARIABLES
  last_round,  \* the termination round of the command line
  main,        \* what the launcher does next
  children,    \* how many it has forked
  counter,     \* how many exits it still waits for
  reaped,      \* the children whose end it has been told of
  buffer,      \* what it has read last: <<a digest>>, or <<>> for zeros
  dags,        \* what it has read, once for each exit
  fd,          \* the digests in the pipe
  status,      \* status[p]: how far validator p is
  idfile,      \* the validators whose file has the identifier of this run
  socket_map,  \* socket_map[p][q]: what p knows q by
  dag_image,   \* dag_image[p]: the DAG of p when it has run
  wrote        \* history: the validators that have written their digest

parent == <<last_round, main, children, counter, reaped, buffer, dags>>
lvars  == <<parent, fd, status, idfile, socket_map, dag_image, wrote>>

Statuses == {"unborn", "new", "listening", "constructed", "stopped", "setup",
             "running", "finished", "written", "dead"}

-----------------------------------------------------------------------------
SettledInclusive(d) == 1 .. Len(d) + 1 - 3 * Wave   \* mutant: <= for <

(* The rounds hash_dag covers.  Below 3 * Wave rounds the unsigned         *)
(* difference wraps around, and the loop runs out of the DAG (HashRunsOut).*)
Settled(d) == 1 .. Len(d) - 3 * Wave

(* hash_dag.  Hashes are taken as injective; hash_set sorts, so a round is *)
(* its set of vertices.                                                    *)
Digest(d) == [r \in Settled(d) |-> d[r]]

LInit ==
  /\ last_round \in {Len(d) : d \in DAGs}
  /\ main = "fork"
  /\ children = 0
  /\ counter = N
  /\ reaped = {}
  /\ buffer = <<>>
  /\ dags = <<>>
  /\ fd = <<>>
  /\ status = [p \in Peers |-> "unborn"]
  /\ idfile = {}
  /\ socket_map = [p \in Peers |-> [q \in Peers |-> "none"]]
  /\ dag_image = [p \in Peers |-> <<>>]
  /\ wrote = {}

Goes(p, from, to) ==
  /\ status[p] = from
  /\ status' = [status EXCEPT ![p] = to]

-----------------------------------------------------------------------------
(* The launcher forks a child *)
Fork ==
  /\ main = "fork"
  /\ Goes(children + 1, "unborn", "new")
  /\ children' = children + 1
  /\ main' = "waitpid"
  /\ UNCHANGED <<last_round, counter, reaped, buffer, dags, fd, idfile, socket_map, dag_image, wrote>>

AfterChild == IF children = N THEN "killpg" ELSE "fork"

WaitForNobody ==       \* mutant: without waitpid
  /\ main = "waitpid"
  /\ main' = AfterChild
  /\ UNCHANGED <<last_round, children, counter, reaped, buffer, dags, fd, status, idfile,
                 socket_map, dag_image, wrote>>

(* and waits for it to stop, or to end: WUNTRACED.                         *)
WaitForStop ==
  /\ main = "waitpid"
  /\ status[children] \in {"stopped", "dead"}
  /\ reaped' = IF status[children] = "dead" THEN reaped \cup {children} ELSE reaped
  /\ main' = AfterChild
  /\ UNCHANGED <<last_round, children, counter, buffer, dags, fd, status, idfile,
                 socket_map, dag_image, wrote>>

(* SIGCONT wakes those that have stopped.  The launcher closes its end of  *)
(* the pipe.                                                               *)
WakeAll ==
  /\ main = "killpg"
  /\ status' = [p \in Peers |-> IF status[p] = "stopped" THEN "setup" ELSE status[p]]
  /\ main' = "wait"
  /\ UNCHANGED <<last_round, children, counter, reaped, buffer, dags, fd, idfile,
                 socket_map, dag_image, wrote>>

Ended == {p \in Peers : status[p] = "dead"}

(* wait returns for a child that has ended, or at once, with an error,     *)
(* when there is none left to be told of.                                  *)
Wait ==
  /\ main = "wait" /\ counter > 0
  /\ \/ \E p \in Ended \ reaped : reaped' = reaped \cup {p}
     \/ reaped = Peers /\ UNCHANGED reaped
  /\ main' = "read"
  /\ UNCHANGED <<last_round, children, counter, buffer, dags, fd, status, idfile,
                 socket_map, dag_image, wrote>>

ReadUncounted ==      \* mutant: without counter--
  /\ main = "read"
  /\ fd # <<>>
  /\ buffer' = <<Head(fd)>>
  /\ fd' = Tail(fd)
  /\ dags' = Append(dags, buffer')
  /\ main' = "wait"
  /\ UNCHANGED <<last_round, children, counter, reaped, status, idfile,
                 socket_map, dag_image, wrote>>

ReadWithPipeOpen ==   \* mutant: the launcher does not close its writing end
  /\ main = "read"
  /\ fd # <<>>
  /\ buffer' = <<Head(fd)>>
  /\ fd' = Tail(fd)
  /\ dags' = Append(dags, buffer')
  /\ counter' = counter - 1
  /\ main' = "wait"
  /\ UNCHANGED <<last_round, children, reaped, status, idfile, socket_map,
                 dag_image, wrote>>

(* read takes a digest, waits for one while somebody has the pipe open for *)
(* writing, or leaves the buffer as it is.                                 *)
Read ==
  /\ main = "read"
  /\ \/ /\ fd # <<>>
        /\ buffer' = <<Head(fd)>>
        /\ fd' = Tail(fd)
     \/ /\ fd = <<>> /\ Ended = Peers
        /\ UNCHANGED <<buffer, fd>>
  /\ dags' = Append(dags, buffer')
  /\ counter' = counter - 1
  /\ main' = "wait"
  /\ UNCHANGED <<last_round, children, reaped, status, idfile, socket_map, dag_image, wrote>>

(* What the launcher prints in the end. *)
Compared == main = "wait" /\ counter = 0

equal == \A i \in 1 .. Len(dags) - 1 : dags[i] = dags[i + 1]

-----------------------------------------------------------------------------
Unread == <<parent, fd>>

(* The constructor of a validator: bind and listen, which may fail,        *)
Listen(p) ==
  /\ Goes(p, "new", "listening") \/ Goes(p, "new", "dead")
  /\ UNCHANGED <<Unread, idfile, socket_map, dag_image, wrote>>

(* then the file with the identifier.                                      *)
WriteId(p) ==
  /\ Goes(p, "listening", "constructed")
  /\ idfile' = idfile \cup {p}
  /\ UNCHANGED <<Unread, socket_map, dag_image, wrote>>

Stop(p) ==
  /\ Goes(p, "constructed", "stopped")
  /\ UNCHANGED <<Unread, idfile, socket_map, dag_image, wrote>>

(* The server of q takes connections until it leaves its loop.             *)
Listening(q) ==
  status[q] \in {"listening", "constructed", "stopped", "setup", "running"}

(* setup_network: connect to the others one by one, and read their files.  *)
Connect(p, q) ==
  /\ status[p] = "setup"
  /\ q # p /\ socket_map[p][q] = "none"
  /\ Listening(q)
  /\ socket_map' = [socket_map EXCEPT ![p][q] = IF q \in idfile THEN "id" ELSE "stale"]
  /\ UNCHANGED <<Unread, status, idfile, dag_image, wrote>>

(* One that does not listen any more ends the process. *)
ConnectFails(p, q) ==
  /\ q # p /\ socket_map[p][q] = "none"
  /\ ~ Listening(q)
  /\ Goes(p, "setup", "dead")
  /\ UNCHANGED <<Unread, idfile, socket_map, dag_image, wrote>>

Start(p) ==
  /\ \A q \in Peers \ {p} : socket_map[p][q] # "none"
  /\ Goes(p, "setup", "running")
  /\ UNCHANGED <<Unread, idfile, socket_map, dag_image, wrote>>

(* The run of a validator, up to join_threads, leaves a DAG.  *)
Run(p) ==
  /\ Goes(p, "running", "finished")
  /\ \E d \in DAGs : /\ Len(d) = last_round
                    /\ dag_image' = [dag_image EXCEPT ![p] = d]
  /\ UNCHANGED <<Unread, idfile, socket_map, wrote>>

(* Or one of its threads takes it down before it has written; the detached *)
(* ones may do so after the others have been joined.                       *)
Die(p) ==
  /\ \E s \in {"setup", "running", "finished"} : Goes(p, s, "dead")
  /\ UNCHANGED <<Unread, idfile, socket_map, dag_image, wrote>>

Write(p) ==
  /\ Len(dag_image[p]) >= 3 * Wave
  /\ Goes(p, "finished", "written")
  /\ fd' = Append(fd, Digest(dag_image[p]))
  /\ wrote' = wrote \cup {p}
  /\ UNCHANGED <<parent, idfile, socket_map, dag_image>>

HashRunsOut(p) ==
  /\ Len(dag_image[p]) < 3 * Wave
  /\ Goes(p, "finished", "dead")
  /\ UNCHANGED <<Unread, idfile, socket_map, dag_image, wrote>>

Exit(p) ==
  /\ Goes(p, "written", "dead")
  /\ UNCHANGED <<Unread, idfile, socket_map, dag_image, wrote>>

Validator(p) ==
  \/ Listen(p)
  \/ WriteId(p)
  \/ Stop(p)
  \/ \E q \in Peers : Connect(p, q) \/ ConnectFails(p, q)
  \/ Start(p)
  \/ Run(p)
  \/ Die(p)
  \/ Write(p)
  \/ HashRunsOut(p)
  \/ Exit(p)

Main == Fork \/ WaitForStop \/ WakeAll \/ Wait \/ Read

LNext == Main \/ \E p \in Peers : Validator(p)

LSpec == LInit /\ [][LNext]_lvars

(* The processes are scheduled, and the run of every validator ends: if    *)
(* one is stuck, below its last round, the launcher waits for it for ever. *)
FairLSpec ==
  /\ LSpec
  /\ WF_lvars(Main)
  /\ \A p \in Peers : WF_lvars(Validator(p))

-----------------------------------------------------------------------------
TypeOK ==
  /\ last_round \in Nat
  /\ main \in {"fork", "waitpid", "killpg", "wait", "read"}
  /\ children \in 0 .. N
  /\ counter \in 0 .. N
  /\ reaped \subseteq Peers
  /\ Len(buffer) <= 1
  /\ Len(dags) + counter = N
  /\ status \in [Peers -> Statuses]
  /\ idfile \subseteq Peers
  /\ socket_map \in [Peers -> [Peers -> {"none", "id", "stale"}]]
  /\ \A p \in Peers : dag_image[p] \in DAGs \cup {<<>>}
  /\ wrote \subseteq Peers

(* A validator knows the others by the identifiers of this run: the port   *)
(* files of the last one, which are still there, are never read, although  *)
(* a server takes connections before its file is written.                  *)
IdsAreFresh ==
  \A p, q \in Peers : socket_map[p][q] # "stale"

(* The verdict is right, although digests are read in any order, after the *)
(* exits of others, and once too often for every validator that died: the  *)
(* launcher finds all equal exactly when the validators that came to write *)
(* agree on everything but the last three waves.  (So also when none of    *)
(* them did.)                                                              *)
AgreeUpTo(n) ==
  \A p, q \in wrote : SubSeq(dag_image[p], 1, n) = SubSeq(dag_image[q], 1, n)

VerdictIsAgreement ==
  Compared => (equal <=> AgreeUpTo(last_round - 3 * Wave))

(* The launcher comes to its verdict, whoever dies when.                   *)
LauncherEnds == <>Compared
=============================================================================
