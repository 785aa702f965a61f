# Formal model of DAG-Blockchain

TLA+ specifications, TLC model-checking runs and TLAPS proofs for the validators
of this repository: processes that build, round by round, a directed acyclic
graph of vertices which all of them are to agree on. Paths below are relative to
the root of the repository (`src/` for its sources).

Contents: 1 the system and its parts · 2 the modules and the code · 3 the runs ·
4 the proofs · 5 divergences between code and documentation · 6 what the models leave
out · 7 plan.

## 1. The system

The launcher (`src/main.cpp`) forks one process per validator. Each process is a
`Peer` with these threads:

```
                other validators
                 |            ^
     messages in |            | broadcast, answers, resent vertices, requests
                 v            |
  +-------------------+   +---------------+
  | server thread     |   | thread pool   |<--- tasks -----------+
  | Server::start     |   | c_sendn       |<--- tasks --+        |
  +-------------------+   +---------------+             |        |
     | vertex_map (shared)                              |        |
     | temp_list, temp_request_list                     |        |
     |   == handshake: two flags, mutex, cv ==>   +--------------------------+
     +--> buffer, requests ---------------------> | scan thread              |
                                                  | buffer_scan_move_round   |
                                                  +--------------------------+
                                                        | starts
                                                        v
                                          check_round threads (detached)
```

| Part | State | Operations | What makes it correct |
|---|---|---|---|
| Thresholds | none | `ceil(n/3 - 1)`, `2f + 1` | two quorums share more than `f` peers |
| DAG protocol between the peers | `round`, `dag_image`, `vertex_map` | propose, learn, admit | causal closure, no equivocation, authenticity, slots inside the rounds entered, peers move together, nobody waits for ever on everybody |
| Vertex (`vertex.cpp`) | round, creator, references, payload | `add_ref`, `hash`, (de)serialise | one hash is one vertex although the hash leaves the references out |
| Scan thread (`peer.cpp:87`) | `round`, `dag_image`, `buffer`, `requests`, `set`, `stop`, `black_list`, `c_sockets` | advance, call for help, give up, pass over the buffer, resend, wave housekeeping, leave | implements the protocol; what it holds is held once; sockets and black list agree; a call for help asks for what is lacking |
| check_round threads (`peer.cpp:391`) | `requests_asked`, a copy of the sockets | one request per absent vertex | asks for what is absent and not given up on |
| Server (`networking.cpp:99`) | `vertex_map`, `temp_list`, `temp_request_list` | receive vertex, receive request, hand over, stop | a vertex is taken once, and handed over once |
| Handshake of the two threads | `scan_buffer_thread_ready`, `is_up`, mutex, condition variable | 20 accesses to them | a mailbox: atomic handoff, none during a pass, nothing left unseen, no thread stuck |
| Client | `c_sockets`, `socket_map` | connect, look up, close | as above; it knows the others by the identifiers of this run |
| Message framing, byte streams | 4-byte length, delimiters, `c_recvn`, `c_sendn` | serialise, send in pieces, peek, receive, split | what is sent on a connection arrives, whole and in order |
| Containers (`threadsafe.h`) | vertex map, black list, their mutexes | find, at, insert, emplace | no access during a change; test and insert act like one |
| Thread pool (`threadsafe.h`) | queue, mutex, condition variable, workers | enqueue, notify, take, execute | each task is executed once, and none is left while all workers sleep |
| `hash_dag` | digest of the settled rounds | hash | equal digests mean equal settled rounds |
| Launcher | children, pipe, buffer | fork, stop/continue, wait, read, compare | its verdict is agreement, whoever died |
| Records | counters, file | write a line | *not modelled* |

How the parts interact: the peers by messages over TCP (a vertex, or a request
for the vertex of a hash); server and scan thread by the lists, behind the
handshake, and by `vertex_map`, which both write; the scan thread and the
check_round threads by `black_list`, `c_sockets` and `vertex_map`; everybody
sends by enqueueing tasks in the pool. The launcher and the validators interact
through signals, the files with identifiers and ports, and the pipe.

What is hard: messages are lost on purpose (`networking.cpp:490`), delayed each
by a random time and answered out of order; a peer may be ahead of or behind the
sender of what it receives; the scan thread may wake up for no reason and loses
notifications; a peer that is slow is told from one that has failed by waves
only; peers leave or die while others still need them; and all of it must never
put a vertex in a DAG without its past, or two vertices under one hash. Below the
protocol, messages are bytes that are sent in parts by several workers at once and
cut apart again by delimiters, threads share containers of which not all calls
lock, and the launcher reads digests in the order of exits that are not the order
in which they were written. The full
list, each with its line and the property that would catch it going wrong, is
`hazards` in `PROJECT.json`.

## 2. The modules and the code

`PROJECT.json` (`map`) names the lines of every definition.

| Module | Models | Built on |
|---|---|---|
| `Thresholds` | `f`, the quorum of a round, the majority of the server | |
| `DagProtocol` | what the validators promise together: the abstract protocol | `Thresholds` |
| `Waves` | which rounds the housekeeping of a wave looks at, and when | |
| `Validators` | every validator with its threads, lists and messages | `DagProtocol`, `Waves` |
| `Mailbox` | what server and scan thread promise each other | |
| `Handshake` | the two flags, the mutex and the condition variable | refines `Mailbox` |
| `TaskBag` | what the thread pool promises | |
| `ThreadPool` | queue, workers, late notifications | refines `TaskBag` |
| `SharedMemory` | the threads of one validator on vertex map, black list, sockets and pool, lock by lock | `ThreadPool`, `Thresholds` |
| `Framing` | a vertex as bytes, and the way back | |
| `Resending` | the packets in which vertices are sent again | |
| `Splitting` | the bytes of a packet and the loop that cuts it into vertices | `Framing`, `Resending` (what a packet is) |
| `Connection` | the connections of one server, from the pools of its peers to its event loop | |
| `Launcher` | `main`: the launcher and the lives of the validators | |
| `DagProtocolProofs`, `ValidatorsProofs`, `HandshakeProofs`, `ThreadPoolProofs`, `SharedMemoryProofs`, `FramingProofs`, `ConnectionProofs`, `LauncherProofs` | the theorems of section 4 | |
| `MCDag`, `MCDag4`, `MCValidators`, `MCWaves`, `MCRecovery`, `MCHandshake`, `MCShared`, `MCConnection`, `MCLauncher` | instances for TLC; `MCConnection` also composes `Connection` with `Splitting` | |

**`DagProtocol`** keeps, per peer, its round, the hashes in its DAG round by
round, and the vertices its process knows. `Propose` is the branch
`peer.cpp:124-164` (enter the next round; unless that is past the last one,
build the vertex on the previous round of the own DAG, store it, count it).
`Learn` is the reception of a vertex (`networking.cpp:187-208`): the majority of
references or round 1, and a hash that is new. `Admit` is the move from buffer to
DAG (`peer.cpp:205-237`): the round is reached and, after round 1, every
reference is in the DAG. The network is *read*: a peer may learn any vertex of
another one's map, because whatever is sent is taken from that map and no vertex
leaves it; loss, delay, reordering and duplicates are all covered by learning
later or never.

**`Validators`** is the detailed specification. The scan thread has a program
counter: `top` of the loop, `wait` on the condition variable, `pass` over the
buffer, `left`, `crashed`. `Advance` is the whole branch of a peer with a quorum,
with the housekeeping of the wave (`dag_scan`, `total_order`) and the broadcast;
`AskForHelp` and `GiveUp` are the branch without a quorum once the time of the
round is over; `Idle` is all other cases. `Wake` answers the requests handed
over and starts a pass, `Visit` decides one vertex (`Take`, with or without
resending what its creator seems to lack, or `Postpone`), `EndPass` goes on or
leaves. The server has `ReceiveVertex`, `ReceiveRequest` and `Handoff`, and
`Check` is one iteration of a check_round thread. The broadcasts go to the
sockets that are left after the housekeeping of the same step, as in the code.
`Crash` and `CheckCrash` are the two places where the code walks off a vector:
erasing the last socket (`peer.cpp:509`) and reading the first socket of none.
`Without` is the loop that erases sockets from the vector: it numbers the places that
stay anew by counting those before them, so that it can be reasoned about.
Time is a choice: the time of a round may be over or not whenever it is looked
at, which is what a clock against random delays can be. `Validators`
*implements* `DagProtocol` with the identity on the shared variables:
`Advance` is `Propose`, `ReceiveVertex` is `Learn`, `Take` is `Admit`, everything
else is a stutter.

**`Handshake`** has one action per access to `scan_buffer_thread_ready`, `is_up`,
the mutex and the condition variable. `cv.wait` has no predicate, so the model
has wake-ups for no reason (`WakeForNoReason`) and notifications that nobody
waits for (`Notify`). `Validators` uses the result: there, a handoff is one step,
and never during a pass. `ImplementsMailbox` is what justifies that: the handoff
takes effect when the server inserts, and the lists it clears afterwards are its
own.

**`SharedMemory`** opens up what `Validators` does in one step: an access to the
vertex map, the black list or the vector of sockets has a beginning and an end, and
a lock where the container has one (`HoldsLock`). The scan thread stores a vertex
and broadcasts it, finds a peer missing, black-lists it and erases its socket, and
leaves; the server looks a vertex up and inserts it in two critical sections
(`Find`, `Insert`); a check_round thread looks at black list and map and copies the
sockets. Each of them enqueues tasks in the pool, which is **`ThreadPool`**:
`enqueue` notifies after it has unlocked, in a step of its own. `Exit` takes the
queue along, because `main` leaves with `exit()`. `ThreadPool` implements
**`TaskBag`**, which is what `Validators` takes the pool to be (a message is on the
wire from the moment it is enqueued, and is received late, never, and in any order).

**`Framing`** writes the bytes of a vertex (`serialize_data`) and reads them
(`deserialize_data`). **`Resending`** is `send_missing_vertices`: `AddVertex` is a turn
of its loop, with `realloc`, the copy and, when the packet is full, the sending and the
resets; `SendRest` is what follows the loop; its four variables are those of the
function. **`Splitting`** is the end of `c_recvn`: a packet has arrived with the length
`attach_length_to_msg` has put over its first four bytes, and `Cut` goes on to the next
place with two delimiters three bytes apart. **`Connection`** is a server and the TCP connections to it:
`c_sendn` with its loss, short sends and its loop, several workers of a peer on the
same socket, the shutdown, and the loop of the server over what `epoll_wait` has found
ready, one thread for all: accept, `examine_msg`, `recv` with `MSG_WAITALL` (nothing
else is done meanwhile), the end of a connection. The scan thread of its peer may clear
`is_up` at any moment (`TellToStop`); the server looks at it before each `epoll_wait` and
ends (`Stop`), with whatever is unread left unread. The receiving functions have
different ways to go wrong when less than expected is there. There, a message is a few
pieces: the two halves of the length of a packet (`examine_msg` peeks at it), and the
rest.

**`Launcher`** has an action per step of `main`: `Fork`, `WaitForStop`, `WakeAll`,
`Wait`, `Read`; and for each validator the constructor (`Listen`, `WriteId`), `Stop`,
`setup_network` (`Connect`, `ConnectFails`), the run, `hash_dag` and its end. The run
of a validator leaves any DAG of the constant `DAGs`; that DAGs have a common past is
the subject of the other modules.

Approximations, all on the side of more behaviours unless stated:

- SHA-256 is injective, and two (round, identifier) pairs never give the same
  digits: the identifiers are nanoseconds since the epoch, all with the same
  number of them.
- A task is on the wire when it is enqueued; its delay, the loss in `c_sendn`
  and a queue that dies with its process are messages received late or never. A
  vertex stays on the wire, since receiving it again has no effect; a request is
  taken off it once received (asking again puts it back).
- The lists are sets and a pass visits them in any order. `HeldOnce` shows that
  no vertex is ever in them twice.
- The pending iterations of two check_round threads for the same round are one
  set, so an iteration that both have pending happens once (fewer requests; the
  receiver would answer the second like the first).
- With some sockets, but fewer than `f + 1`, `make_request` reads descriptors
  behind its vector. What it sends there is taken to reach no server, or the
  process dies (`CopyTooFew` of `SharedMemory`).
- `SharedMemory` has no contents for its vertices but their keys, and lets the scan
  thread give up on a peer at any time; a thread inside an access may take any time.
- In `Connection` bytes that do not start a message make the reader `confused`,
  where the model stops; where a packet is cut is decided by `Splitting` for packets
  that have arrived whole.
- After `Stop` a peer may still send to a process that has ended; the model does not tell
  sends that fail by then from others, since nobody reads what they bring.
- `Deserialize` is given bytes that hold the fields they announce; what the code makes
  of others (it reads what lies behind them) is a step of `Connection` that may kill the
  process (`Choke`).
- In `Splitting` a delimiter in the last three bytes of a packet is not looked for: behind
  it the buffer has zeros.
- Hashes and payloads are as long as a constant says in `Framing` (the code has 64
  hexadecimal digits); all other fields have the widths of the code.
- `total_order` erases the last socket and then increments the end iterator; the
  outcome modelled is the death of the process.
- A first-round vertex is visited with the `set` of an earlier visit, as in the
  code (variable `missing`).
- Rounds count from 1 and the source indexes `dag_image` from 0.
- `fail` is always false in `main.cpp` (the line that sets it is a comment). The
  parameter `Failing` keeps the behaviour of the code under `fail` available.

## 3. The runs

TLC checks the instances below with `tlc -config <cfg> <module>`. A run is
exhaustive for its bounds.

| Run | Module, configuration | Instance | Distinct states | Shows |
|---|---|---|---|---|
| `dag_three` | `MCDag` | 3 peers, 2 rounds, symmetry | 1 271 903 | `TypeOK`, `CausalHistory`, `NoEquivocation`, `Authentic`, `SlotsEntered` |
| `dag_four` | `MCDag4` | 4 peers, 3 rounds: all up (one of them sees the last round), or one down | 142 023 | `NoneRunsAhead`, `CommonReferences`, `VotedIsShared`, `CommonCore`, `NobodyLeftWaiting` |
| `validators_pair` | `MCValidators` | 2 validators, 4 rounds, one may leave in round 2 | 120 976 | `ValidatorsTypeOK`, `HeldOnce`, refinement `Spec` |
| `waves` | `MCWaves` | 3 validators, 5 rounds, waves of 2 | 111 267 | `SocketsAndBlackList`, `MissingAreKnown` |
| `recovery` | `MCRecovery` | 4 validators, 5 rounds, waves of 2 | 655 596 | `HelpForTheQuorum`, `HelpIsEnough`, `SocketsSuffice` |
| `stuck` | `MCRecovery`, `MCStuck.cfg` | 4 validators, 2 rounds | 32 916 | `LastRoundEnds` |
| `handshake` | `MCHandshake` | 2 messages, 1 dropped, 2 wake-ups | 11 576 | `TypeOK`, `ImplementsMailbox`, `HeldIsSeen`, `WaitingEnds`, `ServerStops` |
| `shared` | `MCShared` | 1 validator, 1 other, 1 round, 1 check_round thread, 2 workers | 25 256 | `TypeOK`, `MapIsThreadSafe`, `InsertsOnlyNew`, `NoLostWakeup`, `ImplementsTaskBag`, `TasksAreExecuted` |
| `connection` | `MCConnection` | 2 connections, 2 packets, 1 request, 2 workers on the one and 1 on the other, 2 short sends; 769 packets of one or two vertices; 4 vertices to resend, in any order | 211 698 | `TypeOK`, `SplitIsExact`, `ResentFits`, `Faithful`, `NothingLeftBehind`, `Arrives` |
| `launcher` | `MCLauncher` | 3 validators, waves of 1, DAGs of 2 to 4 rounds | 75 491 | `TypeOK`, `IdsAreFresh`, `VerdictIsAgreement`, `LauncherEnds` |
| `blacklist_slow` | `MCRecovery`, `MCBlackList.cfg` | 4 validators, 5 rounds, waves of 2 | | violates `BlackListedHaveFailed` (section 5) |
| `black_list_race` | `MCShared`, `MCRace.cfg` | as `shared` | | violates `BlackListIsThreadSafe` (section 5) |

### The protocol

`dag_three` takes every interleaving. With three peers `f` is 0 and the quorum is
the peer's own vertex, so a peer may run to the end alone before another one
starts: the largest differences between peers that two rounds allow. Two rounds
are enough to have references, and to have a vertex whose past is missing; the
proofs of section 4 lift the bounds.

`dag_four` is the smallest crowd with a fault to tolerate, where the quorum is
three. A vertex that can be admitted is admitted before any other step ("eager
admission"): admissions of different peers commute, and a peer that proposes
before it admits a vertex looks to the others like one that has not received it
yet. With all four up, the vertices of round 2 reach one peer only, the observer, so
nobody else enters round 3: what a peer makes of them shows on any one peer. The run
also starts from three peers with the fourth down; that part is small
because the three are just a quorum: each needs the vertices of both others in each
round, so they stay together.

- `CausalHistory`: a vertex is in a DAG only with everything it refers to.
- `NoEquivocation`: one hash is one vertex in all processes, although
  `Vertex::hash` leaves the references out.
- `Authentic`: nobody holds a vertex its creator has not made, entered the round
  of, and counted in its own DAG.
- `SlotsEntered`: no hash is filed under a round the peer has not entered (that
  would be behind the end of `dag_image`).
- `NoneRunsAhead`: whoever is in round `r` has a quorum in `r - 1` or beyond.
- `CommonReferences`: any two vertices of a round refer to more than `f` common
  vertices (for a crowd of `3f + 1`).
- `VotedIsShared`: a vertex of round `r` that more than `f` vertices of the next round
  refer to (they vote for it) is in the DAG of everybody who has left round `r + 1`,
  and of everybody after. So what can be missing from a peer that is two rounds
  further has few votes: loss can keep back a vertex that few have seen, and no other.
- `CommonCore`: once somebody has left round `r + 1`, some vertex of round `r` has
  these votes (for a crowd of `3f + 1`): in each round there is something that
  everybody will have.
- `NobodyLeftWaiting`: whichever quorum of the peers is alive, once everything has
  been delivered and admitted among them, none of them is in a round, waiting for
  vertices that nobody will make.

### The validators

`validators_pair` has every interleaving of the threads of two validators, one of
which may leave in round 2 (what `fail` does in round 27) or die; it may also be
slow and catch up. `stuck` has every interleaving of one validator among four,
two of which make a first vertex and answer nothing: it is without a quorum at
every point of its loop, calls for help in the first round and gives up in the
last one. A peer below the last round does not give up: it calls for help for ever,
also when all the others have left (there is no property against it; it is what the
code does).

- `Spec`: each step of a validator is a step of the protocol or leaves it alone.
- `HeldOnce`: each vertex of `vertex_map` is in exactly one of the list of the
  server, the buffer and the DAG. The server drops every later copy, so a vertex
  in none of them would be lost for good.
- `LastRoundEnds`: whoever reaches the last round leaves it, with a quorum or
  without. The fairness: the scan thread is scheduled (weak fairness); it is notified
  again and again while it waits (`WaitingEnds` of the handshake) and the clock, which
  is not reset in the last round, is past the limit from some moment on, so that
  `GiveUp`, possible again and again, is taken (strong fairness).

`waves` follows one validator, with every interleaving of its own threads,
through look-ups and black-listing, while the other two stop in round 1 and round
2. Waves of two rounds reach every case of the schedule within five rounds (the
source has waves of four; `Wave` is a parameter and the proofs hold for all).

- `SocketsAndBlackList`: a running peer has a socket, once, for exactly the peers
  it has not black-listed, over any number of waves.
- `MissingAreKnown`: the hashes left in `set`, which `send_missing_vertices`
  looks up without testing the result, are all in the map, however old.

`recovery` has the fourth of four validators never scheduled, so that the other
three are just a quorum. One of them takes its steps, loses and delays its
messages at will; the other two take their steps as soon as they can, one after
the other. `HelpForTheQuorum` speaks of all moments at which
those that have not made a first vertex leave a quorum or less, here the three; for
each pair of them: if one lacks the vertex another has made of the round
it is in, then its call for help covers that round, asks for that vertex, has `f + 1`
sockets to go out on if the one who calls still runs, and goes to the creator, who is not
black-listed by it, has the vertex, and has not left, unless in the last round or because
it was to fail. So nobody who still has rounds before it withholds what others need. It
is *not* said that the creator answers: it may have died (no other peer need have the
vertex then), and in the last round it may give up and leave while others are stuck a round
below. The third validator of the run does give up in the last round, so that such
states are among those checked. `HelpIsEnough`: of the same
moments, and of every window of a call for help that does *not* reach a round: nothing
is lacking there, for whoever has left a round when no more than a quorum has started
has everything that was made of it. `SocketsSuffice`: whoever has
fewer than the `f + 1` sockets `make_request` reads, running or not, is one that leaves
(the scan thread closes them; check_round threads may still be at work) or has given up on
more than `f` others. These two situations of `peer.cpp:452` do arise in the code, and
what `make_request` does then is `CheckCrash` of `Validators` and `CopyTooFew` of
`SharedMemory`; the property is that nothing else brings them about. (That the two are
prompt is a restriction of the run, made for its size.) Five rounds are two
and a half waves of two, which is when black-listing starts.

### The handshake, and fairness

`FairSpec` assumes weak fairness of the scan thread and of the server thread: both
are operating-system threads that are always scheduled, and the server busy-waits
(with `sleep(1)`). The scan thread blocks only on the mutex and the condition variable
that are modelled. The server also blocks in the socket calls, above all in `recv` with
`MSG_WAITALL` (`networking.cpp:540`) until all of a packet is there, and `c_recvn` may
spin for ever on a torn stream; these are the subject of `Connection`. The liveness
properties of `handshake` hold as long as each reception terminates. Nothing is assumed of the network, which may never deliver,
and nothing of wake-ups for no reason (`Spurious = 2` of them: one makes the flag
say that a scan thread waits which does not, and two do so across a handoff).
Weak fairness is enough for the mutex: the scan thread cannot take it again and
again while the server waits for it, because it waits on the condition variable in
between and has a bounded number of wake-ups without the server.

- `ImplementsMailbox`: the refinement of `Mailbox`.
- `HeldIsSeen`: whatever the server has kept is visited by the scan thread or the
  scan thread leaves.
- `WaitingEnds`: the scan thread never waits for ever, also when nothing arrives
  any more (it looks at the clock only after a wake-up).
- `ServerStops`: when the scan thread has left, the server stops and both joins
  return.

### One validator and its connections

`shared` interleaves every access of the threads of one validator. One other peer,
one round and one check_round thread are enough for every pair of accesses to meet,
for both workers to be asleep when a task comes and for a task to be taken before
its notification; three others have more than ten million states. With one other,
`f` is 0 and the only way to have too few sockets is to have none. The proofs hold
for all sizes.

- `MapIsThreadSafe`: the vertex map is never read or changed while it is changed.
- `InsertsOnlyNew`: the server, which looks a vertex up and inserts it in two
  critical sections, never inserts one that is in the map by then. This is what
  makes `ReceiveVertex` of `Validators` one step: the scan thread stores its vertex
  before it broadcasts it, so no copy can come back between the two sections.
- `NoLostWakeup`, `ImplementsTaskBag`: see `ThreadPool` above.
- `TasksAreExecuted`: each task is executed, unless the process ends. `FairSpec` has
  weak fairness of each worker and of the second half of `enqueue`: both are threads
  that are scheduled and take their time (a task sleeps and sends) but end.

`connection` has every interleaving of three workers and the server, on two
connections that are accepted late and shut down at any moment, while the server may be
told to stop (in the run only when it is about to look at `is_up`: no other step depends on
it, so a moment sooner makes no difference): a packet and a request
from two workers on the one, a packet on the other. Two short sends are enough for a
message to be sent in three parts, or for two to be sent in two parts each, with
another message in between. (The packet on the other connection is plain, see
`SplitIsExact`; the first one is or is not.)

- `Faithful`: three things tear the stream of a connection: two workers overlap, a
  shutdown cuts a message, the receiver peeks before the whole length is there.
  Without them, the server receives what was sent over it, in order, whatever happens
  to other connections, and does not come to grief on it. With them it may be
  killed (`c_recvn` calls `exit`), spin for ever on a length of 0, or go on out of
  step: these are the hazards of `networking.cpp:502`, `:543` and `:588`, and the
  property is that there is no fourth reason.
- `NothingLeftBehind`: the end of a connection overtakes no message.
- `Arrives`: what was begun arrives, although the server receives from one connection
  at a time and waits for all of a message, unless one of the three happens, the
  server came to grief on another connection or on a packet that is not plain, or it has
  been told to stop and did, as a server is when its scan thread leaves: what was begun to
  it and is not read by then never arrives. The fairness is that of a step of any
  worker, and of any step of the server: all are threads that are scheduled, `send`
  blocks only while the receiver does not read, and what a batch of `epoll_wait` holds
  is dealt with before the next, so no fairness among connections is needed.
- `SplitIsExact`: a packet comes apart into the vertices that were put into it
  *exactly when* no vertex has two bytes of value 35, three apart, among the last
  byte of its round and those of its identifier. Identifiers are nanoseconds since
  the epoch, so such validators exist, and the others cannot understand them. The
  identifiers tried have 35 in every combination of the seven bytes after the first
  one (which is 23 or 24 in these years), first and second in the packet, rounds
  with and without 35 (`RoundBound = 300`); a round below 35 * 256 has none in
  its second to last byte.
- `ResentFits`: the vertices `send_missing_vertices` has to resend are, once each, in
  packets of which none is empty or larger than the receiver's buffer, and which their
  vertices fill from the first byte to the last, as long as no vertex is larger than
  what the buffer has beyond a full packet. In the code a packet is full from 40 000
  bytes on and the buffer has 65 536; the run has 4 and 6, and vertices of 1 to 3 bytes
  in any order. (What `Splitting` is told of a packet is what this says of it.)

### The launcher

`launcher` forks three validators, any of which may die at any point, over DAGs that
agree or differ in a settled round, or in one that is not settled, or are too short
to be hashed. Waves of one round keep the DAGs at four rounds; the arithmetic of the
bound is the same.

- `IdsAreFresh`: no validator knows another by the file of an earlier run, although
  a server takes connections before its file is written.
- `VerdictIsAgreement`: when the launcher compares, it finds all equal if and only if
  the validators that wrote a digest agree on the settled rounds, although it reads
  after each exit whatever is in the pipe, and keeps its buffer when nothing is. If
  all died before they wrote it compares zeros and prints that all peers think of the
  same DAG; the property includes this case.
- `LauncherEnds`: the launcher comes to its verdict. `FairLSpec` has weak fairness of
  the launcher and of each validator, which are processes that are scheduled; it
  assumes that the run of every validator ends (a step of the model), which is not
  so for one that is stuck below its last round: the launcher waits for it for ever.

The other runs (`dag_three`, `dag_four`, `validators_pair`, `waves`, `recovery`) check
safety only and assume no fairness. Deadlock is not checked where the system stops:
validators leave, the protocol is over when all have left the last round, a
connection is closed, the launcher has printed its verdict.

Every property of a passing run has a mutant in `PROJECT.json`: a plausible bug in
a definition that models code, under which TLC finds the property violated.

## 4. The proofs

TLAPS checks the theorems below for every crowd, termination round, length of a wave,
order of the network file, choice of failing peers, and (handshake) every set of
messages and number of wake-ups; the last five modules hold for any number of vertices
and packets of them, of tasks, workers, peers, rounds and check_round threads, of
connections, senders and messages of any size, and of validators and DAGs. They assume
the named assumptions of the modules: `Peers` is finite and not empty, `LastRound` is a
natural number, `Wave` a positive one, `PeerOrder` names every peer once (as the network
file does), a packet has more than two pieces (a length of two and a delimiter), and so
on. For the bytes: a hash has at most 255 (64 in the code), payloads and hashes have no
delimiter in them, and no round reaches 35 * 256 = 8960: the termination round is an
argument of the program, and what longer runs do is not covered. `SocketsSufficeHolds`
assumes in addition that the crowd is two or more: a validator alone has no socket and
takes the `f + 1` = 1 first all the same.

| Theorem | Module | States |
|---|---|---|
| `QuorumsOverlap` | `DagProtocolProofs` | two sets of `2f + 1` out of `3f + 1` share `f + 1` |
| `TypeCorrect`, `Safety` | `DagProtocolProofs` | `Spec => []TypeOK`, `Spec => []SafeInv` |
| `CausalHistoryHolds`, `NoEquivocationHolds`, `AuthenticHolds`, `SlotsEnteredHolds` | `DagProtocolProofs` | the four invariants of `dag_three` |
| `QuorumInvariant`, `NoneRunsAheadHolds`, `CommonReferencesHold`, `NobodyLeftWaitingHolds` | `DagProtocolProofs` | the inductive `QuorumInv`, and invariants of `dag_four` |
| `VotedIsSharedHolds`, `CommonCoreHolds` | `DagProtocolProofs` | the other two invariants of `dag_four` |
| `FlowSafe`, `ValidatorsImplementDag`, `ValidatorsAreSafe`, `ValidatorsShareThePast` | `ValidatorsProofs` | `VSpec => Spec`, and what follows of the validators |
| `HeldOnceHolds`, `MissingAreKnownHolds` | `ValidatorsProofs` | `VSpec => []HeldOnce`, `VSpec => []MissingAreKnown` |
| `ScanInvariant`, `ValidatorsTypeCorrect`, `SocketsAndBlackListHold`, `SocketsSufficeHolds` | `ValidatorsProofs` | the inductive `ScanInv`, the types, that only leaving and black-listing close sockets, and what black-listing leaves of them |
| `HelpForTheQuorumHolds`, `HelpIsEnoughHolds` | `ValidatorsProofs` | while a quorum at most has started: a call for help asks for what is lacking, on enough sockets, of one who has it and has not left before its time; nothing is lacking where it does not look |
| `HandshakeTypeCorrect`, `HandshakeSafe`, `HandshakeIsMailbox` | `HandshakeProofs` | types, mutual exclusion, `Spec => MB!Spec` |
| `PoolIsAwake`, `PoolIsBag` | `ThreadPoolProofs` | `PoolSpec => []NoLostWakeup`, `PoolSpec => Bag!BSpec`, for any use of the pool |
| `SharedTypesCorrect`, `MapIsThreadSafeHolds`, `InsertsOnlyNewHolds` | `SharedMemoryProofs` | the invariants of `shared` |
| `NoLostWakeupHolds`, `PoolImplementsTaskBag` | `SharedMemoryProofs` | the theorems of the pool for the threads of a validator |
| `ResentFitsHolds` | `FramingProofs` | `RSpec => []ResentFits` |
| `SplitIsExactHolds` | `FramingProofs` | `SSpec => []SplitIsExact` |
| `ConnectionInvariant`, `ConnectionTypesCorrect`, `FaithfulHolds`, `NothingLeftBehindHolds` | `ConnectionProofs` | `CSpec => [](ServerInv /\ ChannelInv)`, and the invariants of `connection` on it |
| `LauncherTypesCorrect`, `IdsAreFreshHolds`, `VerdictIsAgreementHolds` | `LauncherProofs` | the invariants of `launcher` |

The inductive invariants:

- **`SafeInv`** = `TypeOK`, `DagIsKnown` (what is in a DAG is in the map of that
  process), `SlotsEntered`, `Authentic`, `NoEquivocation`, `CausalHistory`. None
  of the last three is inductive alone. A new vertex does not equivocate because
  an older one with its hash would, by `Authentic`, mean that its creator had
  entered the round before; `CausalHistory` survives a learnt vertex because its
  hash cannot be in the DAG yet (`DagIsKnown`, `NoEquivocation`).
- **`QuorumInv`** adds that whoever has left a round has a quorum of it in its
  DAG, and that each vertex after round 1 refers to a quorum. `NoneRunsAhead` then
  counts creators (by `Authentic`), `CommonReferences` uses `QuorumsOverlap`.
- **`VotedIsShared`** and **`CommonCore`** follow from `SafeInv` and `QuorumInv` without
  another invariant. Whoever has left round `r + 1` has a quorum of it, which meets more
  than `f` voters in one of them (`QuorumsOverlap`); `NoEquivocation` makes it the same
  vertex in both processes, and `CausalHistory` brings what it refers to. For
  `CommonCore` the references from the vertices of that quorum to those of round `r` are
  counted from both sides (`CountedTwice`): were each referred to by `f` vertices at most,
  there would be fewer than the `2f + 1` for each of the `2f + 1` (`TooManyVotes`). The
  pairs are numbered rather than summed up (`Numbered`), so no induction is needed.
- **`HelpIsEnough`** needs no invariant beyond `HelpInv`: a peer that has left a round has
  a quorum of it (`QuorumInv`), its creators have all started, and those are no more than
  a quorum; so every creator that has started is among them, and by `NoEquivocation` its
  vertex is the one there.
- **`NobodyLeftWaiting`** (`QuietMeansDone`) looks at the slowest peer of a quiet live quorum. It has all
  that the others have of the rounds it has entered (`SlowestHasAll`: a vertex it
  lacks would, in the lowest round in which there is one, be admissible), hence
  the vertices the live peers made of its round (`OwnVertices`), hence a quorum.
  The induction over rounds is done with a least element (`LeastNatural`, from
  `FS_StrictSubsetOrderingWellFounded`) because the library's induction theorems
  are out of reach of the installed provers.
- **`FlowInv`** = types and `Sourced`: what is on the wire to a peer is in the map
  of some process, and what is in a list of a process is in its own map. This is
  what the abstraction of the network as reading another process's map rests on.
  A vertex handed over and not yet visited is known; a message received was known
  to its sender.
- **`HeldInv`** adds `HeldBy`, the exclusive "list, buffer or DAG" of each vertex.
- **`MissingInv`** = `FlowInv`, `SafeInv` and `MissingAreKnown`: a visit leaves `set`
  as it is, empties it, or fills it with hashes of the peer's own DAG, which are in its
  map by `DagIsKnown`; and no vertex leaves the map.
- **`ScanInv`** adds to `FlowInv` the other types, that a scan thread gives up once,
  in the last round, and `SocketsAndBlackList` itself. `RanksNumber` and
  `WithoutKeepsTheOthers` say that erasing from the vector leaves every other peer, each
  once and in order; sockets are then counted against `f` with `ByzantinesBounds`.
- **`HelpInv`** = `ScanInv`, `QuorumInv`, `OwnVertices` and `GivenUpByAQuorum`: who is
  on a black list was given up on when a quorum of *others* had started. The peers of
  `HelpForTheQuorum` that have started are a quorum at most, so none of them can be on
  a black list of another, and each holds the vertices it made; `SocketsByCounting` gives
  the sockets (`SocketsForTheQuorum`), and `GoneInv` that nobody has left too early.
- **`GoneInv`**: a scan thread that has left had a reason to, and a peer that died before
  it left has the sockets `SocketsAndBlackList` says: nothing but leaving closes them.
  `SocketsByCounting` then counts them.
- **`HandshakeInv`** = types and "the mutex is held by the thread inside the
  section it guards".
- **`PoolInv`** = types, `Apart` (no task is twice in the queue, with two workers,
  or in two of queue, workers and history) and `NoLostWakeup` itself: a worker goes
  to sleep on an empty queue only, and a task put on the queue is unannounced until
  its notification wakes a worker or finds none asleep. `PoolEffect` then reads each
  step of the pool as one of the bag.
- **`LockInv`** = at most one access to the vertex map is under way, and its mutex
  is taken while there is one.
- **`InsertInv`** adds to the shapes of the local variables that what has been
  broadcast is in the map (`SentIsStored`), and that a vertex of this validator
  which the server is to look up is in the map (`FoundIsStored`). With "store before
  broadcast" weakened to the other order the proof fails, as it should.
- **`PackInv`** adds to `ResentFits` that the stream under way, unless empty, is filled
  up to `packet_size`, that `current_length` is where it ends, and that it is not full:
  a vertex more fits. Without the reset of `current_length` the next packet has a hole.
- **`CutInv`**: either every vertex so far has been found where it is, none of them with
  bytes that look like a delimiter, and the loop is at the start of the next one
  (`RightSoFar`); or one of them has such bytes and has been cut short (`CutShort`),
  which nothing later mends. `Layout` says where the bytes of every field are,
  `NothingElseIsDelimited` and `FalseDelimiterIsSeen` that a vertex has a delimiter in
  front of its end exactly when it has such bytes, `BlockIsDelimited` carries this over
  to the place of the vertex in the buffer, and `Understood` reads the fields back. The
  bytes are functions over the positions, so nothing of this needs an induction.
- **`ServerInv`** and **`ChannelInv`** of the connections. The first holds of torn
  streams as well: types, the server waits for the rest of a message only on a
  connection with something in it, and what it has closed is shut down and empty.
  The second speaks of each connection that is not torn: there is a numbering `before`
  of the pieces, as TCP numbers bytes, such that message `n` of those begun takes the
  places after `before[n]`; with `r` messages received the stream is what follows
  `before[r + 1]` (`Laid`), up to the end of the last message (`EndsBehind`) or, with
  exactly one worker in the middle of it, up to where that worker is (`EndsIn`, its
  `worker[w]` being the rest); after a shutdown nobody is in the middle. And what the
  server has seen of a message is what it is (`SeenRight`). `Faithful` alone is not
  inductive: it says nothing of what is under way. `BeginLays`, `OutLays` and `TakeLays`
  are the three ways the layout changes. That the numbering grows is part of `Laid`,
  since it cannot be had by induction here.
- **`StageInv`** and **`FileInv`** relate the launcher's place to the stages of its
  children: whoever it has waited for is past its constructor, nobody connects
  before all are.
- **`VerdictInv`** relates what was read, what is in the pipe and who wrote: every
  digest written is in one of them (`NothingLost`), every one in them was written
  (`NothingMadeUp`; zeros are read only when all have ended and none has written), the
  buffer is the last one read (`LastRead`), there are as many in the pipe and read as
  were written until everybody has ended (`Counted`), and what was read is all alike or
  has two different neighbours (`AlikeOrNot`). `DigestsCompare` turns equality of
  digests into that of the settled rounds.

Only model-checked: liveness (`HeldIsSeen`, `WaitingEnds`, `ServerStops`,
`TasksAreExecuted`, `Arrives`, `LauncherEnds`, `LastRoundEnds`), which is beyond the
prover. Every safety property and every refinement of a passing run is a theorem.

## 5. Divergences between code and documentation

*A black-listed peer need not have failed.* `total_order` (`src/peer.cpp:502-503`)
black-lists the creator of each vertex that is missing from the rounds it looks at
and erases its socket; the comment says "This hash is missing and most propably its
creator has somehow failed", and the records publish the size of the black list as
"KNOWN FAILED VALIDATORS" (`src/peer.cpp:24`). In `blacklist_slow` one validator
makes its first vertex and its scan thread is merely slow; the others follow their
quorum, get every message, and black-list it. Nothing takes a peer off the list, so
it never gets another broadcast of theirs.

*The set is not thread-safe.* `find` and `size` of `Unordered_set`
(`src/DataStructs/threadsafe.h:80`, `:90`) begin with `std::scoped_lock(this->mtx);`: a
temporary without a name, which locks and at the end of the statement unlocks. The
search in the next line runs without the mutex. `src/README.md:10` calls the folder
"A thread safe implamentation of some standard c++ classes used on the project." In
`black_list_race` a check_round thread is in `find` of the black list while
`total_order` is in `emplace`.

## 6. What the models leave out

- *Setting up a connection*: descriptors, errors of the socket calls and their
  repetition; `Launcher` has the outcome (connected, or the process ends).
- *Records*: the counters and the lines of the records file are only written.
- *Destruction of the pool*: never runs, since a validator ends with `exit()`.
- *Outcomes of data races* on the black list and on the vector of sockets:
  `SharedMemory` shows the accesses overlapping; what a search through a set under
  change returns is not modelled, and `Validators` takes those accesses as atomic.
- *A missing ancestor that is older than the window of a call for help*
  (`peer.cpp:177`). `HelpIsEnough` shows that there is none while no more than a quorum
  has started, and `VotedIsShared` that a vertex lacking after two rounds has few votes.
  The remaining case, a vertex of few votes that a later one refers to all the same, and
  that is lacking until the window has passed it, needs all validators up and more rounds
  than TLC reaches: what a call for help brings then is not checked.
- *Move constructors and assignments*: a moved vertex is its value.
- *Liveness of the whole protocol*: messages are lost for ever with a probability,
  so nothing eventual holds of the code without assumptions on the network. What
  is checked instead is that help is at hand (`HelpForTheQuorum`) and that
  quietness means the end (`NobodyLeftWaiting`).

## 7. Plan

Done, in this order, the most important behaviour first: thresholds and protocol;
the validators over them and the refinement; handshake; waves, help,
black-listing; the threads of a validator on what they share, and the pool; bytes
and connections; the launcher; the proofs of each.

Next:

1. The window of a call for help when all validators are up (section 6), on an instance
   with one validator and a prepared past.
2. The races on the vector of sockets (`peer.cpp:433`) as a property of
   `SharedMemory`.
