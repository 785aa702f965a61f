----------------------------- MODULE Connection -----------------------------
(***************************************************************************)
(* The connections of one server: the workers of the pools of its peers    *)
(* send messages, each peer over a connection of its own, and the server,  *)
(* one thread for all of them, receives.  A worker that has a message may  *)
(* lose it; otherwise it sends it, in as many calls of send as it takes,   *)
(* and nothing keeps two workers of a peer from sending at once.  The scan *)
(* thread of a peer may shut its connection down at any moment, and that   *)
(* of the server's own peer may tell the server to stop.                   *)
(*                                                                         *)
(* A message is a sequence of pieces <<m, 1>>, <<m, 2>>, ...  The first    *)
(* two pieces of a packet are the halves of its length, and its last one   *)
(* is the delimiter of its last vertex; the first piece of a request tells *)
(* it apart.  What becomes of the vertices in between is up to Framing.    *)
(***************************************************************************)
EXTENDS Naturals, Sequences, SequencesExt

CONSTANTS
  Clients,     \* the connections, one from each peer
  Requests,    \* the requests the pools are to send
  Packets,     \* and the packets of vertices
  Size,        \* how many pieces they have
  Senders,     \* the workers of the pools
  Via,         \* the connection a message or a worker goes by
  ShortSends   \* bounds the calls of send that take less than they are given

Messages == Requests \cup Packets

ASSUME MessagesAssumption ==
  /\ Requests \cap Packets = {}
  /\ Size \in [Messages -> Nat \ {0}]
  /\ \A m \in Packets : Size[m] > 2
  /\ Via \in [Messages \cup Senders -> Clients]
ASSUME ShortSendsAssumption == ShortSends \in Nat

Pieces(m) == [i \in 1 .. Size[m] |-> <<m, i>>]

VARIABLES
  plain,       \* the packets without bytes that look like a delimiter
  unsent,      \* the messages no worker has taken yet
  worker,      \* worker[w]: what w has still to send; <<>> when idle
  shut,        \* the connections whose write side is shut down
  stream,      \* stream[c]: what is sent over c and not received
  handler,     \* handler[c]: "backlog" until accepted, "open", "closed"
  is_up,       \* cleared when the server is to stop
  events,      \* what epoll_wait has found ready and is not dealt with yet
  fd,          \* what the server is dealing with
  reader,      \* and how far it is with that
  received,    \* received[c]: the messages received over c
  short,       \* how many sends were short
  order,       \* history: order[c]: the messages in the order they were begun
  torn         \* history: torn[c]: what has happened to the stream of c

sender   == <<unsent, worker, shut, short, order>>
receiver == <<handler, is_up, events, fd, reader, received>>
cvars    == <<plain, sender, stream, receiver, torn>>

TypeOK ==
  /\ plain \subseteq Packets
  /\ unsent \subseteq Messages
  /\ DOMAIN worker = Senders
  /\ \A w \in Senders :
       \/ worker[w] = <<>>
       \/ \E m \in Messages : \E n \in 1 .. Size[m] - 1 :
            worker[w] = SubSeq(Pieces(m), n + 1, Size[m])
  /\ shut \subseteq Clients
  /\ stream \in [Clients -> Seq(Messages \X Nat)]
  /\ handler \in [Clients -> {"backlog", "open", "closed"}]
  /\ is_up \in BOOLEAN
  /\ events \subseteq Clients \cup {"s_socket"}
  /\ fd \in Clients \cup {"s_socket"}
  /\ reader \in {"loop", "request", "packet", "dead", "hung", "confused", "stopped"}
  /\ received \in [Clients -> Seq(Messages)]
  /\ short \in 0 .. ShortSends
  /\ order \in [Clients -> Seq(Messages)]
  /\ torn \in [Clients -> SUBSET {"overlap", "cut", "length"}]

CInit ==
  /\ plain \in SUBSET Packets
  /\ unsent = Messages
  /\ worker = [w \in Senders |-> <<>>]
  /\ shut = {}
  /\ stream = [c \in Clients |-> <<>>]
  /\ handler = [c \in Clients |-> "backlog"]
  /\ is_up = TRUE
  /\ events = {}
  /\ fd = "s_socket"
  /\ reader = "loop"
  /\ received = [c \in Clients |-> <<>>]
  /\ short = 0
  /\ order = [c \in Clients |-> <<>>]
  /\ torn = [c \in Clients |-> {}]

(* Something happens to a connection that may tear its stream. *)
Tear(c, what, happens) ==
  torn' = IF happens THEN [torn EXCEPT ![c] = @ \cup {what}] ELSE torn

-----------------------------------------------------------------------------
(* A worker takes a message and sleeps for a while, so any message may be  *)
(* the next.  Four in a hundred are lost;                                  *)
Lose(m) ==
  /\ m \in unsent
  /\ unsent' = unsent \ {m}
  /\ UNCHANGED <<plain, worker, shut, short, order, stream, receiver, torn>>

OutAgain(w, pieces) ==     \* mutant: without ptr += and bytes_left -=
  /\ stream' = [stream EXCEPT ![Via[w]] = @ \o pieces]
  /\ worker' = [worker EXCEPT ![w] = pieces]
  /\ UNCHANGED <<short, torn>>

(* of the others a part or all goes out at once,                           *)
Out(w, pieces) ==
  \E n \in 1 .. Len(pieces) :
    /\ stream' = [stream EXCEPT ![Via[w]] = @ \o SubSeq(pieces, 1, n)]
    /\ worker' = [worker EXCEPT ![w] = SubSeq(pieces, n + 1, Len(pieces))]
    /\ n < Len(pieces) => short < ShortSends
    /\ short' = IF n < Len(pieces) THEN short + 1 ELSE short
    /\ Tear(Via[w], "overlap",
            \E x \in Senders \ {w} : Via[x] = Via[w] /\ worker[x] # <<>>)

Begin(w, m) ==
  /\ Via[m] = Via[w] /\ Via[m] \notin shut
  /\ m \in unsent /\ worker[w] = <<>>
  /\ unsent' = unsent \ {m}
  /\ order' = [order EXCEPT ![Via[m]] = Append(@, m)]
  /\ Out(w, Pieces(m))
  /\ UNCHANGED <<plain, shut, receiver>>

(* and the rest later.                                                     *)
Continue(w) ==
  /\ Via[w] \notin shut
  /\ worker[w] # <<>>
  /\ Out(w, worker[w])
  /\ UNCHANGED <<plain, unsent, shut, order, receiver>>

(* Once the connection is shut down send fails.  Its -1 is a very large    *)
(* size_t, not one below 0: the worker drops what it has left and goes on. *)
Fail(w) ==
  /\ Via[w] \in shut
  /\ worker[w] # <<>>
  /\ worker' = [worker EXCEPT ![w] = <<>>]
  /\ UNCHANGED <<plain, unsent, shut, short, order, stream, receiver, torn>>

FailAtOnce(m) ==
  /\ Via[m] \in shut
  /\ m \in unsent
  /\ unsent' = unsent \ {m}
  /\ UNCHANGED <<plain, worker, shut, short, order, stream, receiver, torn>>

(* close_sockets, by the scan thread that leaves; exit() does the same.    *)
Shutdown(c) ==
  /\ c \notin shut
  /\ shut' = shut \cup {c}
  /\ Tear(c, "cut", \E w \in Senders : Via[w] = c /\ worker[w] # <<>>)
  /\ UNCHANGED <<plain, unsent, worker, short, order, stream, receiver>>

-----------------------------------------------------------------------------
(* The server asks for what is ready: its own socket, when somebody waits  *)
(* to be accepted, and the connections with bytes or the end in them.      *)
Backlog == {c \in Clients : handler[c] = "backlog"}

Ready ==
  {c \in Clients : handler[c] = "open" /\ (stream[c] # <<>> \/ c \in shut)}
    \cup (IF Backlog = {} THEN {} ELSE {"s_socket"})

EpollWait ==
  /\ reader = "loop" /\ events = {} /\ is_up
  /\ Ready # {}
  /\ events' = Ready
  /\ UNCHANGED <<plain, sender, stream, handler, is_up, fd, reader, received, torn>>

AcceptUnwatched ==       \* mutant: without epoll_ctl for the new connection
  /\ reader = "loop" /\ "s_socket" \in events
  /\ events' = events \ {"s_socket"}
  /\ \E c \in Backlog : handler' = [handler EXCEPT ![c] = "closed"]
  /\ UNCHANGED <<plain, sender, stream, is_up, fd, reader, received, torn>>

(* It deals with them one by one: a connection is accepted,                *)
Accept ==
  /\ reader = "loop" /\ "s_socket" \in events
  /\ events' = events \ {"s_socket"}
  /\ \E c \in Backlog : handler' = [handler EXCEPT ![c] = "open"]
  /\ UNCHANGED <<plain, sender, stream, is_up, fd, reader, received, torn>>

(* or looked at (examine_msg), and nothing taken from it:                  *)
First(c) == stream[c][1][1]

SeesRequest(c) == stream[c][1][2] = 1 /\ First(c) \in Requests

SeesLength(c) == IsPrefix(<<<<First(c), 1>>, <<First(c), 2>>>>, stream[c])

LookAt(c) ==
  /\ reader = "loop" /\ c \in events
  /\ events' = events \ {c}

(* a request or a packet, whose length is read,                            *)
Examine(c) ==
  /\ LookAt(c)
  /\ stream[c] # <<>>
  /\ \/ SeesRequest(c) /\ reader' = "request"
     \/ ~ SeesRequest(c) /\ SeesLength(c) /\ reader' = "packet"
  /\ fd' = c
  /\ UNCHANGED <<plain, sender, stream, handler, is_up, received, torn>>

(* without a look whether it is all there.  Bytes that are not are 0; with *)
(* a length of 0 c_recvn spins for ever, with another one it is out of     *)
(* step from then on.                                                      *)
ExaminePart(c) ==
  /\ LookAt(c)
  /\ stream[c] # <<>> /\ ~ SeesRequest(c) /\ ~ SeesLength(c)
  /\ reader' \in {"hung", "confused"}
  /\ fd' = c
  /\ Tear(c, "length", Len(stream[c]) = 1)
  /\ UNCHANGED <<plain, sender, stream, handler, is_up, received>>

FinishOnShutdown(c) ==   \* mutant: the connection goes when the peer has left
  /\ LookAt(c)
  /\ c \in shut
  /\ handler' = [handler EXCEPT ![c] = "closed"]
  /\ UNCHANGED <<plain, sender, stream, is_up, fd, reader, received, torn>>

(* Nothing is left and nothing will come: a message of length 0. *)
Finish(c) ==
  /\ LookAt(c)
  /\ c \in shut /\ stream[c] = <<>>
  /\ handler' = [handler EXCEPT ![c] = "closed"]
  /\ UNCHANGED <<plain, sender, stream, is_up, fd, reader, received, torn>>

(* recv with MSG_WAITALL comes back with all of what it waits for; all the *)
(* other connections wait as long.                                         *)
AllThere == Len(stream[fd]) >= Size[First(fd)]

Goto(r) ==
  /\ reader' = r
  /\ fd' = IF r = "loop" THEN "s_socket" ELSE fd

Take ==
  /\ AllThere
  /\ stream' = [stream EXCEPT ![fd] = SubSeq(@, Size[First(fd)] + 1, Len(@))]
  /\ IF SubSeq(stream[fd], 1, Size[First(fd)]) = Pieces(First(fd))
       THEN /\ received' = [received EXCEPT ![fd] = Append(@, First(fd))]
            /\ Goto("loop")
       ELSE /\ UNCHANGED received
            /\ Goto("confused")
  /\ UNCHANGED <<plain, sender, handler, is_up, events, torn>>

ReceiveRequest == reader = "request" /\ Take

ReceivePacket == reader = "packet" /\ Take

(* A packet that is cut in the wrong places can kill the process, because  *)
(* the lengths in it are anything; if not, its vertices are not those that *)
(* were sent.                                                              *)
Choke ==
  /\ reader = "packet" /\ First(fd) \notin plain
  /\ AllThere
  /\ Goto("dead")
  /\ UNCHANGED <<plain, sender, stream, handler, is_up, events, received, torn>>

ReceiveWhatIsThere ==    \* mutant: recv without MSG_WAITALL
  /\ reader \in {"request", "packet"}
  /\ ~ AllThere
  /\ stream' = [stream EXCEPT ![fd] = <<>>]
  /\ Goto(IF reader = "packet" THEN "dead" ELSE "loop")
  /\ UNCHANGED <<plain, sender, handler, is_up, events, received, torn>>

(* At the end of the connection it comes back with less.  process_request  *)
(* does not notice; c_recvn takes the process down.                        *)
ReceiveInPart ==
  /\ reader \in {"request", "packet"}
  /\ fd \in shut /\ ~ AllThere
  /\ stream' = [stream EXCEPT ![fd] = <<>>]
  /\ Goto(IF reader = "packet" THEN "dead" ELSE "loop")
  /\ UNCHANGED <<plain, sender, handler, is_up, events, received, torn>>

(* The scan thread of the server's peer has left and clears is_up.         *)
TellToStop ==
  /\ is_up
  /\ is_up' = FALSE
  /\ UNCHANGED <<plain, sender, stream, handler, events, fd, reader, received, torn>>

(* The server has dealt with what was ready, finds is_up cleared and ends. *)
(* What is unread, or still sent, stays so, on connections it leaves open  *)
(* to the end of the process.  (Sends that fail after that, and leave out  *)
(* what nobody would read, are not told apart from those that do not.)     *)
Stop ==
  /\ reader = "loop" /\ events = {} /\ ~ is_up
  /\ reader' = "stopped"
  /\ UNCHANGED <<plain, sender, stream, handler, is_up, events, fd, received, torn>>

-----------------------------------------------------------------------------
Send ==
  \/ \E m \in Messages : Lose(m) \/ FailAtOnce(m)
  \/ \E w \in Senders, m \in Messages : Begin(w, m)
  \/ \E w \in Senders : Continue(w) \/ Fail(w)

Receive ==
  \/ EpollWait
  \/ Accept
  \/ \E c \in Clients : Examine(c) \/ ExaminePart(c) \/ Finish(c)
  \/ ReceiveRequest
  \/ ReceivePacket
  \/ Choke
  \/ ReceiveInPart
  \/ Stop

CNext == Send \/ Receive \/ TellToStop \/ \E c \in Clients : Shutdown(c)

CSpec == CInit /\ [][CNext]_cvars

(* The workers and the server are scheduled; nobody has to leave.          *)
FairCSpec == CSpec /\ WF_cvars(Send) /\ WF_cvars(Receive)

-----------------------------------------------------------------------------
(* While no two workers overlap on a connection, no shutdown cuts a message*)
(* in two and no length is looked at before it is there, its stream is as  *)
(* good as a channel of messages: the server receives what was sent over   *)
(* it in the order it was begun, whatever is lost, whatever sends are short*)
(* and whatever happens to the other connections; and the server does not  *)
(* come to grief on it, but for a packet that is not plain.                *)
Faithful ==
  \A c \in Clients : torn[c] = {} =>
    /\ fd = c =>
         /\ reader \notin {"hung", "confused"}
         /\ reader = "dead" => ~ ToSet(order[c]) \cap Packets \subseteq plain
    /\ Len(received[c]) <= Len(order[c])
    /\ \A i \in DOMAIN received[c] : received[c][i] = order[c][i]

(* The end of a connection overtakes no message: when the server closes    *)
(* it, it has received everything that was sent on it.                     *)
NothingLeftBehind ==
  \A c \in Clients : handler[c] = "closed" /\ torn[c] = {} =>
    /\ Len(received[c]) = Len(order[c])
    /\ \A w \in Senders : Via[w] = c => worker[w] = <<>>

(* What is sent is received in the end, also by a server that has others to*)
(* listen to: a message that was begun arrives, unless its stream is torn  *)
(* or the server comes to grief on another one, or on a packet that is not *)
(* plain, or it has been told to stop and does, with messages unread.      *)
Arrives ==
  \A m \in Messages :
    m \in ToSet(order[Via[m]]) ~>
      \/ torn[Via[m]] # {}
      \/ reader \in {"dead", "hung", "confused", "stopped"}
      \/ m \in ToSet(received[Via[m]])
=============================================================================
