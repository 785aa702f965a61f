-------------------------- MODULE ConnectionProofs --------------------------
(***************************************************************************)
(* A stream that nothing has torn is as good as a channel of messages: for *)
(* any number of connections and workers, any messages of any size, any    *)
(* number of short sends, and whatever is lost or happens to others.       *)
(***************************************************************************)
EXTENDS Connection, Integers, SequenceTheorems, TLAPS

USE MessagesAssumption

-----------------------------------------------------------------------------
(* The layout of a stream.  The messages that were begun, o, are numbered  *)
(* by pieces as TCP numbers bytes: before[n] pieces were sent before the   *)
(* n-th message.  With r messages received, the stream s is what follows.  *)
Laid(o, s, r, before) ==
  /\ before \in [1 .. Len(o) + 1 -> Nat]
  /\ \A n \in 1 .. Len(o) : before[n + 1] = before[n] + Size[o[n]]
  /\ \A n \in 1 .. Len(o), l \in 1 .. Len(o) + 1 : n < l => before[n + 1] <= before[l]
  /\ r \in 0 .. Len(o)
  /\ \A n \in r + 1 .. Len(o) : \A k \in 1 .. Size[o[n]] :
       LET i == before[n] - before[r + 1] + k
       IN  i <= Len(s) => s[i] = <<o[n], k>>

(* Where it ends: behind the last message, or n pieces into it. *)
EndsBehind(o, s, r, before) == Len(s) = before[Len(o) + 1] - before[r + 1]

EndsIn(o, s, r, before, n) ==
  /\ r < Len(o)
  /\ n \in 1 .. Size[o[Len(o)]] - 1
  /\ Len(s) = before[Len(o)] - before[r + 1] + n

(* The workers in the middle of a message.  There is one of them at most,  *)
(* and it has what is missing in the stream.                               *)
Sending(c) == {w \in Senders : Via[w] = c /\ worker[w] # <<>>}

Rest(m, n) == SubSeq(Pieces(m), n + 1, Size[m])

InStep(c, before) ==
  LET o == order[c]
      s == stream[c]
      r == Len(received[c])
  IN  /\ Laid(o, s, r, before)
      /\ \A i \in 1 .. r : received[c][i] = o[i]
      /\ \/ Sending(c) = {} /\ EndsBehind(o, s, r, before)
         \/ \E w \in Sending(c) : \E n \in 1 .. Size[o[Len(o)]] - 1 :
              /\ EndsIn(o, s, r, before, n)
              /\ Sending(c) = {w}
              /\ worker[w] = Rest(o[Len(o)], n)
      /\ c \in shut => Sending(c) = {}

(* The server has seen which kind of message comes next, and does not come *)
(* to grief but for a packet that is not plain.                            *)
SeenRight(c) ==
  fd = c =>
    /\ reader = "request" => First(c) \in Requests
    /\ reader = "packet" => First(c) \in Packets
    /\ reader \notin {"hung", "confused"}
    /\ reader = "dead" => ~ ToSet(order[c]) \cap Packets \subseteq plain

ChannelInv ==
  \A c \in Clients : torn[c] = {} =>
    SeenRight(c) /\ \E before \in [1 .. Len(order[c]) + 1 -> Nat] : InStep(c, before)

(* What holds of torn streams as well: the types, and why the server finds *)
(* something where it receives. *)
WorkerTypes ==
  /\ DOMAIN worker = Senders
  /\ \A w \in Senders :
       \/ worker[w] = <<>>
       \/ \E m \in Messages : \E n \in 1 .. Size[m] - 1 : worker[w] = Rest(m, n)

OtherTypes ==
  /\ plain \subseteq Packets
  /\ unsent \subseteq Messages
  /\ shut \subseteq Clients
  /\ stream \in [Clients -> Seq(Messages \X Nat)]
  /\ handler \in [Clients -> {"backlog", "open", "closed"}]
  /\ is_up \in BOOLEAN
  /\ events \subseteq Clients \cup {"s_socket"}
  /\ fd \in Clients \cup {"s_socket"}
  /\ reader \in {"loop", "request", "packet", "dead", "hung", "confused", "stopped"}
  /\ received \in [Clients -> Seq(Messages)]
  /\ short \in 0 .. ShortSends
  /\ order \in [Clients -> Seq(Messages)]
  /\ torn \in [Clients -> SUBSET {"overlap", "cut", "length"}]

ServerInv ==
  /\ WorkerTypes
  /\ OtherTypes
  /\ reader \in {"request", "packet"} =>
       fd \in Clients /\ stream[fd] # <<>>
  /\ \A c \in Clients : handler[c] = "closed" => c \in shut /\ stream[c] = <<>>

-----------------------------------------------------------------------------
(* What is left of a message, and how much that is. *)
LEMMA RestOf ==
  ASSUME NEW m \in Messages, NEW n \in 0 .. Size[m]
  PROVE  /\ Rest(m, n) \in Seq(Messages \X Nat)
         /\ Len(Rest(m, n)) = Size[m] - n
         /\ \A i \in 1 .. Size[m] - n : Rest(m, n)[i] = <<m, n + i>>
         /\ Rest(m, n) = <<>> <=> n = Size[m]
<1> DEFINE S == Messages \X Nat
<1>1. Size[m] \in Nat \ {0}
  OBVIOUS
<1>2. \A i \in 1 .. Size[m] : Pieces(m)[i] = <<m, i>> /\ <<m, i>> \in S
  BY <1>1 DEF Pieces
<1> HIDE DEF S
<1>3. ASSUME NEW i \in n + 1 .. Size[m]
      PROVE  Pieces(m)[i] \in S
  <2>1. i \in 1 .. Size[m]
    BY <1>1
  <2>2. QED
    BY <1>2, <2>1
<1>4. /\ Rest(m, n) \in Seq(S)
      /\ Len(Rest(m, n)) = IF n + 1 <= Size[m] THEN Size[m] - (n + 1) + 1 ELSE 0
      /\ \A i \in 1 .. Size[m] - (n + 1) + 1 : Rest(m, n)[i] = Pieces(m)[n + 1 + i - 1]
  BY <1>1, <1>3, SubSeqProperties DEF Rest
<1>5. Len(Rest(m, n)) = Size[m] - n
  BY <1>1, <1>4
<1>6. \A i \in 1 .. Size[m] - n : Rest(m, n)[i] = <<m, n + i>>
  <2> SUFFICES ASSUME NEW i \in 1 .. Size[m] - n
               PROVE  Rest(m, n)[i] = <<m, n + i>>
    OBVIOUS
  <2>1. n + 1 + i - 1 = n + i /\ n + i \in 1 .. Size[m] /\ i \in 1 .. Size[m] - (n + 1) + 1
    BY <1>1
  <2>2. QED
    BY <1>2, <1>4, <2>1
<1>7. Rest(m, n) = <<>> <=> Len(Rest(m, n)) = 0
  BY <1>4, EmptySeq
<1>8. Rest(m, n) = <<>> <=> n = Size[m]
  BY <1>1, <1>5, <1>7
<1>9. QED
  BY <1>4, <1>5, <1>6, <1>8 DEF S

(* Before the first call of send all of it is left. *)
LEMMA RestIsAll ==
  ASSUME NEW m \in Messages
  PROVE  Rest(m, 0) = Pieces(m)
<1> DEFINE S == Messages \X Nat
<1>1. Size[m] \in Nat
  OBVIOUS
<1>2. Pieces(m) \in Seq(S) /\ Len(Pieces(m)) = Size[m]
  <2>1. Pieces(m) \in [1 .. Size[m] -> S]
    BY <1>1 DEF Pieces
  <2>2. QED
    BY <1>1, <2>1
<1>3. Rest(m, 0) = SubSeq(Pieces(m), 1, Len(Pieces(m)))
  BY <1>2 DEF Rest
<1> HIDE DEF S
<1>4. QED
  BY <1>2, <1>3, SubSeqFull

(* A part of it that goes out, and what is left then. *)
LEMMA PartOf ==
  ASSUME NEW m \in Messages, NEW a \in 0 .. Size[m] - 1, NEW n \in 1 .. Size[m] - a
  PROVE  /\ SubSeq(Rest(m, a), 1, n) \in Seq(Messages \X Nat)
         /\ Len(SubSeq(Rest(m, a), 1, n)) = n
         /\ \A i \in 1 .. n : SubSeq(Rest(m, a), 1, n)[i] = <<m, a + i>>
         /\ SubSeq(Rest(m, a), n + 1, Len(Rest(m, a))) = Rest(m, a + n)
<1> DEFINE S == Messages \X Nat
           P == Rest(m, a)
           Q == SubSeq(P, n + 1, Len(P))
<1>1. Size[m] \in Nat \ {0} /\ a \in 0 .. Size[m] /\ a + n \in 0 .. Size[m]
  OBVIOUS
<1>2. /\ P \in Seq(S) /\ Len(P) = Size[m] - a
      /\ \A i \in 1 .. Size[m] - a : P[i] = <<m, a + i>>
  BY <1>1, RestOf
<1>3. /\ Rest(m, a + n) \in Seq(S) /\ Len(Rest(m, a + n)) = Size[m] - (a + n)
      /\ \A i \in 1 .. Size[m] - (a + n) : Rest(m, a + n)[i] = <<m, a + n + i>>
  BY <1>1, RestOf
<1>4. \A i \in 1 .. Size[m] - a : P[i] \in S
  BY <1>1, <1>2
<1> HIDE DEF S, P
<1>5. /\ SubSeq(P, 1, n) \in Seq(S)
      /\ Len(SubSeq(P, 1, n)) = n
      /\ \A i \in 1 .. n : SubSeq(P, 1, n)[i] = P[i]
  <2>1. \A i \in 1 .. n : P[i] \in S
    BY <1>1, <1>4
  <2>2. /\ SubSeq(P, 1, n) \in Seq(S)
        /\ Len(SubSeq(P, 1, n)) = IF 1 <= n THEN n - 1 + 1 ELSE 0
        /\ \A i \in 1 .. n - 1 + 1 : SubSeq(P, 1, n)[i] = P[1 + i - 1]
    BY <1>1, <2>1, SubSeqProperties
  <2>3. QED
    BY <1>1, <2>2
<1>6. /\ Q \in Seq(S)
      /\ Len(Q) = Size[m] - (a + n)
      /\ \A i \in 1 .. Size[m] - (a + n) : Q[i] = P[n + i]
  <2>1. \A i \in n + 1 .. Len(P) : P[i] \in S
    BY <1>1, <1>2, <1>4
  <2>2. /\ Q \in Seq(S)
        /\ Len(Q) = IF n + 1 <= Len(P) THEN Len(P) - (n + 1) + 1 ELSE 0
        /\ \A i \in 1 .. Len(P) - (n + 1) + 1 : Q[i] = P[n + 1 + i - 1]
    BY <1>1, <1>2, <2>1, SubSeqProperties
  <2>3. Len(Q) = Size[m] - (a + n) /\ Len(P) - (n + 1) + 1 = Size[m] - (a + n)
    BY <1>1, <1>2, <2>2
  <2>4. ASSUME NEW i \in 1 .. Size[m] - (a + n)
        PROVE  Q[i] = P[n + i]
    <3>1. n + 1 + i - 1 = n + i
      BY <1>1
    <3>2. QED
      BY <2>2, <2>3, <3>1
  <2>5. QED
    BY <2>2, <2>3, <2>4
<1>7. Q = Rest(m, a + n)
  <2>1. \A i \in 1 .. Len(Q) : Q[i] = Rest(m, a + n)[i]
    <3> SUFFICES ASSUME NEW i \in 1 .. Size[m] - (a + n)
                 PROVE  Q[i] = Rest(m, a + n)[i]
      BY <1>6
    <3>1. n + i \in 1 .. Size[m] - a /\ a + (n + i) = a + n + i
      BY <1>1
    <3>2. QED
      BY <1>2, <1>3, <1>6, <3>1
  <2> HIDE DEF Q
  <2>2. QED
    BY <1>3, <1>6, <2>1, SeqEqual
<1>8. \A i \in 1 .. n : SubSeq(P, 1, n)[i] = <<m, a + i>>
  BY <1>1, <1>2, <1>5
<1>9. QED
  BY <1>5, <1>7, <1>8 DEF P, S

-----------------------------------------------------------------------------
(* The layout, operation by operation.  A piece of a message comes before  *)
(* all of those behind the message.                                        *)
LEMMA PieceBefore ==
  \A b, base, size, end, a \in Nat : \A k \in 1 .. size :
    b + size <= end => b - base + k <= end - base + a
  OBVIOUS

(* Another part of the last message goes out. *)
LEMMA OutLays ==
  ASSUME NEW o \in Seq(Messages), NEW s \in Seq(Messages \X Nat), NEW r \in Nat,
         NEW before \in [1 .. Len(o) + 1 -> Nat],
         NEW x \in Seq(Messages \X Nat), NEW a \in Nat
  PROVE  /\ Laid(o, s, r, before)
         /\ r < Len(o)
         /\ Len(s) = before[Len(o)] - before[r + 1] + a
         /\ \A i \in 1 .. Len(x) : x[i] = <<o[Len(o)], a + i>>
         => Laid(o, s \o x, r, before)
<1>0. SUFFICES ASSUME Laid(o, s, r, before),
                      r < Len(o),
                      Len(s) = before[Len(o)] - before[r + 1] + a,
                      \A i \in 1 .. Len(x) : x[i] = <<o[Len(o)], a + i>>
               PROVE  Laid(o, s \o x, r, before)
  OBVIOUS
<1> DEFINE S == Messages \X Nat
           t == s \o x
<1> HIDE DEF S
<1> HIDE MessagesAssumption
<1>1. /\ Len(o) \in Nat /\ r \in Nat /\ before \in [1 .. Len(o) + 1 -> Nat]
      /\ Len(s) \in Nat /\ Len(x) \in Nat
      /\ \A n \in 1 .. Len(o) : Size[o[n]] \in Nat \ {0}
  BY <1>0, MessagesAssumption DEF Laid
<1>2. /\ Len(t) = Len(s) + Len(x)
      /\ \A i \in 1 .. Len(s) + Len(x) : t[i] = IF i <= Len(s) THEN s[i] ELSE x[i - Len(s)]
  BY ConcatProperties DEF S
<1> HIDE DEF t
<1>3. ASSUME NEW n \in r + 1 .. Len(o), NEW k \in 1 .. Size[o[n]],
             before[n] - before[r + 1] + k <= Len(t)
      PROVE  t[before[n] - before[r + 1] + k] = <<o[n], k>>
  <2>1. /\ r + 1 \in 1 .. Len(o) /\ n \in 1 .. Len(o)
        /\ before[n] \in Nat /\ before[r + 1] \in Nat
        /\ Size[o[n]] \in Nat /\ k \in 1 .. Size[o[n]]
    <3>1. r + 1 \in 1 .. Len(o) /\ n \in 1 .. Len(o)
      BY <1>0, <1>1
    <3>2. r + 1 \in 1 .. Len(o) + 1 /\ n \in 1 .. Len(o) + 1
      BY <1>1, <3>1
    <3>3. QED
      BY <1>1, <3>1, <3>2
  <2>2. before[r + 1] <= before[n]
    <3>1. CASE n = r + 1
      BY <2>1, <3>1
    <3>2. CASE n # r + 1
      <4>1. r + 1 < n /\ r + 1 + 1 \in 1 .. Len(o) + 1
        BY <1>1, <2>1, <3>2
      <4>2. before[r + 1 + 1] <= before[n] /\ before[r + 1 + 1] = before[r + 1] + Size[o[r + 1]]
        BY <1>0, <2>1, <4>1 DEF Laid
      <4>3. Size[o[r + 1]] \in Nat
        BY <1>1, <2>1
      <4>4. QED
        BY <2>1, <4>2, <4>3
    <3>3. QED
      BY <3>1, <3>2
  <2>3. PICK i \in 1 .. Len(s) + Len(x) : i = before[n] - before[r + 1] + k
    BY <1>1, <1>2, <1>3, <2>1, <2>2
  <2>4. CASE i <= Len(s)
    <3>1. t[i] = s[i]
      BY <1>2, <2>3, <2>4
    <3>2. s[i] = <<o[n], k>>
      BY <1>0, <2>3, <2>4 DEF Laid
    <3>3. QED
      BY <2>3, <3>1, <3>2
  <2>5. CASE i > Len(s)
    <3>1. n = Len(o)
      <4>1. ASSUME n # Len(o)
            PROVE  FALSE
        <5>1. n < Len(o) /\ Len(o) \in 1 .. Len(o) + 1 /\ before[Len(o)] \in Nat
          BY <1>1, <2>1, <4>1
        <5>2. before[n] + Size[o[n]] <= before[Len(o)]
          BY <1>0, <2>1, <5>1 DEF Laid
        <5>3. before[n] - before[r + 1] + k <= before[Len(o)] - before[r + 1] + a
          BY <2>1, <5>1, <5>2, PieceBefore, Zenon
        <5>4. i <= Len(s)
          BY <1>0, <2>3, <5>3
        <5>5. QED
          BY <1>1, <2>3, <2>5, <5>4
      <4>2. QED
        BY <4>1
    <3>2. i - Len(s) = k - a
      <4>1. i = before[Len(o)] - before[r + 1] + k /\ before[Len(o)] \in Nat
        BY <2>1, <2>3, <3>1
      <4>2. k \in Nat
        BY <2>1
      <4>3. PICK last \in Nat, base \in Nat : last = before[Len(o)] /\ base = before[r + 1]
        BY <2>1, <4>1
      <4>4. i = last - base + k /\ Len(s) = last - base + a
        BY <1>0, <4>1, <4>3
      <4>5. QED
        BY <4>2, <4>4
    <3>3. i - Len(s) \in 1 .. Len(x)
      BY <1>1, <2>3, <2>5
    <3>4. t[i] = x[i - Len(s)]
      <4>1. ~ i <= Len(s)
        BY <1>1, <2>3, <2>5
      <4>2. QED
        BY <1>2, <4>1
    <3>5. x[k - a] = <<o[n], a + (k - a)>>
      BY <1>0, <3>1, <3>2, <3>3
    <3>6. a + (k - a) = k
      BY <2>1
    <3>7. QED
      BY <2>3, <3>2, <3>4, <3>5, <3>6
  <2>6. i <= Len(s) \/ i > Len(s)
    BY <1>1, <2>3
  <2>7. QED
    BY <2>4, <2>5, <2>6
<1>4. QED
  BY <1>0, <1>3 DEF Laid, t

(* A message is begun behind the last one. *)
NextBegun(o, s, r) ==
  \E before \in [1 .. Len(o) + 1 -> Nat] :
    Laid(o, s, r, before) /\ Len(s) = before[Len(o)] - before[r + 1]

(* So where the stream ends is where the next message begins. *)
LEMMA BeginLays ==
  ASSUME NEW o \in Seq(Messages), NEW s \in Seq(Messages \X Nat), NEW r \in Nat,
         NEW before \in [1 .. Len(o) + 1 -> Nat],
         NEW m \in Messages,
         Laid(o, s, r, before), EndsBehind(o, s, r, before)
  PROVE  NextBegun(Append(o, m), s, r)
<1> DEFINE N == Len(o)
           p == Append(o, m)
           after == [n \in 1 .. N + 2 |->
                       IF n <= N + 1 THEN before[n] ELSE before[N + 1] + Size[m]]
<1>1. /\ N \in Nat /\ r \in 0 .. N /\ before \in [1 .. N + 1 -> Nat]
      /\ Len(s) \in Nat
      /\ \A n \in 1 .. N : Size[o[n]] \in Nat \ {0}
      /\ Size[m] \in Nat \ {0}
  BY DEF Laid
<1>2. Len(p) = N + 1 /\ p[N + 1] = m /\ \A n \in 1 .. N : p[n] = o[n]
  BY AppendProperties
<1>3. /\ after \in [1 .. N + 2 -> Nat]
      /\ \A n \in 1 .. N + 1 : after[n] = before[n]
      /\ after[N + 2] = before[N + 1] + Size[m]
  <2>1. N + 1 \in 1 .. N + 1
    BY <1>1
  <2>2. before[N + 1] \in Nat
    BY <1>1, <2>1
  <2>3. \A n \in 1 .. N + 2 : after[n] \in Nat
    <3>1. ASSUME NEW n \in 1 .. N + 2, n <= N + 1
          PROVE  before[n] \in Nat
      <4>1. n \in 1 .. N + 1
        BY <1>1, <3>1
      <4>2. QED
        BY <1>1, <4>1
    <3>2. before[N + 1] + Size[m] \in Nat
      BY <1>1, <2>2
    <3>3. QED
      BY <3>1, <3>2
  <2>4. \A n \in 1 .. N + 1 : n \in 1 .. N + 2 /\ n <= N + 1
    BY <1>1
  <2>5. N + 2 \in 1 .. N + 2 /\ ~ N + 2 <= N + 1
    BY <1>1
  <2>6. QED
    BY <2>3, <2>4, <2>5
<1> HIDE DEF p, after
<1>4. \A n \in 1 .. N + 1 : after[n + 1] = after[n] + Size[p[n]]
  <2> SUFFICES ASSUME NEW n \in 1 .. N + 1
               PROVE  after[n + 1] = after[n] + Size[p[n]]
    OBVIOUS
  <2>1. CASE n \in 1 .. N
    <3>1. before[n + 1] = before[n] + Size[o[n]]
      BY <2>1 DEF Laid
    <3>2. n + 1 \in 1 .. N + 1
      BY <1>1, <2>1
    <3>3. QED
      BY <1>2, <1>3, <2>1, <3>1, <3>2
  <2>2. CASE n = N + 1
    <3>1. n + 1 = N + 2
      BY <1>1, <2>2
    <3>2. QED
      BY <1>2, <1>3, <2>2, <3>1
  <2>3. QED
    BY <1>1, <2>1, <2>2
<1>5. ASSUME NEW n \in 1 .. N + 1, NEW l \in 1 .. N + 2, n < l
      PROVE  after[n + 1] <= after[l]
  <2>1. CASE l = n + 1
    <3>1. after[l] \in Nat
      BY <1>3
    <3>2. QED
      BY <2>1, <3>1
  <2>2. CASE l # n + 1
    <3>1. n \in 1 .. N /\ n + 1 \in 1 .. N + 1
      BY <1>1, <1>5, <2>2
    <3>2. CASE l \in 1 .. N + 1
      <4>1. before[n + 1] <= before[l]
        BY <1>5, <3>1, <3>2 DEF Laid
      <4>2. QED
        BY <1>3, <3>1, <3>2, <4>1
    <3>3. CASE l = N + 2
      <4>1. N + 1 \in 1 .. N + 1 /\ n < N + 1
        BY <1>1, <3>1
      <4>2. before[n + 1] <= before[N + 1]
        BY <3>1, <4>1 DEF Laid
      <4>3. before[n + 1] \in Nat /\ before[N + 1] \in Nat
        BY <1>1, <3>1, <4>1
      <4>4. after[n + 1] = before[n + 1] /\ after[l] = before[N + 1] + Size[m]
        BY <1>3, <3>1, <3>3
      <4>5. QED
        BY <1>1, <4>2, <4>3, <4>4
    <3>4. QED
      BY <1>1, <3>2, <3>3
  <2>3. QED
    BY <2>1, <2>2
<1>6. /\ after[r + 1] = before[r + 1] /\ after[N + 1] = before[N + 1]
      /\ Len(s) = after[N + 1] - after[r + 1]
      /\ after[r + 1] \in Nat /\ after[N + 1] \in Nat
  <2>1. r + 1 \in 1 .. N + 1 /\ N + 1 \in 1 .. N + 1
    BY <1>1
  <2>2. QED
    BY <1>1, <1>3, <2>1 DEF EndsBehind
<1>7. ASSUME NEW n \in r + 1 .. N + 1, NEW k \in 1 .. Size[p[n]],
             after[n] - after[r + 1] + k <= Len(s)
      PROVE  s[after[n] - after[r + 1] + k] = <<p[n], k>>
  <2>1. CASE n = N + 1
    <3>1. k \in Nat \ {0}
      BY <1>1, <1>2, <2>1
    <3>2. QED
      BY <1>1, <1>6, <1>7, <2>1, <3>1
  <2>2. CASE n # N + 1
    <3>1. n \in r + 1 .. N
      BY <1>1, <2>2
    <3>2. n \in 1 .. N /\ n \in 1 .. N + 1
      BY <1>1, <3>1
    <3>3. p[n] = o[n] /\ after[n] = before[n]
      BY <1>2, <1>3, <3>2
    <3>4. QED
      BY <1>6, <1>7, <3>1, <3>3 DEF Laid
  <2>3. QED
    BY <2>1, <2>2
<1>8. r \in 0 .. Len(p) /\ Len(p) + 1 = N + 2
  BY <1>1, <1>2
<1>9. Laid(p, s, r, after)
  BY <1>2, <1>3, <1>4, <1>5, <1>7, <1>8 DEF Laid
<1>10. after \in [1 .. Len(p) + 1 -> Nat] /\ Len(s) = after[Len(p)] - after[r + 1]
  BY <1>2, <1>3, <1>6, <1>8
<1>11. QED
  BY <1>9, <1>10 DEF p, NextBegun

(* The first message of a stream is the next one to receive, piece by piece. *)
LEMMA NextLays ==
  ASSUME NEW o \in Seq(Messages), NEW s \in Seq(Messages \X Nat), NEW r \in Nat,
         NEW before \in [1 .. Len(o) + 1 -> Nat],
         Laid(o, s, r, before), r < Len(o)
  PROVE  /\ o[r + 1] \in Messages
         /\ \A k \in 1 .. Size[o[r + 1]] : k <= Len(s) => s[k] = <<o[r + 1], k>>
<1>1. Len(o) \in Nat /\ r + 1 \in 1 .. Len(o) /\ r + 1 \in r + 1 .. Len(o)
  OBVIOUS
<1>2. o[r + 1] \in Messages /\ Size[o[r + 1]] \in Nat \ {0}
  BY <1>1
<1>3. before[r + 1] \in Nat
  <2>1. r + 1 \in 1 .. Len(o) + 1
    BY <1>1
  <2>2. QED
    BY <2>1
<1>4. ASSUME NEW k \in 1 .. Size[o[r + 1]], k <= Len(s)
      PROVE  s[k] = <<o[r + 1], k>>
  <2>1. before[r + 1] - before[r + 1] + k = k
    BY <1>2, <1>3
  <2>2. QED
    BY <1>1, <1>4, <2>1 DEF Laid
<1>5. QED
  BY <1>2, <1>4

(* When it is all there it can be taken, and what is left is a stream again. *)
LEMMA TakeLays ==
  ASSUME NEW o \in Seq(Messages), NEW s \in Seq(Messages \X Nat), NEW r \in Nat,
         NEW before \in [1 .. Len(o) + 1 -> Nat]
  PROVE  /\ Laid(o, s, r, before)
         /\ r < Len(o)
         /\ Size[o[r + 1]] <= Len(s)
         => /\ SubSeq(s, 1, Size[o[r + 1]]) = Pieces(o[r + 1])
            /\ Laid(o, SubSeq(s, Size[o[r + 1]] + 1, Len(s)), r + 1, before)
            /\ Len(SubSeq(s, Size[o[r + 1]] + 1, Len(s))) = Len(s) - Size[o[r + 1]]
            /\ before[r + 2] = before[r + 1] + Size[o[r + 1]]
<1>0. SUFFICES ASSUME Laid(o, s, r, before),
                      r < Len(o),
                      Size[o[r + 1]] <= Len(s)
               PROVE  /\ SubSeq(s, 1, Size[o[r + 1]]) = Pieces(o[r + 1])
                      /\ Laid(o, SubSeq(s, Size[o[r + 1]] + 1, Len(s)), r + 1, before)
                      /\ Len(SubSeq(s, Size[o[r + 1]] + 1, Len(s))) = Len(s) - Size[o[r + 1]]
                      /\ before[r + 2] = before[r + 1] + Size[o[r + 1]]
  OBVIOUS
<1> DEFINE S == Messages \X Nat
           m == o[r + 1]
           z == Size[m]
           u == SubSeq(s, 1, z)
           t == SubSeq(s, z + 1, Len(s))
<1>1. /\ m \in Messages
      /\ \A k \in 1 .. z : k <= Len(s) => s[k] = <<m, k>>
  BY <1>0, NextLays
<1>2. z \in Nat \ {0} /\ Len(s) \in Nat /\ Len(o) \in Nat /\ z <= Len(s)
  BY <1>0, <1>1
<1>3. \A i \in 1 .. Len(s) : s[i] \in S
  OBVIOUS
<1> HIDE DEF S, m, z
<1> HIDE MessagesAssumption
<1>4. u = Pieces(m)
  <2>1. /\ u \in Seq(S)
        /\ Len(u) = z
        /\ \A i \in 1 .. z : u[i] = s[i]
    <3>1. \A i \in 1 .. z : s[i] \in S
      BY <1>2, <1>3
    <3>2. /\ u \in Seq(S)
          /\ Len(u) = IF 1 <= z THEN z - 1 + 1 ELSE 0
          /\ \A i \in 1 .. z - 1 + 1 : u[i] = s[1 + i - 1]
      BY <1>2, <3>1, SubSeqProperties
    <3>3. QED
      BY <1>2, <3>2
  <2>2. /\ Rest(m, 0) \in Seq(S)
        /\ Len(Rest(m, 0)) = z
        /\ \A i \in 1 .. z : Rest(m, 0)[i] = <<m, i>>
    <3>1. 0 \in 0 .. Size[m] /\ Size[m] = z
      BY <1>2 DEF z
    <3>2. /\ Rest(m, 0) \in Seq(S)
          /\ Len(Rest(m, 0)) = z - 0
          /\ \A i \in 1 .. z - 0 : Rest(m, 0)[i] = <<m, 0 + i>>
      BY <1>1, <3>1, RestOf DEF S
    <3>3. QED
      BY <1>2, <3>2
  <2>3. ASSUME NEW i \in 1 .. z
        PROVE  u[i] = Rest(m, 0)[i]
    <3>1. i <= Len(s)
      BY <1>2
    <3>2. s[i] = <<m, i>>
      BY <1>1, <3>1
    <3>3. QED
      BY <2>1, <2>2, <3>2
  <2> HIDE DEF u
  <2>4. u = Rest(m, 0)
    BY <2>1, <2>2, <2>3, SeqEqual
  <2>5. QED
    BY <1>1, <2>4, RestIsAll
<1>5. /\ t \in Seq(S)
      /\ Len(t) = Len(s) - z
      /\ \A i \in 1 .. Len(s) - z : t[i] = s[z + i]
  <2>1. \A i \in z + 1 .. Len(s) : s[i] \in S
    BY <1>2, <1>3
  <2>2. /\ t \in Seq(S)
        /\ Len(t) = IF z + 1 <= Len(s) THEN Len(s) - (z + 1) + 1 ELSE 0
        /\ \A i \in 1 .. Len(s) - (z + 1) + 1 : t[i] = s[z + 1 + i - 1]
    BY <1>2, <2>1, SubSeqProperties
  <2>3. Len(t) = Len(s) - z /\ Len(s) - (z + 1) + 1 = Len(s) - z
    BY <1>2, <2>2
  <2>4. ASSUME NEW i \in 1 .. Len(s) - z
        PROVE  t[i] = s[z + i]
    <3>1. z + 1 + i - 1 = z + i
      BY <1>2
    <3>2. QED
      BY <2>2, <2>3, <3>1
  <2>5. QED
    BY <2>2, <2>3, <2>4
<1> HIDE DEF t, u
<1>6. /\ r + 1 \in 1 .. Len(o) /\ r + 1 \in 1 .. Len(o) + 1 /\ r + 2 \in 1 .. Len(o) + 1
      /\ r + 1 + 1 = r + 2
      /\ before[r + 1] \in Nat /\ before[r + 2] \in Nat
  <2>1. /\ r + 1 \in 1 .. Len(o) /\ r + 1 \in 1 .. Len(o) + 1 /\ r + 2 \in 1 .. Len(o) + 1
        /\ r + 1 + 1 = r + 2
    BY <1>0, <1>2
  <2>2. QED
    BY <2>1
<1>7. before[r + 2] = before[r + 1] + z
  BY <1>0, <1>6 DEF Laid, z, m
<1>8. ASSUME NEW n \in r + 2 .. Len(o), NEW k \in 1 .. Size[o[n]],
             before[n] - before[r + 2] + k <= Len(t)
      PROVE  t[before[n] - before[r + 2] + k] = <<o[n], k>>
  <2>1. n \in 1 .. Len(o) /\ n \in r + 1 .. Len(o) /\ n \in 1 .. Len(o) + 1 /\ r + 1 < n
    BY <1>2
  <2>2. before[r + 2] <= before[n] /\ before[n] \in Nat
    BY <1>0, <1>6, <2>1 DEF Laid
  <2>3. Size[o[n]] \in Nat
    BY <2>1, MessagesAssumption
  <2>4. PICK i \in 1 .. Len(s) - z : i = before[n] - before[r + 2] + k
    <3>1. PICK b \in Nat, base \in Nat : b = before[n] /\ base = before[r + 2]
      BY <1>6, <2>2
    <3>2. base <= b /\ b - base + k <= Len(s) - z
      BY <1>5, <1>8, <2>2, <3>1
    <3>3. k \in Nat \ {0}
      BY <2>3
    <3>4. b - base + k \in 1 .. Len(s) - z
      BY <1>2, <3>2, <3>3
    <3>5. QED
      BY <3>1, <3>4
  <2>5. z + i = before[n] - before[r + 1] + k
    <3>1. PICK b \in Nat, base \in Nat : b = before[n] /\ base = before[r + 1]
      BY <1>6, <2>2
    <3>2. i = b - (base + z) + k
      BY <1>7, <2>4, <3>1
    <3>3. k \in Nat
      BY <2>3
    <3>4. z + i = b - base + k
      BY <1>2, <3>2, <3>3
    <3>5. QED
      BY <3>1, <3>4
  <2>6. z + i <= Len(s)
    BY <1>2, <2>4
  <2>7. s[z + i] = <<o[n], k>>
    BY <1>0, <2>1, <2>5, <2>6 DEF Laid
  <2>8. QED
    BY <1>5, <2>4, <2>7
<1>9. Laid(o, t, r + 1, before)
  <2>1. r + 1 \in 0 .. Len(o)
    BY <1>2, <1>6
  <2>2. QED
    BY <1>0, <1>6, <1>8, <2>1 DEF Laid
<1>10. QED
  BY <1>4, <1>5, <1>7, <1>9 DEF t, u, z, m

-----------------------------------------------------------------------------
(* A call of send: a part of what was left of a message joins the stream.  *)
SendsPart(w, m, a, n, x) ==
  /\ x \in Seq(Messages \X Nat) /\ Len(x) = n
  /\ \A i \in 1 .. n : x[i] = <<m, a + i>>
  /\ stream' = [stream EXCEPT ![Via[w]] = @ \o x]
  /\ worker' = [worker EXCEPT ![w] = Rest(m, a + n)]
  /\ short' \in 0 .. ShortSends
  /\ Tear(Via[w], "overlap",
          \E v \in Senders \ {w} : Via[v] = Via[w] /\ worker[v] # <<>>)

(* Out is such a call, whichever part of the rest it sends. *)
LEMMA OutSendsPart ==
  ASSUME OtherTypes, NEW w \in Senders, NEW m \in Messages, NEW a \in 0 .. Size[m] - 1,
         Out(w, Rest(m, a))
  PROVE  \E n \in 1 .. Size[m] - a, x \in Seq(Messages \X Nat) : SendsPart(w, m, a, n, x)
<1>1. a \in 0 .. Size[m] /\ Len(Rest(m, a)) = Size[m] - a
  <2>1. a \in 0 .. Size[m]
    OBVIOUS
  <2>2. QED
    BY <2>1, RestOf
<1>2. PICK n \in 1 .. Size[m] - a :
        /\ stream' = [stream EXCEPT ![Via[w]] = @ \o SubSeq(Rest(m, a), 1, n)]
        /\ worker' = [worker EXCEPT ![w] = SubSeq(Rest(m, a), n + 1, Len(Rest(m, a)))]
        /\ n < Size[m] - a => short < ShortSends
        /\ short' = IF n < Size[m] - a THEN short + 1 ELSE short
        /\ Tear(Via[w], "overlap",
                \E v \in Senders \ {w} : Via[v] = Via[w] /\ worker[v] # <<>>)
  BY <1>1 DEF Out
<1>3. short' \in 0 .. ShortSends
  <2>1. short \in 0 .. ShortSends
    BY DEF OtherTypes
  <2>2. QED
    BY <1>2, <2>1, ShortSendsAssumption
<1>4. /\ SubSeq(Rest(m, a), 1, n) \in Seq(Messages \X Nat)
      /\ Len(SubSeq(Rest(m, a), 1, n)) = n
      /\ \A i \in 1 .. n : SubSeq(Rest(m, a), 1, n)[i] = <<m, a + i>>
      /\ SubSeq(Rest(m, a), n + 1, Len(Rest(m, a))) = Rest(m, a + n)
  BY PartOf
<1>5. SendsPart(w, m, a, n, SubSeq(Rest(m, a), 1, n))
  BY <1>2, <1>3, <1>4 DEF SendsPart
<1>6. QED
  BY <1>4, <1>5

(* Begin sends from the start of a message, *)
LEMMA BeginSends ==
  ASSUME OtherTypes, NEW w \in Senders, NEW m \in Messages, Begin(w, m)
  PROVE  \E n \in 1 .. Size[m], x \in Seq(Messages \X Nat) : SendsPart(w, m, 0, n, x)
<1>1. Out(w, Rest(m, 0)) /\ 0 \in 0 .. Size[m] - 1 /\ Size[m] - 0 = Size[m]
  BY RestIsAll DEF Begin
<1>2. \E n \in 1 .. Size[m] - 0, x \in Seq(Messages \X Nat) : SendsPart(w, m, 0, n, x)
  BY <1>1, OutSendsPart
<1>3. QED
  BY <1>1, <1>2

(* and Continue from where its worker was. *)
LEMMA ContinueSends ==
  ASSUME OtherTypes, NEW w \in Senders, Continue(w),
         NEW m \in Messages, NEW a \in 1 .. Size[m] - 1, worker[w] = Rest(m, a)
  PROVE  \E n \in 1 .. Size[m] - a, x \in Seq(Messages \X Nat) : SendsPart(w, m, a, n, x)
<1>1. Out(w, Rest(m, a)) /\ a \in 0 .. Size[m] - 1
  BY DEF Continue
<1>2. QED
  BY <1>1, OutSendsPart

-----------------------------------------------------------------------------
(* The types are kept, step by step. *)

(* What tears keeps the type of torn, and never mends a stream. *)
LEMMA TearTypes ==
  ASSUME OtherTypes, NEW c \in Clients, NEW what \in {"overlap", "cut", "length"},
         NEW happens, Tear(c, what, happens)
  PROVE  /\ torn' \in [Clients -> SUBSET {"overlap", "cut", "length"}]
         /\ \A d \in Clients : torn[d] \subseteq torn'[d]
         /\ happens => torn'[c] # {}
  BY DEF Tear, OtherTypes

(* Such a call keeps the invariant of all streams. *)
LEMMA PartTypes ==
  ASSUME ServerInv, NEW w \in Senders, NEW m \in Messages, NEW a \in 0 .. Size[m] - 1,
         NEW n \in 1 .. Size[m] - a, NEW x, SendsPart(w, m, a, n, x),
         Via[w] \notin shut, UNCHANGED <<plain, shut, receiver>>,
         unsent' \subseteq unsent, order' \in [Clients -> Seq(Messages)]
  PROVE  ServerInv'
<1>1. Via[w] \in Clients /\ Size[m] \in Nat
  OBVIOUS
<1>2. /\ stream' \in [Clients -> Seq(Messages \X Nat)]
      /\ \A c \in Clients : stream[c] # <<>> => stream'[c] # <<>>
      /\ \A c \in Clients : c # Via[w] => stream'[c] = stream[c]
  <2> DEFINE S == Messages \X Nat
             s == stream[Via[w]]
             t == s \o x
  <2>1. s \in Seq(S) /\ x \in Seq(S) /\ stream \in [Clients -> Seq(S)]
    BY <1>1 DEF SendsPart, ServerInv, OtherTypes
  <2>2. stream' = [stream EXCEPT ![Via[w]] = t]
    BY DEF SendsPart
  <2> HIDE DEF S, s
  <2>3. t \in Seq(S) /\ (t = <<>> => s = <<>>)
    BY <2>1, ConcatProperties, ConcatEqualIffEmpty
  <2> HIDE DEF t
  <2>4. QED
    BY <1>1, <2>1, <2>2, <2>3 DEF S, s
<1>3. torn' \in [Clients -> SUBSET {"overlap", "cut", "length"}]
  BY <1>1, TearTypes DEF SendsPart, ServerInv
<1>4. WorkerTypes'
  <2>1. worker' = [worker EXCEPT ![w] = Rest(m, a + n)]
    BY DEF SendsPart
  <2>2. Rest(m, a + n) = <<>> \/ a + n \in 1 .. Size[m] - 1
    <3>1. PICK sent \in 1 .. Size[m] : sent = a + n
      BY <1>1
    <3>2. CASE sent = Size[m]
      BY <1>1, <3>1, <3>2, RestOf
    <3>3. CASE sent # Size[m]
      <4>1. sent \in 1 .. Size[m] - 1
        BY <1>1, <3>3
      <4>2. QED
        BY <3>1, <4>1
    <3>4. QED
      BY <3>2, <3>3
  <2>3. QED
    BY <2>1, <2>2 DEF ServerInv, WorkerTypes
<1>5. short' \in 0 .. ShortSends
  BY DEF SendsPart
<1>6. OtherTypes'
  BY <1>2, <1>3, <1>4, <1>5 DEF ServerInv, OtherTypes, receiver
<1>7. \A c \in Clients : handler'[c] = "closed" => c \in shut' /\ stream'[c] = <<>>
  BY <1>2 DEF ServerInv, receiver
<1>8. reader' \in {"request", "packet"} =>
        fd' \in Clients /\ stream'[fd'] # <<>>
  BY <1>2 DEF ServerInv, receiver
<1>9. QED
  BY <1>4, <1>6, <1>7, <1>8 DEF ServerInv

(* The steps of the workers, *)
LEMMA SendTypes == ServerInv /\ Send => ServerInv'
<1> SUFFICES ASSUME ServerInv, Send
             PROVE  ServerInv'
  OBVIOUS
<1>1. ASSUME NEW m \in Messages, Lose(m) \/ FailAtOnce(m)
      PROVE  ServerInv'
  <2>1. /\ unsent' \subseteq unsent
        /\ UNCHANGED <<plain, worker, shut, short, order, stream, receiver, torn>>
    BY <1>1 DEF Lose, FailAtOnce
  <2>2. WorkerTypes'
    BY <2>1 DEF ServerInv, WorkerTypes
  <2>3. OtherTypes'
    BY <2>1 DEF ServerInv, OtherTypes, receiver
  <2>4. QED
    BY <2>1, <2>2, <2>3 DEF ServerInv, receiver
<1>2. ASSUME NEW w \in Senders, NEW m \in Messages, Begin(w, m)
      PROVE  ServerInv'
  <2>1. PICK n \in 1 .. Size[m], x \in Seq(Messages \X Nat) : SendsPart(w, m, 0, n, x)
    BY <1>2, BeginSends DEF ServerInv
  <2>2. order' \in [Clients -> Seq(Messages)]
    <3>1. order' = [order EXCEPT ![Via[m]] = Append(@, m)] /\ Via[m] \in Clients
      BY <1>2 DEF Begin
    <3>2. order \in [Clients -> Seq(Messages)]
      BY DEF ServerInv, OtherTypes
    <3>3. Append(order[Via[m]], m) \in Seq(Messages)
      BY <3>1, <3>2
    <3>4. QED
      BY <3>1, <3>2, <3>3
  <2>3. /\ Via[w] \notin shut /\ UNCHANGED <<plain, shut, receiver>>
        /\ unsent' \subseteq unsent
    BY <1>2 DEF Begin
  <2>4. 0 \in 0 .. Size[m] - 1 /\ n \in 1 .. Size[m] - 0
    OBVIOUS
  <2>5. QED
    BY <2>1, <2>2, <2>3, <2>4, PartTypes
<1>3. ASSUME NEW w \in Senders, Continue(w)
      PROVE  ServerInv'
  <2>1. PICK m \in Messages, a \in Nat : a \in 1 .. Size[m] - 1 /\ worker[w] = Rest(m, a)
    BY <1>3 DEF Continue, ServerInv, WorkerTypes
  <2>2. PICK n \in 1 .. Size[m] - a, x \in Seq(Messages \X Nat) : SendsPart(w, m, a, n, x)
    BY <1>3, <2>1, ContinueSends DEF ServerInv
  <2>3. /\ Via[w] \notin shut /\ UNCHANGED <<plain, shut, receiver, unsent, order>>
        /\ order \in [Clients -> Seq(Messages)]
    BY <1>3 DEF Continue, ServerInv, OtherTypes
  <2>4. a \in 0 .. Size[m] - 1
    BY <2>1
  <2>5. QED
    BY <2>2, <2>3, <2>4, PartTypes
<1>4. ASSUME NEW w \in Senders, Fail(w)
      PROVE  ServerInv'
  <2>1. /\ worker' = [worker EXCEPT ![w] = <<>>]
        /\ UNCHANGED <<plain, unsent, shut, short, order, stream, receiver, torn>>
    BY <1>4 DEF Fail
  <2>2. WorkerTypes'
    BY <2>1 DEF ServerInv, WorkerTypes
  <2>3. OtherTypes'
    BY <2>1 DEF ServerInv, OtherTypes, receiver
  <2>4. QED
    BY <2>1, <2>2, <2>3 DEF ServerInv, receiver
<1>5. QED
  BY <1>1, <1>2, <1>3, <1>4 DEF Send

(* The rest of a sequence is a sequence. *)
LEMMA TailType ==
  ASSUME NEW S, NEW s \in Seq(S), NEW z \in Nat
  PROVE  SubSeq(s, z + 1, Len(s)) \in Seq(S)
<1>1. Len(s) \in Nat /\ \A i \in z + 1 .. Len(s) : s[i] \in S
  OBVIOUS
<1>2. z + 1 \in Int /\ Len(s) \in Int
  BY <1>1
<1>3. QED
  BY <1>1, <1>2, SubSeqProperties

(* of the server, and of the thread that tells it to stop. *)
LEMMA ReceiveTypes == ServerInv /\ (Receive \/ TellToStop) => ServerInv'
<1> SUFFICES ASSUME ServerInv, Receive \/ TellToStop
             PROVE  ServerInv'
  OBVIOUS
<1>0. UNCHANGED <<plain, sender>> /\ is_up' \in {is_up, FALSE}
  BY DEF Receive, EpollWait, Accept, Examine, ExaminePart, Finish, ReceiveRequest,
         ReceivePacket, Choke, ReceiveInPart, Take, Stop, TellToStop
<1>1. WorkerTypes'
  BY <1>0 DEF sender, ServerInv, WorkerTypes
<1> USE <1>0, <1>1 DEF ServerInv, OtherTypes, sender
<1>2. CASE EpollWait
  <2>1. events' \subseteq Clients \cup {"s_socket"} /\ UNCHANGED <<stream, handler, fd, reader, received, torn>>
    BY <1>2 DEF EpollWait, Ready
  <2>2. QED
    BY <2>1
<1>3. CASE Accept
  <2>1. /\ events' \subseteq events /\ reader = "loop"
        /\ UNCHANGED <<stream, fd, reader, received, torn>>
    BY <1>3 DEF Accept
  <2>2. PICK c \in Backlog : handler' = [handler EXCEPT ![c] = "open"]
    BY <1>3 DEF Accept
  <2>3. QED
    BY <2>1, <2>2
<1>4. ASSUME NEW c \in Clients, Examine(c)
      PROVE  ServerInv'
  <2>1. stream[c] # <<>> /\ reader' \in {"request", "packet"}
        /\ fd' = c /\ events' \subseteq events /\ UNCHANGED <<stream, handler, received, torn>>
    BY <1>4 DEF Examine, LookAt
  <2>2. QED
    BY <2>1
<1>5. ASSUME NEW c \in Clients, ExaminePart(c)
      PROVE  ServerInv'
  <2>1. /\ reader' \in {"hung", "confused"} /\ fd' = c /\ events' \subseteq events
        /\ UNCHANGED <<stream, handler, received>>
    BY <1>5 DEF ExaminePart, LookAt
  <2>2. torn' \in [Clients -> SUBSET {"overlap", "cut", "length"}]
    BY <1>5, TearTypes DEF ExaminePart
  <2>3. QED
    BY <2>1, <2>2
<1>6. ASSUME NEW c \in Clients, Finish(c)
      PROVE  ServerInv'
  <2>1. /\ reader = "loop" /\ events' \subseteq events /\ c \in shut /\ stream[c] = <<>>
        /\ handler' = [handler EXCEPT ![c] = "closed"]
        /\ UNCHANGED <<stream, fd, reader, received, torn>>
    BY <1>6 DEF Finish, LookAt
  <2>2. QED
    BY <2>1
<1>7. CASE ReceiveRequest \/ ReceivePacket
  <2>1. reader \in {"request", "packet"} /\ Take
    BY <1>7 DEF ReceiveRequest, ReceivePacket
  <2>2. fd \in Clients /\ stream[fd] # <<>> /\ handler[fd] # "closed"
    BY <2>1
  <2> DEFINE S == Messages \X Nat
             t == SubSeq(stream[fd], Size[First(fd)] + 1, Len(stream[fd]))
  <2>3. stream[fd] \in Seq(S) /\ First(fd) \in Messages
    <3>1. stream[fd] \in Seq(S)
      BY <2>2
    <3>2. stream[fd][1] \in S
      BY <2>2, <3>1
    <3>3. QED
      BY <3>1, <3>2 DEF First
  <2>4. t \in Seq(S)
    <3>1. Size[First(fd)] \in Nat
      BY <2>3
    <3> HIDE DEF S
    <3>2. QED
      BY <2>3, <3>1, TailType
  <2>5. /\ stream' = [stream EXCEPT ![fd] = t]
        /\ UNCHANGED <<handler, events, torn>>
        /\ reader' \in {"loop", "confused"} /\ fd' \in {fd, "s_socket"}
    <3>1. Goto("loop") \/ Goto("confused")
      BY <2>1 DEF Take
    <3>2. reader' \in {"loop", "confused"} /\ fd' \in {fd, "s_socket"}
      BY <3>1 DEF Goto
    <3>3. QED
      BY <2>1, <3>2 DEF Take
  <2>6. received' \in [Clients -> Seq(Messages)]
    <3>1. CASE UNCHANGED received
      BY <3>1
    <3>2. CASE received' = [received EXCEPT ![fd] = Append(@, First(fd))]
      BY <2>2, <2>3, <3>2
    <3>3. QED
      BY <2>1, <3>1, <3>2 DEF Take
  <2>7. stream' \in [Clients -> Seq(S)]
    <3> HIDE DEF t
    <3>1. QED
      BY <2>4, <2>5
  <2>8. \A c \in Clients : handler[c] = "closed" => stream'[c] = stream[c]
    BY <2>2, <2>5
  <2> HIDE DEF t
  <2>9. QED
    BY <2>2, <2>5, <2>6, <2>7, <2>8
<1>8. CASE Choke
  BY <1>8 DEF Choke, Goto
<1>9. CASE ReceiveInPart
  <2>1. /\ reader \in {"request", "packet"}
        /\ stream' = [stream EXCEPT ![fd] = <<>>]
        /\ reader' \in {"loop", "dead"} /\ fd' \in {fd, "s_socket"}
        /\ UNCHANGED <<handler, events, received, torn>>
    <3>1. Goto("loop") \/ Goto("dead")
      BY <1>9 DEF ReceiveInPart
    <3>2. reader' \in {"loop", "dead"} /\ fd' \in {fd, "s_socket"}
      BY <3>1 DEF Goto
    <3>3. QED
      BY <1>9, <3>2 DEF ReceiveInPart
  <2>2. stream' \in [Clients -> Seq(Messages \X Nat)]
    BY <2>1
  <2>3. QED
    BY <2>1, <2>2
<1>10. CASE Stop \/ TellToStop
  <2>1. /\ reader' \in {reader, "stopped"}
        /\ UNCHANGED <<stream, handler, events, fd, received, torn>>
    BY <1>10 DEF Stop, TellToStop
  <2>2. QED
    BY <2>1
<1>11. QED
  BY <1>2, <1>3, <1>4, <1>5, <1>6, <1>7, <1>8, <1>9, <1>10 DEF Receive

-----------------------------------------------------------------------------
(* What the layout tells of the next message.  The types it needs: *)
LEMMA LayoutTypes ==
  ASSUME ServerInv, NEW c \in Clients
  PROVE  /\ order[c] \in Seq(Messages) /\ Len(order[c]) \in Nat
         /\ stream[c] \in Seq(Messages \X Nat) /\ Len(stream[c]) \in Nat
         /\ received[c] \in Seq(Messages) /\ Len(received[c]) \in Nat
<1>1. /\ order[c] \in Seq(Messages)
      /\ stream[c] \in Seq(Messages \X Nat)
      /\ received[c] \in Seq(Messages)
  BY DEF ServerInv, OtherTypes
<1>2. QED
  BY <1>1

(* the next message is the first one in the stream, and behind a shutdown  *)
(* it is there as a whole.                                                 *)
LEMMA NextMessage ==
  ASSUME ServerInv, NEW c \in Clients, stream[c] # <<>>,
         NEW before \in [1 .. Len(order[c]) + 1 -> Nat], InStep(c, before)
  PROVE  /\ Len(received[c]) < Len(order[c])
         /\ First(c) = order[c][Len(received[c]) + 1]
         /\ First(c) \in Messages
         /\ \A k \in 1 .. Size[First(c)] : k <= Len(stream[c]) => stream[c][k] = <<First(c), k>>
         /\ c \in shut => Size[First(c)] <= Len(stream[c])
<1> DEFINE o == order[c]
           s == stream[c]
           r == Len(received[c])
<1>1. /\ o \in Seq(Messages) /\ Len(o) \in Nat
      /\ s \in Seq(Messages \X Nat) /\ Len(s) \in Nat \ {0} /\ s # <<>>
      /\ r \in Nat
  BY LayoutTypes
<1>2. /\ Laid(o, s, r, before)
      /\ \/ Sending(c) = {} /\ EndsBehind(o, s, r, before)
         \/ Sending(c) # {} /\ r < Len(o)
      /\ c \in shut => Sending(c) = {}
  BY DEF InStep, EndsIn
<1> HIDE DEF o, s, r
<1>3. r < Len(o)
  <2>1. ASSUME Len(s) = before[Len(o) + 1] - before[r + 1], r = Len(o)
        PROVE  FALSE
    <3>1. Len(o) + 1 \in 1 .. Len(o) + 1
      BY <1>1
    <3>2. before[Len(o) + 1] \in Nat
      BY <3>1 DEF o
    <3>3. Len(s) = 0
      BY <2>1, <3>2
    <3>4. QED
      BY <1>1, <3>3
  <2>2. r \in 0 .. Len(o)
    BY <1>2 DEF Laid
  <2>3. QED
    BY <1>1, <1>2, <2>1, <2>2 DEF EndsBehind
<1>4. /\ o[r + 1] \in Messages
      /\ \A k \in 1 .. Size[o[r + 1]] : k <= Len(s) => s[k] = <<o[r + 1], k>>
  <2>1. before \in [1 .. Len(o) + 1 -> Nat]
    BY DEF o
  <2>2. QED
    BY <1>1, <1>2, <1>3, <2>1, NextLays
<1>5. First(c) = o[r + 1]
  <2>1. 1 \in 1 .. Size[o[r + 1]] /\ 1 <= Len(s)
    BY <1>1, <1>4
  <2>2. s[1] = <<o[r + 1], 1>>
    BY <1>4, <2>1
  <2>3. QED
    BY <2>2 DEF First, s
<1>6. ASSUME c \in shut
      PROVE  Size[o[r + 1]] <= Len(s)
  <2>1. Len(s) = before[Len(o) + 1] - before[r + 1]
    BY <1>2, <1>6 DEF EndsBehind
  <2>2. r + 1 \in 1 .. Len(o) /\ Len(o) + 1 \in 1 .. Len(o) + 1 /\ r + 1 \in 1 .. Len(o) + 1
        /\ r + 1 < Len(o) + 1
    BY <1>1, <1>3
  <2>3. before[r + 1] + Size[o[r + 1]] <= before[Len(o) + 1]
    BY <1>2, <2>2 DEF Laid
  <2>4. PICK b \in Nat, e \in Nat : b = before[r + 1] /\ e = before[Len(o) + 1]
    BY <2>2 DEF o
  <2>5. Size[o[r + 1]] \in Nat
    BY <1>4
  <2>6. QED
    BY <2>1, <2>3, <2>4, <2>5
<1>7. QED
  BY <1>3, <1>4, <1>5, <1>6 DEF o, s, r

-----------------------------------------------------------------------------
(* An untorn stream stays laid out. *)
Steady(c) == \E before \in [1 .. Len(order[c]) + 1 -> Nat] : InStep(c, before)

(* When nothing is sent or received on it, *)
LEMMA LeftAlone ==
  ASSUME NEW c \in Clients, Steady(c),
         order'[c] = order[c], stream'[c] = stream[c], received'[c] = received[c],
         \A w \in Senders : Via[w] = c => worker'[w] = worker[w],
         c \in shut' => Sending(c) = {}
  PROVE  Steady(c)'
<1>1. Sending(c)' = Sending(c) /\ \A w \in Sending(c) : worker'[w] = worker[w]
  BY DEF Sending
<1>2. PICK before \in [1 .. Len(order[c]) + 1 -> Nat] : InStep(c, before)
  BY DEF Steady
<1>3. InStep(c, before)'
  BY <1>1, <1>2 DEF InStep
<1>4. QED
  BY <1>2, <1>3 DEF Steady

(* when a worker sends a part of the last message begun, the others being  *)
(* idle,                                                                   *)
LEMMA PartInStep ==
  ASSUME NEW w \in Senders, NEW m \in Messages, NEW a \in 0 .. Size[m] - 1,
         NEW n \in 1 .. Size[m] - a, NEW x, NEW c \in Clients,
         NEW o \in Seq(Messages), NEW r \in Nat, NEW before \in [1 .. Len(o) + 1 -> Nat]
  PROVE  /\ ServerInv
         /\ SendsPart(w, m, a, n, x)
         /\ c = Via[w]
         /\ o = order'[c]
         /\ r = Len(received[c])
         /\ Laid(o, stream[c], r, before)
         /\ r < Len(o)
         /\ o[Len(o)] = m
         /\ Len(stream[c]) = before[Len(o)] - before[r + 1] + a
         /\ \A i \in 1 .. r : received[c][i] = o[i]
         /\ \A v \in Senders \ {w} : Via[v] = c => worker[v] = <<>>
         /\ UNCHANGED <<shut, received>>
         /\ c \notin shut
         => InStep(c, before)'
<1>0. SUFFICES ASSUME ServerInv,
                      SendsPart(w, m, a, n, x),
                      c = Via[w],
                      o = order'[c],
                      r = Len(received[c]),
                      Laid(o, stream[c], r, before),
                      r < Len(o),
                      o[Len(o)] = m,
                      Len(stream[c]) = before[Len(o)] - before[r + 1] + a,
                      \A i \in 1 .. r : received[c][i] = o[i],
                      \A v \in Senders \ {w} : Via[v] = c => worker[v] = <<>>,
                      UNCHANGED <<shut, received>>,
                      c \notin shut
               PROVE  InStep(c, before)'
  OBVIOUS
<1> DEFINE S == Messages \X Nat
           s == stream[c]
           t == stream'[c]
<1>1. /\ s \in Seq(S) /\ Len(s) \in Nat /\ x \in Seq(S) /\ Len(x) = n
      /\ \A i \in 1 .. n : x[i] = <<m, a + i>>
  <2>1. s \in Seq(S) /\ Len(s) \in Nat
    BY <1>0, LayoutTypes
  <2>2. QED
    BY <1>0, <2>1 DEF SendsPart
<1>2. Size[m] \in Nat /\ a \in Nat /\ n \in Nat
  <2>1. Size[m] \in Nat
    OBVIOUS
  <2>2. QED
    BY <2>1
<1>3. /\ Len(o) \in Nat /\ r < Len(o)
         /\ Len(o) \in 1 .. Len(o) /\ Len(o) \in 1 .. Len(o) + 1 /\ r + 1 \in 1 .. Len(o) + 1
  <2>1. Len(o) \in Nat /\ r < Len(o)
    BY <1>0
  <2>2. QED
    BY <2>1
<1>4. t = s \o x
  BY <1>0 DEF SendsPart, ServerInv, OtherTypes
<1>5. /\ worker'[w] = Rest(m, a + n)
      /\ \A v \in Senders \ {w} : Via[v] = c => worker'[v] = <<>>
  BY <1>0 DEF SendsPart, ServerInv, WorkerTypes
<1> HIDE DEF S, t, s
<1> HIDE MessagesAssumption
<1>6. Laid(o, t, r, before)
  <2>1. /\ Laid(o, s, r, before)
        /\ r < Len(o)
        /\ Len(s) = before[Len(o)] - before[r + 1] + a
        /\ \A i \in 1 .. Len(x) : x[i] = <<o[Len(o)], a + i>>
    BY <1>0, <1>1 DEF s
  <2>2. s \in Seq(Messages \X Nat) /\ x \in Seq(Messages \X Nat)
    BY <1>1 DEF S
  <2>3. QED
    BY <1>2, <1>4, <2>1, <2>2, OutLays
<1>7. Len(t) = before[Len(o)] - before[r + 1] + (a + n)
  <2>1. Len(t) = Len(s) + Len(x)
    BY <1>1, <1>4, ConcatProperties
  <2>3. PICK b \in Nat, base \in Nat : b = before[Len(o)] /\ base = before[r + 1]
    BY <1>3
  <2>4. Len(s) = b - base + a
    BY <1>0, <2>3 DEF s
  <2>5. Len(t) = b - base + a + n
    BY <1>1, <2>1, <2>4
  <2>6. b - base + a + n = b - base + (a + n)
    BY <1>2
  <2>7. QED
    BY <2>3, <2>5, <2>6
<1>8. Len(received'[c]) = r /\ \A i \in 1 .. r : received'[c][i] = o[i]
  BY <1>0
<1>9. CASE a + n = Size[m]
  <2>1. worker'[w] = <<>>
    BY <1>5, <1>9, <1>2, RestOf
  <2>2. Sending(c)' = {}
    BY <1>0, <1>5, <2>1 DEF Sending
  <2>3. EndsBehind(o, t, r, before)
    <3>1. before[Len(o) + 1] = before[Len(o)] + Size[m]
      BY <1>0, <1>3 DEF Laid
    <3>2. PICK b \in Nat, base \in Nat : b = before[Len(o)] /\ base = before[r + 1]
      BY <1>3
    <3>3. Len(t) = b - base + Size[m] /\ before[Len(o) + 1] = b + Size[m]
      BY <1>7, <1>9, <3>1, <3>2
    <3>4. b - base + Size[m] = b + Size[m] - base
      BY <1>2
    <3>5. before[r + 1] = base
      BY <3>2
    <3>6. Len(t) = before[Len(o) + 1] - before[r + 1]
      BY <1>2, <1>3, <3>3, <3>4, <3>5
    <3>7. QED
      BY <3>6 DEF EndsBehind
  <2>4. QED
    BY <1>0, <1>6, <1>8, <2>2, <2>3 DEF InStep, t
<1>10. CASE a + n # Size[m]
  <2>1. PICK sent \in 1 .. Size[m] - 1 : sent = a + n
    BY <1>10, <1>2
  <2>2. worker'[w] = Rest(m, sent) /\ worker'[w] # <<>>
    <3>1. sent \in 0 .. Size[m] /\ sent # Size[m]
      BY <1>2
    <3>2. QED
      BY <1>5, <2>1, <3>1, RestOf
  <2>3. Sending(c)' = {w}
    BY <1>0, <1>5, <2>2 DEF Sending
  <2>4. EndsIn(o, t, r, before, sent)
    BY <1>0, <1>7, <2>1 DEF EndsIn
  <2>5. /\ w \in Sending(c)' /\ sent \in 1 .. Size[o[Len(o)]] - 1
        /\ EndsIn(o, t, r, before, sent) /\ worker'[w] = Rest(o[Len(o)], sent)
    BY <1>0, <2>2, <2>3, <2>4
  <2>6. QED
    BY <1>0, <1>6, <1>8, <2>3, <2>5 DEF InStep, t
<1>11. QED
  BY <1>9, <1>10

(* which they are when that does not tear the stream;                      *)
LEMMA OthersIdle ==
  ASSUME ServerInv, NEW w \in Senders, NEW m \in Messages, NEW a, NEW n, NEW x,
         SendsPart(w, m, a, n, x), torn'[Via[w]] = {}
  PROVE  \A v \in Senders \ {w} : Via[v] = Via[w] => worker[v] = <<>>
<1>1. Via[w] \in Clients
  OBVIOUS
<1>2. ~ \E v \in Senders \ {w} : Via[v] = Via[w] /\ worker[v] # <<>>
  BY <1>1, TearTypes DEF SendsPart, ServerInv
<1>3. QED
  BY <1>2

(* so when a message is begun,                                             *)
LEMMA BeginSteady ==
  ASSUME ServerInv, NEW w \in Senders, NEW m \in Messages, Begin(w, m),
         Steady(Via[w]), torn'[Via[w]] = {}
  PROVE  Steady(Via[w])'
<1> DEFINE c == Via[w]
           o == order[c]
           s == stream[c]
           r == Len(received[c])
           p == Append(o, m)
<1>1. PICK n \in 1 .. Size[m], x \in Seq(Messages \X Nat) : SendsPart(w, m, 0, n, x)
  BY BeginSends DEF ServerInv
<1>2. /\ c \in Clients /\ Via[m] = c /\ c \notin shut /\ worker[w] = <<>>
      /\ order' = [order EXCEPT ![c] = p]
      /\ UNCHANGED <<shut, received>>
  BY DEF Begin, receiver
<1>3. \A v \in Senders \ {w} : Via[v] = c => worker[v] = <<>>
  BY <1>1, OthersIdle
<1>4. PICK before \in [1 .. Len(o) + 1 -> Nat] : InStep(c, before)
  BY DEF Steady
<1>5. o \in Seq(Messages) /\ s \in Seq(Messages \X Nat) /\ r \in Nat /\ Len(o) \in Nat
  BY <1>2, LayoutTypes
<1>6. Sending(c) = {}
  BY <1>2, <1>3 DEF Sending
<1>7. /\ Laid(o, s, r, before) /\ EndsBehind(o, s, r, before)
      /\ \A i \in 1 .. r : received[c][i] = o[i]
  BY <1>4, <1>6 DEF InStep
<1>8. order'[c] = p
  BY <1>2 DEF ServerInv, OtherTypes
<1> HIDE DEF o, s, r, p
<1>9. PICK after \in [1 .. Len(p) + 1 -> Nat] :
        Laid(p, s, r, after) /\ Len(s) = after[Len(p)] - after[r + 1]
  <2>1. before \in [1 .. Len(o) + 1 -> Nat]
    BY <1>4 DEF o
  <2>2. Laid(o, s, r, before) /\ EndsBehind(o, s, r, before)
    BY <1>7
  <2> HIDE MessagesAssumption
  <2>3. NextBegun(p, s, r)
    BY <1>5, <2>1, <2>2, BeginLays DEF p
  <2>4. QED
    BY <2>3 DEF NextBegun
<1>10. /\ p \in Seq(Messages) /\ Len(p) = Len(o) + 1 /\ p[Len(p)] = m
       /\ \A i \in 1 .. Len(o) : p[i] = o[i]
  BY <1>5, AppendProperties DEF p
<1>11. r < Len(p) /\ \A i \in 1 .. r : received[c][i] = p[i]
  <2>1. r \in 0 .. Len(o)
    BY <1>7 DEF Laid
  <2>2. \A i \in 1 .. r : i \in 1 .. Len(o)
    BY <1>5, <2>1
  <2>3. QED
    BY <1>5, <1>7, <1>10, <2>1, <2>2
<1>12. Len(s) = after[Len(p)] - after[r + 1] + 0
  <2>1. Len(p) \in 1 .. Len(p) + 1 /\ r + 1 \in 1 .. Len(p) + 1
    BY <1>5, <1>10, <1>11
  <2>2. QED
    BY <1>9, <2>1
<1>13. n \in 1 .. Size[m] - 0 /\ 0 \in 0 .. Size[m] - 1
  OBVIOUS
<1>14. InStep(c, after)'
  <2> HIDE DEF c
  <2> HIDE MessagesAssumption
  <2>1. c = Via[w]
    BY DEF c
  <2>2. QED
    BY <1>1, <1>2, <1>3, <1>5, <1>8, <1>9, <1>10, <1>11, <1>12, <1>13, <2>1, PartInStep
       DEF s, r
<1>15. QED
  BY <1>8, <1>14 DEF Steady

(* and when another part of it is sent;                                    *)
LEMMA ContinueSteady ==
  ASSUME ServerInv, NEW w \in Senders, Continue(w),
         Steady(Via[w]), torn'[Via[w]] = {}
  PROVE  Steady(Via[w])'
<1> DEFINE c == Via[w]
           o == order[c]
           s == stream[c]
           r == Len(received[c])
<1>1. /\ c \in Clients /\ c \notin shut /\ worker[w] # <<>>
      /\ UNCHANGED <<shut, received, order>>
  BY DEF Continue, receiver
<1>2. PICK before \in [1 .. Len(o) + 1 -> Nat] : InStep(c, before)
  BY DEF Steady
<1>3. o \in Seq(Messages) /\ s \in Seq(Messages \X Nat) /\ r \in Nat /\ Len(o) \in Nat
  BY <1>1, LayoutTypes
<1>4. w \in Sending(c)
  BY <1>1 DEF Sending
<1>5. PICK a \in Nat :
        /\ a \in 1 .. Size[o[Len(o)]] - 1
        /\ EndsIn(o, s, r, before, a)
        /\ worker[w] = Rest(o[Len(o)], a)
  <2>1. PICK v \in Sending(c), a \in Nat :
          /\ a \in 1 .. Size[o[Len(o)]] - 1
          /\ EndsIn(o, s, r, before, a)
          /\ Sending(c) = {v}
          /\ worker[v] = Rest(o[Len(o)], a)
    BY <1>2, <1>4 DEF InStep
  <2>2. v = w
    BY <1>4, <2>1
  <2>3. QED
    BY <2>1, <2>2
<1>6. /\ Laid(o, s, r, before) /\ r < Len(o)
      /\ Len(s) = before[Len(o)] - before[r + 1] + a
      /\ \A i \in 1 .. r : received[c][i] = o[i]
  BY <1>2, <1>5 DEF InStep, EndsIn
<1>7. o[Len(o)] \in Messages
  <2>1. Len(o) \in 1 .. Len(o)
    BY <1>3, <1>6
  <2>2. QED
    BY <1>3, <2>1
<1> HIDE DEF s, r, o
<1>8. PICK m \in Messages : m = o[Len(o)]
  BY <1>7
<1>9. a \in 1 .. Size[m] - 1 /\ a \in 0 .. Size[m] - 1 /\ worker[w] = Rest(m, a)
  BY <1>5, <1>8
<1>10. PICK n \in 1 .. Size[m] - a, x \in Seq(Messages \X Nat) : SendsPart(w, m, a, n, x)
  BY <1>9, ContinueSends DEF ServerInv
<1>11. \A v \in Senders \ {w} : Via[v] = c => worker[v] = <<>>
  BY <1>10, OthersIdle
<1>12. InStep(c, before)'
  <2> HIDE DEF c
  <2> HIDE MessagesAssumption
  <2>1. c = Via[w] /\ o = order'[c] /\ r = Len(received[c])
    BY <1>1 DEF c, o, r
  <2>2. Laid(o, stream[c], r, before) /\ Len(stream[c]) = before[Len(o)] - before[r + 1] + a
    BY <1>6 DEF s
  <2>3. before \in [1 .. Len(o) + 1 -> Nat]
    BY <1>2 DEF o
  <2>4. /\ SendsPart(w, m, a, n, x)
        /\ r < Len(o) /\ o[Len(o)] = m
        /\ \A i \in 1 .. r : received[c][i] = o[i]
        /\ \A v \in Senders \ {w} : Via[v] = c => worker[v] = <<>>
        /\ UNCHANGED <<shut, received>>
        /\ c \notin shut
    BY <1>1, <1>6, <1>8, <1>10, <1>11
  <2>5. a \in 0 .. Size[m] - 1 /\ n \in 1 .. Size[m] - a /\ c \in Clients
    BY <1>1, <1>9, <1>10
  <2>6. QED
    BY <1>3, <1>8, <2>1, <2>2, <2>3, <2>4, <2>5, PartInStep
<1>13. QED
  BY <1>1, <1>12 DEF Steady, o

(* so whatever the workers do,                                             *)
LEMMA SendSteady ==
  ASSUME ServerInv, NEW c \in Clients, Steady(c), torn'[c] = {}, Send
  PROVE  Steady(c)'
<1>1. c \in shut => Sending(c) = {}
  BY DEF Steady, InStep
<1>2. ASSUME NEW m \in Messages, Lose(m) \/ FailAtOnce(m)
      PROVE  Steady(c)'
  <2>1. UNCHANGED <<worker, shut, order, stream, received>>
    BY <1>2 DEF Lose, FailAtOnce, receiver
  <2>2. QED
    BY <1>1, <2>1, LeftAlone
<1>3. ASSUME NEW w \in Senders, Via[w] # c,
             \E m \in Messages : Begin(w, m) \/ Continue(w)
      PROVE  Steady(c)'
  <2>1. /\ order'[c] = order[c] /\ stream'[c] = stream[c] /\ received'[c] = received[c]
        /\ \A v \in Senders : Via[v] = c => worker'[v] = worker[v]
        /\ shut' = shut
    <3>1. PICK pieces \in {worker[w]} \cup {Pieces(m) : m \in Messages} :
            /\ Out(w, pieces)
            /\ UNCHANGED <<shut, received>>
            /\ order' = order \/ \E m \in Messages : order' = [order EXCEPT ![Via[w]] = Append(@, m)]
      BY <1>3 DEF Begin, Continue, receiver
    <3>2. PICK n \in 1 .. Len(pieces) :
            /\ stream' = [stream EXCEPT ![Via[w]] = @ \o SubSeq(pieces, 1, n)]
            /\ worker' = [worker EXCEPT ![w] = SubSeq(pieces, n + 1, Len(pieces))]
      BY <3>1 DEF Out
    <3>3. order'[c] = order[c]
      BY <1>3, <3>1 DEF ServerInv, OtherTypes
    <3>4. stream'[c] = stream[c]
      BY <1>3, <3>2 DEF ServerInv, OtherTypes
    <3>5. \A v \in Senders : v # w => worker'[v] = worker[v]
      BY <3>2 DEF ServerInv, WorkerTypes
    <3>6. QED
      BY <1>3, <3>1, <3>3, <3>4, <3>5
  <2>2. QED
    BY <1>1, <2>1, LeftAlone
<1>4. ASSUME NEW w \in Senders, NEW m \in Messages, Begin(w, m)
      PROVE  Steady(c)'
  BY <1>3, <1>4, BeginSteady
<1>5. ASSUME NEW w \in Senders, Continue(w)
      PROVE  Steady(c)'
  <2>1. \E m \in Messages : TRUE
    BY <1>5 DEF Continue, ServerInv, WorkerTypes
  <2>2. QED
    BY <1>3, <1>5, <2>1, ContinueSteady
<1>6. ASSUME NEW w \in Senders, Fail(w)
      PROVE  Steady(c)'
  <2>1. Via[w] # c
    BY <1>1, <1>6 DEF Fail, Sending
  <2>2. /\ UNCHANGED <<shut, order, stream, received>>
        /\ \A v \in Senders : Via[v] = c => worker'[v] = worker[v]
    BY <1>6, <2>1 DEF Fail, receiver, ServerInv, WorkerTypes
  <2>3. QED
    BY <1>1, <2>2, LeftAlone
<1>7. QED
  BY <1>2, <1>4, <1>5, <1>6 DEF Send

(* or the scan thread does;                                                *)
LEMMA ShutdownSteady ==
  ASSUME ServerInv, NEW c \in Clients, Steady(c), torn'[c] = {},
         NEW d \in Clients, Shutdown(d)
  PROVE  Steady(c)'
<1>1. /\ UNCHANGED <<worker, order, stream, received>> /\ shut' = shut \cup {d}
      /\ Tear(d, "cut", \E w \in Senders : Via[w] = d /\ worker[w] # <<>>)
  BY DEF Shutdown, receiver
<1>2. c \in shut => Sending(c) = {}
  BY DEF Steady, InStep
<1>3. CASE c = d
  <2>1. ~ \E w \in Senders : Via[w] = d /\ worker[w] # <<>>
    BY <1>1, <1>3, TearTypes DEF ServerInv
  <2>2. Sending(c) = {}
    BY <1>3, <2>1 DEF Sending
  <2>3. QED
    BY <1>1, <2>2, LeftAlone
<1>4. CASE c # d
  BY <1>1, <1>2, <1>4, LeftAlone
<1>5. QED
  BY <1>3, <1>4

(* when the server takes the first message, which it finds intact,         *)
LEMMA TakeSteady ==
  ASSUME ServerInv, NEW c \in Clients, fd = c, stream[c] # <<>>, Steady(c), Take
  PROVE  /\ Steady(c)'
         /\ reader' = "loop"
<1> DEFINE o == order[c]
           s == stream[c]
           r == Len(received[c])
           N == Len(o)
           z == Size[o[r + 1]]
           t == SubSeq(s, z + 1, Len(s))
<1>1. PICK before \in [1 .. Len(o) + 1 -> Nat] : InStep(c, before)
  BY DEF Steady
<1>2. /\ o \in Seq(Messages) /\ s \in Seq(Messages \X Nat) /\ r \in Nat /\ N \in Nat
      /\ Len(s) \in Nat /\ received[c] \in Seq(Messages)
  BY LayoutTypes
<1>3. /\ r < N /\ First(c) = o[r + 1] /\ o[r + 1] \in Messages
  BY <1>1, NextMessage
<1>4. z <= Len(s) /\ z \in Nat \ {0}
  BY <1>3 DEF Take, AllThere
<1>5. /\ Laid(o, s, r, before)
      /\ \A i \in 1 .. r : received[c][i] = o[i]
      /\ c \in shut => Sending(c) = {}
  BY <1>1 DEF InStep
<1>6. /\ SubSeq(s, 1, z) = Pieces(o[r + 1])
      /\ Laid(o, t, r + 1, before)
      /\ Len(t) = Len(s) - z
      /\ before[r + 2] = before[r + 1] + z
  <2>1. before \in [1 .. Len(o) + 1 -> Nat] /\ r < Len(o) /\ Size[o[r + 1]] <= Len(s)
    BY <1>1, <1>3, <1>4
  <2> HIDE DEF s, r, o
  <2> HIDE MessagesAssumption
  <2>2. QED
    BY <1>2, <1>5, <2>1, TakeLays
<1>7. /\ stream' = [stream EXCEPT ![c] = t]
      /\ received' = [received EXCEPT ![c] = Append(@, o[r + 1])]
      /\ reader' = "loop"
      /\ UNCHANGED <<worker, shut, order>>
  BY <1>3, <1>6 DEF Take, Goto, sender
<1>8. stream'[c] = t /\ received'[c] = Append(received[c], o[r + 1])
  BY <1>7 DEF ServerInv, OtherTypes
<1>9. /\ Len(received'[c]) = r + 1
      /\ \A i \in 1 .. r + 1 : received'[c][i] = o[i]
  <2> HIDE DEF o
  <2> HIDE MessagesAssumption
  <2>1. /\ Len(received'[c]) = r + 1 /\ received'[c][r + 1] = o[r + 1]
        /\ \A i \in 1 .. r : received'[c][i] = received[c][i]
    BY <1>2, <1>3, <1>8, AppendProperties
  <2>2. \A i \in 1 .. r + 1 : i \in 1 .. r \/ i = r + 1
    <3> HIDE DEF r
    <3>1. QED
      BY <1>2
  <2>3. QED
    BY <1>5, <2>1, <2>2
<1>10. /\ N \in 1 .. N + 1 /\ N + 1 \in 1 .. N + 1 /\ r + 1 \in 1 .. N + 1 /\ r + 2 \in 1 .. N + 1
       /\ before \in [1 .. N + 1 -> Nat]
  <2>1. before \in [1 .. N + 1 -> Nat]
    BY <1>1
  <2>2. N \in Nat /\ r \in Nat /\ r < N
    BY <1>2, <1>3
  <2> HIDE DEF N, r
  <2> HIDE MessagesAssumption
  <2>3. QED
    BY <2>1, <2>2
<1>11. Sending(c)' = Sending(c) /\ \A w \in Sending(c) : worker'[w] = worker[w]
  BY <1>7 DEF Sending
<1>12. InStep(c, before)'
  <2>1. ASSUME Sending(c) = {}, EndsBehind(o, s, r, before)
        PROVE  EndsBehind(o, t, r + 1, before)
    <3> HIDE DEF o, s, r, t, z
    <3> HIDE MessagesAssumption
    <3>1. PICK base \in Nat, e \in Nat : base = before[r + 1] /\ e = before[N + 1]
      BY <1>10
    <3>2. Len(t) = e - base - z /\ before[r + 2] = base + z /\ e - base - z = e - (base + z)
      BY <1>4, <1>6, <2>1, <3>1 DEF EndsBehind
    <3>3. Len(t) = before[N + 1] - before[r + 2] /\ r + 1 + 1 = r + 2
      BY <1>2, <1>4, <1>10, <3>1, <3>2
    <3>4. QED
      BY <3>3 DEF EndsBehind
  <2>2. ASSUME NEW n \in 1 .. Size[o[N]] - 1, EndsIn(o, s, r, before, n)
        PROVE  EndsIn(o, t, r + 1, before, n)
    <3> HIDE DEF o, s, r, t, z
    <3>1. PICK base \in Nat, e \in Nat : base = before[r + 1] /\ e = before[N]
      BY <1>10
    <3>2. Len(s) = e - base + n
      BY <2>2, <3>1 DEF EndsIn
    <3>3. Size[o[N]] \in Nat /\ n < Size[o[N]] /\ n \in Nat
      <4>1. N \in 1 .. N
        BY <1>2, <1>3
      <4>2. o[N] \in Messages
        BY <1>2, <4>1
      <4>3. Size[o[N]] \in Nat
        BY <4>2
      <4>4. QED
        BY <4>3
    <3> HIDE MessagesAssumption
    <3>4. r + 1 < N
      <4>1. ASSUME r + 1 = N
            PROVE  FALSE
        <5>1. e = base /\ z = Size[o[N]]
          BY <3>1, <4>1 DEF z
        <5>2. QED
          BY <1>4, <3>2, <3>3, <5>1
      <4>2. QED
        BY <1>2, <1>3, <4>1
    <3>5. Len(t) = e - base + n - z /\ before[r + 2] = base + z
      <4>1. Len(t) = Len(s) - z /\ before[r + 2] = before[r + 1] + z /\ before[r + 1] = base
        BY <1>6, <3>1
      <4>2. QED
        BY <1>4, <1>10, <3>2, <4>1
    <3>6. e - base + n - z = e - (base + z) + n
      BY <1>4, <3>3
    <3>7. Len(t) = before[N] - before[r + 2] + n /\ r + 1 + 1 = r + 2
      BY <1>2, <1>4, <1>10, <3>1, <3>3, <3>5, <3>6
    <3>8. QED
      BY <2>2, <3>4, <3>7 DEF EndsIn
  <2>3. \/ Sending(c) = {} /\ EndsBehind(o, t, r + 1, before)
        \/ \E w \in Sending(c) : \E n \in 1 .. Size[o[N]] - 1 :
             /\ EndsIn(o, t, r + 1, before, n)
             /\ Sending(c) = {w}
             /\ worker[w] = Rest(o[N], n)
    BY <1>1, <2>1, <2>2 DEF InStep
  <2>4. order'[c] = o /\ shut' = shut
    BY <1>7
  <2> HIDE DEF o, s, r, t, z
  <2>5. QED
    BY <1>5, <1>6, <1>8, <1>9, <1>11, <2>3, <2>4 DEF InStep
<1>13. QED
  BY <1>7, <1>12 DEF Steady

(* and which is never cut short;                                           *)
LEMMA NeverInPart ==
  ASSUME ServerInv, NEW c \in Clients, Steady(c), ReceiveInPart
  PROVE  fd # c
<1> SUFFICES ASSUME fd = c
             PROVE  FALSE
  OBVIOUS
<1>1. reader \in {"request", "packet"} /\ c \in shut /\ ~ Len(stream[c]) >= Size[First(c)]
  BY DEF ReceiveInPart, AllThere
<1>2. stream[c] # <<>>
  BY <1>1 DEF ServerInv
<1>3. Size[First(c)] <= Len(stream[c])
  BY <1>1, <1>2, NextMessage DEF Steady
<1>4. Len(stream[c]) \in Nat /\ Size[First(c)] \in Nat
  <2>1. First(c) \in Messages
    BY <1>2, NextMessage DEF Steady
  <2>2. QED
    BY <2>1, LayoutTypes
<1>5. QED
  BY <1>1, <1>3, <1>4

(* so whatever the server does.                                            *)
LEMMA ReceiveSteady ==
  ASSUME ServerInv, NEW c \in Clients, Steady(c), Receive \/ TellToStop
  PROVE  Steady(c)'
<1>1. c \in shut => Sending(c) = {}
  BY DEF Steady, InStep
<1>2. UNCHANGED <<worker, shut, order>>
  BY DEF Receive, EpollWait, Accept, Examine, ExaminePart, Finish, ReceiveRequest,
         ReceivePacket, Choke, ReceiveInPart, Take, Stop, TellToStop, sender
<1>3. ASSUME UNCHANGED <<stream, received>>
      PROVE  Steady(c)'
  BY <1>1, <1>2, <1>3, LeftAlone
<1>4. CASE EpollWait \/ Accept \/ Choke \/ \E d \in Clients : Examine(d) \/ ExaminePart(d) \/ Finish(d)
  BY <1>3, <1>4 DEF EpollWait, Accept, Examine, ExaminePart, Finish, Choke
<1>5. CASE ReceiveRequest \/ ReceivePacket
  <2>1. reader \in {"request", "packet"} /\ Take
    BY <1>5 DEF ReceiveRequest, ReceivePacket
  <2>2. CASE fd = c
    BY <2>1, <2>2, TakeSteady DEF ServerInv
  <2>3. CASE fd # c
    <3>1. stream'[c] = stream[c] /\ received'[c] = received[c]
      BY <2>1, <2>3 DEF Take, ServerInv, OtherTypes
    <3>2. QED
      BY <1>1, <1>2, <3>1, LeftAlone
  <2>4. QED
    BY <2>2, <2>3
<1>6. CASE ReceiveInPart
  <2>1. stream'[c] = stream[c] /\ received'[c] = received[c]
    BY <1>6, NeverInPart DEF ReceiveInPart, ServerInv, OtherTypes
  <2>2. QED
    BY <1>1, <1>2, <2>1, LeftAlone
<1>7. CASE Stop \/ TellToStop
  BY <1>3, <1>7 DEF Stop, TellToStop
<1>8. QED
  BY <1>4, <1>5, <1>6, <1>7 DEF Receive

-----------------------------------------------------------------------------
(* What the server has seen stays right: while it waits for the rest of a  *)
(* message, more joins the stream behind what it has seen;                 *)
LEMMA SendSeenRight ==
  ASSUME ServerInv, NEW c \in Clients, SeenRight(c), ServerInv',
         Send \/ \E d \in Clients : Shutdown(d)
  PROVE  SeenRight(c)'
<1>1. UNCHANGED <<plain, fd, reader>>
  BY DEF Send, Lose, FailAtOnce, Begin, Continue, Fail, Shutdown, receiver
<1>2. stream[c] # <<>> => First(c)' = First(c)
  <2>1. \/ UNCHANGED stream
        \/ \E w \in Senders : \E x \in Seq(Messages \X Nat) :
             stream' = [stream EXCEPT ![Via[w]] = @ \o x]
    <3>1. ASSUME NEW w \in Senders, NEW m \in Messages, Begin(w, m)
          PROVE  \E x \in Seq(Messages \X Nat) : stream' = [stream EXCEPT ![Via[w]] = @ \o x]
      BY <3>1, BeginSends DEF SendsPart, ServerInv
    <3>2. ASSUME NEW w \in Senders, Continue(w)
          PROVE  \E x \in Seq(Messages \X Nat) : stream' = [stream EXCEPT ![Via[w]] = @ \o x]
      <4>1. PICK m \in Messages, a \in Nat : a \in 1 .. Size[m] - 1 /\ worker[w] = Rest(m, a)
        BY <3>2 DEF Continue, ServerInv, WorkerTypes
      <4>2. \E n \in 1 .. Size[m] - a, x \in Seq(Messages \X Nat) : SendsPart(w, m, a, n, x)
        BY <3>2, <4>1, ContinueSends DEF ServerInv
      <4>3. QED
        BY <4>2 DEF SendsPart
    <3>3. QED
      BY <3>1, <3>2 DEF Send, Lose, FailAtOnce, Fail, Shutdown
  <2>2. CASE UNCHANGED stream
    BY <2>2 DEF First
  <2>3. ASSUME NEW w \in Senders, NEW x \in Seq(Messages \X Nat), stream[c] # <<>>,
               stream' = [stream EXCEPT ![Via[w]] = @ \o x]
        PROVE  First(c)' = First(c)
    <3> DEFINE S == Messages \X Nat
    <3>1. stream'[c] = stream[c] \/ stream'[c] = stream[c] \o x
      BY <2>3 DEF ServerInv, OtherTypes
    <3>2. stream[c] \in Seq(S) /\ x \in Seq(S) /\ 1 \in 1 .. Len(stream[c])
      <4>1. stream[c] \in Seq(S)
        BY DEF ServerInv, OtherTypes
      <4>2. QED
        BY <2>3, <4>1
    <3> HIDE DEF S
    <3>3. (stream[c] \o x)[1] = stream[c][1]
      BY <3>2, ConcatProperties
    <3>4. QED
      BY <3>1, <3>3 DEF First
  <2>4. QED
    BY <2>1, <2>2, <2>3
<1>3. ToSet(order[c]) \subseteq ToSet(order'[c])
  <2>1. order'[c] = order[c] \/ \E m \in Messages : order'[c] = Append(order[c], m)
    <3>1. UNCHANGED order \/ \E m \in Messages : order' = [order EXCEPT ![Via[m]] = Append(@, m)]
      BY DEF Send, Lose, FailAtOnce, Begin, Continue, Fail, Shutdown
    <3>2. ASSUME NEW m \in Messages, order' = [order EXCEPT ![Via[m]] = Append(@, m)]
          PROVE  order'[c] = order[c] \/ order'[c] = Append(order[c], m)
      <4>1. order \in [Clients -> Seq(Messages)]
        BY DEF ServerInv, OtherTypes
      <4> HIDE MessagesAssumption
      <4>2. QED
        BY <3>2, <4>1
    <3>3. QED
      BY <3>1, <3>2
  <2>2. ASSUME NEW m \in Messages
        PROVE  ToSet(order[c]) \subseteq ToSet(Append(order[c], m))
    <3>1. order[c] \in Seq(Messages) /\ Len(order[c]) \in Nat
      BY LayoutTypes
    <3> DEFINE o == order[c]
               p == Append(o, m)
    <3> HIDE DEF o
    <3> HIDE MessagesAssumption
    <3>2. Len(p) = Len(o) + 1 /\ \A i \in 1 .. Len(o) : p[i] = o[i]
      BY <3>1, AppendProperties DEF o
    <3>3. p \in Seq(Messages) /\ Len(o) \in Nat /\ o \in Seq(Messages)
      BY <3>1 DEF o
    <3> HIDE DEF p
    <3>4. ToSet(o) \subseteq ToSet(p)
      BY <3>2, <3>3 DEF ToSet
    <3>5. QED
      BY <3>4 DEF o, p
  <2>3. QED
    BY <2>1, <2>2
<1>4. QED
  BY <1>1, <1>2, <1>3 DEF SeenRight, ServerInv

(* A sequence of two elements or more starts with its first two. *)
LEMMA PairIsPrefix ==
  ASSUME NEW S, NEW s \in Seq(S), Len(s) >= 2
  PROVE  IsPrefix(<<s[1], s[2]>>, s)
<1> DEFINE v == <<s[1], s[2]>>
<1>1. s[1] \in S /\ s[2] \in S /\ Len(s) \in Nat
  OBVIOUS
<1>2. v \in Seq(S) /\ Len(v) = 2 /\ v[1] = s[1] /\ v[2] = s[2]
  BY <1>1
<1> HIDE DEF v
<1>3. SubSeq(v, 1, 2) = v
  BY <1>2, SubSeqFull
<1>4. \A i \in 1 .. 2 : i = 1 \/ i = 2
  OBVIOUS
<1>5. /\ SubSeq(s, 1, 2) \in Seq(S) /\ Len(SubSeq(s, 1, 2)) = 2
      /\ SubSeq(s, 1, 2)[1] = s[1] /\ SubSeq(s, 1, 2)[2] = s[2]
  <2>1. \A i \in 1 .. 2 : s[i] \in S
    BY <1>1, <1>4
  <2>2. /\ SubSeq(s, 1, 2) \in Seq(S)
        /\ Len(SubSeq(s, 1, 2)) = IF 1 <= 2 THEN 2 - 1 + 1 ELSE 0
        /\ \A i \in 1 .. 2 - 1 + 1 : SubSeq(s, 1, 2)[i] = s[1 + i - 1]
    BY <2>1, SubSeqProperties
  <2>3. QED
    BY <2>2
<1>6. SubSeq(s, 1, 2) = v
  BY <1>2, <1>4, <1>5, SeqEqual
<1>7. QED
  BY <1>1, <1>2, <1>3, <1>6 DEF IsPrefix, v

(* it knows what it looks at, but for half a length, and finds what it     *)
(* has seen.                                                               *)
LEMMA ReceiveSeenRight ==
  ASSUME ServerInv, NEW c \in Clients, SeenRight(c), Steady(c),
         Receive \/ TellToStop, torn'[c] = {}
  PROVE  SeenRight(c)'
<1> USE DEF SeenRight
<1>0. UNCHANGED <<plain, order>>
  BY DEF Receive, EpollWait, Accept, Examine, ExaminePart, Finish, ReceiveRequest,
         ReceivePacket, Choke, ReceiveInPart, Take, Stop, TellToStop, sender
<1>1. stream[c] # <<>> =>
        /\ First(c) \in Messages /\ stream[c][1] = <<First(c), 1>>
        /\ Len(stream[c]) # 1 => Size[First(c)] <= 2 \/ SeesLength(c)
  <2>0. SUFFICES ASSUME stream[c] # <<>>
                 PROVE  /\ First(c) \in Messages /\ stream[c][1] = <<First(c), 1>>
                        /\ Len(stream[c]) # 1 => Size[First(c)] <= 2 \/ SeesLength(c)
    OBVIOUS
  <2>1. PICK m \in Messages : m = First(c)
    BY <2>0, NextMessage DEF Steady
  <2>2. \A k \in 1 .. Size[m] : k <= Len(stream[c]) => stream[c][k] = <<m, k>>
    BY <2>0, <2>1, NextMessage DEF Steady
  <2>3. stream[c] \in Seq(Messages \X Nat) /\ Len(stream[c]) \in Nat /\ Size[m] \in Nat \ {0}
    BY LayoutTypes
  <2>4. Len(stream[c]) # 0
    BY <2>0, <2>3
  <2>5. stream[c][1] = <<m, 1>>
    BY <2>2, <2>3, <2>4
  <2>6. ASSUME Len(stream[c]) # 1, ~ Size[m] <= 2
        PROVE  SeesLength(c)
    <3>1. PICK len \in Nat : len = Len(stream[c])
      BY <2>3
    <3>2. len >= 2
      <4>1. len # 0 /\ len # 1
        BY <2>4, <2>6, <3>1
      <4>2. QED
        BY <4>1
    <3>3. 2 \in 1 .. Size[m]
      BY <2>3, <2>6
    <3>4. stream[c][2] = <<m, 2>>
      BY <2>2, <3>1, <3>2, <3>3
    <3>5. IsPrefix(<<stream[c][1], stream[c][2]>>, stream[c])
      BY <2>3, <3>1, <3>2, PairIsPrefix
    <3>6. QED
      BY <2>1, <2>5, <3>4, <3>5 DEF SeesLength
  <2>7. QED
    BY <2>1, <2>5, <2>6
<1>2. CASE EpollWait \/ Accept \/ \E d \in Clients : Finish(d)
  BY <1>0, <1>2 DEF EpollWait, Accept, Finish, First
<1>3. ASSUME NEW d \in Clients, Examine(d)
      PROVE  SeenRight(c)'
  <2>1. /\ fd' = d /\ stream[d] # <<>> /\ stream' = stream
        /\ \/ SeesRequest(d) /\ reader' = "request"
           \/ ~ SeesRequest(d) /\ reader' = "packet"
    BY <1>3 DEF Examine
  <2>2. CASE d = c
    BY <1>1, <2>1, <2>2 DEF SeesRequest, First, Messages
  <2>3. QED
    BY <2>1, <2>2
<1>4. ASSUME NEW d \in Clients, ExaminePart(d)
      PROVE  SeenRight(c)'
  <2>1. /\ fd' = d /\ stream[d] # <<>> /\ ~ SeesRequest(d) /\ ~ SeesLength(d)
        /\ Tear(d, "length", Len(stream[d]) = 1)
    BY <1>4 DEF ExaminePart
  <2>2. ASSUME d = c
        PROVE  FALSE
    <3>1. Len(stream[c]) # 1
      BY <2>1, <2>2, TearTypes DEF ServerInv
    <3>2. First(c) \in Packets
      BY <1>1, <2>1, <2>2 DEF SeesRequest, Messages
    <3>3. ~ Size[First(c)] <= 2
      BY <3>2 DEF Messages
    <3>4. QED
      BY <1>1, <2>1, <2>2, <3>1, <3>3
  <2>3. QED
    BY <2>1, <2>2
<1>5. CASE ReceiveRequest \/ ReceivePacket
  <2>1. reader \in {"request", "packet"} /\ Take
    BY <1>5 DEF ReceiveRequest, ReceivePacket
  <2>2. CASE fd = c
    <3>1. reader' = "loop"
      BY <2>1, <2>2, TakeSteady DEF ServerInv
    <3>2. QED
      BY <3>1
  <2>3. CASE fd # c
    BY <2>1, <2>3 DEF Take, Goto
  <2>4. QED
    BY <2>2, <2>3
<1>6. CASE Choke
  <2>1. reader = "packet" /\ First(fd) \notin plain /\ fd' = fd /\ reader' = "dead"
    BY <1>6 DEF Choke, Goto
  <2>2. ASSUME fd = c
        PROVE  ~ ToSet(order[c]) \cap Packets \subseteq plain
    <3>1. First(c) \in Packets /\ First(c) \notin plain /\ stream[c] # <<>>
      BY <2>1, <2>2 DEF ServerInv
    <3>2. /\ Len(received[c]) < Len(order[c]) /\ First(c) = order[c][Len(received[c]) + 1]
          /\ Len(received[c]) \in Nat /\ Len(order[c]) \in Nat
      BY <3>1, NextMessage, LayoutTypes DEF Steady
    <3>3. First(c) \in ToSet(order[c])
      BY <3>2, LayoutTypes DEF ToSet
    <3>4. QED
      BY <3>1, <3>3
  <2>3. QED
    BY <1>0, <2>1, <2>2
<1>7. CASE ReceiveInPart
  BY <1>7, NeverInPart DEF ReceiveInPart, Goto
<1>8. CASE Stop \/ TellToStop
  BY <1>0, <1>8 DEF Stop, TellToStop, First
<1>9. QED
  BY <1>2, <1>3, <1>4, <1>5, <1>6, <1>7, <1>8 DEF Receive

-----------------------------------------------------------------------------
(* Nothing mends a stream. *)
LEMMA StaysTorn ==
  ASSUME ServerInv, CNext, NEW c \in Clients
  PROVE  torn[c] \subseteq torn'[c]
<1>1. \/ UNCHANGED torn
      \/ \E d \in Clients : \E what \in {"overlap", "cut", "length"} : \E happens \in BOOLEAN :
           Tear(d, what, happens)
  <2>1. ASSUME NEW w \in Senders, NEW m \in Messages, Begin(w, m)
        PROVE  \E happens \in BOOLEAN : Tear(Via[w], "overlap", happens)
    BY <2>1, BeginSends DEF SendsPart, ServerInv
  <2>2. ASSUME NEW w \in Senders, Continue(w)
        PROVE  \E happens \in BOOLEAN : Tear(Via[w], "overlap", happens)
    <3>1. PICK m \in Messages, a \in Nat : a \in 1 .. Size[m] - 1 /\ worker[w] = Rest(m, a)
      BY <2>2 DEF Continue, ServerInv, WorkerTypes
    <3>2. \E n \in 1 .. Size[m] - a, x \in Seq(Messages \X Nat) : SendsPart(w, m, a, n, x)
      BY <2>2, <3>1, ContinueSends DEF ServerInv
    <3>3. QED
      BY <3>2 DEF SendsPart
  <2>3. ASSUME NEW d \in Clients, Shutdown(d)
        PROVE  \E happens \in BOOLEAN : Tear(d, "cut", happens)
    BY <2>3 DEF Shutdown
  <2>4. ASSUME NEW d \in Clients, ExaminePart(d)
        PROVE  \E happens \in BOOLEAN : Tear(d, "length", happens)
    BY <2>4 DEF ExaminePart
  <2>5. \A w \in Senders : Via[w] \in Clients
    OBVIOUS
  <2>6. CASE Send
    BY <2>1, <2>2, <2>5, <2>6 DEF Send, Lose, FailAtOnce, Fail
  <2>7. CASE Receive \/ TellToStop
    BY <2>4, <2>7 DEF Receive, EpollWait, Accept, Examine, Finish, ReceiveRequest,
       ReceivePacket, Choke, ReceiveInPart, Take, Stop, TellToStop
  <2>8. QED
    BY <2>3, <2>6, <2>7 DEF CNext
<1>2. QED
  BY <1>1, TearTypes DEF ServerInv

(* The invariant is inductive: it holds at first,                          *)
LEMMA ConnectionStarts == CInit => ServerInv /\ ChannelInv
<1> SUFFICES ASSUME CInit
             PROVE  ServerInv /\ ChannelInv
  OBVIOUS
<1>1. WorkerTypes
  BY DEF CInit, WorkerTypes
<1>2. OtherTypes
  BY ShortSendsAssumption DEF CInit, OtherTypes
<1>3. ServerInv
  BY <1>1, <1>2 DEF CInit, ServerInv
<1>4. ASSUME NEW c \in Clients
      PROVE  \E before \in [1 .. Len(order[c]) + 1 -> Nat] : InStep(c, before)
  <2> DEFINE before == [n \in 1 .. 1 |-> 0]
  <2>1. order[c] = <<>> /\ stream[c] = <<>> /\ received[c] = <<>> /\ shut = {}
    BY DEF CInit
  <2>2. Sending(c) = {}
    BY DEF CInit, Sending
  <2>3. before \in [1 .. 1 -> Nat] /\ before[1] = 0
    OBVIOUS
  <2> HIDE DEF before
  <2>4. Laid(<<>>, <<>>, 0, before) /\ EndsBehind(<<>>, <<>>, 0, before)
    BY <2>3 DEF Laid, EndsBehind
  <2>5. InStep(c, before)
    BY <2>1, <2>2, <2>4 DEF InStep
  <2>6. QED
    BY <2>1, <2>3, <2>5
<1>5. \A c \in Clients : SeenRight(c)
  BY DEF CInit, SeenRight
<1>6. QED
  BY <1>3, <1>4, <1>5 DEF ChannelInv

(* every step keeps what holds of every stream,                            *)
LEMMA ServerInvKept == ServerInv /\ [CNext]_cvars => ServerInv'
<1> SUFFICES ASSUME ServerInv, [CNext]_cvars
             PROVE  ServerInv'
  OBVIOUS
<1>1. ASSUME NEW c \in Clients, Shutdown(c)
      PROVE  ServerInv'
  <2>1. /\ shut' = shut \cup {c}
        /\ UNCHANGED <<plain, unsent, worker, short, order, stream, receiver>>
        /\ torn' \in [Clients -> SUBSET {"overlap", "cut", "length"}]
    BY <1>1, TearTypes DEF Shutdown, ServerInv
  <2>2. WorkerTypes'
    BY <2>1 DEF ServerInv, WorkerTypes
  <2>3. OtherTypes'
    BY <2>1 DEF ServerInv, OtherTypes, receiver
  <2>4. QED
    BY <2>1, <2>2, <2>3 DEF ServerInv, receiver
<1>2. CASE UNCHANGED cvars
  <2>1. WorkerTypes'
    BY <1>2 DEF ServerInv, WorkerTypes, cvars, sender
  <2>2. OtherTypes'
    BY <1>2 DEF ServerInv, OtherTypes, cvars, sender, receiver
  <2>3. QED
    BY <1>2, <2>1, <2>2 DEF ServerInv, cvars, sender, receiver
<1>3. QED
  BY <1>1, <1>2, SendTypes, ReceiveTypes DEF CNext

(* and what holds of those that are not torn.                              *)
LEMMA ChannelInvKept == ServerInv /\ ChannelInv /\ [CNext]_cvars => ChannelInv'
<1> SUFFICES ASSUME ServerInv, ChannelInv, [CNext]_cvars
             PROVE  ChannelInv'
  OBVIOUS
<1>1. ASSUME NEW c \in Clients, torn'[c] = {}
      PROVE  SeenRight(c)' /\ Steady(c)'
  <2>1. torn[c] = {}
    BY <1>1, StaysTorn DEF cvars
  <2>2. SeenRight(c) /\ Steady(c)
    BY <2>1 DEF ChannelInv, Steady
  <2>3. ServerInv'
    BY ServerInvKept
  <2>4. CASE UNCHANGED cvars
    <3>1. SeenRight(c)'
      BY <2>2, <2>4 DEF SeenRight, First, cvars, sender, receiver
    <3>2. c \in shut => Sending(c) = {}
      BY <2>2 DEF Steady, InStep
    <3>3. Steady(c)'
      BY <2>2, <2>4, <3>2, LeftAlone DEF cvars, sender, receiver
    <3>4. QED
      BY <3>1, <3>3
  <2>5. CASE Send
    BY <1>1, <2>2, <2>3, <2>5, SendSteady, SendSeenRight
  <2>6. CASE Receive \/ TellToStop
    BY <1>1, <2>2, <2>6, ReceiveSteady, ReceiveSeenRight
  <2>7. ASSUME NEW d \in Clients, Shutdown(d)
        PROVE  SeenRight(c)' /\ Steady(c)'
    BY <1>1, <2>2, <2>3, <2>7, ShutdownSteady, SendSeenRight
  <2>8. QED
    BY <2>4, <2>5, <2>6, <2>7 DEF CNext
<1>2. QED
  BY <1>1 DEF ChannelInv, Steady

(* Every stream that is not torn is laid out as the messages were begun,   *)
(* and the server is in step with it.                                      *)
THEOREM ConnectionInvariant == CSpec => [](ServerInv /\ ChannelInv)
<1>1. CInit => ServerInv /\ ChannelInv
  BY ConnectionStarts
<1>2. ServerInv /\ ChannelInv /\ [CNext]_cvars => (ServerInv /\ ChannelInv)'
  BY ServerInvKept, ChannelInvKept
<1>3. QED
  BY <1>1, <1>2, PTL DEF CSpec

(* The variables keep their types, in particular a worker is idle or has   *)
(* the end of some message still to send.                                  *)
THEOREM ConnectionTypesCorrect == CSpec => []TypeOK
<1>1. ServerInv => TypeOK
  <2> SUFFICES ASSUME ServerInv
               PROVE  TypeOK
    OBVIOUS
  <2>1. /\ DOMAIN worker = Senders
        /\ \A w \in Senders :
             \/ worker[w] = <<>>
             \/ \E m \in Messages : \E n \in 1 .. Size[m] - 1 :
                  worker[w] = SubSeq(Pieces(m), n + 1, Size[m])
    BY DEF ServerInv, WorkerTypes, Rest
  <2>2. OtherTypes
    BY DEF ServerInv
  <2>3. QED
    BY <2>1, <2>2 DEF OtherTypes, TypeOK
<1>2. QED
  BY <1>1, ConnectionInvariant, PTL

(* What the server receives over a connection that is not torn is what was *)
(* sent over it, in the order it was begun, and it does not come to grief  *)
(* on it but for a packet that is not plain.                               *)
THEOREM FaithfulHolds == CSpec => []Faithful
<1>1. ServerInv /\ ChannelInv => Faithful
  <2> SUFFICES ASSUME ServerInv, ChannelInv, NEW c \in Clients, torn[c] = {}
               PROVE  /\ fd = c =>
                           /\ reader \notin {"hung", "confused"}
                           /\ reader = "dead" => ~ ToSet(order[c]) \cap Packets \subseteq plain
                      /\ Len(received[c]) <= Len(order[c])
                      /\ \A i \in DOMAIN received[c] : received[c][i] = order[c][i]
    BY DEF Faithful
  <2>1. SeenRight(c)
    BY DEF ChannelInv
  <2>2. PICK before \in [1 .. Len(order[c]) + 1 -> Nat] : InStep(c, before)
    BY DEF ChannelInv
  <2>3. /\ Len(received[c]) \in 0 .. Len(order[c])
        /\ \A i \in 1 .. Len(received[c]) : received[c][i] = order[c][i]
    BY <2>2 DEF InStep, Laid
  <2>4. DOMAIN received[c] = 1 .. Len(received[c]) /\ Len(order[c]) \in Nat
    BY LayoutTypes
  <2>5. Len(received[c]) <= Len(order[c])
    BY <2>3, <2>4
  <2>6. QED
    BY <2>1, <2>3, <2>4, <2>5 DEF SeenRight
<1>2. QED
  BY <1>1, ConnectionInvariant, PTL

(* The end of a connection overtakes no message: when the server closes a  *)
(* connection that is not torn, it has received all that was begun on it.  *)
THEOREM NothingLeftBehindHolds == CSpec => []NothingLeftBehind
<1>1. ServerInv /\ ChannelInv => NothingLeftBehind
  <2> SUFFICES ASSUME ServerInv, ChannelInv, NEW c \in Clients,
                      handler[c] = "closed", torn[c] = {}
               PROVE  /\ Len(received[c]) = Len(order[c])
                      /\ \A w \in Senders : Via[w] = c => worker[w] = <<>>
    BY DEF NothingLeftBehind
  <2> DEFINE o == order[c]
             s == stream[c]
             r == Len(received[c])
  <2>1. PICK before \in [1 .. Len(o) + 1 -> Nat] : InStep(c, before)
    BY DEF ChannelInv
  <2>2. c \in shut /\ s = <<>>
    BY DEF ServerInv
  <2>3. Sending(c) = {}
    BY <2>1, <2>2 DEF InStep
  <2>4. Laid(o, s, r, before) /\ EndsBehind(o, s, r, before)
    BY <2>1, <2>3 DEF InStep
  <2>5. Len(o) \in Nat /\ r \in Nat /\ o \in Seq(Messages) /\ Len(s) = 0
    BY <2>2, LayoutTypes
  <2>6. before \in [1 .. Len(o) + 1 -> Nat]
    BY <2>1
  <2> HIDE DEF o, r, s
  <2>7. ASSUME r # Len(o)
        PROVE  FALSE
    <3>1. /\ r + 1 \in 1 .. Len(o) /\ Len(o) + 1 \in 1 .. Len(o) + 1 /\ r + 1 \in 1 .. Len(o) + 1
          /\ r + 1 < Len(o) + 1
      <4>1. r \in 0 .. Len(o)
        BY <2>4 DEF Laid
      <4>2. QED
        BY <2>5, <2>7, <4>1
    <3>2. before[r + 1 + 1] <= before[Len(o) + 1] /\ before[r + 1 + 1] = before[r + 1] + Size[o[r + 1]]
      BY <2>4, <3>1 DEF Laid
    <3>3. Size[o[r + 1]] \in Nat \ {0}
      <4>1. o[r + 1] \in Messages
        BY <2>5, <3>1
      <4>2. QED
        BY <4>1
    <3>4. PICK b \in Nat, e \in Nat : b = before[r + 1] /\ e = before[Len(o) + 1]
      BY <2>6, <3>1
    <3>5. b + Size[o[r + 1]] <= e /\ e - b = 0
      <4>1. e - b = Len(s)
        BY <2>4, <3>4 DEF EndsBehind
      <4>2. QED
        BY <2>5, <3>2, <3>4, <4>1
    <3>6. QED
      BY <3>3, <3>4, <3>5
  <2>8. QED
    BY <2>3, <2>7 DEF Sending, o, r
<1>2. QED
  BY <1>1, ConnectionInvariant, PTL
=============================================================================
