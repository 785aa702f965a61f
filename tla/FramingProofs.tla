--------------------------- MODULE FramingProofs ----------------------------
(***************************************************************************)
(* What is resent is put into packets the receiver has room for, and a     *)
(* packet is cut into the vertices it was made of exactly when none of them*)
(* has bytes that look like a delimiter: for any number of vertices, sizes *)
(* of packets and buffers, identifiers and rounds.                         *)
(***************************************************************************)
EXTENDS Splitting, Integers, SequenceTheorems, TLAPS

-----------------------------------------------------------------------------
(* A vertex copied behind the others fills what they left. *)
Copied(blocks, v, size, n) == Append(blocks, [vertex |-> v, at |-> size, size |-> n])

LEMMA OneMoreFills ==
  ASSUME NEW blocks \in Seq(Blocks), NEW size \in Nat,
         IF blocks = <<>> THEN size = 0 ELSE Fills(blocks, size),
         NEW v \in Missing, NEW n \in Sizes
  PROVE  /\ Copied(blocks, v, size, n) \in Seq(Blocks)
         /\ Fills(Copied(blocks, v, size, n), size + n)
<1> DEFINE b == [vertex |-> v, at |-> size, size |-> n]
           more == Append(blocks, b)
<1>1. b \in Blocks /\ b.at = size /\ b.size = n
  BY DEF Blocks
<1>2. /\ more \in Seq(Blocks) /\ Len(more) = Len(blocks) + 1
      /\ \A i \in 1 .. Len(blocks) : more[i] = blocks[i]
      /\ more[Len(blocks) + 1] = b
      /\ Len(blocks) \in Nat
  BY <1>1
<1>3. n \in Nat /\ n >= 1
  BY FullAssumption DEF Sizes
<1>4. \A i \in 1 .. Len(blocks) : blocks[i].at \in Nat /\ blocks[i].size \in Nat
  <2>1. \A x \in Blocks : x.at \in Nat /\ x.size \in Nat
    BY FullAssumption DEF Blocks, Sizes
  <2>2. \A i \in 1 .. Len(blocks) : blocks[i] \in Blocks
    OBVIOUS
  <2>3. QED
    BY <2>1, <2>2
<1> HIDE DEF b, more
<1>5. CASE blocks = <<>>
  <2>1. Len(blocks) = 0 /\ size = 0
    BY <1>5
  <2>2. Fills(more, size + n)
    <3>1. Len(more) = 1 /\ more[1] = b
      BY <1>2, <2>1
    <3>2. DOMAIN more = 1 .. Len(more)
      BY <1>2
    <3>3. more # <<>>
      <4>1. Len(<<>>) = 0
        OBVIOUS
      <4>2. QED
        BY <3>1, <4>1
    <3>4. QED
      BY <1>1, <1>3, <2>1, <3>1, <3>2, <3>3 DEF Fills
  <2>3. QED
    BY <1>2, <2>2 DEF Copied, b, more
<1>6. CASE blocks # <<>>
  <2>1. Fills(blocks, size) /\ Len(blocks) >= 1
    BY <1>6
  <2>2. \A i \in 1 .. Len(blocks) : blocks[i].at + blocks[i].size <= size
    <3>1. SUFFICES ASSUME NEW i \in 1 .. Len(blocks), i < Len(blocks)
                   PROVE  blocks[i].at + blocks[i].size <= size
      BY <2>1 DEF Fills
    <3>2. blocks[i].at + blocks[i].size <= blocks[Len(blocks)].at
      BY <2>1, <3>1 DEF Fills
    <3>3. /\ blocks[i].at + blocks[i].size \in Nat
          /\ blocks[Len(blocks)].at \in Nat /\ blocks[Len(blocks)].size \in Nat
      BY <1>4, <2>1
    <3>4. blocks[Len(blocks)].at + blocks[Len(blocks)].size = size
      BY <2>1 DEF Fills
    <3>5. QED
      BY <3>2, <3>3, <3>4
  <2>3. more # <<>> /\ more[1].at = 0
    BY <1>2, <2>1 DEF Fills
  <2>4. \A i \in 1 .. Len(more) - 1 : more[i + 1].at = more[i].at + more[i].size
    <3>1. TAKE i \in 1 .. Len(more) - 1
    <3>2. CASE i = Len(blocks)
      BY <1>1, <1>2, <2>1, <3>2 DEF Fills
    <3>3. CASE i # Len(blocks)
      <4>1. i \in 1 .. Len(blocks) - 1 /\ i + 1 \in 1 .. Len(blocks)
        BY <1>2, <3>3
      <4>2. QED
        BY <1>2, <2>1, <4>1 DEF Fills
    <3>4. QED
      BY <3>2, <3>3
  <2>5. \A i, j \in DOMAIN more : i < j => more[i].at + more[i].size <= more[j].at
    <3>1. SUFFICES ASSUME NEW i \in 1 .. Len(blocks) + 1, NEW j \in 1 .. Len(blocks) + 1,
                          i < j
                   PROVE  more[i].at + more[i].size <= more[j].at
      BY <1>2
    <3>2. i \in 1 .. Len(blocks) /\ more[i] = blocks[i]
      BY <1>2, <3>1
    <3>3. CASE j = Len(blocks) + 1
      BY <1>1, <1>2, <2>2, <3>2, <3>3
    <3>4. CASE j \in 1 .. Len(blocks)
      BY <1>2, <2>1, <3>1, <3>2, <3>4 DEF Fills
    <3>5. QED
      BY <1>2, <3>3, <3>4
  <2>6. more[Len(more)].at + more[Len(more)].size = size + n
    BY <1>1, <1>2
  <2>7. Fills(more, size + n)
    BY <2>3, <2>4, <2>5, <2>6 DEF Fills
  <2>8. QED
    BY <1>2, <2>7 DEF Copied, b, more
<1>7. QED
  BY <1>5, <1>6
-----------------------------------------------------------------------------
(* The inductive invariant of send_missing_vertices.  A stream that is not *)
(* empty is filled, and not so far that a vertex more is too much for the  *)
(* receiver.                                                               *)
Sent == [blocks : Seq(Blocks), size : 1 .. StreamSize]

PackInv ==
  /\ reference_set \subseteq Missing
  /\ packet_stream \in Seq(Blocks)
  /\ packet_size \in 0 .. Full - 1
  /\ current_length = packet_size
  /\ IF packet_stream = <<>> THEN packet_size = 0 ELSE Fills(packet_stream, packet_size)
  /\ resent \in Seq(Sent)
  /\ ResentFits

(* The packets sent and the one under way. *)
LEMMA OneMorePacket ==
  ASSUME NEW s \in Seq(Sent), NEW b \in Seq(Blocks), NEW n
  PROVE  LET P == Append(s, [blocks |-> b, size |-> n])
         IN  /\ DOMAIN P = 1 .. Len(s) + 1
             /\ \A p \in 1 .. Len(s) : P[p] = s[p]
             /\ P[Len(s) + 1].blocks = b
<1> DEFINE P == Append(s, [blocks |-> b, size |-> n])
<1>1. DOMAIN P = 1 .. Len(s) + 1 /\ \A p \in 1 .. Len(s) : P[p] = s[p]
  OBVIOUS
<1>2. P[Len(s) + 1] = [blocks |-> b, size |-> n]
  OBVIOUS
<1>3. QED
  BY <1>1, <1>2

(* A packet that is not too large is sent.  The stream is empty then.      *)
LEMMA SendKeepsFit ==
  ASSUME PackInv, NEW blocks \in Seq(Blocks), NEW size \in 1 .. StreamSize,
         Fills(blocks, size), SendPacket(blocks, size)
  PROVE  /\ packet_stream' \in Seq(Blocks) /\ packet_stream' = <<>>
         /\ packet_size' = 0 /\ current_length' = 0
         /\ resent' \in Seq(Sent)
         /\ PacketsFit'
         /\ DOMAIN Packed' = 1 .. Len(resent) + 2
         /\ \A p \in 1 .. Len(resent) : Packed'[p] = resent[p]
         /\ Packed'[Len(resent) + 1].blocks = blocks
         /\ Packed'[Len(resent) + 2].blocks = <<>>
<1> DEFINE new == [blocks |-> blocks, size |-> size]
<1>1. /\ resent' = Append(resent, new) /\ packet_stream' = <<>>
      /\ packet_size' = 0 /\ current_length' = 0
  BY DEF SendPacket
<1>2. new \in Sent /\ new.blocks = blocks /\ new.size = size
  BY DEF Sent
<1> HIDE DEF new
<1>3. /\ resent \in Seq(Sent) /\ resent' \in Seq(Sent)
      /\ Len(resent) \in Nat /\ Len(resent') = Len(resent) + 1
      /\ DOMAIN resent' = 1 .. Len(resent) + 1
      /\ \A p \in 1 .. Len(resent) : resent'[p] = resent[p]
      /\ resent'[Len(resent) + 1] = new
  BY <1>1, <1>2 DEF PackInv
<1>4. PacketsFit'
  <2>1. SUFFICES ASSUME NEW p \in 1 .. Len(resent) + 1
                 PROVE  /\ resent'[p].size \in 1 .. StreamSize
                        /\ Fills(resent'[p].blocks, resent'[p].size)
    BY <1>3 DEF PacketsFit
  <2>2. CASE p = Len(resent) + 1
    BY <1>2, <1>3, <2>2
  <2>3. CASE p \in 1 .. Len(resent)
    <3>1. p \in DOMAIN resent
      BY <1>3, <2>3
    <3>2. QED
      BY <1>3, <2>3, <3>1 DEF PackInv, ResentFits, PacketsFit
  <2>4. QED
    BY <1>3, <2>2, <2>3
<1>5. packet_stream' \in Seq(Blocks)
  BY <1>1
<1>6. /\ DOMAIN Packed' = 1 .. Len(resent') + 1
      /\ \A p \in 1 .. Len(resent') : Packed'[p] = resent'[p]
      /\ Packed'[Len(resent') + 1].blocks = <<>>
  BY <1>1, <1>3, <1>5, OneMorePacket DEF Packed
<1>7. QED
  BY <1>1, <1>2, <1>3, <1>4, <1>5, <1>6

(* The loop puts the next vertex into the packet under way, or sends it;   *)
(* nothing else moves.                                                     *)
LEMMA PacksOne ==
  ASSUME PackInv, NEW v \in Missing, NEW size \in Sizes, AddVertex(v, size)
  PROVE  PackInv'
<1> DEFINE blocks == Copied(packet_stream, v, packet_size, size)
           total  == packet_size + size
           a == Len(resent) + 1
           c == Len(packet_stream) + 1
<1>1. /\ packet_size \in Nat /\ packet_size < Full /\ current_length = packet_size
      /\ resent \in Seq(Sent) /\ packet_stream \in Seq(Blocks)
      /\ reference_set \subseteq Missing
  BY FullAssumption DEF PackInv
<1>2. size \in Nat /\ size >= 1 /\ size <= StreamSize + 1 - Full
  BY FullAssumption DEF Sizes
<1>3. blocks \in Seq(Blocks) /\ Fills(blocks, total)
  BY <1>1, OneMoreFills DEF PackInv
<1>4. total \in 1 .. StreamSize
  BY <1>1, <1>2, FullAssumption
<1>5. /\ v \in reference_set /\ reference_set' = reference_set \ {v}
      /\ \/ total >= Full /\ SendPacket(blocks, total)
         \/ /\ total < Full
            /\ packet_stream' = blocks
            /\ packet_size' = total
            /\ current_length' = total
            /\ UNCHANGED resent
  BY <1>1 DEF AddVertex, Copied
<1>6. /\ DOMAIN blocks = 1 .. c /\ c \in Nat /\ a \in Nat
      /\ \A i \in 1 .. Len(packet_stream) : blocks[i] = packet_stream[i]
      /\ blocks[c].vertex = v
  <2> DEFINE b == [vertex |-> v, at |-> packet_size, size |-> size]
  <2>1. b \in Blocks /\ b.vertex = v
    BY <1>1 DEF Blocks
  <2> HIDE DEF b
  <2>2. /\ DOMAIN Append(packet_stream, b) = 1 .. c /\ c \in Nat /\ a \in Nat
        /\ \A i \in 1 .. Len(packet_stream) : Append(packet_stream, b)[i] = packet_stream[i]
        /\ Append(packet_stream, b)[c] = b
    BY <1>1, <2>1
  <2>3. QED
    BY <2>1, <2>2 DEF Copied, b
<1>7. /\ DOMAIN Packed = 1 .. a
      /\ \A p \in 1 .. Len(resent) : Packed[p] = resent[p]
      /\ Packed[a].blocks = packet_stream
  BY <1>1, OneMorePacket DEF Packed
<1>8. /\ DOMAIN packet_stream = 1 .. Len(packet_stream)
      /\ Len(packet_stream) \in Nat /\ Len(resent) \in Nat
  BY <1>1
<1> HIDE DEF blocks, total
(* Everything but the vertices and their places, in the two cases.         *)
<1>9. /\ packet_stream' \in Seq(Blocks)
      /\ packet_size' \in 0 .. Full - 1
      /\ current_length' = packet_size'
      /\ IF packet_stream' = <<>> THEN packet_size' = 0
                                  ELSE Fills(packet_stream', packet_size')
      /\ resent' \in Seq(Sent)
      /\ PacketsFit'
      /\ DOMAIN Packed' = 1 .. a \/ DOMAIN Packed' = 1 .. a + 1
      /\ \A p \in 1 .. Len(resent) : Packed'[p] = resent[p]
      /\ Packed'[a].blocks = blocks
      /\ a + 1 \in DOMAIN Packed' => Packed'[a + 1].blocks = <<>>
  <2>1. CASE SendPacket(blocks, total)
    <3>1. /\ packet_stream' \in Seq(Blocks) /\ packet_stream' = <<>>
          /\ packet_size' = 0 /\ current_length' = 0
          /\ resent' \in Seq(Sent)
          /\ PacketsFit'
          /\ DOMAIN Packed' = 1 .. Len(resent) + 2
          /\ \A p \in 1 .. Len(resent) : Packed'[p] = resent[p]
          /\ Packed'[Len(resent) + 1].blocks = blocks
          /\ Packed'[Len(resent) + 2].blocks = <<>>
      BY <1>3, <1>4, <2>1, SendKeepsFit
    <3>2. a + 1 = Len(resent) + 2 /\ 0 \in 0 .. Full - 1
      BY <1>8, FullAssumption
    <3>3. QED
      BY <3>1, <3>2
  <2>2. CASE /\ total < Full
             /\ packet_stream' = blocks
             /\ packet_size' = total
             /\ current_length' = total
             /\ UNCHANGED resent
    <3>1. /\ DOMAIN Packed' = 1 .. a
          /\ \A p \in 1 .. Len(resent) : Packed'[p] = resent[p]
          /\ Packed'[a].blocks = blocks
      BY <1>1, <1>3, <2>2, OneMorePacket DEF Packed
    <3>2. PacketsFit'
      BY <2>2 DEF PackInv, ResentFits, PacketsFit
    <3>3. total \in 0 .. Full - 1
      BY <1>4, <2>2, FullAssumption
    <3>4. blocks # <<>>
      BY <1>3 DEF Fills
    <3>5. a + 1 \notin DOMAIN Packed'
      BY <3>1, <1>6
    <3>6. QED
      BY <1>1, <1>3, <2>2, <3>1, <3>2, <3>3, <3>4, <3>5
  <2>3. QED
    BY <1>5, <2>1, <2>2
<1>10. /\ \A p \in DOMAIN Packed :
            /\ p \in DOMAIN Packed'
            /\ \A i \in DOMAIN Packed[p].blocks :
                 /\ i \in DOMAIN Packed'[p].blocks
                 /\ Packed'[p].blocks[i] = Packed[p].blocks[i]
       /\ a \in DOMAIN Packed' /\ c \in DOMAIN Packed'[a].blocks
       /\ Packed'[a].blocks[c].vertex = v
  <2>1. a \in DOMAIN Packed' /\ c \in DOMAIN Packed'[a].blocks
        /\ Packed'[a].blocks[c].vertex = v
    BY <1>6, <1>9
  <2>2. ASSUME NEW p \in DOMAIN Packed
        PROVE  /\ p \in DOMAIN Packed'
               /\ \A i \in DOMAIN Packed[p].blocks :
                    /\ i \in DOMAIN Packed'[p].blocks
                    /\ Packed'[p].blocks[i] = Packed[p].blocks[i]
    <3>1. CASE p = a
      <4>1. Packed[p].blocks = packet_stream /\ Packed'[p].blocks = blocks
        BY <1>7, <1>9, <3>1
      <4>2. p \in DOMAIN Packed'
        BY <1>8, <1>9, <3>1
      <4>3. QED
        BY <1>6, <1>8, <4>1, <4>2
    <3>2. CASE p \in 1 .. Len(resent)
      BY <1>6, <1>7, <1>8, <1>9, <3>2
    <3>3. QED
      BY <1>7, <1>8, <2>2, <3>1, <3>2
  <2>3. QED
    BY <2>1, <2>2
<1>11. \A q \in DOMAIN Packed' : \A j \in DOMAIN Packed'[q].blocks :
         \/ q = a /\ j = c
         \/ /\ q \in DOMAIN Packed /\ j \in DOMAIN Packed[q].blocks
            /\ Packed'[q].blocks[j] = Packed[q].blocks[j]
  <2>1. SUFFICES ASSUME NEW q \in DOMAIN Packed', NEW j \in DOMAIN Packed'[q].blocks
                 PROVE  \/ q = a /\ j = c
                        \/ /\ q \in DOMAIN Packed /\ j \in DOMAIN Packed[q].blocks
                           /\ Packed'[q].blocks[j] = Packed[q].blocks[j]
    OBVIOUS
  <2>2. CASE q = a
    <3>1. j \in 1 .. c /\ Packed'[q].blocks[j] = blocks[j]
      BY <1>6, <1>9, <2>1, <2>2
    <3>2. CASE j \in 1 .. Len(packet_stream)
      BY <1>6, <1>7, <1>8, <2>2, <3>1, <3>2
    <3>3. QED
      BY <1>8, <2>2, <3>1, <3>2
  <2>3. CASE q = a + 1
    <3>1. DOMAIN Packed'[q].blocks = {}
      BY <1>9, <2>1, <2>3
    <3>2. QED
      BY <2>1, <3>1
  <2>4. CASE q \in 1 .. Len(resent)
    BY <1>7, <1>8, <1>9, <2>1, <2>4
  <2>5. QED
    BY <1>6, <1>8, <1>9, <2>1, <2>2, <2>3, <2>4
(* The vertex was nowhere.                                                 *)
<1>12. \A p \in DOMAIN Packed : \A i \in DOMAIN Packed[p].blocks :
         Packed[p].blocks[i].vertex # v
  BY <1>5 DEF PackInv, ResentFits, NoneLeftOut
<1>13. NoneLeftOut'
  <2>1. SUFFICES ASSUME NEW w \in Missing
                 PROVE  w \notin reference_set'
                          <=> \E p \in DOMAIN Packed' : \E i \in DOMAIN Packed'[p].blocks :
                                Packed'[p].blocks[i].vertex = w
    BY DEF NoneLeftOut
  <2>2. CASE w = v
    BY <1>5, <1>10, <2>2
  <2>3. CASE w # v
    <3>1. w \notin reference_set' <=> w \notin reference_set
      BY <1>5, <2>3
    <3>2. w \notin reference_set
            <=> \E p \in DOMAIN Packed : \E i \in DOMAIN Packed[p].blocks :
                  Packed[p].blocks[i].vertex = w
      BY <2>1 DEF PackInv, ResentFits, NoneLeftOut
    <3>3. (\E p \in DOMAIN Packed : \E i \in DOMAIN Packed[p].blocks :
             Packed[p].blocks[i].vertex = w)
            <=> \E p \in DOMAIN Packed' : \E i \in DOMAIN Packed'[p].blocks :
                  Packed'[p].blocks[i].vertex = w
      BY <1>10, <1>11, <2>3
    <3>4. QED
      BY <3>1, <3>2, <3>3
  <2>4. QED
    BY <2>2, <2>3
<1>14. NoneTwice'
  <2>1. SUFFICES ASSUME NEW p \in DOMAIN Packed', NEW q \in DOMAIN Packed',
                        NEW i \in DOMAIN Packed'[p].blocks,
                        NEW j \in DOMAIN Packed'[q].blocks,
                        Packed'[p].blocks[i].vertex = Packed'[q].blocks[j].vertex
                 PROVE  p = q /\ i = j
    BY DEF NoneTwice
  <2>2. CASE p = a /\ i = c
    BY <1>10, <1>11, <1>12, <2>1, <2>2
  <2>3. CASE q = a /\ j = c
    BY <1>10, <1>11, <1>12, <2>1, <2>3
  <2>4. CASE ~ (p = a /\ i = c) /\ ~ (q = a /\ j = c)
    BY <1>11, <2>1, <2>4 DEF PackInv, ResentFits, NoneTwice
  <2>5. QED
    BY <2>2, <2>3, <2>4
<1>15. reference_set' \subseteq Missing
  BY <1>1, <1>5
<1>16. QED
  BY <1>9, <1>13, <1>14, <1>15 DEF PackInv, ResentFits

(* In the end what is left is sent.                                        *)
LEMMA PacksRest ==
  ASSUME PackInv, SendRest
  PROVE  PackInv'
<1> DEFINE a == Len(resent) + 1
<1>1. /\ packet_stream \in Seq(Blocks) /\ packet_stream # <<>>
      /\ Fills(packet_stream, packet_size) /\ SendPacket(packet_stream, packet_size)
      /\ resent \in Seq(Sent) /\ Len(resent) \in Nat
      /\ packet_size \in Nat /\ packet_size < Full
      /\ reference_set' = reference_set /\ reference_set \subseteq Missing
  BY FullAssumption DEF SendRest, PackInv
<1>2. packet_size \in 1 .. StreamSize
  <2>1. Len(packet_stream) \in DOMAIN packet_stream
    <3>1. Len(packet_stream) \in Nat /\ DOMAIN packet_stream = 1 .. Len(packet_stream)
      BY <1>1
    <3>2. Len(packet_stream) # 0
      BY <1>1
    <3>3. QED
      BY <3>1, <3>2
  <2>2. packet_stream[Len(packet_stream)] \in Blocks
    BY <1>1, <2>1
  <2>3. \A b \in Blocks : b.at \in Nat /\ b.size \in Nat /\ b.size >= 1
    BY FullAssumption DEF Blocks, Sizes
  <2>4. packet_size >= 1
    BY <1>1, <2>2, <2>3 DEF Fills
  <2>5. QED
    BY <1>1, <2>4, FullAssumption
<1>3. /\ packet_stream' \in Seq(Blocks) /\ packet_stream' = <<>>
      /\ packet_size' = 0 /\ current_length' = 0
      /\ resent' \in Seq(Sent)
      /\ PacketsFit'
      /\ DOMAIN Packed' = 1 .. Len(resent) + 2
      /\ \A p \in 1 .. Len(resent) : Packed'[p] = resent[p]
      /\ Packed'[Len(resent) + 1].blocks = packet_stream
      /\ Packed'[Len(resent) + 2].blocks = <<>>
  BY <1>1, <1>2, SendKeepsFit
<1>4. /\ DOMAIN Packed = 1 .. a
      /\ \A p \in 1 .. Len(resent) : Packed[p] = resent[p]
      /\ Packed[a].blocks = packet_stream
  BY <1>1, OneMorePacket DEF Packed
<1>5. \A p \in DOMAIN Packed :
        /\ p \in DOMAIN Packed'
        /\ Packed'[p].blocks = Packed[p].blocks
  BY <1>1, <1>3, <1>4
<1>6. \A p \in DOMAIN Packed' : \A i \in DOMAIN Packed'[p].blocks : p \in DOMAIN Packed
  <2>1. SUFFICES ASSUME NEW p \in DOMAIN Packed', p \notin DOMAIN Packed
                 PROVE  DOMAIN Packed'[p].blocks = {}
    OBVIOUS
  <2>2. p = Len(resent) + 2
    BY <1>1, <1>3, <1>4, <2>1
  <2>3. QED
    BY <1>3, <2>2
<1>7. NoneLeftOut'
  BY <1>1, <1>5, <1>6 DEF PackInv, ResentFits, NoneLeftOut
<1>8. NoneTwice'
  BY <1>5, <1>6 DEF PackInv, ResentFits, NoneTwice
<1>9. QED
  BY <1>1, <1>3, <1>7, <1>8, FullAssumption DEF PackInv, ResentFits

(* send_missing_vertices resends all it is asked for, once, in packets the *)
(* receiver has room for, however many vertices there are, in whatever     *)
(* order the set gives them and whichever of the Sizes they have.          *)
THEOREM ResentFitsHolds == RSpec => []ResentFits
<1>1. RInit => PackInv
  <2>1. SUFFICES ASSUME RInit PROVE PackInv
    OBVIOUS
  <2>2. /\ packet_stream \in Seq(Blocks) /\ packet_size \in 0 .. Full - 1
        /\ packet_stream = <<>> /\ packet_size = 0 /\ current_length = 0
        /\ resent \in Seq(Sent) /\ resent = <<>> /\ reference_set = Missing
    <3>1. <<>> \in Seq(Blocks) /\ <<>> \in Seq(Sent) /\ 0 \in 0 .. Full - 1
      BY FullAssumption
    <3>2. QED
      BY <2>1, <3>1 DEF RInit
  <2>3. DOMAIN Packed = 1 .. 1 /\ Packed[1].blocks = <<>>
    BY <2>2, OneMorePacket DEF Packed
  <2>4. PacketsFit /\ NoneLeftOut /\ NoneTwice
    BY <2>2, <2>3 DEF PacketsFit, NoneLeftOut, NoneTwice
  <2>5. QED
    BY <2>2, <2>4 DEF PackInv, ResentFits
<1>2. PackInv /\ [RNext]_rvars => PackInv'
  <2>1. SUFFICES ASSUME PackInv, [RNext]_rvars PROVE PackInv'
    OBVIOUS
  <2>2. ASSUME NEW v \in Missing, NEW size \in Sizes, AddVertex(v, size)
        PROVE  PackInv'
    BY <2>1, <2>2, PacksOne
  <2>3. CASE SendRest
    BY <2>1, <2>3, PacksRest
  <2>4. CASE UNCHANGED rvars
    BY <2>1, <2>4
      DEF rvars, packing, PackInv, ResentFits, PacketsFit, NoneLeftOut, NoneTwice, Packed
  <2>5. QED
    BY <2>1, <2>2, <2>3, <2>4 DEF RNext
<1>3. PackInv => ResentFits
  BY DEF PackInv
<1>4. QED
  BY <1>1, <1>2, <1>3, PTL DEF RSpec

-----------------------------------------------------------------------------
(* Bytes.  Numbers that fit into two of them come back from LengthAt.      *)
LEMMA WordIsBytes ==
  ASSUME NEW n \in Nat
  PROVE  Word(n) \in Seq(Byte) /\ Len(Word(n)) = 4 /\ Word(n)[4] = n % 256
<1>1. \A k \in Nat : k % 256 \in Byte
  BY DEF Byte
<1>2. \A k \in Nat \ {0} : n \div k \in Nat
  OBVIOUS
<1>3. /\ (n \div 16777216) % 256 \in Byte
      /\ (n \div 65536) % 256 \in Byte
      /\ (n \div 256) % 256 \in Byte
      /\ n % 256 \in Byte
  BY <1>1, <1>2, SMT
<1>4. QED
  BY <1>3, SMT DEF Word

LEMMA SmallWord ==
  ASSUME NEW n \in Nat, n < TooLong
  PROVE  /\ Word(n)[1] = 0 /\ Word(n)[2] = 0
         /\ Word(n)[3] = n \div 256 /\ Word(n)[4] = n % 256
         /\ n \div 256 \in Byte /\ n % 256 \in Byte
         /\ Word(n)[3] * 256 + Word(n)[4] = n
<1>1. n < 65536
  BY SMT DEF TooLong
<1>2. n \div 16777216 = 0
  BY <1>1, SMT
<1>3. n \div 65536 = 0
  BY <1>1, SMT
<1>4. n \div 256 \in Nat /\ n \div 256 < 256
  BY <1>1, SMT
<1>5. (n \div 256) % 256 = n \div 256
  BY <1>4
<1>6. n = 256 * (n \div 256) + (n % 256) /\ n % 256 \in 0 .. 255
  OBVIOUS
<1>7. 0 % 256 = 0
  OBVIOUS
<1>8. Word(n)[1] = 0 /\ Word(n)[2] = 0
  BY <1>2, <1>3, <1>7, SMT DEF Word
<1>9. Word(n)[3] = n \div 256 /\ Word(n)[4] = n % 256
  BY <1>5, SMT DEF Word
<1>10. n \div 256 \in Byte /\ n % 256 \in Byte
  BY <1>4, <1>6, SMT DEF Byte
<1>11. (n \div 256) * 256 + (n % 256) = n
  BY <1>4, <1>6, SMT
<1>12. QED
  BY <1>8, <1>9, <1>10, <1>11

(* Places in a sequence of blocks of one length.                           *)
LEMMA PlaceInBlock ==
  ASSUME NEW h \in Nat \ {0}, NEW k \in Nat, NEW x \in 0 .. k * h - 1
  PROVE  /\ x \div h \in 0 .. k - 1 /\ x % h \in 0 .. h - 1
         /\ x = h * (x \div h) + (x % h)
<1>1. /\ x \div h \in Nat /\ x % h \in 0 .. h - 1
      /\ x = h * (x \div h) + (x % h)
  OBVIOUS
<1>2. ASSUME x \div h >= k PROVE FALSE
  <2> DEFINE q == x \div h
  <2>1. q \in Nat /\ q >= k /\ x >= h * q
    BY <1>1, <1>2
  <2> HIDE DEF q
  <2>2. h * q >= h * k
    BY <2>1
  <2>3. h * k = k * h /\ k * h \in Nat
    OBVIOUS
  <2>4. QED
    BY <2>1, <2>2, <2>3
<1>3. QED
  BY <1>1, <1>2

LEMMA OnePlace ==
  ASSUME NEW h \in Nat \ {0}, NEW q \in Nat, NEW r \in 0 .. h - 1
  PROVE  (h * q + r) \div h = q /\ (h * q + r) % h = r
<1> DEFINE x == h * q + r
           d == x \div h
           m == x % h
<1>1. x \in Nat /\ h * q \in Nat
  OBVIOUS
<1>2. d \in Nat /\ m \in 0 .. h - 1 /\ h * d + m = h * q + r
  BY <1>1
<1> HIDE DEF d, m, x
<1>3. ~ (q >= d + 1)
  <2>1. SUFFICES ASSUME q >= d + 1 PROVE FALSE
    OBVIOUS
  <2>2. h * q >= h * (d + 1) /\ h * (d + 1) = h * d + h
    BY <1>2, <2>1
  <2>3. QED
    BY <1>1, <1>2, <2>2
<1>4. ~ (d >= q + 1)
  <2>1. SUFFICES ASSUME d >= q + 1 PROVE FALSE
    OBVIOUS
  <2>2. h * d >= h * (q + 1) /\ h * (q + 1) = h * q + h
    BY <1>2, <2>1
  <2>3. QED
    BY <1>1, <1>2, <2>2
<1>5. d = q
  BY <1>2, <1>3, <1>4
<1>6. m = r
  BY <1>1, <1>2, <1>5
<1>7. QED
  BY <1>5, <1>6 DEF d, m, x

LEMMA FieldsOf ==
  ASSUME NEW v \in Fields
  PROVE  /\ v.round \in Nat /\ v.round < RoundBound
         /\ v.peer_id \in [1 .. 8 -> Byte]
         /\ v.payload \in Seq(Text) /\ Len(v.payload) \in 0 .. 34
         /\ v.references \in Seq([1 .. HexHash -> Text])
         /\ Len(v.references) \in Nat /\ Len(v.references) < TooLong
<1>1. /\ v.round \in 0 .. RoundBound - 1
      /\ v.peer_id \in [1 .. 8 -> Byte]
      /\ v.payload \in Seq(Text)
      /\ v.references \in Seq([1 .. HexHash -> Text])
      /\ Len(v.payload) < DELIM /\ Len(v.references) < TooLong
  BY DEF Fields
<1>2. Len(v.payload) \in Nat /\ Len(v.references) \in Nat
  BY <1>1
<1>3. v.round \in Nat /\ v.round < RoundBound
  BY <1>1, RoundBoundAssumption
<1>4. Len(v.payload) \in 0 .. 34
  <2>1. Len(v.payload) < 35
    BY <1>1 DEF DELIM
  <2>2. \A n \in Nat : n < 35 => n \in 0 .. 34
    OBVIOUS
  <2>3. QED
    BY <1>2, <2>1, <2>2
<1>5. QED
  BY <1>1, <1>2, <1>3, <1>4

LEMMA FunctionIsSequence ==
  ASSUME NEW S, NEW n \in Nat, NEW q \in [1 .. n -> S]
  PROVE  q \in Seq(S) /\ Len(q) = n
<1>1. q \in Seq(S) /\ DOMAIN q = 1 .. n
  BY SeqDef
<1>2. Len(q) \in Nat /\ 1 .. Len(q) = 1 .. n
  BY <1>1, LenProperties
<1>3. QED
  BY <1>1, <1>2

LEMMA IdentifierIsBytes ==
  ASSUME NEW v \in Fields
  PROVE  v.peer_id \in Seq(Byte) /\ Len(v.peer_id) = 8
<1>1. v.peer_id \in [1 .. 8 -> Byte] /\ 8 \in Nat
  BY FieldsOf
<1>2. QED
  BY <1>1, FunctionIsSequence

LEMMA JoinedBytes ==
  ASSUME NEW r \in Seq([1 .. HexHash -> Text])
  PROVE  /\ Joined(r) \in Seq(Text) /\ Len(Joined(r)) = Len(r) * HexHash
         /\ \A i \in 1 .. Len(r), j \in 1 .. HexHash :
              /\ (i - 1) * HexHash + j \in 1 .. Len(r) * HexHash
              /\ Joined(r)[(i - 1) * HexHash + j] = r[i][j]
<1> DEFINE h == HexHash
           k == Len(r)
<1>1. h \in Nat \ {0} /\ k \in Nat /\ k * h \in Nat
  BY HexHashAssumption
<1>2. \A x \in 1 .. k * h : r[((x - 1) \div h) + 1][((x - 1) % h) + 1] \in Text
  <2>1. TAKE x \in 1 .. k * h
  <2>2. x - 1 \in 0 .. k * h - 1
    BY <1>1
  <2>3. (x - 1) \div h \in 0 .. k - 1 /\ (x - 1) % h \in 0 .. h - 1
    BY <1>1, <2>2, PlaceInBlock
  <2> HIDE DEF h, k
  <2>4. ((x - 1) \div h) + 1 \in 1 .. k /\ ((x - 1) % h) + 1 \in 1 .. h
    BY <1>1, <2>3
  <2>5. \A i \in 1 .. k : r[i] \in [1 .. h -> Text]
    BY DEF h, k
  <2>6. QED
    BY <2>4, <2>5
<1>3. Joined(r) \in [1 .. k * h -> Text]
  BY <1>2 DEF Joined
<1>4. Joined(r) \in Seq(Text) /\ Len(Joined(r)) = k * h
  <2> HIDE DEF h, k
  <2>1. Joined(r) \in Seq(Text)
    BY <1>1, <1>3, SeqDef
  <2>2. QED
    BY <1>1, <1>3, <2>1
<1>5. ASSUME NEW i \in 1 .. k, NEW j \in 1 .. h
      PROVE  /\ (i - 1) * h + j \in 1 .. k * h
             /\ Joined(r)[(i - 1) * h + j] = r[i][j]
  <2> DEFINE x == (i - 1) * h + j
  <2>1. i - 1 \in Nat /\ j - 1 \in 0 .. h - 1 /\ (i - 1) * h = h * (i - 1)
        /\ h * (i - 1) \in Nat
    BY <1>1, <1>5
  <2>2. h * (i - 1) <= h * (k - 1) /\ h * (k - 1) = k * h - h
    <3>1. i - 1 <= k - 1 /\ k - 1 \in Nat
      BY <1>1, <1>5
    <3> HIDE DEF h, k
    <3>2. QED
      BY <1>1, <2>1, <3>1
  <2>3. x - 1 = h * (i - 1) + (j - 1) /\ x \in Nat
    <3> HIDE DEF h, k
    <3>1. QED
      BY <1>1, <1>5, <2>1
  <2>4. x \in 1 .. k * h
    <3> HIDE DEF h, k
    <3>1. QED
      BY <1>1, <1>5, <2>1, <2>2, <2>3
  <2>5. (x - 1) \div h = i - 1 /\ (x - 1) % h = j - 1
    <3>1. h \in Nat \ {0} /\ i - 1 \in Nat /\ j - 1 \in 0 .. h - 1
      BY <1>1, <2>1
    <3> HIDE DEF h, x
    <3>2. /\ (h * (i - 1) + (j - 1)) \div h = i - 1
          /\ (h * (i - 1) + (j - 1)) % h = j - 1
      BY <3>1, OnePlace
    <3>3. QED
      BY <2>3, <3>2
  <2>6. Joined(r)[x] = r[((x - 1) \div h) + 1][((x - 1) % h) + 1]
    BY <2>4 DEF Joined
  <2> HIDE DEF x
  <2>7. Joined(r)[x] = r[i][j]
    BY <1>1, <1>5, <2>5, <2>6
  <2>8. QED
    BY <2>4, <2>7 DEF x
<1>6. QED
  BY <1>4, <1>5

(* One sequence of bytes behind another. *)
IsGlued(s, t, u) ==
  /\ u \in Seq(Byte) /\ Len(u) = Len(s) + Len(t)
  /\ \A i \in 1 .. Len(s) : u[i] = s[i]
  /\ \A j \in 1 .. Len(t) : u[Len(s) + j] = t[j]

LEMMA Glued ==
  ASSUME NEW s \in Seq(Byte), NEW t \in Seq(Byte)
  PROVE  IsGlued(s, t, s \o t)
<1>1. Len(s) \in Nat /\ Len(t) \in Nat
  OBVIOUS
<1>2. /\ s \o t \in Seq(Byte) /\ Len(s \o t) = Len(s) + Len(t)
      /\ \A i \in 1 .. Len(s) + Len(t) :
           (s \o t)[i] = IF i <= Len(s) THEN s[i] ELSE t[i - Len(s)]
  BY ConcatProperties
<1>3. QED
  BY <1>1, <1>2 DEF IsGlued


(* The bytes of a vertex, field by field. *)
References(v) ==
  IF v.references = <<>> THEN <<>> ELSE Word(HexHash) \o Joined(v.references)

LEMMA ReferencesAreBytes ==
  ASSUME NEW v \in Fields
  PROVE  /\ References(v) \in Seq(Byte)
         /\ Len(v.references) = 0 => Len(References(v)) = 0
         /\ Len(v.references) > 0 =>
              /\ Len(References(v)) = 4 + Len(v.references) * HexHash
              /\ \A j \in 1 .. 4 : References(v)[j] = Word(HexHash)[j]
              /\ \A j \in 1 .. Len(v.references) * HexHash :
                   References(v)[4 + j] = Joined(v.references)[j]
<1>1. v.references \in Seq([1 .. HexHash -> Text]) /\ Len(v.references) \in Nat
  BY FieldsOf
<1>2. Joined(v.references) \in Seq(Text)
      /\ Len(Joined(v.references)) = Len(v.references) * HexHash
  BY <1>1, JoinedBytes
<1>3. Joined(v.references) \in Seq(Byte)
  BY <1>2, SeqMonotonic DEF Text
<1>4. Word(HexHash) \in Seq(Byte) /\ Len(Word(HexHash)) = 4
  BY HexHashAssumption, WordIsBytes
<1>5. CASE v.references = <<>>
  <2>1. References(v) = <<>>
    BY <1>5 DEF References
  <2>2. <<>> \in Seq(Byte) /\ Len(<<>>) = 0
    OBVIOUS
  <2>3. QED
    BY <1>5, <2>1, <2>2
<1>6. CASE v.references # <<>>
  <2>1. References(v) = Word(HexHash) \o Joined(v.references)
    BY <1>6 DEF References
  <2>2. Len(v.references) > 0
    BY <1>1, <1>6, EmptySeq
  <2>3. IsGlued(Word(HexHash), Joined(v.references), References(v))
    BY <1>3, <1>4, <2>1, Glued
  <2>4. QED
    BY <1>2, <1>4, <2>2, <2>3 DEF IsGlued
<1>7. QED
  BY <1>5, <1>6

LEMMA Layout ==
  ASSUME NEW v \in Fields
  PROVE  LET s == Serialize(v)
             p == Len(v.payload)
             l == Len(References(v))
         IN  /\ s \in Seq(Byte) /\ Len(s) = 28 + p + l
             /\ p \in Nat /\ l \in Nat
             /\ \A j \in 1 .. 4 : s[j] = Word(0)[j]
             /\ \A j \in 1 .. 4 : s[4 + j] = Word(v.round)[j]
             /\ \A j \in 1 .. 8 : s[8 + j] = v.peer_id[j]
             /\ \A j \in 1 .. 4 : s[16 + j] = Word(p)[j]
             /\ \A j \in 1 .. p : s[20 + j] = v.payload[j]
             /\ \A j \in 1 .. 4 : s[20 + p + j] = Word(Len(v.references))[j]
             /\ \A j \in 1 .. l : s[24 + p + j] = References(v)[j]
             /\ \A j \in 1 .. 4 : s[24 + p + l + j] = DELIM
<1> DEFINE p  == Len(v.payload)
           l  == Len(References(v))
           s1 == Word(0) \o Word(v.round)
           s2 == s1 \o v.peer_id
           s3 == s2 \o Word(p)
           s4 == s3 \o v.payload
           s5 == s4 \o Word(Len(v.references))
           s6 == s5 \o References(v)
           s7 == s6 \o Delimiters
<1>1. s7 = Serialize(v)
  BY DEF Serialize, References
<1>2. /\ v.round \in Nat /\ v.peer_id \in [1 .. 8 -> Byte]
      /\ v.payload \in Seq(Text) /\ p \in Nat /\ Len(v.references) \in Nat
  BY FieldsOf
<1>3. v.peer_id \in Seq(Byte) /\ Len(v.peer_id) = 8
  BY IdentifierIsBytes
<1>4. v.payload \in Seq(Byte)
  BY <1>2, SeqMonotonic DEF Text
<1>5. /\ Delimiters \in Seq(Byte) /\ Len(Delimiters) = 4
      /\ \A j \in 1 .. 4 : Delimiters[j] = DELIM
  <2>1. DELIM \in Byte
    BY DEF DELIM, Byte
  <2>2. QED
    BY <2>1 DEF Delimiters
<1>6. p \in Nat
  BY <1>2
<1>7. References(v) \in Seq(Byte) /\ l \in Nat
  BY ReferencesAreBytes
<1> DEFINE w0 == Word(0)
           w1 == Word(v.round)
           w2 == Word(p)
           w3 == Word(Len(v.references))
<1>8. /\ w0 \in Seq(Byte) /\ Len(w0) = 4 /\ w1 \in Seq(Byte) /\ Len(w1) = 4
      /\ w2 \in Seq(Byte) /\ Len(w2) = 4 /\ w3 \in Seq(Byte) /\ Len(w3) = 4
  <2>1. \A n \in Nat : Word(n) \in Seq(Byte) /\ Len(Word(n)) = 4
    BY WordIsBytes
  <2>2. QED
    BY <1>2, <2>1
<1> HIDE DEF w0, w1, w2, w3
(* One field after the other,                                              *)
<1>11. IsGlued(w0, w1, s1)
  BY <1>8, Glued DEF w0, w1
<1> HIDE DEF s1
<1>12. s1 \in Seq(Byte) /\ Len(s1) = 8
  BY <1>8, <1>11 DEF IsGlued
<1>13. \A j \in 1 .. 4 : s1[j] = w0[j] /\ s1[4 + j] = w1[j]
  BY <1>8, <1>11 DEF IsGlued
<1>21. IsGlued(s1, v.peer_id, s2)
  BY <1>12, <1>3, Glued
<1> HIDE DEF s2
<1>22. s2 \in Seq(Byte) /\ Len(s2) = 16
  BY <1>12, <1>21, <1>3 DEF IsGlued
<1>23. \A j \in 1 .. 8 : s2[j] = s1[j]
  BY <1>12, <1>21 DEF IsGlued
<1>24. \A j \in 1 .. 8 : s2[8 + j] = v.peer_id[j]
  BY <1>12, <1>21, <1>3 DEF IsGlued
<1>31. IsGlued(s2, w2, s3)
  BY <1>22, <1>8, Glued DEF w2
<1> HIDE DEF s3
<1>32. s3 \in Seq(Byte) /\ Len(s3) = 20
  BY <1>22, <1>31, <1>8 DEF IsGlued
<1>33. \A j \in 1 .. 16 : s3[j] = s2[j]
  BY <1>22, <1>31 DEF IsGlued
<1>34. \A j \in 1 .. 4 : s3[16 + j] = w2[j]
  BY <1>22, <1>31, <1>8 DEF IsGlued
<1>41. IsGlued(s3, v.payload, s4)
  BY <1>32, <1>4, Glued
<1> HIDE DEF s4
<1>42. s4 \in Seq(Byte) /\ Len(s4) = 20 + p
  BY <1>32, <1>41, <1>4, <1>6 DEF IsGlued
<1>43. \A j \in 1 .. 20 : s4[j] = s3[j]
  BY <1>32, <1>41 DEF IsGlued
<1>44. \A j \in 1 .. p : s4[20 + j] = v.payload[j]
  BY <1>32, <1>41, <1>4, <1>6 DEF IsGlued
<1> HIDE DEF p
<1>51. IsGlued(s4, w3, s5)
  BY <1>42, <1>8, Glued DEF w3
<1> HIDE DEF s5
<1>52. s5 \in Seq(Byte) /\ Len(s5) = 24 + p
  BY <1>42, <1>51, <1>6, <1>8 DEF IsGlued
<1>53. \A j \in 1 .. 20 + p : s5[j] = s4[j]
  BY <1>42, <1>51 DEF IsGlued
<1>54. \A j \in 1 .. 4 : s5[20 + p + j] = w3[j]
  BY <1>42, <1>51, <1>6, <1>8 DEF IsGlued
<1>61. IsGlued(s5, References(v), s6)
  BY <1>52, <1>7, Glued
<1> HIDE DEF s6
<1>62. s6 \in Seq(Byte) /\ Len(s6) = 24 + p + l
  BY <1>52, <1>61, <1>6, <1>7 DEF IsGlued
<1>63. \A j \in 1 .. 24 + p : s6[j] = s5[j]
  BY <1>52, <1>61 DEF IsGlued
<1>64. \A j \in 1 .. l : s6[24 + p + j] = References(v)[j]
  BY <1>52, <1>61, <1>6, <1>7 DEF IsGlued
<1> HIDE DEF l
<1>71. IsGlued(s6, Delimiters, s7)
  BY <1>62, <1>5, Glued
<1> HIDE DEF s7
<1>72. s7 \in Seq(Byte) /\ Len(s7) = 28 + p + l
  BY <1>62, <1>71, <1>5, <1>6, <1>7 DEF IsGlued
<1>73. \A j \in 1 .. 24 + p + l : s7[j] = s6[j]
  BY <1>62, <1>71 DEF IsGlued
<1>74. \A j \in 1 .. 4 : s7[24 + p + l + j] = Delimiters[j]
  BY <1>62, <1>71, <1>5, <1>6, <1>7 DEF IsGlued
<1>75. \A j \in 1 .. 4 : s7[24 + p + l + j] = DELIM
  BY <1>5, <1>74
(* each of them stays where it is.                                         *)
<1>81. \A j \in 1 .. 24 + p : s7[j] = s5[j]
  BY <1>6, <1>7, <1>63, <1>73
<1>82. \A j \in 1 .. 20 + p : s7[j] = s4[j]
  BY <1>6, <1>53, <1>81
<1>83. \A j \in 1 .. 20 : s7[j] = s3[j]
  BY <1>6, <1>43, <1>82
<1>84. \A j \in 1 .. 16 : s7[j] = s2[j]
  BY <1>33, <1>83
<1>85. \A j \in 1 .. 8 : s7[j] = s1[j]
  BY <1>23, <1>84
<1>91. \A j \in 1 .. 4 : s7[j] = w0[j] /\ s7[4 + j] = w1[j]
  BY <1>13, <1>85
<1>92. \A j \in 1 .. 8 : s7[8 + j] = v.peer_id[j]
  BY <1>24, <1>84
<1>93. \A j \in 1 .. 4 : s7[16 + j] = w2[j]
  BY <1>34, <1>83
<1>94. \A j \in 1 .. p : s7[20 + j] = v.payload[j]
  BY <1>6, <1>44, <1>82
<1>95. \A j \in 1 .. 4 : s7[20 + p + j] = w3[j]
  BY <1>6, <1>54, <1>81
<1>96. \A j \in 1 .. l : s7[24 + p + j] = References(v)[j]
  BY <1>6, <1>7, <1>64, <1>73
<1>97. QED
  BY <1>1, <1>6, <1>7, <1>72, <1>75, <1>91, <1>92, <1>93, <1>94, <1>95, <1>96
    DEF w0, w1, w2, w3, p, l

(* Two delimiters three bytes apart, in the bytes of a vertex. *)
IsDelimited(s, i) == s[i] = DELIM /\ s[i + 3] = DELIM

(* Its last four bytes have them.                                          *)
LEMMA VertexEnds ==
  ASSUME NEW v \in Fields
  PROVE  /\ Serialize(v) \in Seq(Byte)
         /\ Len(Serialize(v)) \in Nat /\ Len(Serialize(v)) >= 28
         /\ \A j \in 1 .. 4 : Serialize(v)[j] = 0
         /\ IsDelimited(Serialize(v), Len(Serialize(v)) - 3)
<1> DEFINE s == Serialize(v)
           p == Len(v.payload)
           l == Len(References(v))
<1>1. /\ s \in Seq(Byte) /\ Len(s) = 28 + p + l
      /\ p \in Nat /\ l \in Nat
      /\ \A j \in 1 .. 4 : s[j] = Word(0)[j]
      /\ \A j \in 1 .. 4 : s[24 + p + l + j] = DELIM
  BY Layout
<1> HIDE DEF s, p, l
<1>2. s[24 + p + l + 1] = DELIM /\ s[24 + p + l + 4] = DELIM
  BY <1>1
<1>3. /\ Len(s) - 3 = 24 + p + l + 1 /\ Len(s) - 3 + 3 = 24 + p + l + 4
      /\ Len(s) \in Nat /\ Len(s) >= 28
  BY <1>1
<1>4. IsDelimited(s, Len(s) - 3)
  BY <1>2, <1>3 DEF IsDelimited
<1>5. \A j \in 1 .. 4 : Word(0)[j] = 0
  <2>1. 0 < TooLong /\ 0 \div 256 = 0 /\ 0 % 256 = 0
    BY SMT DEF TooLong
  <2>2. Word(0)[1] = 0 /\ Word(0)[2] = 0 /\ Word(0)[3] = 0 /\ Word(0)[4] = 0
    BY <2>1, SmallWord
  <2>3. QED
    BY <2>2
<1>6. QED
  BY <1>1, <1>3, <1>4, <1>5 DEF s

(* Bytes that look like a delimiter are in its round and its identifier.   *)
LEMMA FalseDelimiterIsSeen ==
  ASSUME NEW v \in Fields, FalseDelimiter(v)
  PROVE  \E i \in 8 .. 13 : IsDelimited(Serialize(v), i)
<1> DEFINE s == Serialize(v)
<1>1. /\ \A j \in 1 .. 4 : s[4 + j] = Word(v.round)[j]
      /\ \A j \in 1 .. 8 : s[8 + j] = v.peer_id[j]
  BY Layout
<1>2. v.round \in Nat
  BY FieldsOf
<1> HIDE DEF s
<1>3. CASE v.round % 256 = DELIM /\ v.peer_id[3] = DELIM
  <2>1. s[8] = Word(v.round)[4] /\ s[11] = v.peer_id[3]
    BY <1>1
  <2>2. Word(v.round)[4] = v.round % 256
    BY <1>2, WordIsBytes
  <2>3. IsDelimited(s, 8)
    BY <1>3, <2>1, <2>2 DEF IsDelimited
  <2>4. QED
    BY <2>3 DEF s
<1>4. ASSUME NEW j \in 1 .. 5, v.peer_id[j] = DELIM, v.peer_id[j + 3] = DELIM
      PROVE  \E i \in 8 .. 13 : IsDelimited(s, i)
  <2>1. s[8 + j] = v.peer_id[j] /\ s[8 + (j + 3)] = v.peer_id[j + 3]
    BY <1>1
  <2>2. 8 + j \in 8 .. 13 /\ 8 + (j + 3) = 8 + j + 3
    OBVIOUS
  <2>3. IsDelimited(s, 8 + j)
    BY <1>4, <2>1, <2>2 DEF IsDelimited
  <2>4. QED
    BY <2>2, <2>3
<1>5. QED
  BY <1>3, <1>4 DEF FalseDelimiter, s

LEMMA NoDelimiterInFront ==
  ASSUME NEW v \in Fields, NEW i \in 1 .. 7
  PROVE  Serialize(v)[i] # DELIM
<1> DEFINE s == Serialize(v)
<1>1. \A j \in 1 .. 4 : s[4 + j] = Word(v.round)[j]
  BY Layout
<1>2. v.round \in Nat /\ v.round < RoundBound
  BY FieldsOf
<1>3. \A j \in 1 .. 4 : s[j] = 0
  BY VertexEnds
<1> HIDE DEF s
<1>4. v.round < 8960
  <2>1. RoundBound \in Nat /\ RoundBound <= 8960
    BY RoundBoundAssumption, SMT
  <2>2. QED
    BY <1>2, <2>1, SMT
<1>5. v.round < TooLong
  BY <1>2, <1>4, SMT DEF TooLong
<1>6. v.round \div 256 # 35
  BY <1>2, <1>4, SMT
<1>7. /\ Word(v.round)[1] = 0 /\ Word(v.round)[2] = 0
      /\ Word(v.round)[3] = v.round \div 256
  BY <1>2, <1>5, SmallWord
<1>8. s[5] = Word(v.round)[1] /\ s[6] = Word(v.round)[2] /\ s[7] = Word(v.round)[3]
  BY <1>1
<1>9. s[5] # DELIM /\ s[6] # DELIM /\ s[7] # DELIM
  BY <1>6, <1>7, <1>8 DEF DELIM
<1>10. \A j \in 1 .. 4 : s[j] # DELIM
  BY <1>3 DEF DELIM
<1>11. QED
  BY <1>9, <1>10 DEF s

(* And nowhere else.                                                       *)
LEMMA NothingElseIsDelimited ==
  ASSUME NEW v \in Fields, ~ FalseDelimiter(v),
         NEW i \in 5 .. Len(Serialize(v)) - 4
  PROVE  ~ IsDelimited(Serialize(v), i)
<1> DEFINE s == Serialize(v)
           p == Len(v.payload)
           r == Len(v.references)
           R == References(v)
           l == Len(R)
<1>1. Len(s) = 28 + p + l /\ l \in Nat
  BY Layout
<1>31. \A j \in 1 .. 4 : s[4 + j] = Word(v.round)[j]
  BY Layout
<1>32. \A j \in 1 .. 8 : s[8 + j] = v.peer_id[j]
  BY Layout
<1>33. \A j \in 1 .. 4 : s[16 + j] = Word(p)[j]
  BY Layout
<1>34. \A j \in 1 .. p : s[20 + j] = v.payload[j]
  BY Layout
<1>35. \A j \in 1 .. 4 : s[20 + p + j] = Word(r)[j]
  BY Layout
<1>36. \A j \in 1 .. l : s[24 + p + j] = R[j]
  BY Layout
<1>2. /\ v.round \in Nat /\ v.round < RoundBound /\ v.payload \in Seq(Text)
      /\ p \in 0 .. 34 /\ r \in Nat /\ r < TooLong
      /\ v.references \in Seq([1 .. HexHash -> Text])
  BY FieldsOf
<1>3. /\ r = 0 => l = 0
      /\ r > 0 =>
           /\ l = 4 + r * HexHash
           /\ \A j \in 1 .. 4 : R[j] = Word(HexHash)[j]
           /\ \A j \in 1 .. r * HexHash : R[4 + j] = Joined(v.references)[j]
  BY ReferencesAreBytes
<1>4. /\ Joined(v.references) \in Seq(Text)
      /\ Len(Joined(v.references)) = r * HexHash
  BY <1>2, JoinedBytes
<1>5. \A t \in Seq(Text) : \A j \in 1 .. Len(t) : t[j] # DELIM
  BY DEF Text
<1>6. i \in 5 .. 24 + p + l /\ i \in Nat /\ p \in Nat
  <2>1. p \in Nat
    BY <1>2
  <2>2. i \in 5 .. Len(s) - 4
    OBVIOUS
  <2> HIDE DEF s, p, l
  <2>3. QED
    BY <1>1, <2>1, <2>2
<1>7. \A j \in 1 .. p : v.payload[j] # DELIM
  BY <1>2, <1>5
<1>8. \A j \in 1 .. r * HexHash : Joined(v.references)[j] # DELIM
  BY <1>4, <1>5
<1> HIDE DEF s, p, r, R, l
(* The round has no delimiter in front of its last byte,                   *)
<1>11. CASE i \in 5 .. 7
  <2>1. s[i] # DELIM
    BY <1>11, NoDelimiterInFront DEF s
  <2>2. QED
    BY <2>1 DEF IsDelimited, s
(* there is no false delimiter,                                            *)
<1>12. CASE i = 8
  <2>1. s[8] = Word(v.round)[4] /\ s[11] = v.peer_id[3]
    BY <1>31, <1>32
  <2>2. Word(v.round)[4] = v.round % 256
    BY <1>2, WordIsBytes
  <2>3. ~ (s[8] = DELIM /\ s[11] = DELIM)
    BY <2>1, <2>2 DEF FalseDelimiter
  <2>4. QED
    BY <1>12, <2>3 DEF IsDelimited, s
<1>13. CASE i \in 9 .. 13
  <2> DEFINE j == i - 8
  <2>1. j \in 1 .. 5 /\ j + 3 \in 1 .. 8 /\ i = 8 + j /\ i + 3 = 8 + (j + 3)
    BY <1>13
  <2> HIDE DEF j
  <2>2. s[8 + j] = v.peer_id[j] /\ s[8 + (j + 3)] = v.peer_id[j + 3]
    <3>1. j \in 1 .. 8 /\ j + 3 \in 1 .. 8
      BY <2>1
    <3>2. QED
      BY <1>32, <3>1
  <2>3. s[i] = v.peer_id[j] /\ s[i + 3] = v.peer_id[j + 3]
    BY <2>1, <2>2
  <2>4. QED
    BY <2>1, <2>3 DEF IsDelimited, FalseDelimiter, s
(* the length of the payload is below 35,                                  *)
<1>20. Word(p)[1] # DELIM /\ Word(p)[2] # DELIM /\ Word(p)[3] # DELIM /\ Word(p)[4] # DELIM
  <2>1. p < TooLong /\ p \in Nat /\ p \div 256 = 0 /\ p % 256 = p
    BY <1>2, SMT DEF TooLong
  <2>2. /\ Word(p)[1] = 0 /\ Word(p)[2] = 0
        /\ Word(p)[3] = p \div 256 /\ Word(p)[4] = p % 256
    <3>1. p \in Nat /\ p < TooLong
      BY <2>1
    <3>2. QED
      BY <3>1, SmallWord
  <2>3. /\ Word(p)[1] = 0 /\ Word(p)[2] = 0
        /\ Word(p)[3] = 0 /\ Word(p)[4] = p
    BY <2>1, <2>2
  <2>4. QED
    BY <1>2, <2>3 DEF DELIM
<1>14. CASE i \in 14 .. 16
  <2>1. s[17] # DELIM /\ s[18] # DELIM /\ s[19] # DELIM
    BY <1>33, <1>20
  <2>2. QED
    BY <1>14, <2>1 DEF IsDelimited, s
<1>15. CASE i \in 17 .. 20
  <2>1. s[17] # DELIM /\ s[18] # DELIM /\ s[19] # DELIM /\ s[20] # DELIM
    BY <1>33, <1>20
  <2>2. QED
    BY <1>15, <2>1 DEF IsDelimited, s
(* the payload and the references are text,                                *)
<1>16. CASE i \in 21 .. 20 + p
  <2> DEFINE j == i - 20
  <2>1. j \in 1 .. p /\ i = 20 + j
    BY <1>6, <1>16
  <2> HIDE DEF j
  <2>2. s[i] # DELIM
    BY <1>34, <1>7, <2>1
  <2>3. QED
    BY <2>2 DEF IsDelimited, s
(* and in between are two lengths, the second of which has a byte.         *)
<1>21. /\ Word(HexHash)[1] = 0 /\ Word(HexHash)[2] = 0
       /\ Word(HexHash)[3] = 0 /\ Word(HexHash)[4] = HexHash
  <2>1. HexHash \in Nat /\ HexHash < TooLong
        /\ HexHash \div 256 = 0 /\ HexHash % 256 = HexHash
    BY HexHashAssumption, SMT DEF TooLong
  <2>2. /\ Word(HexHash)[1] = 0 /\ Word(HexHash)[2] = 0
        /\ Word(HexHash)[3] = HexHash \div 256 /\ Word(HexHash)[4] = HexHash % 256
    <3>1. HexHash \in Nat /\ HexHash < TooLong
      BY <2>1
    <3>2. QED
      BY <3>1, SmallWord
  <2>3. QED
    BY <2>1, <2>2
<1>22. 0 # DELIM
  BY DEF DELIM
<1>23. r > 0 => l \in Nat /\ l = 4 + r * HexHash /\ r * HexHash \in Nat /\ r * HexHash >= HexHash
  <2>1. SUFFICES ASSUME r > 0 PROVE r * HexHash \in Nat /\ r * HexHash >= HexHash
    BY <1>1, <1>3
  <2>2. QED
    BY <1>2, <2>1, HexHashAssumption
<1>17. CASE i \in 21 + p .. 24 + p
  <2> DEFINE j == i - 20 - p
  <2>1. j \in 1 .. 4 /\ i = 20 + p + j
    BY <1>6, <1>17
  <2> HIDE DEF j
  <2>2. s[i] = Word(r)[j]
    BY <1>35, <2>1
  <2>3. CASE r = 0
    <3>1. Word(0)[1] = 0 /\ Word(0)[2] = 0 /\ Word(0)[3] = 0 /\ Word(0)[4] = 0
      <4>1. 0 < TooLong /\ 0 \div 256 = 0 /\ 0 % 256 = 0
        BY SMT DEF TooLong
      <4>2. QED
        BY <4>1, SmallWord
    <3>2. s[i] = 0
      BY <2>1, <2>2, <2>3, <3>1
    <3>3. QED
      BY <1>22, <3>2 DEF IsDelimited, s
  <2>4. CASE r > 0 /\ j \in 1 .. 2
    <3>1. Word(r)[1] = 0 /\ Word(r)[2] = 0
      BY <1>2, SmallWord
    <3>2. s[i] = 0
      BY <2>2, <2>4, <3>1
    <3>3. QED
      BY <1>22, <3>2 DEF IsDelimited, s
  <2>5. CASE r > 0 /\ j \in 3 .. 4
    <3>1. j - 1 \in 2 .. 3 /\ j - 1 \in 1 .. l /\ i + 3 = 24 + p + (j - 1)
      BY <1>6, <1>23, <2>1, <2>5, HexHashAssumption
    <3>2. s[i + 3] = R[j - 1] /\ R[j - 1] = Word(HexHash)[j - 1]
      BY <1>36, <1>3, <2>5, <3>1
    <3>3. s[i + 3] = 0
      BY <1>21, <3>1, <3>2
    <3>4. QED
      BY <1>22, <3>3 DEF IsDelimited, s
  <2>6. QED
    BY <1>2, <2>1, <2>3, <2>4, <2>5
<1>18. CASE i \in 25 + p .. 24 + p + l
  <2> DEFINE j == i - 24 - p
  <2>1. j \in 1 .. l /\ i = 24 + p + j /\ l > 0
    BY <1>1, <1>6, <1>18
  <2> HIDE DEF j
  <2>2. s[i] = R[j] /\ r > 0
    BY <1>36, <1>2, <1>3, <2>1
  <2>3. CASE j \in 1 .. 3
    <3>1. s[i] = 0
      BY <1>3, <1>21, <2>2, <2>3
    <3>2. QED
      BY <1>22, <3>1 DEF IsDelimited, s
  <2>4. CASE j = 4
    <3>1. s[i] = HexHash
      BY <1>3, <1>21, <2>2, <2>4
    <3>2. SUFFICES ASSUME HexHash = 35 PROVE s[i + 3] # DELIM
      BY <3>1 DEF IsDelimited, DELIM, s
    <3>3. 7 \in 1 .. l /\ 3 \in 1 .. r * HexHash /\ i + 3 = 24 + p + 7
      BY <1>6, <1>23, <2>1, <2>2, <2>4, <3>2
    <3>4. s[i + 3] = R[4 + 3] /\ R[4 + 3] = Joined(v.references)[3]
      BY <1>36, <1>3, <2>2, <3>3
    <3>5. QED
      BY <1>8, <3>3, <3>4
  <2>5. CASE j \in 5 .. l
    <3>1. j - 4 \in 1 .. r * HexHash /\ j = 4 + (j - 4)
      BY <1>1, <1>23, <2>2, <2>5
    <3>2. s[i] = Joined(v.references)[j - 4]
      BY <1>3, <2>2, <3>1
    <3>3. QED
      BY <1>8, <3>1, <3>2 DEF IsDelimited, s
  <2>6. QED
    BY <1>1, <2>1, <2>3, <2>4, <2>5
<1>24. QED
  BY <1>1, <1>6, <1>11, <1>12, <1>13, <1>14, <1>15, <1>16, <1>17, <1>18

-----------------------------------------------------------------------------
(* Packets, which are full of vertices from the first byte to the last.    *)
LEMMA TooLongIs == TooLong = 65536
  BY SMT DEF TooLong

LEMMA UpToTooLong == \A n \in 1 .. TooLong : n \in Nat /\ n <= TooLong
<1>1. TooLong \in Nat
  BY SMT DEF TooLong
<1>2. QED
  BY <1>1

LEMMA PacketBlocks ==
  ASSUME NEW p, IsPacket(p)
  PROVE  LET n == Len(p.blocks)
         IN  /\ n \in Nat /\ n >= 1 /\ DOMAIN p.blocks = 1 .. n /\ p.size \in Nat
             /\ \A k \in 1 .. n :
                  /\ p.blocks[k].vertex \in Fields
                  /\ p.blocks[k].at \in Nat /\ p.blocks[k].size \in Nat
                  /\ p.blocks[k].size = Len(Serialize(p.blocks[k].vertex))
                  /\ p.blocks[k].size >= 28
             /\ p.blocks[1].at = 0
             /\ \A k \in 1 .. n - 1 :
                  p.blocks[k + 1].at = p.blocks[k].at + p.blocks[k].size
             /\ p.blocks[n].at + p.blocks[n].size = p.size
             /\ \A k, l \in 1 .. n :
                  k < l => p.blocks[k].at + p.blocks[k].size <= p.blocks[l].at
             /\ \A k \in 1 .. n : p.blocks[k].at + p.blocks[k].size <= p.size
<1> DEFINE n == Len(p.blocks)
           B == [vertex : Fields, at : Nat, size : Nat]
<1>1. /\ p.blocks \in Seq(B)
      /\ \A k \in DOMAIN p.blocks : p.blocks[k].size = Len(Serialize(p.blocks[k].vertex))
      /\ Fills(p.blocks, p.size)
  BY DEF IsPacket
<1>2. p.size \in Nat
  <2>1. p.size \in 1 .. TooLong
    BY DEF IsPacket
  <2>2. QED
    BY <2>1, UpToTooLong
<1>3. \A b \in B : b.vertex \in Fields /\ b.at \in Nat /\ b.size \in Nat
  OBVIOUS
<1> HIDE DEF B
<1>4. n \in Nat /\ DOMAIN p.blocks = 1 .. n /\ \A k \in 1 .. n : p.blocks[k] \in B
  BY <1>1
<1>5. n >= 1
  BY <1>1, <1>4, EmptySeq DEF Fills
<1> HIDE DEF n
<1>6. \A k \in 1 .. n :
        /\ p.blocks[k].vertex \in Fields
        /\ p.blocks[k].at \in Nat /\ p.blocks[k].size \in Nat
        /\ p.blocks[k].size = Len(Serialize(p.blocks[k].vertex))
  BY <1>1, <1>3, <1>4
<1>7. \A k \in 1 .. n : p.blocks[k].size >= 28
  BY <1>6, VertexEnds
<1>8. /\ p.blocks[1].at = 0
      /\ \A k \in 1 .. n - 1 :
           p.blocks[k + 1].at = p.blocks[k].at + p.blocks[k].size
      /\ p.blocks[n].at + p.blocks[n].size = p.size
      /\ \A k, l \in 1 .. n :
           k < l => p.blocks[k].at + p.blocks[k].size <= p.blocks[l].at
  BY <1>1, <1>4 DEF Fills, n
<1>9. \A k \in 1 .. n : p.blocks[k].at + p.blocks[k].size <= p.size
  <2>1. TAKE k \in 1 .. n
  <2>2. n \in 1 .. n
    BY <1>4, <1>5
  <2>3. CASE k = n
    BY <1>2, <1>8, <2>3
  <2>4. CASE k < n
    <3>1. p.blocks[k].at + p.blocks[k].size <= p.blocks[n].at
      BY <1>8, <2>2, <2>4
    <3>2. /\ p.blocks[n].at \in Nat /\ p.blocks[n].size \in Nat
          /\ p.blocks[k].at \in Nat /\ p.blocks[k].size \in Nat
      BY <1>6, <2>2
    <3>3. QED
      BY <1>2, <1>8, <3>1, <3>2
  <2>5. QED
    BY <1>4, <2>3, <2>4
<1>10. QED
  BY <1>2, <1>4, <1>5, <1>6, <1>7, <1>8, <1>9 DEF n
(* In the buffer every vertex is at its place, but for the first four bytes*)
(* of the first one, where the length of the packet is.                    *)
Held(b) == {b[i] : i \in DOMAIN b}

LEMMA BufferBytes ==
  ASSUME NEW p, IsPacket(p)
  PROVE  /\ Buffer(p) \in Seq(Held(Buffer(p))) /\ Len(Buffer(p)) = p.size
         /\ \A k \in 1 .. Len(p.blocks) : \A j \in 1 .. p.blocks[k].size :
              LET i == p.blocks[k].at + j
              IN  i > 4 => Buffer(p)[i] = Serialize(p.blocks[k].vertex)[j]
         /\ Buffer(p)[1] # DELIM
<1> DEFINE b == Buffer(p)
           n == Len(p.blocks)
           In(k, i) == p.blocks[k].at < i /\ i <= p.blocks[k].at + p.blocks[k].size
           Block(i) == CHOOSE k \in DOMAIN p.blocks :
                         p.blocks[k].at < i /\ i <= p.blocks[k].at + p.blocks[k].size
           inside(i) == Serialize(p.blocks[Block(i)].vertex)[i - p.blocks[Block(i)].at]
           e(i) == IF i <= 4 THEN Word(p.size)[i] ELSE inside(i)
<1>0. b = [i \in 1 .. p.size |-> e(i)]
  BY DEF Buffer
<1>7. /\ \A x \in Nat : x > 4 => e(x) = inside(x)
      /\ \A x \in Nat : x <= 4 => e(x) = Word(p.size)[x]
  <2> HIDE DEF inside
  <2>1. \A x \in Nat : x > 4 => ~ (x <= 4)
    OBVIOUS
  <2>2. QED
    BY <2>1
<1>1. p.size \in Nat /\ DOMAIN p.blocks = 1 .. n
  BY PacketBlocks
<1>8. p.size >= 28
  <2>1. /\ n \in 1 .. n /\ p.blocks[n].at \in Nat /\ p.blocks[n].size >= 28
        /\ p.blocks[n].size \in Nat /\ p.blocks[n].at + p.blocks[n].size = p.size
    BY PacketBlocks
  <2>2. QED
    BY <1>1, <2>1
<1>2. DOMAIN b = 1 .. p.size /\ \A i \in 1 .. p.size : b[i] = e(i)
  <2> HIDE DEF b, e
  <2>1. QED
    BY <1>0
<1>3. b \in Seq(Held(b)) /\ Len(b) = p.size
  <2>1. b \in [1 .. p.size -> Held(b)]
    <3> HIDE DEF b, e
    <3>1. \A i \in 1 .. p.size : e(i) \in Held(b)
      BY <1>2 DEF Held
    <3>2. QED
      BY <1>0, <3>1
  <2> HIDE DEF b
  <2>2. b \in Seq(Held(b))
    BY <1>1, <2>1, SeqDef
  <2>3. Len(b) \in Nat /\ 1 .. Len(b) = 1 .. p.size
    BY <1>2, <2>2, LenProperties
  <2>4. Len(b) = p.size
    BY <1>1, <2>3
  <2>5. QED
    BY <2>2, <2>4
<1>4. ASSUME NEW k \in 1 .. n, NEW j \in 1 .. p.blocks[k].size, p.blocks[k].at + j > 4
      PROVE  b[p.blocks[k].at + j] = Serialize(p.blocks[k].vertex)[j]
  <2> DEFINE i == p.blocks[k].at + j
             c == Block(i)
  <2>1. /\ \A l \in 1 .. n : p.blocks[l].at \in Nat /\ p.blocks[l].size \in Nat
        /\ \A l, m \in 1 .. n :
             l < m => p.blocks[l].at + p.blocks[l].size <= p.blocks[m].at
        /\ p.blocks[k].at + p.blocks[k].size <= p.size
    BY PacketBlocks
  <2>2. i \in Nat /\ i \in 1 .. p.size /\ i > 4 /\ In(k, i)
    <3> DEFINE at == p.blocks[k].at
               size == p.blocks[k].size
    <3>1. at \in Nat /\ size \in Nat /\ j \in Nat /\ 1 <= j /\ j <= size
          /\ at + size <= p.size /\ p.size \in Nat /\ at + j > 4
      BY <1>1, <1>4, <2>1
    <3>2. i = at + j
      OBVIOUS
    <3> HIDE DEF at, size, i
    <3>3. i \in Nat /\ i \in 1 .. p.size /\ i > 4 /\ at < i /\ i <= at + size
      BY <3>1, <3>2
    <3>4. QED
      BY <3>3 DEF at, size
  <2>3. c \in 1 .. n /\ In(c, i)
    BY <1>1, <2>2
  <2>4. b[i] = Serialize(p.blocks[c].vertex)[i - p.blocks[c].at]
    <3>1. b[i] = e(i)
      BY <1>2, <2>2
    <3>2. e(i) = inside(i)
      <4> HIDE DEF i, e, inside
      <4>1. QED
        BY <1>7, <2>2
    <3>3. QED
      BY <3>1, <3>2
  <2> HIDE DEF c, i
  <2>5. c = k
    <3>1. n \in Nat
      BY PacketBlocks
    <3>2. \A l, m \in 1 .. n : In(l, i) /\ In(m, i) => ~ (l < m)
      <4>1. SUFFICES ASSUME NEW l \in 1 .. n, NEW m \in 1 .. n,
                            In(l, i), In(m, i), l < m
                     PROVE  FALSE
        OBVIOUS
      <4>2. p.blocks[l].at + p.blocks[l].size <= p.blocks[m].at
        BY <2>1, <4>1
      <4>3. /\ p.blocks[l].at \in Nat /\ p.blocks[l].size \in Nat
            /\ p.blocks[m].at \in Nat
        BY <2>1
      <4>4. i <= p.blocks[l].at + p.blocks[l].size /\ p.blocks[m].at < i
        BY <4>1
      <4>5. QED
        BY <2>2, <4>2, <4>3, <4>4
    <3>3. ~ (c < k) /\ ~ (k < c)
      BY <2>2, <2>3, <3>2
    <3>4. QED
      BY <2>3, <3>1, <3>3
  <2>6. i - p.blocks[k].at = j
    BY <1>4, <2>1 DEF i
  <2>7. QED
    BY <2>4, <2>5, <2>6 DEF i
<1>5. b[1] # DELIM
  <2>1. p.size <= 65536 /\ p.size >= 28
    <3>1. p.size \in 1 .. TooLong
      BY DEF IsPacket
    <3>2. p.size <= TooLong
      BY <3>1, UpToTooLong
    <3>3. QED
      BY <1>8, <3>2, TooLongIs
  <2>2. b[1] = Word(p.size)[1]
    <3>1. 1 \in 1 .. p.size
      BY <1>1, <2>1, SMT
    <3> HIDE DEF b, e
    <3>2. b[1] = e(1)
      BY <1>2, <3>1
    <3>3. 1 \in Nat /\ 1 <= 4
      OBVIOUS
    <3>4. e(1) = Word(p.size)[1]
      BY <1>7, <3>3
    <3>5. QED
      BY <3>2, <3>4
  <2>3. (p.size \div 16777216) % 256 = 0
    <3>1. p.size \div 16777216 = 0
      BY <1>1, <2>1, SMT
    <3>2. 0 % 256 = 0
      OBVIOUS
    <3>3. QED
      BY <3>1, <3>2, SMT
  <2>4. b[1] # 35
    BY <2>2, <2>3, SMT DEF Word
  <2>5. QED
    BY <2>4 DEF DELIM
<1>6. QED
  BY <1>3, <1>4, <1>5

(* So every vertex ends with a delimiter and has others exactly when it has*)
(* bytes that look like one.                                               *)
LEMMA BlockIsDelimited ==
  ASSUME NEW p, IsPacket(p), NEW k \in 1 .. Len(p.blocks)
  PROVE  LET b    == Buffer(p)
             at   == p.blocks[k].at
             size == p.blocks[k].size
             v    == p.blocks[k].vertex
         IN  /\ IsDelimited(b, at + size - 3)
             /\ ~ FalseDelimiter(v) =>
                  \A i \in at + 1 .. at + size - 4 : ~ IsDelimited(b, i)
             /\ FalseDelimiter(v) => \E i \in at + 8 .. at + 13 : IsDelimited(b, i)
<1> DEFINE b    == Buffer(p)
           at   == p.blocks[k].at
           size == p.blocks[k].size
           v    == p.blocks[k].vertex
           s    == Serialize(v)
<1>1. /\ at \in Nat /\ size \in Nat /\ size >= 28 /\ v \in Fields
      /\ size = Len(s)
  BY PacketBlocks
<1>2. b[1] # DELIM
  BY BufferBytes
<1>3. \A j \in 1 .. size : at + j > 4 => b[at + j] = s[j]
  BY BufferBytes
<1>4. IsDelimited(s, size - 3)
  BY <1>1, VertexEnds
<1>5. \A j \in 1 .. 7 : s[j] # DELIM
  BY <1>1, NoDelimiterInFront
<1>6. ~ FalseDelimiter(v) => \A j \in 5 .. size - 4 : ~ IsDelimited(s, j)
  BY <1>1, NothingElseIsDelimited
<1>7. FalseDelimiter(v) => \E j \in 8 .. 13 : IsDelimited(s, j)
  BY <1>1, FalseDelimiterIsSeen
<1> HIDE DEF b, at, size, v, s
<1>8. ASSUME NEW j \in 1 .. size - 3, at + j > 4
      PROVE  IsDelimited(b, at + j) <=> IsDelimited(s, j)
  <2>1. /\ j \in 1 .. size /\ j + 3 \in 1 .. size
        /\ at + j + 3 = at + (j + 3) /\ at + (j + 3) > 4
    BY <1>1, <1>8
  <2>2. b[at + j] = s[j] /\ b[at + j + 3] = s[j + 3]
    BY <1>3, <1>8, <2>1
  <2>3. QED
    BY <2>2 DEF IsDelimited
<1>9. IsDelimited(b, at + size - 3)
  <2>1. /\ size - 3 \in 1 .. size - 3 /\ at + (size - 3) > 4
        /\ at + (size - 3) = at + size - 3
    BY <1>1
  <2>2. IsDelimited(b, at + (size - 3))
    BY <1>4, <1>8, <2>1
  <2>3. QED
    BY <2>1, <2>2
<1>10. ASSUME ~ FalseDelimiter(v), NEW i \in at + 1 .. at + size - 4
       PROVE  ~ IsDelimited(b, i)
  <2> DEFINE j == i - at
  <2>1. i = at + j /\ j \in 1 .. size - 4 /\ i \in Nat
    BY <1>1, <1>10
  <2> HIDE DEF j
  <2>2. CASE j \in 5 .. size - 4
    <3>1. ~ IsDelimited(s, j) /\ j \in 1 .. size - 3 /\ at + j > 4
      BY <1>1, <1>6, <1>10, <2>2
    <3>2. ~ IsDelimited(b, at + j)
      BY <1>8, <3>1
    <3>3. QED
      BY <2>1, <3>2
  <2>3. CASE j \in 1 .. 4 /\ at + j + 3 > 4
    <3>1. j + 3 \in 1 .. 7 /\ j + 3 \in 1 .. size /\ at + (j + 3) = at + j + 3
      BY <1>1, <2>3
    <3>2. b[at + j + 3] = s[j + 3]
      BY <1>3, <2>3, <3>1
    <3>3. QED
      BY <1>5, <2>1, <3>1, <3>2 DEF IsDelimited
  <2>4. CASE j \in 1 .. 4 /\ ~ (at + j + 3 > 4)
    <3>1. i = 1
      BY <1>1, <2>1, <2>4
    <3>2. QED
      BY <1>2, <3>1 DEF IsDelimited
  <2>5. QED
    BY <1>1, <2>1, <2>2, <2>3, <2>4
<1>11. ASSUME FalseDelimiter(v)
       PROVE  \E i \in at + 8 .. at + 13 : IsDelimited(b, i)
  <2>1. PICK j \in 8 .. 13 : IsDelimited(s, j)
    BY <1>7, <1>11
  <2>2. j \in 1 .. size - 3 /\ at + j > 4 /\ at + j \in at + 8 .. at + 13
    BY <1>1, <2>1
  <2>3. IsDelimited(b, at + j)
    BY <1>8, <2>1, <2>2
  <2>4. QED
    BY <2>2, <2>3
<1>12. QED
  BY <1>9, <1>10, <1>11 DEF b, at, size, v

-----------------------------------------------------------------------------
(* What deserialize_data makes of the bytes of a vertex, whatever the first*)
(* four of them are.                                                       *)
LEMMA LengthIsRead ==
  ASSUME NEW b, NEW i \in Nat, NEW n \in Nat, n < TooLong,
         \A j \in 1 .. 4 : b[i + j - 1] = Word(n)[j]
  PROVE  LengthAt(b, i) = n
<1>1. /\ b[i] = Word(n)[1] /\ b[i + 1] = Word(n)[2]
      /\ b[i + 2] = Word(n)[3] /\ b[i + 3] = Word(n)[4]
  <2>1. /\ i + 1 - 1 = i /\ i + 2 - 1 = i + 1
        /\ i + 3 - 1 = i + 2 /\ i + 4 - 1 = i + 3
    OBVIOUS
  <2>2. /\ b[i + 1 - 1] = Word(n)[1] /\ b[i + 2 - 1] = Word(n)[2]
        /\ b[i + 3 - 1] = Word(n)[3] /\ b[i + 4 - 1] = Word(n)[4]
    OBVIOUS
  <2>3. QED
    BY <2>1, <2>2
<1>2. /\ Word(n)[1] = 0 /\ Word(n)[2] = 0
      /\ Word(n)[3] * 256 + Word(n)[4] = n
  BY SmallWord
<1>3. QED
  BY <1>1, <1>2 DEF LengthAt

LEMMA PartIsRead ==
  ASSUME NEW S, NEW b, NEW t \in Seq(S), NEW at \in Nat,
         \A j \in 1 .. Len(t) : b[at + j - 1] = t[j]
  PROVE  SubSeq(b, at, at + Len(t) - 1) = t
<1> DEFINE u == SubSeq(b, at, at + Len(t) - 1)
           n == Len(t)
<1>1. n \in Nat /\ \A j \in 1 .. n : t[j] \in S
  OBVIOUS
<1>2. \A i \in at .. at + n - 1 : b[i] \in S
  <2>1. TAKE i \in at .. at + n - 1
  <2>2. i - at + 1 \in 1 .. n /\ at + (i - at + 1) - 1 = i
    BY <1>1
  <2>3. QED
    BY <1>1, <2>2
<1>3. /\ u \in Seq(S)
      /\ Len(u) = IF at <= at + n - 1 THEN (at + n - 1) - at + 1 ELSE 0
      /\ \A j \in 1 .. (at + n - 1) - at + 1 : u[j] = b[at + j - 1]
  <2>1. at \in Int /\ at + n - 1 \in Int
    BY <1>1
  <2> HIDE DEF n
  <2>2. QED
    BY <1>2, <2>1, SubSeqProperties DEF n
<1>4. (at + n - 1) - at + 1 = n /\ (n = 0 <=> ~ (at <= at + n - 1))
  BY <1>1
<1>5. Len(u) = n /\ \A j \in 1 .. n : u[j] = t[j]
  BY <1>1, <1>3, <1>4
<1>6. QED
  BY <1>3, <1>5, SeqEqual

LEMMA Understood ==
  ASSUME NEW v \in Fields, NEW b,
         \A j \in 5 .. Len(Serialize(v)) : b[j] = Serialize(v)[j]
  PROVE  Deserialize(b) = v
<1> DEFINE s == Serialize(v)
           p == Len(v.payload)
           r == Len(v.references)
           R == References(v)
           l == Len(R)
           h == HexHash
<1>0. \A j \in 5 .. Len(s) : b[j] = s[j]
  OBVIOUS
<1>1. Len(s) = 28 + p + l /\ l \in Nat /\ p \in Nat
  BY Layout
<1>2. \A j \in 1 .. 4 : s[4 + j] = Word(v.round)[j]
  BY Layout
<1>3. \A j \in 1 .. 8 : s[8 + j] = v.peer_id[j]
  BY Layout
<1>4. \A j \in 1 .. 4 : s[16 + j] = Word(p)[j]
  BY Layout
<1>5. \A j \in 1 .. p : s[20 + j] = v.payload[j]
  BY Layout
<1>6. \A j \in 1 .. 4 : s[20 + p + j] = Word(r)[j]
  BY Layout
<1>7. \A j \in 1 .. l : s[24 + p + j] = R[j]
  BY Layout
<1>8. /\ v.round \in Nat /\ v.round < RoundBound /\ v.payload \in Seq(Text)
      /\ p \in 0 .. 34 /\ r \in Nat /\ r < TooLong
      /\ v.references \in Seq([1 .. h -> Text]) /\ v.peer_id \in [1 .. 8 -> Byte]
  BY FieldsOf
<1>9. r > 0 =>
        /\ l = 4 + r * h
        /\ \A j \in 1 .. 4 : R[j] = Word(h)[j]
        /\ \A j \in 1 .. r * h : R[4 + j] = Joined(v.references)[j]
  BY ReferencesAreBytes
<1>10. \A i \in 1 .. r, j \in 1 .. h :
         /\ (i - 1) * h + j \in 1 .. r * h
         /\ Joined(v.references)[(i - 1) * h + j] = v.references[i][j]
  BY <1>8, JoinedBytes
<1>11. h \in Nat \ {0} /\ h < TooLong /\ v.round < TooLong /\ p < TooLong
  <2>1. h \in 1 .. 255 /\ RoundBound \in Nat /\ RoundBound <= 8960
    BY HexHashAssumption, RoundBoundAssumption, SMT
  <2>2. v.round \in Nat /\ v.round < RoundBound /\ p \in 0 .. 34
    BY <1>8
  <2> HIDE DEF h, p
  <2>3. QED
    BY <2>1, <2>2, SMT DEF TooLong
<1>12. v = [round |-> v.round, peer_id |-> v.peer_id, payload |-> v.payload,
            references |-> v.references]
  BY DEF Fields
<1> HIDE DEF s, p, r, R, l, h
<1>13. LengthAt(b, 5) = v.round
  <2>1. \A j \in 1 .. 4 : b[5 + j - 1] = Word(v.round)[j]
    <3>1. TAKE j \in 1 .. 4
    <3>2. 5 + j - 1 = 4 + j /\ 4 + j \in 5 .. Len(s)
      BY <1>1
    <3>3. QED
      BY <1>0, <1>2, <3>2
  <2>2. v.round \in Nat /\ v.round < TooLong /\ 5 \in Nat
    BY <1>8, <1>11
  <2>3. QED
    BY <2>1, <2>2, LengthIsRead
<1>14. SubSeq(b, 9, 16) = v.peer_id
  <2>1. v.peer_id \in Seq(Byte) /\ Len(v.peer_id) = 8
    BY IdentifierIsBytes
  <2>2. \A j \in 1 .. 8 : b[9 + j - 1] = v.peer_id[j]
    <3>1. TAKE j \in 1 .. 8
    <3>2. 9 + j - 1 = 8 + j /\ 8 + j \in 5 .. Len(s)
      BY <1>1
    <3>3. QED
      BY <1>0, <1>3, <3>2
  <2>3. SubSeq(b, 9, 9 + 8 - 1) = v.peer_id
    <3>1. 9 \in Nat /\ \A j \in 1 .. Len(v.peer_id) : b[9 + j - 1] = v.peer_id[j]
      BY <2>1, <2>2
    <3> DEFINE id == v.peer_id
    <3>2. id \in Seq(Byte) /\ \A j \in 1 .. Len(id) : b[9 + j - 1] = id[j]
      BY <2>1, <3>1
    <3> HIDE DEF id
    <3>3. SubSeq(b, 9, 9 + Len(id) - 1) = id
      BY <3>1, <3>2, PartIsRead
    <3>4. QED
      BY <2>1, <3>3 DEF id
  <2>4. QED
    BY <2>3
<1>15. LengthAt(b, 17) = p
  <2>1. \A j \in 1 .. 4 : b[17 + j - 1] = Word(p)[j]
    <3>1. TAKE j \in 1 .. 4
    <3>2. 17 + j - 1 = 16 + j /\ 16 + j \in 5 .. Len(s)
      BY <1>1
    <3>3. QED
      BY <1>0, <1>4, <3>2
  <2>2. QED
    BY <1>1, <1>11, <2>1, LengthIsRead
<1>16. SubSeq(b, 21, 21 + p - 1) = v.payload
  <2>1. \A j \in 1 .. p : b[21 + j - 1] = v.payload[j]
    <3>1. TAKE j \in 1 .. p
    <3>2. 21 + j - 1 = 20 + j /\ 20 + j \in 5 .. Len(s)
      BY <1>1
    <3>3. QED
      BY <1>0, <1>5, <3>2
  <2>2. QED
    BY <1>8, <2>1, PartIsRead DEF p
<1>17. LengthAt(b, 21 + p) = r
  <2>1. \A j \in 1 .. 4 : b[21 + p + j - 1] = Word(r)[j]
    <3>1. TAKE j \in 1 .. 4
    <3>2. 21 + p + j - 1 = 20 + p + j /\ 20 + p + j \in 5 .. Len(s)
      BY <1>1
    <3>3. QED
      BY <1>0, <1>6, <3>2
  <2>2. QED
    BY <1>1, <1>8, <2>1, LengthIsRead
<1>18. ASSUME r > 0 PROVE LengthAt(b, 21 + p + 4) = h
  <2>1. \A j \in 1 .. 4 : b[21 + p + 4 + j - 1] = Word(h)[j]
    <3>1. TAKE j \in 1 .. 4
    <3>2. l >= 4
      <4>1. r * h \in Nat
        BY <1>8, <1>11
      <4>2. QED
        BY <1>9, <1>18, <4>1
    <3>3. j \in 1 .. l /\ 21 + p + 4 + j - 1 = 24 + p + j
      BY <1>1, <3>2
    <3>4. 24 + p + j \in 5 .. Len(s)
      BY <1>1, <3>3
    <3>5. QED
      BY <1>0, <1>7, <1>9, <1>18, <3>3, <3>4
  <2>2. QED
    BY <1>1, <1>11, <2>1, LengthIsRead
<1>19. ASSUME NEW i \in 1 .. r
       PROVE  SubSeq(b, 21 + p + 8 + (i - 1) * h, 21 + p + 7 + i * h) = v.references[i]
  <2> DEFINE t == v.references[i]
             m == (i - 1) * h
             a == 21 + p + 8 + m
  <2>1. t \in [1 .. h -> Text]
    BY <1>8, <1>19 DEF r
  <2>2. t \in Seq(Text) /\ Len(t) = h
    BY <1>11, <2>1, FunctionIsSequence
  <2>3. /\ i - 1 \in Nat /\ m \in Nat /\ i * h = m + h /\ r > 0 /\ r * h \in Nat
        /\ h \in Nat
    BY <1>8, <1>11, <1>19
  <2>4. \A j \in 1 .. h : m + j \in 1 .. r * h /\ Joined(v.references)[m + j] = t[j]
    BY <1>10, <1>19
  <2> HIDE DEF t, m
  <2>5. \A j \in 1 .. h : b[a + j - 1] = t[j]
    <3>1. TAKE j \in 1 .. h
    <3>2. m + j \in 1 .. r * h /\ Joined(v.references)[m + j] = t[j]
      BY <2>4
    <3>3. l = 4 + r * h /\ R[4 + (m + j)] = Joined(v.references)[m + j]
      BY <1>9, <2>3, <3>2
    <3>4. /\ a + j - 1 = 24 + p + (4 + (m + j))
          /\ 24 + p + (4 + (m + j)) \in 5 .. Len(s)
          /\ 4 + (m + j) \in 1 .. l
      BY <1>1, <2>3, <3>2, <3>3
    <3>5. QED
      BY <1>0, <1>7, <3>2, <3>3, <3>4
  <2>6. a \in Nat /\ a + h - 1 = 21 + p + 7 + i * h
    BY <1>1, <2>3
  <2>7. SubSeq(b, a, a + h - 1) = t
    <3> HIDE DEF a
    <3>1. QED
      BY <2>2, <2>5, <2>6, PartIsRead
  <2>8. QED
    BY <2>6, <2>7 DEF t, m
<1> DEFINE at   == 21 + LengthAt(b, 17)
           size == IF LengthAt(b, at) = 0 THEN 0 ELSE LengthAt(b, at + 4)
           refs == [i \in 1 .. LengthAt(b, at) |->
                      SubSeq(b, at + 8 + (i - 1) * size, at + 7 + i * size)]
<1>20. at = 21 + p /\ LengthAt(b, at) = r /\ (r > 0 => size = h)
  <2>1. at = 21 + p
    BY <1>15
  <2>2. size = IF LengthAt(b, at) = 0 THEN 0 ELSE LengthAt(b, at + 4)
    OBVIOUS
  <2> HIDE DEF at, size
  <2>3. LengthAt(b, at) = r /\ at + 4 = 21 + p + 4
    BY <1>1, <1>17, <2>1
  <2>4. r > 0 => r # 0 /\ LengthAt(b, at + 4) = h
    BY <1>8, <1>18, <2>3
  <2>5. QED
    BY <2>1, <2>2, <2>3, <2>4
<1>21. refs = v.references
  <2>1. v.references = [i \in 1 .. r |-> v.references[i]]
    BY <1>8 DEF r
  <2>2. ASSUME NEW i \in 1 .. r
        PROVE  SubSeq(b, at + 8 + (i - 1) * size, at + 7 + i * size) = v.references[i]
    <3>1. at = 21 + p /\ size = h
      BY <1>8, <1>20, <2>2
    <3> HIDE DEF at, size
    <3>2. QED
      BY <1>19, <2>2, <3>1
  <2>3. refs = [i \in 1 .. r |->
                  SubSeq(b, at + 8 + (i - 1) * size, at + 7 + i * size)]
    BY <1>20
  <2> HIDE DEF at, size, refs
  <2>4. QED
    BY <2>1, <2>2, <2>3
<1>22. Deserialize(b) = [round |-> LengthAt(b, 5), peer_id |-> SubSeq(b, 9, 16),
                         payload |-> SubSeq(b, 21, at - 1), references |-> refs]
  BY DEF Deserialize
<1> HIDE DEF at, size, refs
<1>23. at - 1 = 21 + p - 1
  BY <1>1, <1>20
<1>24. SubSeq(b, 21, at - 1) = v.payload
  BY <1>16, <1>23
<1>25. QED
  BY <1>12, <1>13, <1>14, <1>21, <1>22, <1>24
-----------------------------------------------------------------------------
(* The loop over the bytes of a packet.  The first delimiter seen from     *)
(* where a vertex starts is its last four bytes, or it is too soon.        *)
LEMMA FirstDelimiter ==
  ASSUME NEW p, IsPacket(p), NEW k \in 1 .. Len(p.blocks),
         NEW i \in Delimited(Buffer(p)), i >= p.blocks[k].at + 1,
         \A j \in Delimited(Buffer(p)) : j >= p.blocks[k].at + 1 => i <= j
  PROVE  IF FalseDelimiter(p.blocks[k].vertex)
         THEN i + 3 < p.blocks[k].at + p.blocks[k].size
         ELSE i + 3 = p.blocks[k].at + p.blocks[k].size
<1> DEFINE b    == Buffer(p)
           at   == p.blocks[k].at
           size == p.blocks[k].size
           v    == p.blocks[k].vertex
<1>1. /\ at \in Nat /\ size \in Nat /\ size >= 28 /\ at + size <= p.size
      /\ p.size \in Nat
  BY PacketBlocks
<1>2. Len(b) = p.size
  BY BufferBytes
<1>3. /\ IsDelimited(b, at + size - 3)
      /\ ~ FalseDelimiter(v) => \A j \in at + 1 .. at + size - 4 : ~ IsDelimited(b, j)
      /\ FalseDelimiter(v) => \E j \in at + 8 .. at + 13 : IsDelimited(b, j)
  BY BlockIsDelimited
<1>4. /\ i >= at + 1
      /\ \A j \in Delimited(b) : j >= at + 1 => i <= j
      /\ i \in Delimited(b)
  OBVIOUS
<1> HIDE DEF b, at, size, v
<1>5. \A j \in 1 .. p.size - 3 : j \in Delimited(b) <=> IsDelimited(b, j)
  BY <1>2 DEF Delimited, IsDelimited
<1>6. i \in 1 .. p.size - 3
  BY <1>2, <1>4 DEF Delimited
<1>7. IsDelimited(b, i)
  BY <1>4, <1>5, <1>6
<1>8. CASE ~ FalseDelimiter(v)
  <2>1. ~ (i \in at + 1 .. at + size - 4)
    BY <1>3, <1>7, <1>8
  <2>2. at + size - 3 \in 1 .. p.size - 3 /\ at + size - 3 >= at + 1
    BY <1>1
  <2>3. i <= at + size - 3
    BY <1>3, <1>4, <1>5, <2>2
  <2>4. i = at + size - 3
    <3>1. ~ (i <= at + size - 4)
      BY <1>1, <1>4, <1>6, <2>1
    <3>2. QED
      BY <1>1, <1>6, <2>3, <3>1
  <2>5. i + 3 = at + size
    BY <1>1, <2>4
  <2>6. QED
    BY <1>8, <2>5 DEF at, size, v
<1>9. CASE FalseDelimiter(v)
  <2>1. PICK j \in at + 8 .. at + 13 : IsDelimited(b, j)
    BY <1>3, <1>9
  <2>2. j \in 1 .. p.size - 3 /\ j >= at + 1 /\ j <= at + 13
    BY <1>1, <2>1
  <2>3. i <= j
    BY <1>4, <1>5, <2>1, <2>2
  <2>4. i + 3 < at + size
    BY <1>1, <1>6, <2>2, <2>3
  <2>5. QED
    BY <1>9, <2>4 DEF at, size, v
<1>10. QED
  BY <1>8, <1>9

(* The bytes of a vertex in the buffer, and what they are understood as.   *)
Bytes(p, k) ==
  SubSeq(Buffer(p), p.blocks[k].at + 1, p.blocks[k].at + p.blocks[k].size)

LEMMA BytesOfBlock ==
  ASSUME NEW p, IsPacket(p), NEW k \in 1 .. Len(p.blocks)
  PROVE  /\ Len(Bytes(p, k)) = p.blocks[k].size
         /\ Deserialize(Bytes(p, k)) = p.blocks[k].vertex
<1> DEFINE b    == Buffer(p)
           at   == p.blocks[k].at
           size == p.blocks[k].size
           v    == p.blocks[k].vertex
           t    == Bytes(p, k)
<1>1. /\ at \in Nat /\ size \in Nat /\ size >= 28 /\ at + size <= p.size
      /\ p.size \in Nat /\ v \in Fields /\ size = Len(Serialize(v))
  BY PacketBlocks
<1>2. b \in Seq(Held(b)) /\ Len(b) = p.size
  BY BufferBytes
<1>3. \A j \in 1 .. size : at + j > 4 => b[at + j] = Serialize(v)[j]
  BY BufferBytes
<1>4. t = SubSeq(b, at + 1, at + size)
  BY DEF Bytes
<1> HIDE DEF b, at, size, v, t
<1>5. \A i \in at + 1 .. at + size : b[i] \in Held(b)
  <2>1. \A i \in at + 1 .. at + size : i \in 1 .. Len(b)
    BY <1>1, <1>2
  <2>2. QED
    BY <1>2, <2>1, ElementOfSeq
<1>6. at + 1 \in Int /\ at + size \in Int
  BY <1>1
<1>7. Len(t) = size /\ \A j \in 1 .. size : t[j] = b[at + j]
  <2> DEFINE first == at + 1
             last  == at + size
  <2>1. /\ first \in Int /\ last \in Int
        /\ \A i \in first .. last : b[i] \in Held(b)
    BY <1>5, <1>6
  <2>2. t = SubSeq(b, first, last)
    BY <1>4
  <2>3. first = at + 1 /\ last = at + size
    OBVIOUS
  <2> HIDE DEF first, last
  <2>4. /\ Len(t) = IF first <= last THEN last - first + 1 ELSE 0
        /\ \A j \in 1 .. last - first + 1 : t[j] = b[first + j - 1]
    BY <2>1, <2>2, SubSeqProperties
  <2>5. first <= last /\ last - first + 1 = size
    BY <1>1, <2>3
  <2>6. \A j \in 1 .. size : first + j - 1 = at + j
    BY <1>1, <2>3
  <2>7. QED
    BY <2>4, <2>5, <2>6
<1>9. \A j \in 5 .. size : t[j] = Serialize(v)[j]
  <2>1. TAKE j \in 5 .. size
  <2>2. j \in 1 .. size /\ at + j > 4
    BY <1>1
  <2>3. QED
    BY <1>3, <1>7, <2>2
<1>10. Deserialize(t) = v
  BY <1>1, <1>9, Understood
<1>11. QED
  BY <1>7, <1>10 DEF size, t, v
-----------------------------------------------------------------------------
(* The inductive invariant of the cutting loop.  Either every vertex so    *)
(* far has been found where it is, none of them with bytes that look like a*)
(* delimiter, and the loop is at the start of the next one; or one of them *)
(* has such bytes and has been cut too short, which no later step mends.   *)
Start(p, n) ==
  IF n = Len(p.blocks) THEN p.size + 1 ELSE p.blocks[n + 1].at + 1

RightSoFar ==
  /\ Len(segments) <= Len(packet.blocks)
  /\ segment_start = Start(packet, Len(segments))
  /\ \A k \in 1 .. Len(segments) :
       segments[k] = Segment(k) /\ ~ FalseDelimiter(packet.blocks[k].vertex)

CutShort(k) ==
  /\ k <= Len(packet.blocks)
  /\ segments[k] # Segment(k)
  /\ FalseDelimiter(packet.blocks[k].vertex)

CutInv ==
  /\ packet \in Arriving
  /\ buf = Buffer(packet)
  /\ segment_start \in Nat \ {0}
  /\ segments \in Seq(Seq(Held(buf)))
  /\ RightSoFar \/ \E k \in 1 .. Len(segments) : CutShort(k)

LEMMA CutInvInit == SInit => CutInv
<1>0. SUFFICES ASSUME SInit PROVE CutInv
  OBVIOUS
<1>1. /\ packet \in Arriving /\ buf = Buffer(packet)
      /\ segment_start = 1 /\ segments = <<>>
  BY <1>0 DEF SInit
<1>2. IsPacket(packet)
  BY <1>1, ArrivingAssumption
<1>3. Len(segments) = 0 /\ segments \in Seq(Seq(Held(buf)))
  BY <1>1
<1>4. /\ Len(packet.blocks) \in Nat /\ Len(packet.blocks) >= 1
      /\ packet.blocks[1].at = 0
  BY <1>2, PacketBlocks
<1>5. Start(packet, 0) = 1
  <2>1. ~ (0 = Len(packet.blocks)) /\ packet.blocks[0 + 1].at + 1 = 1
    BY <1>4
  <2>2. QED
    BY <2>1 DEF Start
<1>6. RightSoFar
  BY <1>1, <1>3, <1>4, <1>5 DEF RightSoFar
<1>7. QED
  BY <1>1, <1>3, <1>6 DEF CutInv

(* One cut more.                                                           *)
LEMMA CutKeepsInv ==
  ASSUME CutInv, Cut
  PROVE  CutInv'
<1> DEFINE n == Len(segments)
           m == Len(packet.blocks)
           b == Buffer(packet)
           p == packet
<1>1. /\ packet \in Arriving /\ buf = b /\ segment_start \in Nat \ {0}
      /\ segments \in Seq(Seq(Held(b)))
      /\ RightSoFar \/ \E k \in 1 .. n : CutShort(k)
  BY DEF CutInv
<1>2. IsPacket(packet)
  BY <1>1, ArrivingAssumption
<1>3. PICK i \in Delimited(b) :
        /\ i >= segment_start
        /\ \A j \in Delimited(b) : j >= segment_start => i <= j
        /\ segments' = Append(segments, SubSeq(b, segment_start, i + 3))
        /\ segment_start' = i + 4
        /\ UNCHANGED <<packet, buf>>
  BY <1>1 DEF Cut
<1>4. b \in Seq(Held(b)) /\ Len(b) = packet.size /\ packet.size \in Nat
  BY <1>2, BufferBytes, PacketBlocks
<1>5. i \in 1 .. Len(b) - 3
  BY DEF Delimited
<1> DEFINE new == SubSeq(b, segment_start, i + 3)
<1>6. new \in Seq(Held(b)) /\ Len(new) = i + 4 - segment_start
  <2> DEFINE last == i + 3
  <2>1. /\ segment_start \in Int /\ last \in Int /\ segment_start <= last
        /\ last - segment_start + 1 = i + 4 - segment_start
    BY <1>1, <1>3, <1>4, <1>5
  <2>2. \A j \in segment_start .. last : j \in 1 .. Len(b)
    BY <1>1, <1>4, <1>5
  <2> HIDE DEF last
  <2>3. \A j \in segment_start .. last : b[j] \in Held(b)
    BY <1>4, <2>2, ElementOfSeq
  <2>4. /\ SubSeq(b, segment_start, last) \in Seq(Held(b))
        /\ Len(SubSeq(b, segment_start, last))
             = IF segment_start <= last THEN last - segment_start + 1 ELSE 0
    BY <2>1, <2>3, SubSeqProperties
  <2>5. QED
    BY <2>1, <2>4 DEF last
<1>7. /\ segments' \in Seq(Seq(Held(b))) /\ Len(segments') = n + 1 /\ n \in Nat
      /\ \A k \in 1 .. n : segments'[k] = segments[k]
      /\ segments'[n + 1] = new
  <2>1. segments' = Append(segments, new)
    BY <1>3
  <2> HIDE DEF new, b
  <2>2. QED
    BY <1>1, <1>6, <2>1, AppendProperties, LenProperties
<1>8. segment_start' \in Nat \ {0}
  BY <1>3, <1>4, <1>5
<1>9. ASSUME NEW k \in 1 .. n, CutShort(k)
      PROVE  \E l \in 1 .. Len(segments') : CutShort(l)'
  <2>1. k \in 1 .. n + 1 /\ segments'[k] = segments[k]
    BY <1>7
  <2>2. CutShort(k)'
    BY <1>3, <1>9, <2>1 DEF CutShort, Segment
  <2>3. QED
    BY <1>7, <2>1, <2>2
<1>10. CASE RightSoFar
  <2>1. /\ n <= m /\ segment_start = Start(p, n) /\ m \in Nat
        /\ \A k \in 1 .. n :
             segments[k] = Segment(k) /\ ~ FalseDelimiter(p.blocks[k].vertex)
    BY <1>2, <1>10, PacketBlocks DEF RightSoFar
  <2>2. n # m
    <3>1. SUFFICES ASSUME n = m PROVE FALSE
      OBVIOUS
    <3>2. segment_start = packet.size + 1
      BY <2>1, <3>1 DEF Start
    <3>3. QED
      BY <1>3, <1>4, <1>5, <3>2
  <2>0. PICK k : k = n + 1
    OBVIOUS
  <2> DEFINE at   == p.blocks[k].at
             size == p.blocks[k].size
             v    == p.blocks[k].vertex
  <2>3. k \in 1 .. m /\ segment_start = at + 1
    BY <1>7, <2>0, <2>1, <2>2 DEF Start
  <2>4. at \in Nat /\ size \in Nat
    BY <1>2, <2>3, PacketBlocks
  <2>5. IF FalseDelimiter(v) THEN i + 3 < at + size ELSE i + 3 = at + size
    <3>1. /\ i >= p.blocks[k].at + 1
          /\ \A j \in Delimited(Buffer(p)) : j >= p.blocks[k].at + 1 => i <= j
          /\ k \in 1 .. Len(p.blocks) /\ i \in Delimited(Buffer(p))
      BY <1>3, <2>3
    <3>2. QED
      BY <1>2, <3>1, FirstDelimiter
  <2>6. Segment(k) = Bytes(p, k)
    BY <1>1 DEF Segment, Bytes
  <2>7. Segment(k)' = Segment(k)
    BY <1>3 DEF Segment
  <2>8. CASE FalseDelimiter(v)
    <3>1. Len(Segment(k)) = size
      BY <1>2, <2>3, <2>6, BytesOfBlock
    <3>2. Len(new) # size
      <4>1. i + 3 < at + size /\ Len(new) = i + 4 - (at + 1)
        BY <1>6, <2>3, <2>5, <2>8
      <4>2. i \in Nat
        BY <1>4, <1>5
      <4> HIDE DEF new, at, size
      <4>3. QED
        BY <2>4, <4>1, <4>2
    <3>3. segments'[k] # Segment(k)
      BY <1>7, <2>0, <3>1, <3>2
    <3>4. k <= Len(packet'.blocks) /\ FalseDelimiter(packet'.blocks[k].vertex)
      BY <1>3, <2>3, <2>8
    <3>5. CutShort(k)'
      BY <2>7, <3>3, <3>4 DEF CutShort
    <3>6. \E l \in 1 .. Len(segments') : CutShort(l)'
      BY <1>7, <2>0, <2>3, <3>5
    <3>7. QED
      BY <1>1, <1>3, <1>7, <1>8, <3>6 DEF CutInv
  <2>9. CASE ~ FalseDelimiter(v)
    <3>1. i + 3 = at + size
      BY <2>5, <2>9
    <3>2. new = Segment(k)
      BY <2>3, <2>6, <3>1 DEF Bytes
    <3>3. segment_start' = Start(p, k)
      <4>1. segment_start' = at + size + 1
        BY <1>3, <1>5, <2>4, <3>1
      <4>2. CASE k = m
        <5>1. at + size = p.size
          BY <1>2, <4>2, PacketBlocks
        <5>2. QED
          BY <4>1, <4>2, <5>1 DEF Start
      <4>3. CASE k # m
        <5>1. k \in 1 .. m - 1
          BY <1>7, <2>0, <2>1, <2>3, <4>3
        <5>2. p.blocks[k + 1].at = at + size
          BY <1>2, <5>1, PacketBlocks
        <5>3. QED
          BY <4>1, <4>3, <5>2 DEF Start
      <4>4. QED
        BY <4>2, <4>3
    <3>4. \A l \in 1 .. k :
            segments'[l] = Segment(l) /\ ~ FalseDelimiter(p.blocks[l].vertex)
      <4>1. TAKE l \in 1 .. k
      <4>2. CASE l = k
        BY <1>7, <2>0, <2>9, <3>2, <4>2
      <4>3. CASE l \in 1 .. n
        BY <1>7, <2>1, <4>3
      <4>4. QED
        BY <1>7, <2>0, <4>2, <4>3
    <3>5. \A l : Segment(l)' = Segment(l)
      BY <1>3 DEF Segment
    <3>6. packet' = packet /\ Len(segments') = k /\ k <= m
      BY <1>3, <1>7, <2>0, <2>3
    <3>7. segment_start' = Start(packet', Len(segments'))
      BY <3>3, <3>6
    <3>8. \A l \in 1 .. Len(segments') :
            segments'[l] = Segment(l)' /\ ~ FalseDelimiter(packet'.blocks[l].vertex)
      BY <3>4, <3>5, <3>6
    <3>9. RightSoFar'
      BY <3>6, <3>7, <3>8 DEF RightSoFar
    <3>10. QED
      BY <1>1, <1>3, <1>7, <1>8, <3>9 DEF CutInv
  <2>10. QED
    BY <2>8, <2>9
<1>11. CASE \E k \in 1 .. n : CutShort(k)
  BY <1>1, <1>3, <1>7, <1>8, <1>9, <1>11 DEF CutInv
<1>12. QED
  BY <1>1, <1>10, <1>11
(* When there is no delimiter left, all vertices have been found where they*)
(* are and can be read, or one of them has been cut short.                 *)
LEMMA CutInvSplits == CutInv => SplitIsExact
<1> DEFINE n == Len(segments)
           m == Len(packet.blocks)
<1>0. SUFFICES ASSUME CutInv, Finished
               PROVE  /\ Exact <=> Plain(packet)
                      /\ Plain(packet) => \A k \in DOMAIN segments :
                           Deserialize(segments[k]) = packet.blocks[k].vertex
  BY DEF SplitIsExact
<1>1. /\ packet \in Arriving /\ buf = Buffer(packet)
      /\ segments \in Seq(Seq(Held(buf)))
      /\ RightSoFar \/ \E k \in 1 .. n : CutShort(k)
  BY <1>0 DEF CutInv
<1>2. IsPacket(packet)
  BY <1>1, ArrivingAssumption
<1>3. /\ DOMAIN packet.blocks = 1 .. m /\ m \in Nat
      /\ DOMAIN segments = 1 .. n /\ n \in Nat
  BY <1>1, <1>2, PacketBlocks
<1>4. CASE RightSoFar
  <2>1. /\ n <= m /\ segment_start = Start(packet, n)
        /\ \A k \in 1 .. n :
             segments[k] = Segment(k) /\ ~ FalseDelimiter(packet.blocks[k].vertex)
    BY <1>4 DEF RightSoFar
  <2>2. n = m
    <3>1. SUFFICES ASSUME n # m PROVE FALSE
      OBVIOUS
    <3> DEFINE k    == n + 1
               at   == packet.blocks[k].at
               size == packet.blocks[k].size
    <3>2. k \in 1 .. m /\ segment_start = at + 1
      BY <1>3, <2>1, <3>1 DEF Start
    <3> HIDE DEF k
    <3>3. /\ at \in Nat /\ size \in Nat /\ size >= 28 /\ at + size <= packet.size
          /\ packet.size \in Nat
      BY <1>2, <3>2, PacketBlocks
    <3>4. IsDelimited(Buffer(packet), at + size - 3)
      BY <1>2, <3>2, BlockIsDelimited
    <3>5. Len(buf) = packet.size
      BY <1>1, <1>2, BufferBytes
    <3> HIDE DEF at, size
    <3>6. at + size - 3 \in 1 .. Len(buf) - 3
      BY <3>3, <3>5
    <3>7. at + size - 3 \in Delimited(buf)
      BY <1>1, <3>4, <3>6 DEF Delimited, IsDelimited
    <3>8. at + size - 3 < segment_start
      BY <1>0, <3>7 DEF Finished
    <3>9. QED
      BY <3>2, <3>3, <3>8
  <2>3. segment_start = packet.size + 1
    BY <2>1, <2>2 DEF Start
  <2>4. Exact
    BY <1>3, <2>1, <2>2, <2>3 DEF Exact
  <2>5. Plain(packet)
    BY <1>3, <2>1, <2>2 DEF Plain
  <2>6. \A k \in DOMAIN segments : Deserialize(segments[k]) = packet.blocks[k].vertex
    <3>1. TAKE k \in DOMAIN segments
    <3>2. k \in 1 .. m /\ segments[k] = Segment(k)
      BY <1>3, <2>1, <2>2
    <3>3. Segment(k) = Bytes(packet, k)
      BY <1>1 DEF Segment, Bytes
    <3>4. Deserialize(Bytes(packet, k)) = packet.blocks[k].vertex
      BY <1>2, <3>2, BytesOfBlock
    <3>5. QED
      BY <3>2, <3>3, <3>4
  <2>7. QED
    BY <2>4, <2>5, <2>6
<1>5. ASSUME NEW k \in 1 .. n, CutShort(k)
      PROVE  ~ Exact /\ ~ Plain(packet)
  <2>1. k \in DOMAIN segments /\ k \in DOMAIN packet.blocks
    BY <1>3, <1>5 DEF CutShort
  <2>2. ~ Exact
    BY <1>5, <2>1 DEF CutShort, Exact
  <2>3. ~ Plain(packet)
    BY <1>5, <2>1 DEF CutShort, Plain
  <2>4. QED
    BY <2>2, <2>3
<1>6. QED
  BY <1>1, <1>4, <1>5

(* SplitIsExact, for any packets of any number of vertices: the loop that  *)
(* ends c_recvn takes a packet apart into the vertices it was made of, and *)
(* deserialize_data finds every field of theirs, exactly when no vertex has*)
(* bytes in its identifier or its round that look like a delimiter.        *)
THEOREM SplitIsExactHolds == SSpec => []SplitIsExact
<1>1. SInit => CutInv
  BY CutInvInit
<1>2. CutInv /\ [Cut]_svars => CutInv'
  <2>1. SUFFICES ASSUME CutInv, [Cut]_svars PROVE CutInv'
    OBVIOUS
  <2>2. CASE Cut
    BY <2>1, <2>2, CutKeepsInv
  <2>3. CASE UNCHANGED svars
    BY <2>1, <2>3 DEF svars, CutInv, RightSoFar, CutShort, Segment
  <2>4. QED
    BY <2>1, <2>2, <2>3
<1>3. CutInv => SplitIsExact
  BY CutInvSplits
<1>4. QED
  BY <1>1, <1>2, <1>3, PTL DEF SSpec
=============================================================================
