----------------------------- MODULE Splitting ------------------------------
(***************************************************************************)
(* The end of c_recvn: a packet has been received, and is cut into its     *)
(* vertices where there are two delimiters three bytes apart.              *)
(***************************************************************************)
EXTENDS Framing, Resending

CONSTANT Arriving   \* the packets that may arrive

VARIABLES
  packet,          \* the packet that has arrived
  buf,             \* its bytes, in the buffer of c_recvn
  segment_start,   \* where the vertex under way starts
  segments         \* the bytes of the vertices found so far

svars == <<packet, buf, segment_start, segments>>

(* What attach_length_to_msg and memcpy have made of the vertices.         *)
Buffer(p) ==
  [i \in 1 .. p.size |->
     IF i <= 4 THEN Word(p.size)[i]
     ELSE LET k == CHOOSE k \in DOMAIN p.blocks :
                     p.blocks[k].at < i /\ i <= p.blocks[k].at + p.blocks[k].size
          IN  Serialize(p.blocks[k].vertex)[i - p.blocks[k].at]]

(* A packet is filled by its vertices, as ResentFits says; that of a       *)
(* broadcast has one.  MAX_STREAM_SIZE is 65536.                           *)
IsPacket(p) ==
  /\ p.blocks \in Seq([vertex : Fields, at : Nat, size : Nat])
  /\ \A i \in DOMAIN p.blocks : p.blocks[i].size = Len(Serialize(p.blocks[i].vertex))
  /\ Fills(p.blocks, p.size)
  /\ p.size \in 1 .. TooLong

ASSUME ArrivingAssumption == \A p \in Arriving : IsPacket(p)

SInit ==
  /\ packet \in Arriving
  /\ buf = Buffer(packet)
  /\ segment_start = 1
  /\ segments = <<>>

DelimitedByPairs(b) ==    \* mutant: two delimiters in a row are enough
  {i \in 1 .. Len(b) - 3 : b[i] = DELIM /\ b[i + 1] = DELIM}

(* Where the loop over the bytes sees the delimiters of a vertex. *)
Delimited(b) == {i \in 1 .. Len(b) - 3 : b[i] = DELIM /\ b[i + 3] = DELIM}

(* The first of them ends the vertex under way, and the next one starts    *)
(* behind it.  (What deserialize_data makes of a segment that is no vertex *)
(* can kill the process: Choke of Connection.)                             *)
Cut ==
  \E i \in Delimited(buf) :
    /\ i >= segment_start
    /\ \A j \in Delimited(buf) : j >= segment_start => i <= j
    /\ segments' = Append(segments, SubSeq(buf, segment_start, i + 3))
    /\ segment_start' = i + 4
    /\ UNCHANGED <<packet, buf>>

SSpec == SInit /\ [][Cut]_svars

-----------------------------------------------------------------------------
(* No delimiter is left.  If the last vertex has not ended with the packet *)
(* the loop goes on to receive as many bytes once more.                    *)
Finished == \A i \in Delimited(buf) : i < segment_start

Segment(k) ==
  SubSeq(buf, packet.blocks[k].at + 1, packet.blocks[k].at + packet.blocks[k].size)

Exact ==
  /\ segment_start = packet.size + 1
  /\ Len(segments) = Len(packet.blocks)
  /\ \A k \in DOMAIN segments : segments[k] = Segment(k)

Plain(p) == \A k \in DOMAIN p.blocks : ~ FalseDelimiter(p.blocks[k].vertex)

(* A packet is taken apart into the vertices it was made of exactly when   *)
(* none of them has bytes that look like a delimiter: a validator is       *)
(* misunderstood when its identifier has them, or has one where the round  *)
(* of a vertex has the other.  What was put into the vertices of a plain   *)
(* packet comes out of them, field by field.                               *)
SplitIsExact ==
  Finished =>
    /\ Exact <=> Plain(packet)
    /\ Plain(packet) => \A k \in DOMAIN segments :
                          Deserialize(segments[k]) = packet.blocks[k].vertex
=============================================================================
