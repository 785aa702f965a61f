----------------------------- MODULE Resending ------------------------------
(***************************************************************************)
(* Peer::send_missing_vertices: the vertices a peer seems to lack go into  *)
(* as many packets as it takes.  They are copied one behind the other into *)
(* a stream that grows; it is sent when it is full, and what is left in    *)
(* the end.  A vertex is a block of bytes of some size.                    *)
(***************************************************************************)
EXTENDS Naturals, Sequences

CONSTANTS
  Missing,     \* the vertices that can be missing
  Full,        \* a packet is sent from this size on
  StreamSize   \* the buffers of the receiver, MAX_STREAM_SIZE

ASSUME FullAssumption == Full \in Nat \ {0} /\ StreamSize \in Nat /\ Full <= StreamSize

VARIABLES
  reference_set,   \* what is still to be put into a packet
  packet_stream,   \* the blocks in the stream, <<>> when there is none
  packet_size,     \* the size of the stream
  current_length,  \* where the next vertex is copied to
  resent           \* the packets handed to the pool

packing == <<packet_stream, packet_size, current_length>>
rvars   == <<reference_set, packing, resent>>

(* A vertex at its place in a packet.  None is larger than the buffer has  *)
(* room for beyond a packet that is not full.                              *)
Sizes == 1 .. StreamSize + 1 - Full

Blocks == [vertex : Missing, at : Nat, size : Sizes]

RInit ==
  /\ reference_set = Missing
  /\ packet_stream = <<>>
  /\ packet_size = 0
  /\ current_length = 0
  /\ resent = <<>>

SendUnreset(blocks, size) ==    \* mutant: without current_length = 0
  /\ resent' = Append(resent, [blocks |-> blocks, size |-> size])
  /\ packet_stream' = <<>>
  /\ packet_size' = 0
  /\ current_length' = size

(* A packet is copied and enqueued, and everything starts from nothing.    *)
SendPacket(blocks, size) ==
  /\ resent' = Append(resent, [blocks |-> blocks, size |-> size])
  /\ packet_stream' = <<>>
  /\ packet_size' = 0
  /\ current_length' = 0

(* One vertex of the set, in no particular order, is looked up, serialised *)
(* and copied behind the others.                                           *)
AddVertex(v, size) ==
  LET blocks == Append(packet_stream,
                       [vertex |-> v, at |-> current_length, size |-> size])
      total  == packet_size + size
  IN  /\ v \in reference_set
      /\ reference_set' = reference_set \ {v}
      /\ \/ /\ total >= Full
            /\ SendPacket(blocks, total)
         \/ /\ total < Full
            /\ packet_stream' = blocks
            /\ packet_size' = total
            /\ current_length' = total
            /\ UNCHANGED resent

(* The last packet need not be full. *)
SendRest ==
  /\ reference_set = {}
  /\ packet_stream # <<>>
  /\ SendPacket(packet_stream, packet_size)
  /\ UNCHANGED reference_set

RNext ==
  \/ \E v \in Missing, size \in Sizes : AddVertex(v, size)
  \/ SendRest

RSpec == RInit /\ [][RNext]_rvars

-----------------------------------------------------------------------------
(* Blocks that fill so many bytes from the first to the last, each behind  *)
(* all those before it.                                                    *)
Fills(blocks, size) ==
  /\ blocks # <<>>
  /\ blocks[1].at = 0
  /\ \A i \in 1 .. Len(blocks) - 1 :
       blocks[i + 1].at = blocks[i].at + blocks[i].size
  /\ \A i, j \in DOMAIN blocks :
       i < j => blocks[i].at + blocks[i].size <= blocks[j].at
  /\ blocks[Len(blocks)].at + blocks[Len(blocks)].size = size

(* The packets sent, and the one under way. *)
Packed == Append(resent, [blocks |-> packet_stream, size |-> packet_size])

(* However many vertices are missing and whichever of the Sizes they have, *)
(* what is sent are packets the receiver has room for: none of them is     *)
(* empty (its length would be 0) or larger than the buffer, and each is    *)
(* filled by its vertices from the first byte to the last.                 *)
PacketsFit ==
  \A p \in DOMAIN resent :
    resent[p].size \in 1 .. StreamSize /\ Fills(resent[p].blocks, resent[p].size)

(* And every vertex is in one of them or in the one under way as soon as it*)
(* has left the set, and it is there once.                                 *)
NoneLeftOut ==
  \A v \in Missing :
    v \notin reference_set
      <=> \E p \in DOMAIN Packed : \E i \in DOMAIN Packed[p].blocks : Packed[p].blocks[i].vertex = v

NoneTwice ==
  \A p, q \in DOMAIN Packed :
    \A i \in DOMAIN Packed[p].blocks, j \in DOMAIN Packed[q].blocks :
      Packed[p].blocks[i].vertex = Packed[q].blocks[j].vertex => p = q /\ i = j

(* send_missing_vertices resends all it is asked for, in vertices of any   *)
(* of the Sizes: in packets that fit, nothing left out and nothing twice.  *)
ResentFits == PacketsFit /\ NoneLeftOut /\ NoneTwice
=============================================================================
