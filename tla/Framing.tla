------------------------------ MODULE Framing -------------------------------
(***************************************************************************)
(* How the vertices of a packet become bytes, and bytes vertices: four     *)
(* bytes of length are in front of the first, and every vertex is closed by*)
(* four delimiters.  A byte is a number below 256.                         *)
(***************************************************************************)
EXTENDS Naturals, Sequences

CONSTANTS
  HexHash,     \* the length of a hash
  RoundBound   \* all rounds are below it

ASSUME HexHashAssumption == HexHash \in 1 .. 255

(* A round has no delimiter in its second to last byte.                    *)
ASSUME RoundBoundAssumption == RoundBound \in 1 .. 35 * 256

DELIM  == 35

Byte == 0 .. 255

(* Numbers and letters, which is all there is in payloads and hashes. *)
Text == Byte \ {DELIM}

(* htonl. *)
Word(n) ==
  <<(n \div 16777216) % 256, (n \div 65536) % 256, (n \div 256) % 256, n % 256>>

(* A length as ntohl reads it; one that needs more than two bytes is beyond*)
(* every buffer, whatever it is.                                           *)
TooLong == 256 * 256

LengthAt(b, i) ==
  IF b[i] = 0 /\ b[i + 1] = 0 THEN b[i + 2] * 256 + b[i + 3] ELSE TooLong

Delimiters == <<DELIM, DELIM, DELIM, DELIM>>

(* The fields of a vertex.  The payload is the round and the identifier in *)
(* decimal digits, two dozen of them.                                      *)
Fields ==
  {v \in [round : 0 .. RoundBound - 1, peer_id : [1 .. 8 -> Byte],
          payload : Seq(Text), references : Seq([1 .. HexHash -> Text])] :
     Len(v.payload) < DELIM /\ Len(v.references) < TooLong}

(* The references are hashes of one length, one behind the other. *)
Joined(hashes) ==
  [i \in 1 .. Len(hashes) * HexHash |->
     hashes[((i - 1) \div HexHash) + 1][((i - 1) % HexHash) + 1]]

(* A vertex as the wire has it: round, peer_id as its eight bytes, payload *)
(* and references, these all of one length.                                *)
Serialize(v) ==
  Word(0) \o Word(v.round) \o v.peer_id
    \o Word(Len(v.payload)) \o v.payload
    \o Word(Len(v.references))
    \o (IF v.references = <<>> THEN <<>> ELSE Word(HexHash) \o Joined(v.references))
    \o Delimiters

(* deserialize_data, on bytes that hold the fields they announce. *)
Deserialize(b) ==
  LET p    == LengthAt(b, 17)
      at   == 21 + p
      size == IF LengthAt(b, at) = 0 THEN 0 ELSE LengthAt(b, at + 4)
  IN  [round      |-> LengthAt(b, 5),
       peer_id    |-> SubSeq(b, 9, 16),
       payload    |-> SubSeq(b, 21, at - 1),
       references |-> [i \in 1 .. LengthAt(b, at) |->
                         SubSeq(b, at + 8 + (i - 1) * size, at + 7 + i * size)]]

(* Bytes of a vertex that look like a delimiter: the last byte of the round*)
(* with the third of the identifier, or two of the identifier.             *)
FalseDelimiter(v) ==
  \/ v.round % 256 = DELIM /\ v.peer_id[3] = DELIM
  \/ \E j \in 1 .. 5 : v.peer_id[j] = DELIM /\ v.peer_id[j + 3] = DELIM
=============================================================================
