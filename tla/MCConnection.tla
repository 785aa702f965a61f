---------------------------- MODULE MCConnection ----------------------------
(***************************************************************************)
(* A packet and a request over one connection, from two workers, and a     *)
(* plain packet over another one; the way of a packet through c_recvn, for *)
(* packets of two vertices whose rounds and identifiers have delimiters for*)
(* bytes wherever they can; and vertices to resend.  Hashes and payloads   *)
(* are cut down for these, all other fields have their widths.             *)
(***************************************************************************)
EXTENDS Connection, Splitting

CONSTANTS c1, c2, m1, m2, r1, w1, w2, w3, v1, v2, v3, v4

Lengths == m1 :> 4 @@ m2 :> 3 @@ r1 :> 2

Connections == m1 :> c1 @@ r1 :> c1 @@ w1 :> c1 @@ w2 :> c1 @@ m2 :> c2 @@ w3 :> c2

Vertex(r, id, n) ==
  [round |-> r, peer_id |-> id, payload |-> <<45>>,
   references |-> [i \in 1 .. n |-> [j \in 1 .. HexHash |-> 96 + i + j]]]

(* The first byte of an identifier has been 23 or 24 for some years.       *)
Ids == {<<24>> \o s : s \in [1 .. 7 -> {7, DELIM}]}

Suspects ==
  {Vertex(r, id, 2) : r \in {x \in {1, 35, 291} : x < RoundBound}, id \in Ids}

Companion == Vertex(1, <<24, 7, 35, 7, 7, 7, 7, 7>>, 0)

(* One vertex in a packet, or one behind another. *)
Alone(v) ==
  LET size == Len(Serialize(v))
  IN  [blocks |-> <<[vertex |-> v, at |-> 0, size |-> size]>>, size |-> size]

Together(v, w) ==
  LET size == Len(Serialize(v)) + Len(Serialize(w))
  IN  [blocks |-> <<[vertex |-> v, at |-> 0, size |-> Len(Serialize(v))],
                    [vertex |-> w, at |-> Len(Serialize(v)), size |-> Len(Serialize(w))]>>,
       size |-> size]

Batches ==
  {Alone(Companion)} \cup {Together(v, Companion) : v \in Suspects}
    \cup {Together(Companion, v) : v \in Suspects}

Typical ==
  {Together(Companion, Vertex(35, <<24, 7, b, 7, 7, 7, 7, 7>>, 2)) : b \in {7, DELIM}}

mvars == <<cvars, svars, rvars>>

(* Whether packet m1 is plain depends on what it holds. *)
MInit ==
  /\ CInit
  /\ SInit
  /\ RInit
  /\ plain = IF Plain(packet) THEN {m1, m2} ELSE {m2}

(* One of the three at a time: messages are sent and received with packets *)
(* of either kind, all packets are cut, and vertices are put into packets. *)
Whole == segments = <<>>

Step == packet \in Typical /\ Whole /\ RInit /\ UNCHANGED <<svars, rvars>>

(* The server looks at is_up at the top of its loop and nowhere else, so   *)
(* when it is cleared before that makes no difference.                     *)
Looking == reader = "loop" /\ events = {}

Sends == Send /\ Step

Receives == Receive /\ Step

MNext ==
  \/ Sends
  \/ Receives
  \/ \E c \in Clients : Shutdown(c) /\ Step
  \/ TellToStop /\ Looking /\ Step
  \/ Cut /\ CInit /\ RInit /\ UNCHANGED <<cvars, rvars>>
  \/ RNext /\ packet = Alone(Companion) /\ CInit /\ Whole /\ UNCHANGED <<cvars, svars>>

MSpec == MInit /\ [][MNext]_mvars /\ WF_mvars(Sends) /\ WF_mvars(Receives)
=============================================================================
