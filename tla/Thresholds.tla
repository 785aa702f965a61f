----------------------------- MODULE Thresholds -----------------------------
(***************************************************************************)
(* The thresholds the validators compute from the number of peers given on *)
(* the command line.  The code computes them in floating point,            *)
(*     std::ceil((double)crowd / 3 - 1),                                   *)
(* once in the constructor of Peer and once more in Server::start.  For a  *)
(* positive integer crowd this is the integer ceil(crowd/3) - 1: crowd / 3 *)
(* is exact when 3 divides crowd and otherwise lies at least 1/3 away from *)
(* an integer, so the rounding of the division cannot change the ceiling.  *)
(***************************************************************************)
EXTENDS Naturals

ThirdTruncated(n) == n \div 3   \* mutant: the ceiling of crowd / 3 forgotten

(* ceil(n / 3) for n \in Nat *)
CeilThird(n) == (n + 2) \div 3

(* Peer::byzantines and the max_byzantines of Server::start. *)
Byzantines(crowd) == CeilThird(crowd) - 1

(* The number of vertices of a round a peer must hold in its DAG before it *)
(* leaves that round (Peer::buffer_scan_move_round).                       *)
RoundQuorum(crowd) == 2 * Byzantines(crowd) + 1

(* The number of references the server wants on every vertex that is not a *)
(* first-round vertex (majority in Server::start).                         *)
ServerMajority(crowd) == 2 * Byzantines(crowd) + 1
=============================================================================
