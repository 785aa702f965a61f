-------------------------- MODULE HandshakeProofs ---------------------------
(***************************************************************************)
(* The handshake between the two threads implements the mailbox, for any   *)
(* messages and any number of wake-ups for no reason.                      *)
(***************************************************************************)
EXTENDS Handshake, TLAPS

USE SpuriousAssumption

(* The holder of the mutex is where the code says it has locked it.        *)
MutexHeld ==
  /\ mutex = "scan" <=> scan \in {"locked", "signalled", "pass", "down", "release"}
  /\ mutex = "server" <=> server = "insert"

HandshakeInv == TypeOK /\ MutexHeld

-----------------------------------------------------------------------------
(* The threads start with the mutex free. *)
LEMMA HandshakeInit == Init => HandshakeInv
<1> SUFFICES ASSUME Init
             PROVE  HandshakeInv
  OBVIOUS
<1>1. ready \in BOOLEAN /\ is_up \in BOOLEAN
  BY Zenon DEF Init
<1>2. QED
  BY <1>1 DEF Init, HandshakeInv, TypeOK, MutexHeld

(* The steps of the scan thread take and release the mutex where they say. *)
LEMMA ScanThreadStep == HandshakeInv /\ ScanThread => HandshakeInv'
<1> SUFFICES ASSUME HandshakeInv, ScanThread
             PROVE  HandshakeInv'
  OBVIOUS
<1> USE DEF HandshakeInv, TypeOK, MutexHeld, lists
<1>1. CASE ScanLock
  BY <1>1 DEF ScanLock
<1>2. CASE SignalReady
  BY <1>2 DEF SignalReady
<1>3. CASE Wait
  BY <1>3 DEF Wait
<1>4. CASE StartPass
  BY <1>4 DEF StartPass
<1>5. ASSUME NEW m \in unvisited, VisitOne(m)
      PROVE  HandshakeInv'
  BY <1>5 DEF VisitOne, threads
<1>6. CASE GoOn
  BY <1>6 DEF GoOn
<1>7. CASE Leave
  BY <1>7 DEF Leave
<1>8. CASE ReleaseServer
  BY <1>8 DEF ReleaseServer
<1>9. CASE Left
  BY <1>9 DEF Left
<1>10. QED
  BY <1>1, <1>2, <1>3, <1>4, <1>5, <1>6, <1>7, <1>8, <1>9 DEF ScanThread

(* So do those of the server thread. *)
LEMMA ServerThreadStep == HandshakeInv /\ ServerThread => HandshakeInv'
<1> SUFFICES ASSUME HandshakeInv, ServerThread
             PROVE  HandshakeInv'
  OBVIOUS
<1> USE DEF HandshakeInv, TypeOK, MutexHeld, lists
<1>1. CASE TestIsUp
  BY <1>1 DEF TestIsUp
<1>2. ASSUME NEW batch \in SUBSET net, Poll(batch)
      PROVE  HandshakeInv'
  BY <1>2 DEF Poll
<1>3. CASE Spin
  BY <1>3 DEF Spin
<1>4. CASE Claim
  BY <1>4 DEF Claim
<1>5. CASE ServerLock
  BY <1>5 DEF ServerLock
<1>6. CASE Insert
  BY <1>6 DEF Insert
<1>7. CASE Notify
  BY <1>7 DEF Notify
<1>8. CASE Clear
  BY <1>8 DEF Clear
<1>9. QED
  BY <1>1, <1>2, <1>3, <1>4, <1>5, <1>6, <1>7, <1>8 DEF ServerThread

(* The invariant is inductive. *)
LEMMA HandshakeStep == HandshakeInv /\ [Next]_hvars => HandshakeInv'
<1> SUFFICES ASSUME HandshakeInv, [Next]_hvars
             PROVE  HandshakeInv'
  OBVIOUS
<1>1. CASE WakeForNoReason
  BY <1>1 DEF WakeForNoReason, HandshakeInv, TypeOK, MutexHeld, lists
<1>2. CASE UNCHANGED hvars
  BY <1>2 DEF hvars, HandshakeInv, TypeOK, MutexHeld, lists, threads
<1>3. QED
  BY <1>1, <1>2, ScanThreadStep, ServerThreadStep DEF Next

(* The state of the two threads is well typed, and the mutex is held by    *)
(* the thread that is inside the section it guards.                        *)
THEOREM HandshakeSafe == Spec => []HandshakeInv
  BY HandshakeInit, HandshakeStep, PTL DEF Spec

(* Type correctness of the handshake. *)
THEOREM HandshakeTypeCorrect == Spec => []TypeOK
<1>1. HandshakeInv => TypeOK
  BY DEF HandshakeInv
<1>2. QED
  BY <1>1, HandshakeSafe, PTL

-----------------------------------------------------------------------------
(* What the steps of the scan thread are to the mailbox: the beginning of  *)
(* a pass, a visit, the end of a pass, or nothing.                         *)
LEMMA ScanThreadMaps == ScanThread \/ WakeForNoReason => [MB!Next]_(MB!vars)
<1> USE DEF MB!vars, lists
<1>1. ASSUME ScanLock \/ SignalReady \/ Wait \/ ReleaseServer \/ Left \/ WakeForNoReason
      PROVE  UNCHANGED MB!vars
  BY <1>1 DEF ScanLock, SignalReady, Wait, ReleaseServer, Left, WakeForNoReason
<1>2. StartPass => MB!StartPass
  BY DEF StartPass, MB!StartPass
<1>3. ASSUME NEW m \in unvisited, VisitOne(m)
      PROVE  MB!VisitOne(m)
  BY <1>3 DEF VisitOne, MB!VisitOne, threads
<1>4. GoOn \/ Leave => MB!EndPass
  BY DEF GoOn, Leave, MB!EndPass
<1>5. QED
  BY <1>1, <1>2, <1>3, <1>4 DEF ScanThread, MB!Next

(* What the steps of the server thread are to the mailbox.  The insertion  *)
(* is the handoff; the mutex keeps it out of the passes.                   *)
LEMMA ServerThreadMaps == HandshakeInv /\ ServerThread => [MB!Next]_(MB!vars)
<1> SUFFICES ASSUME HandshakeInv, ServerThread
             PROVE  [MB!Next]_(MB!vars)
  OBVIOUS
<1> USE DEF MB!vars, lists
<1>1. ASSUME TestIsUp \/ Spin \/ Claim \/ ServerLock \/ Notify \/ Clear
      PROVE  UNCHANGED MB!vars
  BY <1>1 DEF TestIsUp, Spin, Claim, ServerLock, Notify, Clear
<1>2. ASSUME NEW batch \in SUBSET net, Poll(batch)
      PROVE  MB!Next
  <2>1. MB!Receive(batch \cap Messages)
    BY <1>2 DEF Poll, MB!Receive
  <2>2. QED
    BY <2>1 DEF MB!Next
<1>3. CASE Insert
  <2>1. scan # "pass"
    BY <1>3 DEF Insert, HandshakeInv, MutexHeld
  <2>2. MB!HandOver
    BY <1>3, <2>1 DEF Insert, MB!HandOver
  <2>3. QED
    BY <2>2 DEF MB!Next
<1>4. QED
  BY <1>1, <1>2, <1>3 DEF ServerThread

(* Flags, mutex and condition variable implement the mailbox: vertices and *)
(* requests pass from Server::start to buffer_scan_move_round whole, once, *)
(* and outside the passes.                                                 *)
THEOREM HandshakeIsMailbox == Spec => ImplementsMailbox
<1>1. Init => MB!Init
  BY DEF Init, MB!Init
<1>2. HandshakeInv /\ [Next]_hvars => [MB!Next]_(MB!vars)
  <2>1. UNCHANGED hvars => UNCHANGED MB!vars
    BY DEF hvars, MB!vars, lists, threads
  <2>2. QED
    BY <2>1, ScanThreadMaps, ServerThreadMaps DEF Next
<1>3. QED
  BY <1>1, <1>2, HandshakeSafe, PTL DEF Spec, ImplementsMailbox, MB!Spec
=============================================================================
