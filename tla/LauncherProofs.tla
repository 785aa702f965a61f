--------------------------- MODULE LauncherProofs ---------------------------
(***************************************************************************)
(* No validator reads the identifier another one had in an earlier run,    *)
(* and the verdict of the launcher is right: for any number of validators, *)
(* any length of a wave, any DAGs, and whoever dies when.                  *)
(***************************************************************************)
EXTENDS Launcher, FiniteSetTheorems, SequenceTheorems, TLAPS

USE NAssumption DEF Peers

-----------------------------------------------------------------------------
(* The stages of a start.  The launcher has waited for every child but the *)
(* one it waits for; it wakes them when all have stopped, and only then do *)
(* they connect.                                                           *)
Starting == {"new", "listening", "constructed"}

Awake == {"setup", "running", "finished", "written"}

Waited(q) == q < children \/ (q = children /\ main # "waitpid")

StageInv ==
  /\ status \in [Peers -> Statuses]
  /\ main \in {"fork", "waitpid", "killpg", "wait", "read"}
  /\ children \in 0 .. N
  /\ main = "fork" => children < N
  /\ main = "waitpid" => children > 0
  /\ main \in {"killpg", "wait", "read"} => children = N
  /\ \A q \in Peers : status[q] = "unborn" <=> q > children
  /\ \A q \in Peers : Waited(q) => status[q] \notin Starting
  /\ \A q \in Peers : status[q] \in Awake => main \in {"wait", "read"}

FileInv ==
  /\ idfile \subseteq Peers
  /\ \A q \in Peers :
       status[q] \in {"constructed", "stopped"} \cup Awake => q \in idfile
  /\ socket_map \in [Peers -> [Peers -> {"none", "id"}]]

(* The steps of a validator, as far as its stage goes. *)
LEMMA ValidatorStages ==
  ASSUME StageInv, NEW p \in Peers, Validator(p)
  PROVE  StageInv'
<1> USE DEF Statuses, Starting, Awake, Waited
<1>1. UNCHANGED <<main, children>>
  BY DEF Validator, Listen, WriteId, Stop, Connect, ConnectFails, Start, Run, Die, Write,
         HashRunsOut, Exit, Unread, parent
<1>2. \/ UNCHANGED status
      \/ \E from, to \in Statuses :
           /\ status[p] = from
           /\ status' = [status EXCEPT ![p] = to]
           /\ from # "unborn" /\ to # "unborn"
           /\ to \in Starting => from \in Starting
           /\ to \in Awake => from \in Awake
  <2>1. CASE Listen(p) \/ WriteId(p) \/ Stop(p)
    BY <2>1 DEF Listen, WriteId, Stop, Goes
  <2>2. CASE \E q \in Peers : Connect(p, q) \/ ConnectFails(p, q)
    BY <2>2 DEF Connect, ConnectFails, Goes
  <2>3. CASE Start(p) \/ Run(p) \/ Write(p) \/ HashRunsOut(p) \/ Exit(p)
    BY <2>3 DEF Start, Run, Write, HashRunsOut, Exit, Goes
  <2>4. CASE Die(p)
    BY <2>4 DEF Die, Goes
  <2>5. QED
    BY <2>1, <2>2, <2>3, <2>4 DEF Validator
<1>3. QED
  BY <1>1, <1>2 DEF StageInv

(* The steps of the launcher. *)
LEMMA MainStages ==
  ASSUME StageInv, Main
  PROVE  StageInv'
<1> USE DEF Statuses, Starting, Awake, Waited, StageInv
<1>1. CASE Fork
  BY <1>1 DEF Fork, Goes
<1>2. CASE WaitForStop
  <2>1. UNCHANGED <<status, children>> /\ main = "waitpid" /\ main' = AfterChild
    BY <1>2 DEF WaitForStop
  <2>2. status[children] \notin Starting
    BY <1>2 DEF WaitForStop
  <2>3. QED
    BY <2>1, <2>2 DEF AfterChild
<1>3. CASE WakeAll
  BY <1>3 DEF WakeAll
<1>4. CASE Wait \/ Read
  BY <1>4 DEF Wait, Read
<1>5. QED
  BY <1>1, <1>2, <1>3, <1>4 DEF Main

(* When a validator connects, all the others have built their servers.     *)
LEMMA FilesKept ==
  ASSUME StageInv, FileInv, [LNext]_lvars
  PROVE  FileInv'
<1> USE DEF Statuses, Starting, Awake, Waited, StageInv
<1>1. CASE UNCHANGED lvars
  BY <1>1 DEF lvars, parent, FileInv
<1>2. CASE Main
  <2>1. UNCHANGED <<idfile, socket_map>>
    BY <1>2 DEF Main, Fork, WaitForStop, WakeAll, Wait, Read
  <2>2. \A q \in Peers : status'[q] \in {"constructed", "stopped"} \cup Awake =>
          status[q] \in {"constructed", "stopped"} \cup Awake
    BY <1>2 DEF Main, Fork, WaitForStop, WakeAll, Wait, Read, Goes
  <2>3. QED
    BY <2>1, <2>2 DEF FileInv
<1>3. ASSUME NEW p \in Peers, Validator(p)
      PROVE  FileInv'
  <2>1. CASE Listen(p) \/ Stop(p) \/ Start(p) \/ Run(p) \/ Die(p) \/ Write(p)
               \/ HashRunsOut(p) \/ Exit(p)
    BY <2>1 DEF Listen, Stop, Start, Run, Die, Write, HashRunsOut, Exit, Goes, FileInv
  <2>2. CASE WriteId(p)
    BY <2>2 DEF WriteId, Goes, FileInv
  <2>3. ASSUME NEW q \in Peers, ConnectFails(p, q)
        PROVE  FileInv'
    BY <2>3 DEF ConnectFails, Goes, FileInv
  <2>4. ASSUME NEW q \in Peers, Connect(p, q)
        PROVE  FileInv'
    <3>1. status[q] \notin Starting
      BY <2>4 DEF Connect
    <3>2. q \in idfile
      BY <2>4, <3>1 DEF Connect, Listening, FileInv
    <3>3. socket_map' = [socket_map EXCEPT ![p][q] = "id"] /\ UNCHANGED <<status, idfile>>
      BY <2>4, <3>2 DEF Connect
    <3>4. QED
      BY <3>3 DEF FileInv
  <2>5. QED
    BY <1>3, <2>1, <2>2, <2>3, <2>4 DEF Validator
<1>4. QED
  BY <1>1, <1>2, <1>3 DEF LNext

(* The invariant is inductive. *)
LEMMA StageStep == StageInv /\ [LNext]_lvars => StageInv'
<1> SUFFICES ASSUME StageInv, [LNext]_lvars
             PROVE  StageInv'
  OBVIOUS
<1>1. CASE UNCHANGED lvars
  BY <1>1 DEF lvars, parent, StageInv, Waited
<1>2. QED
  BY <1>1, MainStages, ValidatorStages DEF LNext

(* At the start there are no children, and no files of this run. *)
LEMMA StageStart == LInit => StageInv /\ FileInv
  BY DEF LInit, StageInv, FileInv, Statuses, Starting, Awake, Waited

(* A validator knows the others by the identifiers of this run, although a *)
(* server takes connections before its file is written: the launcher wakes *)
(* nobody before all have stopped (main.cpp).                              *)
THEOREM IdsAreFreshHolds == LSpec => []IdsAreFresh
<1>1. StageInv /\ FileInv => IdsAreFresh
  BY DEF FileInv, IdsAreFresh
<1>2. StageInv /\ FileInv /\ [LNext]_lvars => (StageInv /\ FileInv)'
  BY StageStep, FilesKept
<1>3. QED
  BY <1>1, <1>2, StageStart, PTL DEF LSpec

-----------------------------------------------------------------------------
(* The digests on their way through the pipe.  Each that is written is in  *)
(* the pipe or has been read; a read that finds the pipe empty comes after *)
(* the last of them.                                                       *)
Read1(p) == <<Digest(dag_image[p])>>

Digests == {Digest(d) : d \in DAGs}

WriterInv ==
  /\ last_round \in Nat
  /\ wrote \subseteq Peers
  /\ \A p \in wrote :
       /\ status[p] \in {"written", "dead"}
       /\ dag_image[p] \in DAGs
       /\ Len(dag_image[p]) = last_round
       /\ last_round >= 3 * Wave
  /\ DOMAIN dag_image = Peers
  /\ \A p \in Peers :
       status[p] = "finished" =>
         dag_image[p] \in DAGs /\ Len(dag_image[p]) = last_round

ReaderTypes ==
  /\ fd \in Seq(Digests)
  /\ buffer \in Seq(Digests)
  /\ dags \in Seq(Seq(Digests))
  /\ counter \in 0 .. N
  /\ Len(dags) + counter = N
  /\ main = "read" => counter > 0

NothingLost ==
  \A p \in wrote :
    \/ \E i \in 1 .. Len(dags) : dags[i] = Read1(p)
    \/ \E i \in 1 .. Len(fd) : fd[i] = Digest(dag_image[p])

NothingMadeUp ==
  /\ \A i \in 1 .. Len(fd) : \E p \in wrote : fd[i] = Digest(dag_image[p])
  /\ \A i \in 1 .. Len(dags) :
       \/ dags[i] = <<>> /\ wrote = {} /\ Ended = Peers
       \/ \E p \in wrote : dags[i] = Read1(p)

Counted ==
  \/ Len(dags) + Len(fd) = Cardinality(wrote)
  \/ Ended = Peers /\ fd = <<>>

LastRead ==
  IF dags = <<>> THEN buffer = <<>> ELSE buffer = dags[Len(dags)]

(* What makes the comparison of neighbours enough. *)
AlikeOrNot ==
  \/ \A i, j \in 1 .. Len(dags) : dags[i] = dags[j]
  \/ \E i \in 1 .. Len(dags) - 1 : dags[i] # dags[i + 1]

VerdictInv ==
  /\ StageInv
  /\ WriterInv
  /\ ReaderTypes
  /\ NothingLost
  /\ NothingMadeUp
  /\ Counted
  /\ LastRead
  /\ AlikeOrNot

(* There are N of them. *)
LEMMA PeersFinite == IsFiniteSet(Peers) /\ Cardinality(Peers) = N
<1>1. 1 \in Int /\ N \in Int /\ ~ 1 > N
  OBVIOUS
<1>2. QED
  BY <1>1, FS_Interval

(* So there are N writers at most. *)
LEMMA WritersAreFinite ==
  ASSUME VerdictInv
  PROVE  /\ IsFiniteSet(wrote)
         /\ Cardinality(wrote) \in Nat
         /\ Cardinality(wrote) <= N
<1>1. wrote \in SUBSET Peers
  BY DEF VerdictInv, WriterInv
<1>2. IsFiniteSet(Peers) /\ Cardinality(Peers) = N
  BY PeersFinite
<1> HIDE DEF Peers
<1>3. IsFiniteSet(wrote) /\ Cardinality(wrote) <= Cardinality(Peers)
  BY <1>1, <1>2, FS_Subset
<1>4. QED
  BY <1>2, <1>3, FS_CardinalityType

(* The steps of which the digests notice nothing, unless a validator ends. *)
LEMMA Unnoticed ==
  ASSUME VerdictInv, StageInv', WriterInv',
         UNCHANGED <<fd, buffer, dags, counter, wrote>>,
         main' = "read" => counter > 0,
         \A p \in wrote : dag_image'[p] = dag_image[p],
         Ended \subseteq Ended'
  PROVE  VerdictInv'
<1>1. ReaderTypes' /\ LastRead' /\ AlikeOrNot'
  BY DEF VerdictInv, ReaderTypes, LastRead, AlikeOrNot
<1>2. NothingLost'
  BY DEF VerdictInv, NothingLost, Read1
<1>3. Ended = Peers => Ended' = Peers
  BY DEF Ended
<1>4. NothingMadeUp'
  BY <1>3 DEF VerdictInv, NothingMadeUp, Read1
<1>5. Counted'
  BY <1>3 DEF VerdictInv, Counted
<1>6. QED
  BY <1>1, <1>2, <1>4, <1>5 DEF VerdictInv

(* A digest that is written goes to the end of the pipe; its writer has    *)
(* not ended, so no read has found the pipe empty.                         *)
LEMMA WriteKeeps ==
  ASSUME VerdictInv, StageInv', NEW p \in Peers, Write(p)
  PROVE  VerdictInv'
<1>1. /\ status[p] = "finished" /\ status' = [status EXCEPT ![p] = "written"]
      /\ fd' = Append(fd, Digest(dag_image[p]))
      /\ wrote' = wrote \cup {p}
      /\ Len(dag_image[p]) >= 3 * Wave
      /\ UNCHANGED <<last_round, main, counter, buffer, dags, dag_image>>
  BY DEF Write, Goes, parent
<1>2. /\ dag_image[p] \in DAGs /\ Len(dag_image[p]) = last_round
      /\ p \notin wrote /\ p \notin Ended
  BY <1>1 DEF VerdictInv, WriterInv, Ended
<1>3. WriterInv'
  BY <1>1, <1>2 DEF VerdictInv, WriterInv, StageInv
<1>4. /\ fd' \in Seq(Digests)
      /\ Len(fd) \in Nat /\ Len(fd') = Len(fd) + 1
      /\ fd'[Len(fd) + 1] = Digest(dag_image[p])
      /\ \A i \in 1 .. Len(fd) : fd'[i] = fd[i]
  <2>1. Digest(dag_image[p]) \in Digests /\ fd \in Seq(Digests)
    BY <1>2 DEF Digests, VerdictInv, ReaderTypes
  <2>2. QED
    BY <1>1, <2>1
<1>5. ReaderTypes' /\ LastRead' /\ AlikeOrNot'
  BY <1>1, <1>4 DEF VerdictInv, ReaderTypes, LastRead, AlikeOrNot
<1>6. NothingLost'
  <2>1. ASSUME NEW q \in wrote', ~ \E i \in 1 .. Len(dags) : dags[i] = Read1(q)
        PROVE  \E i \in 1 .. Len(fd') : fd'[i] = Digest(dag_image[q])
    <3>1. CASE q = p
      BY <1>4, <3>1
    <3>2. CASE q # p
      <4>1. PICK i \in 1 .. Len(fd) : fd[i] = Digest(dag_image[q])
        BY <1>1, <2>1, <3>2 DEF VerdictInv, NothingLost
      <4>2. QED
        BY <1>4, <4>1
    <3>3. QED
      BY <3>1, <3>2
  <2>2. QED
    BY <1>1, <2>1 DEF NothingLost, Read1
<1>7. NothingMadeUp'
  <2>1. Ended # Peers
    BY <1>2
  <2>2. \A i \in 1 .. Len(fd') : \E q \in wrote' : fd'[i] = Digest(dag_image'[q])
    BY <1>1, <1>4 DEF VerdictInv, NothingMadeUp
  <2>3. \A i \in 1 .. Len(dags) : \E q \in wrote' : dags[i] = Read1(q)
    BY <1>1, <2>1 DEF VerdictInv, NothingMadeUp
  <2>4. QED
    BY <1>1, <2>2, <2>3 DEF NothingMadeUp, Read1
<1>8. Counted'
  <2>1. Len(dags) + Len(fd) = Cardinality(wrote)
    BY <1>2 DEF VerdictInv, Counted
  <2>2. IsFiniteSet(wrote)
    BY WritersAreFinite
  <2>3. Cardinality(wrote') = Cardinality(wrote) + 1
    BY <1>1, <1>2, <2>2, FS_AddElement
  <2>4. Len(dags) \in Nat
    BY DEF VerdictInv, ReaderTypes
  <2>5. QED
    BY <1>1, <1>4, <2>1, <2>3, <2>4 DEF Counted
<1>9. QED
  BY <1>3, <1>5, <1>6, <1>7, <1>8 DEF VerdictInv

(* Appending to what was read keeps neighbours telling. *)
LEMMA AppendTells ==
  ASSUME VerdictInv, NEW x, dags' = Append(dags, x)
  PROVE  AlikeOrNot'
<1>1. /\ Len(dags) \in Nat
      /\ Len(dags') = Len(dags) + 1
      /\ dags'[Len(dags) + 1] = x
      /\ \A i \in 1 .. Len(dags) : dags'[i] = dags[i]
  BY DEF VerdictInv, ReaderTypes
<1>2. CASE Len(dags) = 0
  BY <1>1, <1>2 DEF AlikeOrNot
<1>3. CASE Len(dags) # 0 /\ \A i, j \in 1 .. Len(dags) : dags[i] = dags[j]
  <2>1. Len(dags) \in 1 .. Len(dags)
    BY <1>1, <1>3
  <2>2. CASE dags[Len(dags)] = x
    BY <1>1, <1>3, <2>1, <2>2 DEF AlikeOrNot
  <2>3. CASE dags[Len(dags)] # x
    <3>1. dags'[Len(dags)] # dags'[Len(dags) + 1]
      BY <1>1, <2>1, <2>3
    <3>2. Len(dags) \in 1 .. Len(dags') - 1
      BY <1>1, <2>1
    <3>3. QED
      BY <3>1, <3>2 DEF AlikeOrNot
  <2>4. QED
    BY <2>2, <2>3
<1>4. CASE \E i \in 1 .. Len(dags) - 1 : dags[i] # dags[i + 1]
  <2>1. PICK i \in 1 .. Len(dags) - 1 : dags[i] # dags[i + 1]
    BY <1>4
  <2>2. /\ i \in 1 .. Len(dags) /\ i + 1 \in 1 .. Len(dags)
        /\ i \in 1 .. Len(dags') - 1
    BY <1>1, <2>1
  <2>3. dags'[i] # dags'[i + 1]
    BY <1>1, <2>1, <2>2
  <2>4. QED
    BY <2>2, <2>3 DEF AlikeOrNot
<1>5. QED
  BY <1>2, <1>3, <1>4 DEF VerdictInv, AlikeOrNot

(* Reading the first digest of the pipe moves it to those read. *)
LEMMA ReadKeeps ==
  ASSUME VerdictInv, StageInv', Read, fd # <<>>
  PROVE  VerdictInv'
<1>1. /\ main = "read" /\ main' = "wait"
      /\ buffer' = <<Head(fd)>> /\ fd' = Tail(fd)
      /\ dags' = Append(dags, buffer')
      /\ counter' = counter - 1
      /\ UNCHANGED <<last_round, status, dag_image, wrote>>
  BY DEF Read
<1>2. WriterInv'
  BY <1>1 DEF VerdictInv, WriterInv
<1>3. /\ fd \in Seq(Digests) /\ fd' \in Seq(Digests)
      /\ Len(fd) \in Nat \ {0} /\ Len(fd') = Len(fd) - 1
      /\ \A i \in 1 .. Len(fd) - 1 : fd'[i] = fd[i + 1]
      /\ fd[1] \in Digests /\ buffer' = <<fd[1]>>
  BY <1>1 DEF VerdictInv, ReaderTypes
<1>4. buffer' \in Seq(Digests)
  BY <1>3
<1>5. /\ dags' \in Seq(Seq(Digests))
      /\ Len(dags) \in Nat
      /\ Len(dags') = Len(dags) + 1
      /\ dags'[Len(dags) + 1] = buffer'
      /\ \A i \in 1 .. Len(dags) : dags'[i] = dags[i]
  BY <1>1, <1>4 DEF VerdictInv, ReaderTypes
<1>6. ReaderTypes'
  <2>1. /\ counter \in 0 .. N /\ counter > 0 /\ Len(dags) + counter = N
    BY <1>1 DEF VerdictInv, ReaderTypes
  <2>2. counter' \in 0 .. N /\ Len(dags') + counter' = N
    <3>1. counter' = counter - 1 /\ Len(dags) \in Nat /\ Len(dags') = Len(dags) + 1
      BY <1>1, <1>5
    <3>2. QED
      BY <2>1, <3>1
  <2>3. QED
    BY <1>1, <1>3, <1>4, <1>5, <2>2 DEF ReaderTypes
<1>7. NothingLost'
  <2>1. ASSUME NEW p \in wrote
        PROVE  \/ \E i \in 1 .. Len(dags') : dags'[i] = Read1(p)
               \/ \E i \in 1 .. Len(fd') : fd'[i] = Digest(dag_image[p])
    <3>1. ASSUME NEW i \in 1 .. Len(dags), dags[i] = Read1(p)
          PROVE  \E j \in 1 .. Len(dags') : dags'[j] = Read1(p)
      BY <1>5, <3>1
    <3>2. ASSUME NEW i \in 1 .. Len(fd), fd[i] = Digest(dag_image[p])
          PROVE  \/ \E j \in 1 .. Len(dags') : dags'[j] = Read1(p)
                 \/ \E j \in 1 .. Len(fd') : fd'[j] = Digest(dag_image[p])
      <4>1. CASE i = 1
        <5>1. dags'[Len(dags) + 1] = Read1(p)
          BY <1>3, <1>5, <3>2, <4>1 DEF Read1
        <5>2. Len(dags) + 1 \in 1 .. Len(dags')
          BY <1>5
        <5>3. QED
          BY <5>1, <5>2
      <4>2. CASE i # 1
        <5>1. i - 1 \in 1 .. Len(fd) - 1 /\ i - 1 \in 1 .. Len(fd')
          BY <1>3, <4>2
        <5>2. fd'[i - 1] = fd[i]
          BY <1>3, <5>1
        <5>3. QED
          BY <3>2, <5>1, <5>2
      <4>3. QED
        BY <4>1, <4>2
    <3>3. QED
      BY <3>1, <3>2 DEF VerdictInv, NothingLost
  <2>2. QED
    BY <1>1, <2>1 DEF NothingLost, Read1
<1>8. NothingMadeUp'
  <2>1. \A i \in 1 .. Len(fd') : \E p \in wrote : fd'[i] = Digest(dag_image[p])
    BY <1>3 DEF VerdictInv, NothingMadeUp
  <2>2. PICK p \in wrote : buffer' = Read1(p)
    BY <1>3 DEF VerdictInv, NothingMadeUp, Read1
  <2>3. ASSUME NEW i \in 1 .. Len(dags')
        PROVE  \/ dags'[i] = <<>> /\ wrote = {} /\ Ended = Peers
               \/ \E q \in wrote : dags'[i] = Read1(q)
    <3>1. CASE i \in 1 .. Len(dags)
      <4>1. dags'[i] = dags[i]
        BY <1>5, <3>1
      <4>2. QED
        BY <3>1, <4>1 DEF VerdictInv, NothingMadeUp
    <3>2. CASE i = Len(dags) + 1
      BY <1>5, <2>2, <3>2
    <3>3. QED
      BY <1>5, <3>1, <3>2
  <2>4. QED
    BY <1>1, <2>1, <2>3 DEF NothingMadeUp, Read1, Ended
<1>9. Counted'
  BY <1>1, <1>3, <1>5 DEF VerdictInv, Counted
<1>10. LastRead'
  BY <1>5 DEF LastRead
<1>11. QED
  BY <1>1, <1>2, <1>6, <1>7, <1>8, <1>9, <1>10, AppendTells DEF VerdictInv

(* Reading from the empty pipe, when all have ended, gives the last digest *)
(* once more.                                                              *)
LEMMA ReadNothingKeeps ==
  ASSUME VerdictInv, StageInv', Read, fd = <<>>
  PROVE  VerdictInv'
<1>1. /\ main = "read" /\ main' = "wait"
      /\ Ended = Peers
      /\ dags' = Append(dags, buffer)
      /\ counter' = counter - 1
      /\ UNCHANGED <<last_round, fd, buffer, status, dag_image, wrote>>
  BY DEF Read
<1>2. WriterInv'
  BY <1>1 DEF VerdictInv, WriterInv
<1>3. /\ dags' \in Seq(Seq(Digests))
      /\ Len(dags) \in Nat
      /\ Len(dags') = Len(dags) + 1
      /\ dags'[Len(dags) + 1] = buffer
      /\ \A i \in 1 .. Len(dags) : dags'[i] = dags[i]
  BY <1>1 DEF VerdictInv, ReaderTypes
<1>4. ReaderTypes'
  <2>1. /\ counter \in 0 .. N /\ counter > 0 /\ Len(dags) + counter = N
        /\ fd \in Seq(Digests) /\ buffer \in Seq(Digests)
    BY <1>1 DEF VerdictInv, ReaderTypes
  <2>2. counter' \in 0 .. N /\ Len(dags') + counter' = N
    <3>1. counter' = counter - 1 /\ Len(dags) \in Nat /\ Len(dags') = Len(dags) + 1
      BY <1>1, <1>3
    <3>2. QED
      BY <2>1, <3>1
  <2>3. QED
    BY <1>1, <1>3, <2>1, <2>2 DEF ReaderTypes
<1>5. NothingLost'
  <2>1. Len(fd) = 0
    OBVIOUS
  <2>2. ASSUME NEW p \in wrote
        PROVE  \E i \in 1 .. Len(dags') : dags'[i] = Read1(p)
    <3>1. PICK i \in 1 .. Len(dags) : dags[i] = Read1(p)
      BY <2>1 DEF VerdictInv, NothingLost
    <3>2. QED
      BY <1>3, <3>1
  <2>3. QED
    BY <1>1, <2>2 DEF NothingLost, Read1
<1>6. \/ buffer = <<>> /\ wrote = {}
      \/ \E p \in wrote : buffer = Read1(p)
  <2>1. CASE dags = <<>>
    BY <2>1 DEF VerdictInv, LastRead, NothingLost
  <2>2. CASE dags # <<>>
    <3>1. Len(dags) \in 1 .. Len(dags) /\ buffer = dags[Len(dags)]
      BY <2>2 DEF VerdictInv, LastRead, ReaderTypes
    <3>2. QED
      BY <3>1 DEF VerdictInv, NothingMadeUp
  <2>3. QED
    BY <2>1, <2>2
<1>7. NothingMadeUp'
  <2>1. \A i \in 1 .. Len(dags') :
          \/ dags'[i] = <<>> /\ wrote = {} /\ Ended = Peers
          \/ \E p \in wrote : dags'[i] = Read1(p)
    BY <1>1, <1>3, <1>6 DEF VerdictInv, NothingMadeUp
  <2>2. QED
    BY <1>1, <2>1 DEF NothingMadeUp, VerdictInv, Read1, Ended
<1>8. Counted'
  BY <1>1 DEF Counted, Ended
<1>9. LastRead'
  BY <1>1, <1>3 DEF LastRead
<1>10. QED
  BY <1>1, <1>2, <1>4, <1>5, <1>7, <1>8, <1>9, AppendTells DEF VerdictInv

(* The other steps: the DAG of a validator is fixed when it writes, and a  *)
(* validator that has ended stays so.                                      *)
LEMMA OthersKeep ==
  ASSUME VerdictInv, StageInv', [LNext]_lvars, ~ Read, \A p \in Peers : ~ Write(p)
  PROVE  VerdictInv'
<1> USE DEF parent, Unread
<1>1. CASE UNCHANGED lvars
  BY <1>1, Unnoticed DEF lvars, VerdictInv, WriterInv, ReaderTypes, Ended
<1>2. CASE Main
  <2>1. /\ UNCHANGED <<last_round, fd, buffer, dags, counter, wrote, dag_image>>
        /\ main' = "read" => counter > 0
    BY <1>2 DEF Main, Fork, WaitForStop, AfterChild, WakeAll, Wait, VerdictInv, ReaderTypes
  <2>2. \A p \in Peers :
          /\ status[p] \in {"finished", "written", "dead"} => status'[p] = status[p]
          /\ status'[p] = "finished" => status[p] = "finished"
    BY <1>2 DEF Main, Fork, WaitForStop, WakeAll, Wait, Goes, VerdictInv, StageInv
  <2>3. WriterInv' /\ Ended \subseteq Ended'
    BY <2>1, <2>2 DEF VerdictInv, WriterInv, Ended
  <2>4. QED
    BY <2>1, <2>3, Unnoticed DEF VerdictInv, WriterInv
<1>3. ASSUME NEW p \in Peers, Validator(p)
      PROVE  VerdictInv'
  <2>1. UNCHANGED <<last_round, main, fd, buffer, dags, counter, wrote>>
    BY <1>3 DEF Validator, Listen, WriteId, Stop, Connect, ConnectFails, Start, Run, Die,
                HashRunsOut, Exit
  <2>2. CASE Run(p)
    <3>1. PICK d \in DAGs : Len(d) = last_round /\ dag_image' = [dag_image EXCEPT ![p] = d]
      BY <2>2 DEF Run
    <3>2. status[p] = "running" /\ status' = [status EXCEPT ![p] = "finished"]
      BY <2>2 DEF Run, Goes
    <3>3. p \notin wrote
      BY <3>2 DEF VerdictInv, WriterInv
    <3>4. WriterInv' /\ Ended \subseteq Ended'
      BY <2>1, <3>1, <3>2, <3>3 DEF VerdictInv, WriterInv, StageInv, Ended
    <3>5. QED
      BY <2>1, <3>1, <3>3, <3>4, Unnoticed DEF VerdictInv, WriterInv, ReaderTypes
  <2>3. CASE ~ Run(p)
    <3>1. UNCHANGED dag_image
      BY <1>3, <2>3 DEF Validator, Listen, WriteId, Stop, Connect, ConnectFails, Start, Die,
                        HashRunsOut, Exit
    <3>2. \A q \in Peers :
            /\ status[q] \in {"written", "dead"} => status'[q] \in {status[q], "dead"}
            /\ status'[q] = "finished" => status[q] = "finished"
      BY <1>3, <2>3 DEF Validator, Listen, WriteId, Stop, Connect, ConnectFails, Start, Die,
                        HashRunsOut, Exit, Goes, VerdictInv, StageInv
    <3>3. WriterInv' /\ Ended \subseteq Ended'
      BY <2>1, <3>1, <3>2 DEF VerdictInv, WriterInv, Ended
    <3>4. QED
      BY <2>1, <3>1, <3>3, Unnoticed DEF VerdictInv, ReaderTypes
  <2>4. QED
    BY <2>2, <2>3
<1>4. QED
  BY <1>1, <1>2, <1>3 DEF LNext

(* The invariant is inductive. *)
LEMMA VerdictStep == VerdictInv /\ [LNext]_lvars => VerdictInv'
<1> SUFFICES ASSUME VerdictInv, [LNext]_lvars
             PROVE  VerdictInv'
  OBVIOUS
<1>1. StageInv'
  BY StageStep DEF VerdictInv
<1>2. QED
  BY <1>1, WriteKeeps, ReadKeeps, ReadNothingKeeps, OthersKeep

(* Nothing has been written or read at the start. *)
LEMMA VerdictStart == LInit => VerdictInv
<1> SUFFICES ASSUME LInit
             PROVE  VerdictInv
  OBVIOUS
<1>1. StageInv
  BY StageStart
<1>2. /\ wrote = {} /\ fd = <<>> /\ dags = <<>> /\ buffer = <<>> /\ counter = N
      /\ main = "fork" /\ DOMAIN dag_image = Peers
      /\ \A p \in Peers : status[p] = "unborn"
  BY DEF LInit
<1>3. last_round \in Nat
  BY DAGsAssumption DEF LInit
<1>4. WriterInv
  BY <1>2, <1>3 DEF WriterInv
<1>5. ReaderTypes
  <2>1. /\ <<>> \in Seq(Digests) /\ <<>> \in Seq(Seq(Digests))
        /\ Len(dags) = 0
    BY <1>2
  <2>2. QED
    BY <1>2, <2>1 DEF ReaderTypes
<1>6. Len(dags) = 0 /\ Len(fd) = 0
  BY <1>2
<1>7. NothingLost /\ NothingMadeUp /\ LastRead /\ AlikeOrNot
  BY <1>2, <1>6 DEF NothingLost, NothingMadeUp, LastRead, AlikeOrNot
<1>8. Counted
  BY <1>2, <1>6, FS_EmptySet DEF Counted
<1>9. QED
  BY <1>1, <1>4, <1>5, <1>7, <1>8 DEF VerdictInv

-----------------------------------------------------------------------------
(* Two DAGs of last_round rounds have one digest when they have the same   *)
(* rounds up to the last three waves.                                      *)
LEMMA DigestsCompare ==
  ASSUME NEW c \in DAGs, NEW d \in DAGs, NEW n \in Nat,
         Len(c) = n + 3 * Wave, Len(d) = n + 3 * Wave
  PROVE  Digest(c) = Digest(d) <=> SubSeq(c, 1, n) = SubSeq(d, 1, n)
<1>0. Wave \in Nat
  BY WaveAssumption
<1>1. Settled(c) = 1 .. n /\ Settled(d) = 1 .. n
  BY <1>0 DEF Settled
<1>2. ASSUME NEW s \in DAGs, Len(s) = n + 3 * Wave
      PROVE  /\ SubSeq(s, 1, n) \in Seq(SUBSET Peers)
             /\ Len(SubSeq(s, 1, n)) = n
             /\ \A i \in 1 .. n : SubSeq(s, 1, n)[i] = s[i]
  <2>1. \A i \in 1 .. n : s[i] \in SUBSET Peers
    BY <1>0, <1>2, DAGsAssumption
  <2>2. 1 \in Int /\ n \in Int
    OBVIOUS
  <2>3. /\ SubSeq(s, 1, n) \in Seq(SUBSET Peers)
        /\ Len(SubSeq(s, 1, n)) = IF 1 <= n THEN n - 1 + 1 ELSE 0
        /\ \A i \in 1 .. n - 1 + 1 : SubSeq(s, 1, n)[i] = s[1 + i - 1]
    BY <2>1, <2>2, SubSeqProperties
  <2>4. QED
    BY <2>3
<1>3. ASSUME Digest(c) = Digest(d)
      PROVE  SubSeq(c, 1, n) = SubSeq(d, 1, n)
  <2>1. \A i \in 1 .. n : c[i] = d[i]
    BY <1>1, <1>3 DEF Digest
  <2>2. \A i \in 1 .. n : SubSeq(c, 1, n)[i] = SubSeq(d, 1, n)[i]
    BY <1>2, <2>1
  <2>3. QED
    BY <1>2, <2>2, SeqEqual
<1>4. ASSUME SubSeq(c, 1, n) = SubSeq(d, 1, n)
      PROVE  Digest(c) = Digest(d)
  <2>1. \A i \in 1 .. n : c[i] = d[i]
    BY <1>2, <1>4
  <2>2. QED
    BY <1>1, <2>1 DEF Digest
<1>5. QED
  BY <1>3, <1>4

(* When it prints its verdict the launcher has read all there was. *)
LEMMA AllRead ==
  ASSUME VerdictInv, Compared
  PROVE  /\ \A p \in wrote : \E i \in 1 .. Len(dags) : dags[i] = Read1(p)
         /\ Len(dags) \in Nat \ {0}
<1>1. Len(dags) = N
  BY DEF VerdictInv, ReaderTypes, Compared
<1>2. Len(fd) = 0
  <2>1. CASE Len(dags) + Len(fd) = Cardinality(wrote)
    <3>1. Cardinality(wrote) \in Nat /\ Cardinality(wrote) <= N
      BY WritersAreFinite
    <3>2. Len(fd) \in Nat
      BY DEF VerdictInv, ReaderTypes
    <3>3. QED
      BY <1>1, <2>1, <3>1, <3>2
  <2>2. CASE fd = <<>>
    BY <2>2
  <2>3. QED
    BY <2>1, <2>2 DEF VerdictInv, Counted
<1>3. QED
  BY <1>1, <1>2 DEF VerdictInv, NothingLost

(* The invariant gives the verdict. *)
LEMMA VerdictIsRight == VerdictInv => VerdictIsAgreement
<1> SUFFICES ASSUME VerdictInv, Compared
             PROVE  equal <=> AgreeUpTo(last_round - 3 * Wave)
  BY DEF VerdictIsAgreement
<1> DEFINE n == last_round - 3 * Wave
<1>1. ASSUME NEW p \in wrote, NEW q \in wrote
      PROVE  Read1(p) = Read1(q) <=> SubSeq(dag_image[p], 1, n) = SubSeq(dag_image[q], 1, n)
  <2>1. /\ dag_image[p] \in DAGs /\ dag_image[q] \in DAGs
        /\ Len(dag_image[p]) = last_round /\ Len(dag_image[q]) = last_round
        /\ last_round \in Nat /\ last_round >= 3 * Wave
    BY DEF VerdictInv, WriterInv
  <2>2. n \in Nat /\ last_round = n + 3 * Wave
    BY <2>1, WaveAssumption
  <2>3. Digest(dag_image[p]) = Digest(dag_image[q]) <=>
          SubSeq(dag_image[p], 1, n) = SubSeq(dag_image[q], 1, n)
    <3> HIDE DEF n
    <3> QED
      BY <2>1, <2>2, DigestsCompare
  <2>4. Read1(p) = Read1(q) <=> Digest(dag_image[p]) = Digest(dag_image[q])
    BY DEF Read1
  <2>5. QED
    BY <2>3, <2>4
<1>2. equal <=> \A i, j \in 1 .. Len(dags) : dags[i] = dags[j]
  <2>1. Len(dags) \in Nat
    BY AllRead
  <2>2. ASSUME \A i, j \in 1 .. Len(dags) : dags[i] = dags[j]
        PROVE  equal
    BY <2>1, <2>2 DEF equal
  <2>3. QED
    BY <2>2 DEF equal, VerdictInv, AlikeOrNot
<1>3. (\A i, j \in 1 .. Len(dags) : dags[i] = dags[j]) <=>
        \A p, q \in wrote : Read1(p) = Read1(q)
  <2>1. ASSUME \A i, j \in 1 .. Len(dags) : dags[i] = dags[j], NEW p \in wrote, NEW q \in wrote
        PROVE  Read1(p) = Read1(q)
    BY <2>1, AllRead
  <2>2. ASSUME \A p, q \in wrote : Read1(p) = Read1(q),
               NEW i \in 1 .. Len(dags), NEW j \in 1 .. Len(dags)
        PROVE  dags[i] = dags[j]
    BY <2>2 DEF VerdictInv, NothingMadeUp
  <2>3. QED
    BY <2>1, <2>2
<1>4. QED
  BY <1>1, <1>2, <1>3 DEF AgreeUpTo

(* The launcher finds the DAGs equal exactly when the validators that came *)
(* to write a digest agree on all but the last three waves, in whatever    *)
(* order the digests are read and however many validators die.             *)
THEOREM VerdictIsAgreementHolds == LSpec => []VerdictIsAgreement
  BY VerdictStart, VerdictStep, VerdictIsRight, PTL DEF LSpec

-----------------------------------------------------------------------------
(* What the invariants above have no use for.  The launcher is told of the *)
(* end of a child only when it has ended.                                  *)
RestTypes ==
  /\ reaped \subseteq Ended
  /\ Len(buffer) <= 1
  /\ \A p \in Peers : dag_image[p] \in DAGs \cup {<<>>}

(* Every step keeps them; those that have ended stay so. *)
LEMMA RestTypesStep ==
  ASSUME VerdictInv, RestTypes, [LNext]_lvars
  PROVE  RestTypes'
<1> USE DEF RestTypes, Ended
<1>1. CASE UNCHANGED lvars
  BY <1>1 DEF lvars, parent
<1>2. CASE Main
  <2>1. reaped' \subseteq Ended'
    <3>1. CASE Fork
      BY <3>1 DEF Fork, Goes, VerdictInv, StageInv
    <3>2. CASE WaitForStop
      <4>1. children \in Peers
        BY <3>2 DEF WaitForStop, VerdictInv, StageInv
      <4>2. QED
        BY <3>2, <4>1 DEF WaitForStop
    <3>3. CASE WakeAll
      BY <3>3 DEF WakeAll
    <3>4. CASE Wait
      <4>1. main = "wait" /\ UNCHANGED status
        BY <3>4 DEF Wait
      <4>2. QED
        BY <3>4, <4>1 DEF Wait
    <3>5. CASE Read
      BY <3>5 DEF Read
    <3>6. QED
      BY <1>2, <3>1, <3>2, <3>3, <3>4, <3>5 DEF Main
  <2>2. Len(buffer') <= 1 /\ UNCHANGED dag_image
    <3>1. CASE Read
      <4>1. UNCHANGED dag_image
        BY <3>1 DEF Read
      <4>2. CASE buffer' = <<Head(fd)>>
        BY <4>1, <4>2
      <4>3. CASE UNCHANGED buffer
        BY <4>1, <4>3
      <4>4. QED
        BY <3>1, <4>2, <4>3 DEF Read
    <3>2. QED
      BY <1>2, <3>1 DEF Main, Fork, WaitForStop, WakeAll, Wait
  <2>3. QED
    BY <2>1, <2>2
<1>3. ASSUME NEW p \in Peers, Validator(p)
      PROVE  RestTypes'
  <2>1. UNCHANGED <<reaped, buffer>>
    BY <1>3 DEF Validator, Listen, WriteId, Stop, Connect, ConnectFails, Start, Run, Die,
                Write, HashRunsOut, Exit, Unread, parent
  <2>2. \A q \in Ended : status'[q] = "dead"
    BY <1>3 DEF Validator, Listen, WriteId, Stop, Connect, ConnectFails, Start, Run, Die,
                Write, HashRunsOut, Exit, Goes, VerdictInv, StageInv
  <2>3. \A q \in Peers : dag_image'[q] \in DAGs \cup {<<>>}
    <3>1. CASE Run(p)
      BY <3>1 DEF Run, VerdictInv, WriterInv
    <3>2. CASE ~ Run(p)
      BY <1>3, <3>2 DEF Validator, Listen, WriteId, Stop, Connect, ConnectFails, Start, Die,
                        Write, HashRunsOut, Exit
    <3>3. QED
      BY <3>1, <3>2
  <2>4. QED
    BY <2>1, <2>2, <2>3
<1>4. QED
  BY <1>1, <1>2, <1>3 DEF LNext

(* The types of the launcher's and the validators' variables (main.cpp).   *)
THEOREM LauncherTypesCorrect == LSpec => []TypeOK
<1> DEFINE TypeInv == StageInv /\ FileInv /\ VerdictInv /\ RestTypes
<1>1. LInit => TypeInv
  <2>1. LInit => RestTypes
    BY DEF LInit, RestTypes
  <2>2. QED
    BY <2>1, StageStart, VerdictStart
<1>2. TypeInv /\ [LNext]_lvars => TypeInv'
  BY StageStep, FilesKept, VerdictStep, RestTypesStep
<1>3. TypeInv => TypeOK
  BY DEF StageInv, FileInv, VerdictInv, WriterInv, ReaderTypes, RestTypes, Ended, TypeOK
<1>4. QED
  BY <1>1, <1>2, <1>3, PTL DEF LSpec
=============================================================================
