--------------------------- MODULE TcpServerProofs ---------------------------
(* Invariance proofs about TcpServer, for every number of I/O threads. *)
EXTENDS TcpServer, TLAPS, FiniteSetTheorems

(* The type of every variable but count_down_, whose range CountInv gives. *)
PartType ==
  /\ main \in {"new", "count", "spawn", "lock", "tested", "wait", "returned", "delete"}
  /\ resized \in BOOLEAN
  /\ ioLoops \subseteq Io
  /\ running \in [Io -> BOOLEAN]
  /\ io \in [Io -> {"none", "start", "created", "run", "exit", "unwind", "ended"}]
  /\ woken \in BOOLEAN
  /\ stopper \in 0..(NumIoThreads + 1)
  /\ notifying \in BOOLEAN
  /\ covered \in BOOLEAN
  /\ deleted \subseteq Io
  /\ fault \in {"none", "terminate", "null", "uaf"}

LEMMA CountingFinite ==
  /\ IsFiniteSet(Counting)
  /\ Cardinality(Counting) \in 0..NumIoThreads
<1>1. IsFiniteSet(Io) /\ Cardinality(Io) = NumIoThreads
  BY FS_Interval, NumIoThreadsAssumption DEF Io
<1>2. IsFiniteSet(Counting) /\ Cardinality(Counting) <= Cardinality(Io)
  BY <1>1, FS_Subset DEF Counting
<1>3. Cardinality(Counting) \in Nat
  BY <1>2, FS_CardinalityType
<1> QED
  BY <1>1, <1>2, <1>3, NumIoThreadsAssumption

LEMMA NoneCounting ==
  ASSUME Cardinality(Counting) = 0
  PROVE  \A i \in Io : io[i] \in {"unwind", "ended"}
BY CountingFinite, FS_EmptySet DEF Counting

(* A thread that counts down leaves the set that count_down_ counts. *)
LEMMA OneFewer ==
  ASSUME PartType, NEW i \in Io, io[i] = "exit", io' = [io EXCEPT ![i] = "unwind"]
  PROVE  Cardinality(Counting') = Cardinality(Counting) - 1
<1>1. i \in Counting
  BY DEF Counting
<1>2. Counting' = Counting \ {i}
  BY DEF Counting, PartType
<1> QED
  BY <1>1, <1>2, CountingFinite, FS_RemoveElement

(* A step of a thread on one side of its count down leaves that set alone. *)
LEMMA SameCounting ==
  ASSUME PartType, NEW i \in Io, NEW to,
         io[i] \in {"unwind", "ended"} <=> to \in {"unwind", "ended"},
         io' = [io EXCEPT ![i] = to]
  PROVE  Counting' = Counting
BY DEF Counting, PartType

LEMMA PartTypeInvariant == Spec => []PartType
<1>0. 0 \in 0..(NumIoThreads + 1) /\ 1 \in 0..(NumIoThreads + 1)
      /\ NumIoThreads + 1 \in 0..(NumIoThreads + 1)
  BY NumIoThreadsAssumption
<1>1. Init => PartType
  BY <1>0 DEF Init, PartType
<1>2. PartType /\ [Next]_vars => PartType'
  <2> SUFFICES ASSUME PartType, [Next]_vars PROVE PartType'
    OBVIOUS
  <2> USE DEF PartType, ioVars, stopVars
  <2>1. CASE Resize
    BY <2>1 DEF Resize
  <2>2. CASE SetCountDown
    BY <2>2 DEF SetCountDown
  <2>3. ASSUME NEW i \in Io, Spawn(i) PROVE PartType'
    BY <2>3 DEF Spawn
  <2>4. CASE CheckCountDown \/ Wait
    BY <2>4 DEF CheckCountDown, Wait
  <2>5. CASE SpuriousWakeup
    BY <2>5 DEF SpuriousWakeup
  <2>6. CASE JoinThreads
    BY <2>6 DEF JoinThreads
  <2>7. ASSUME NEW i \in Io, DeleteLoop(i) PROVE PartType'
    BY <2>7 DEF DeleteLoop
  <2>8. ASSUME NEW i \in Io, CreateAcceptor(i) PROVE PartType'
    BY <2>8 DEF CreateAcceptor
  <2>9. ASSUME NEW i \in Io, BindThrows(i) PROVE PartType'
    BY <2>9 DEF BindThrows, Fault
  <2>10. ASSUME NEW i \in Io, Publish(i) PROVE PartType'
    BY <2>10 DEF Publish
  <2>11. ASSUME NEW i \in Io, LoopStopped(i) \/ LoopFails(i) PROVE PartType'
    BY <2>11 DEF LoopStopped, LoopFails
  <2>12. ASSUME NEW i \in Io, CountDown(i) PROVE PartType'
    BY <2>12 DEF CountDown, Notified
  <2>13. ASSUME NEW i \in Io, DestroyAcceptor(i) PROVE PartType'
    BY <2>13 DEF DestroyAcceptor
  <2>14. CASE Shutdown
    BY <1>0, <2>14 DEF Shutdown
  <2>15. ASSUME NEW i \in Io, StopLoop(i) PROVE PartType'
    BY <2>15 DEF StopLoop, Stopped
  <2>16. ASSUME NEW i \in Io, NotifyLoop(i) PROVE PartType'
    <3>1. i + 1 \in 0..(NumIoThreads + 1)
      BY NumIoThreadsAssumption DEF Io
    <3> QED
      BY <2>16, <3>1 DEF NotifyLoop
  <2>17. ASSUME NEW i \in Io, StopNull(i) \/ StopDeleted(i) PROVE PartType'
    BY <2>17 DEF StopNull, StopDeleted, Fault
  <2>18. CASE Ended \/ UNCHANGED vars
    BY <2>18 DEF Ended, vars
  <2> QED
    BY <2>1, <2>2, <2>3, <2>4, <2>5, <2>6, <2>7, <2>8, <2>9, <2>10, <2>11, <2>12,
       <2>13, <2>14, <2>15, <2>16, <2>17, <2>18
    DEF Next, MainNext, IoNext, StopNext
<1> QED
  BY <1>1, <1>2, PTL DEF Spec

(* count_down_ counts exactly the threads that have not counted down, and  *)
(* main moves on only as that count allows.                                *)
THEOREM CountsThreads == Spec => []CountInv
<1>1. Init => CountInv
  BY DEF Init, CountInv, NoSleepAtZero
<1>2. PartType /\ CountInv /\ [Next]_vars => CountInv'
  <2> SUFFICES ASSUME PartType, CountInv, [Next]_vars PROVE CountInv'
    OBVIOUS
  <2> USE DEF CountInv, NoSleepAtZero, Joined, ioVars, stopVars
  <2>0. ASSUME UNCHANGED io PROVE Counting' = Counting
    BY <2>0 DEF Counting
  <2>1. CASE Resize
    BY <2>0, <2>1 DEF Resize
  <2>2. CASE SetCountDown
    <3>1. Counting' = Io
      BY <2>2 DEF SetCountDown, Counting
    <3>2. Cardinality(Io) = NumIoThreads
      BY FS_Interval, NumIoThreadsAssumption DEF Io
    <3> QED
      BY <2>2, <3>1, <3>2 DEF SetCountDown
  <2>3. ASSUME NEW i \in Io, Spawn(i) PROVE CountInv'
    <3>1. Counting' = Counting
      BY <2>3, SameCounting DEF Spawn
    <3>2. ASSUME i = NumIoThreads PROVE \A j \in Io : io'[j] # "none"
      BY <2>3, <3>2, NumIoThreadsAssumption DEF Spawn, PartType, Io
    <3> QED
      BY <2>3, <3>1, <3>2 DEF Spawn
  <2>4. CASE CheckCountDown
    <3>1. countDown \in Nat
      BY <2>4, CountingFinite DEF CheckCountDown
    <3> QED
      BY <2>0, <2>4, <3>1 DEF CheckCountDown, AllEnded
  <2>5. CASE Wait \/ SpuriousWakeup
    BY <2>0, <2>5 DEF Wait, SpuriousWakeup
  <2>6. CASE JoinThreads
    BY <2>0, <2>6 DEF JoinThreads
  <2>7. ASSUME NEW i \in Io, DeleteLoop(i) PROVE CountInv'
    BY <2>0, <2>7 DEF DeleteLoop
  <2>8. ASSUME NEW i \in Io, NEW to,
               io[i] # "none" /\ to # "none", io[i] # "ended",
               io[i] \in {"unwind", "ended"} <=> to \in {"unwind", "ended"},
               io' = [io EXCEPT ![i] = to],
               UNCHANGED <<main, countDown, woken, deleted>>
        PROVE  CountInv'
    <3>1. Counting' = Counting
      BY <2>8, SameCounting
    <3> QED
      BY <2>8, <3>1 DEF PartType
  <2>9. ASSUME NEW i \in Io, CreateAcceptor(i) \/ Publish(i) \/ LoopStopped(i)
                               \/ LoopFails(i) \/ DestroyAcceptor(i)
        PROVE  CountInv'
    BY <2>8, <2>9 DEF CreateAcceptor, Publish, LoopStopped, LoopFails, DestroyAcceptor
  <2>10. ASSUME NEW i \in Io, CountDown(i) PROVE CountInv'
    <3>1. Cardinality(Counting') = Cardinality(Counting) - 1
      BY <2>10, OneFewer DEF CountDown
    <3>2. main \notin {"new", "count"} /\ main # "delete"
      BY <2>10 DEF CountDown
    <3>3. main # "returned"
      BY <2>10, <3>2, NoneCounting DEF CountDown
    <3> QED
      BY <2>10, <3>1, <3>2, <3>3 DEF CountDown, LockFree, CountedDown, Notified, PartType
  <2>11. ASSUME NEW i \in Io, BindThrows(i) \/ StopNull(i) \/ StopDeleted(i)
         PROVE  CountInv'
    BY <2>0, <2>11 DEF BindThrows, StopNull, StopDeleted, Fault
  <2>12. CASE Shutdown
    BY <2>0, <2>12 DEF Shutdown
  <2>13. ASSUME NEW i \in Io, StopLoop(i) \/ NotifyLoop(i) PROVE CountInv'
    BY <2>0, <2>13 DEF StopLoop, NotifyLoop
  <2>14. CASE Ended \/ UNCHANGED vars
    BY <2>0, <2>14 DEF Ended, vars
  <2> QED
    BY <2>1, <2>2, <2>3, <2>4, <2>5, <2>6, <2>7, <2>9, <2>10, <2>11, <2>12, <2>13, <2>14
    DEF Next, MainNext, IoNext, StopNext
<1> QED
  BY <1>1, <1>2, PartTypeInvariant, PTL DEF Spec

(* Type correctness; in particular no interleaving of the threads makes    *)
(* count_down_ negative or larger than the number of threads.              *)
THEOREM TypeCorrect == Spec => []TypeOK
<1>1. PartType /\ CountInv => TypeOK
  BY CountingFinite, NumIoThreadsAssumption DEF PartType, CountInv, TypeOK
<1> QED
  BY <1>1, PartTypeInvariant, CountsThreads, PTL

(* run() returns only when every I/O thread is past the end of its loop. *)
THEOREM RunReturnsAfterLoops == Spec => []RunReturnsLast
<1>1. CountInv => RunReturnsLast
  BY NoneCounting DEF CountInv, RunReturnsLast
<1> QED
  BY <1>1, CountsThreads, PTL

(* The destructor deletes a loop only after the thread that has an         *)
(* Acceptor on it has ended.                                               *)
THEOREM AcceptorGoneFirst == Spec => []LoopOutlivesAcceptor
<1>1. PartType /\ CountInv => LoopOutlivesAcceptor
  BY DEF PartType, CountInv, Joined, LoopOutlivesAcceptor
<1> QED
  BY <1>1, PartTypeInvariant, CountsThreads, PTL

(* main never sleeps on cv_ once the last thread has counted down. *)
THEOREM LastWakeupNotLost == Spec => []NoSleepAtZero
<1>1. CountInv => NoSleepAtZero
  BY DEF CountInv
<1> QED
  BY <1>1, CountsThreads, PTL

(* A shutdown() that begins when every loop is published calls stop() of   *)
(* no null entry of io_loops_.                                             *)
THEOREM CoveredShutdownSafe == Spec => []CoveredMeetsNoNull
<1>1. Init => CoveredMeetsNoNull
  BY DEF Init, CoveredMeetsNoNull
<1>2. PartType /\ CoveredMeetsNoNull /\ [Next]_vars => CoveredMeetsNoNull'
  <2> SUFFICES ASSUME PartType, CoveredMeetsNoNull, [Next]_vars
               PROVE  CoveredMeetsNoNull'
    OBVIOUS
  <2> USE DEF CoveredMeetsNoNull, ioVars, stopVars
  <2>1. CASE Shutdown
    BY <2>1 DEF Shutdown, Alive
  <2>2. ASSUME NEW i \in Io, Publish(i) PROVE CoveredMeetsNoNull'
    BY <2>2 DEF Publish
  <2>3. ASSUME NEW i \in Io, StopNull(i) PROVE CoveredMeetsNoNull'
    BY <2>3 DEF StopNull, Fault
  <2>4. ASSUME NEW i \in Io, BindThrows(i) \/ StopDeleted(i) PROVE CoveredMeetsNoNull'
    BY <2>4 DEF BindThrows, StopDeleted, Fault
  <2>5. CASE Resize \/ SetCountDown \/ CheckCountDown \/ Wait \/ SpuriousWakeup
             \/ JoinThreads
    BY <2>5 DEF Resize, SetCountDown, CheckCountDown, Wait, SpuriousWakeup, JoinThreads
  <2>6. ASSUME NEW i \in Io, Spawn(i) \/ DeleteLoop(i) PROVE CoveredMeetsNoNull'
    BY <2>6 DEF Spawn, DeleteLoop
  <2>7. ASSUME NEW i \in Io, CreateAcceptor(i) \/ LoopStopped(i) \/ LoopFails(i)
                               \/ CountDown(i) \/ DestroyAcceptor(i)
        PROVE  CoveredMeetsNoNull'
    BY <2>7 DEF CreateAcceptor, LoopStopped, LoopFails, CountDown, DestroyAcceptor
  <2>8. ASSUME NEW i \in Io, StopLoop(i) \/ NotifyLoop(i) PROVE CoveredMeetsNoNull'
    BY <2>8 DEF StopLoop, NotifyLoop
  <2>9. CASE Ended \/ UNCHANGED vars
    BY <2>9 DEF Ended, vars
  <2> QED
    BY <2>1, <2>2, <2>3, <2>4, <2>5, <2>6, <2>7, <2>8, <2>9
    DEF Next, MainNext, IoNext, StopNext
<1> QED
  BY <1>1, <1>2, PartTypeInvariant, PTL DEF Spec
==============================================================================
