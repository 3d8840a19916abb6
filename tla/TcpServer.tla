------------------------------ MODULE TcpServer ------------------------------
(***************************************************************************)
(* muti::TcpServer: run() starts one event loop per I/O thread and waits   *)
(* on cv_ until all have ended, shutdown() stops the loops, the destructor *)
(* joins the threads and deletes the loops.                                *)
(*                                                                         *)
(* The threads are main, which calls run() and then destroys the server,   *)
(* the I/O threads, and one caller of shutdown().  A loop is modelled by   *)
(* what module EventLoop shows of it: it leaves run() after stop(), also   *)
(* when stop() came first, or when epoll_wait fails.                       *)
(***************************************************************************)
EXTENDS Integers, FiniteSets

CONSTANT NumIoThreads   \* num_io_threads_

ASSUME NumIoThreadsAssumption == NumIoThreads \in Nat \ {0}

Io == 1..NumIoThreads

VARIABLES
  main,       \* where main is
  resized,    \* io_loops_ has its entries
  ioLoops,    \* io_loops_: which entries are not NULL
  running,    \* running_ of each loop
  io,         \* where each I/O thread is in run_cb
  countDown,  \* count_down_
  woken,      \* cv_ was notified since main began to wait
  stopper,    \* the loop shutdown() stops next; 0 before it is called
  notifying,  \* stop() has cleared running_ and not written the eventfd yet
  covered,    \* history: shutdown() began when every loop was published
  deleted,    \* the loops the destructor has deleted
  fault       \* what ended the process

vars == <<main, resized, ioLoops, running, io, countDown, woken, stopper, notifying,
          covered, deleted, fault>>
ioVars == <<ioLoops, running, io>>
stopVars == <<stopper, notifying, covered>>

----------------------------------------------------------------------------
(* Mutants. *)

JoinedNever == TRUE
CountTwice == countDown - 2
StopsNothing(i) == running
RunReturnsEarly == countDown <= 1
NoLock == TRUE

----------------------------------------------------------------------------

Init ==
  /\ main = "new"
  /\ resized = FALSE
  /\ ioLoops = {}
  /\ running = [i \in Io |-> TRUE]
  /\ io = [i \in Io |-> "none"]
  /\ countDown = 0
  /\ woken = FALSE
  /\ stopper = 0
  /\ notifying = FALSE
  /\ covered = FALSE
  /\ deleted = {}
  /\ fault = "none"

Alive == fault = "none"

(* std::terminate(), or the use of a null or a deleted loop. *)
Fault(kind) ==
  /\ fault' = kind
  /\ UNCHANGED <<main, resized, ioVars, countDown, woken, stopVars, deleted>>

----------------------------------------------------------------------------
(* main *)

(* io_loops_.resize(num_io_threads_, NULL) *)
Resize ==
  /\ Alive /\ main = "new"
  /\ resized' = TRUE
  /\ main' = "count"
  /\ UNCHANGED <<ioVars, countDown, woken, stopVars, deleted, fault>>

(* count_down_ = num_io_threads_ *)
SetCountDown ==
  /\ Alive /\ main = "count"
  /\ countDown' = NumIoThreads
  /\ main' = "spawn"
  /\ UNCHANGED <<resized, ioVars, woken, stopVars, deleted, fault>>

(* threads_.emplace_back() for each index in turn. *)
Spawn(i) ==
  /\ Alive /\ main = "spawn"
  /\ io[i] = "none" /\ \A j \in 1..(i - 1) : io[j] # "none"
  /\ io' = [io EXCEPT ![i] = "start"]
  /\ main' = IF i = NumIoThreads THEN "lock" ELSE "spawn"
  /\ UNCHANGED <<resized, ioLoops, running, countDown, woken, stopVars, deleted, fault>>

(* while (count_down_ > 0) cv_.wait(lock): main takes mutex_, at first or  *)
(* because it woke up, and tests ...                                       *)
AllEnded == countDown <= 0
CheckCountDown ==
  /\ Alive
  /\ main \in {"lock", "wait"}
  /\ main = "wait" => woken
  /\ main' = IF AllEnded THEN "returned" ELSE "tested"
  /\ woken' = FALSE
  /\ UNCHANGED <<resized, ioVars, countDown, stopVars, deleted, fault>>

(* ... and releases mutex_ when it has begun to wait, which may end        *)
(* spuriously.                                                             *)
Wait ==
  /\ Alive /\ main = "tested"
  /\ main' = "wait"
  /\ UNCHANGED <<resized, ioVars, countDown, woken, stopVars, deleted, fault>>

SpuriousWakeup ==
  /\ Alive /\ main = "wait" /\ ~woken
  /\ woken' = TRUE
  /\ UNCHANGED <<main, resized, ioVars, countDown, stopVars, deleted, fault>>

(* ~TcpServer(): join() every thread ... *)
Joined == \A i \in Io : io[i] = "ended"
JoinThreads ==
  /\ Alive /\ main = "returned"
  /\ Joined
  /\ main' = "delete"
  /\ UNCHANGED <<resized, ioVars, countDown, woken, stopVars, deleted, fault>>

(* ... then delete the loops in turn. *)
DeleteLoop(i) ==
  /\ Alive /\ main = "delete"
  /\ i \notin deleted /\ \A j \in 1..(i - 1) : j \in deleted
  /\ deleted' = deleted \cup {i}
  /\ UNCHANGED <<main, resized, ioVars, countDown, woken, stopVars, fault>>

----------------------------------------------------------------------------
(* I/O thread i: run_cb. *)

(* new EventLoop, then the Acceptor, whose bind() may throw: an exception  *)
(* that leaves a thread ends the process.                                  *)
CreateAcceptor(i) ==
  /\ Alive /\ io[i] = "start"
  /\ io' = [io EXCEPT ![i] = "created"]
  /\ UNCHANGED <<main, resized, ioLoops, running, countDown, woken, stopVars, deleted, fault>>

BindThrows(i) ==
  /\ Alive /\ io[i] = "start"
  /\ Fault("terminate")

(* io_loops_[index] = loop *)
Publish(i) ==
  /\ Alive /\ io[i] = "created"
  /\ ioLoops' = ioLoops \cup {i}
  /\ io' = [io EXCEPT ![i] = "run"]
  /\ UNCHANGED <<main, resized, running, countDown, woken, stopVars, deleted, fault>>

(* loop->run() returns. *)
LoopStopped(i) ==
  /\ Alive /\ io[i] = "run"
  /\ ~running[i]
  /\ io' = [io EXCEPT ![i] = "exit"]
  /\ UNCHANGED <<main, resized, ioLoops, running, countDown, woken, stopVars, deleted, fault>>

(* ... also because epoll_wait failed. *)
LoopFails(i) ==
  /\ Alive /\ io[i] = "run"
  /\ running[i]
  /\ io' = [io EXCEPT ![i] = "exit"]
  /\ UNCHANGED <<main, resized, ioLoops, running, countDown, woken, stopVars, deleted, fault>>

(* --count_down_ and cv_.notify_one() under mutex_, which main has from    *)
(* its test to its wait.                                                   *)
LockFree == main # "tested"
CountedDown == countDown - 1
Notified == IF main = "wait" THEN TRUE ELSE woken
CountDown(i) ==
  /\ Alive /\ io[i] = "exit"
  /\ LockFree
  /\ countDown' = CountedDown
  /\ woken' = Notified
  /\ io' = [io EXCEPT ![i] = "unwind"]
  /\ UNCHANGED <<main, resized, ioLoops, running, stopVars, deleted, fault>>

(* The Acceptor is destroyed, which unregisters its event source from the  *)
(* loop, and the thread ends.                                              *)
DestroyAcceptor(i) ==
  /\ Alive /\ io[i] = "unwind"
  /\ io' = [io EXCEPT ![i] = "ended"]
  /\ UNCHANGED <<main, resized, ioLoops, running, countDown, woken, stopVars, deleted, fault>>

----------------------------------------------------------------------------
(* shutdown(), called once while the server exists. *)

(* The loops of an empty io_loops_ are none: the call is over at once. *)
Shutdown ==
  /\ Alive /\ stopper = 0
  /\ main # "delete"
  /\ stopper' = IF resized THEN 1 ELSE NumIoThreads + 1
  /\ covered' = (ioLoops = Io)
  /\ UNCHANGED <<main, resized, ioVars, countDown, woken, notifying, deleted, fault>>

(* stop() of the next loop: running_ = false, then notify_event().  By     *)
(* then the loop may have ended, run() returned and the loop been deleted. *)
Stopped(i) == [running EXCEPT ![i] = FALSE]
StopLoop(i) ==
  /\ Alive /\ stopper = i /\ ~notifying
  /\ i \in ioLoops \ deleted
  /\ running' = Stopped(i)
  /\ notifying' = TRUE
  /\ UNCHANGED <<main, resized, ioLoops, io, countDown, woken, stopper, covered, deleted,
                 fault>>

NotifyLoop(i) ==
  /\ Alive /\ stopper = i /\ notifying
  /\ i \notin deleted
  /\ notifying' = FALSE
  /\ stopper' = i + 1
  /\ UNCHANGED <<main, resized, ioVars, countDown, woken, covered, deleted, fault>>

StopNull(i) ==
  /\ Alive /\ stopper = i
  /\ i \notin ioLoops
  /\ Fault("null")

StopDeleted(i) ==
  /\ Alive /\ stopper = i
  /\ i \in deleted
  /\ Fault("uaf")

(* The process has ended. *)
Ended ==
  /\ ~Alive \/ deleted = Io
  /\ UNCHANGED vars

----------------------------------------------------------------------------

MainNext ==
  \/ Resize \/ SetCountDown
  \/ \E i \in Io : Spawn(i)
  \/ CheckCountDown \/ Wait
  \/ JoinThreads
  \/ \E i \in Io : DeleteLoop(i)

IoNext(i) == CreateAcceptor(i) \/ Publish(i) \/ LoopStopped(i) \/ CountDown(i) \/ DestroyAcceptor(i)

StopNext == \E i \in Io : StopLoop(i) \/ NotifyLoop(i) \/ StopNull(i) \/ StopDeleted(i)

Next ==
  \/ MainNext \/ SpuriousWakeup
  \/ \E i \in Io : IoNext(i) \/ LoopFails(i) \/ BindThrows(i)
  \/ Shutdown \/ StopNext
  \/ Ended

(* Every thread keeps running, and a loop whose running_ is false leaves   *)
(* run() (StopEndsRun of module EventLoop).  A thread that asks for mutex_ *)
(* again and again while main sleeps and wakes up spuriously gets it in    *)
(* the end.  Nobody has to call shutdown() and no failure has to happen.   *)
Spec ==
  /\ Init /\ [][Next]_vars
  /\ WF_vars(MainNext)
  /\ \A i \in Io : WF_vars(IoNext(i)) /\ SF_vars(CountDown(i))
  /\ WF_vars(StopNext)

----------------------------------------------------------------------------
(* Properties. *)

(* Every variable has its type; count_down_ does not become negative. *)
TypeOK ==
  /\ main \in {"new", "count", "spawn", "lock", "tested", "wait", "returned", "delete"}
  /\ resized \in BOOLEAN
  /\ ioLoops \subseteq Io
  /\ running \in [Io -> BOOLEAN]
  /\ io \in [Io -> {"none", "start", "created", "run", "exit", "unwind", "ended"}]
  /\ countDown \in 0..NumIoThreads
  /\ woken \in BOOLEAN
  /\ stopper \in 0..(NumIoThreads + 1)
  /\ notifying \in BOOLEAN
  /\ covered \in BOOLEAN
  /\ deleted \subseteq Io
  /\ fault \in {"none", "terminate", "null", "uaf"}

(* run() returns only when every I/O thread is past the end of its loop. *)
RunReturnsLast ==
  main \in {"returned", "delete"} => \A i \in Io : io[i] \in {"unwind", "ended"}

(* The destructor deletes no loop whose thread still has an Acceptor that  *)
(* will unregister from it: joining comes first, for count_down_ reaches   *)
(* zero before the Acceptors are gone.                                     *)
LoopOutlivesAcceptor == \A i \in deleted : io[i] = "ended"

(* main does not sleep on cv_ when the last loop has ended: the decrement  *)
(* and the notification cannot fall between its test and its wait.         *)
NoSleepAtZero == main = "wait" /\ countDown = 0 => woken

(* A shutdown() that finds every loop published ends the server: run()     *)
(* returns and the destructor completes, unless the process ended before,  *)
(* because stop() used a loop that the destructor had deleted.             *)
ShutdownEnds == covered ~> (deleted = Io \/ ~Alive)

----------------------------------------------------------------------------
(* Inductive strengthenings, for module TcpServerProofs. *)

(* The I/O threads that have not counted down yet. *)
Counting == {i \in Io : io[i] \notin {"unwind", "ended"}}

(* Once set, count_down_ is the number of threads that have not counted    *)
(* down; every thread exists once main is past the loop that starts them;  *)
(* main is past the wait only at zero and past join() only when all ended. *)
CountInv ==
  /\ main \in {"new", "count"} => countDown = 0 /\ \A i \in Io : io[i] = "none"
  /\ main \notin {"new", "count"} => countDown = Cardinality(Counting)
  /\ main \notin {"new", "count", "spawn"} => \A i \in Io : io[i] # "none"
  /\ main \in {"returned", "delete"} => countDown = 0
  /\ main = "tested" => countDown # 0
  /\ main = "delete" => Joined
  /\ main # "delete" => deleted = {}
  /\ NoSleepAtZero

(* A shutdown() that finds every loop published meets no null entry: what  *)
(* is published stays so, and nothing went wrong before it began.          *)
CoveredMeetsNoNull == covered => ioLoops = Io /\ fault # "null"
==============================================================================
