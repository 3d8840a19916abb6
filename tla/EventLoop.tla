------------------------------ MODULE EventLoop ------------------------------
(***************************************************************************)
(* muti::EventLoop: the reactor thread, the callbacks other threads hand   *)
(* to it under mutex_, the ones it hands to itself through task_queue_,    *)
(* the eventfd that wakes it and stop().                                   *)
(*                                                                         *)
(* One Owner thread constructs the loop and calls run(); the Remote        *)
(* threads only call post_callback() and stop().  A callback is a record   *)
(* [by, n]: the n-th callback that thread by posted.                       *)
(***************************************************************************)
EXTENDS Integers, Sequences, FiniteSets

CONSTANTS
  Owner,          \* the thread that constructs the loop and calls run()
  Remote,         \* the other threads that use the loop
  Io,             \* the event sources registered besides notify_event_
  Notify,         \* notify_event_, the event source of the eventfd
  Free,           \* mutex_ is held by nobody
  NotifyMax,      \* the largest value of the eventfd counter (2^64 - 2)
  InitialEvents,  \* the initial size of epoll_events_ (64)
  MaxPosts        \* bound: callbacks each thread posts

ASSUME ThreadAssumption == Owner \notin Remote /\ Free \notin Remote
ASSUME SourceAssumption == IsFiniteSet(Io) /\ Notify \notin Io
ASSUME BoundAssumption ==
  /\ NotifyMax \in Nat \ {0}
  /\ InitialEvents \in Nat \ {0}
  /\ MaxPosts \in Nat

Threads == Remote \cup {Owner}
Sources == Io \cup {Notify}
Callbacks == [by : Threads, n : 1..MaxPosts]

VARIABLES
  running,     \* running_
  mutex,       \* the holder of mutex_
  pending,     \* pending_callbacks_, filled by the remote threads
  callbacks,   \* the local vector of run() that pending_callbacks_ is swapped into
  taskQueue,   \* task_queue_, filled by the owner
  notify,      \* the counter of the eventfd notify_fd_
  epollEvents, \* epoll_events_.size()
  active,      \* the event sources in active_events not handled yet
  phase,       \* where the owner is in run()
  thr,         \* where each remote thread is in post_callback() or stop()
  posted,      \* history: how many callbacks each thread has posted
  done         \* history: the last callback of each thread that was invoked

loopVars == <<callbacks, epollEvents, active, phase, done>>
vars == <<running, mutex, pending, callbacks, taskQueue, notify, epollEvents,
          active, phase, thr, posted, done>>

Phases == {"new", "check", "wait", "events", "swap", "callbacks", "tasks", "exit"}

----------------------------------------------------------------------------
(* Mutants: plausible slips in the definitions that follow them. *)

NotifyEventNothing == notify
SwapKeepsPending == callbacks' = pending /\ UNCHANGED pending
RunTaskLifo == taskQueue[Len(taskQueue)]
GrowAlways(n) == epollEvents + n
GrowOrShrink(n) == IF n = epollEvents THEN 2 * n ELSE n

----------------------------------------------------------------------------

Init ==
  /\ running = TRUE
  /\ mutex = Free
  /\ pending = <<>>
  /\ callbacks = <<>>
  /\ taskQueue = <<>>
  /\ notify = 0
  /\ epollEvents = InitialEvents
  /\ active = {}
  /\ phase = "new"
  /\ thr = [t \in Remote |-> "idle"]
  /\ posted = [t \in Threads |-> 0]
  /\ done = [t \in Threads |-> 0]

(* eventfd_write(notify_fd_, 1): fails, and is only logged, at the limit. *)
NotifyEvent == IF notify < NotifyMax THEN notify + 1 ELSE notify

----------------------------------------------------------------------------
(* The remote threads. *)

(* post_callback() of another thread: push under mutex_ ... *)
PostCallback(t) ==
  /\ thr[t] = "idle"
  /\ mutex = Free
  /\ posted[t] < MaxPosts
  /\ mutex' = t
  /\ pending' = Append(pending, [by |-> t, n |-> posted[t] + 1])
  /\ posted' = [posted EXCEPT ![t] = @ + 1]
  /\ thr' = [thr EXCEPT ![t] = "posting"]
  /\ UNCHANGED <<running, taskQueue, notify, loopVars>>

(* ... then notify_event(), still under mutex_, and unlock. *)
PostNotify(t) ==
  /\ thr[t] = "posting"
  /\ notify' = NotifyEvent
  /\ mutex' = Free
  /\ thr' = [thr EXCEPT ![t] = "idle"]
  /\ UNCHANGED <<running, pending, taskQueue, posted, loopVars>>

(* stop(): first running_ = false ... *)
Stop(t) ==
  /\ thr[t] = "idle"
  /\ running' = FALSE
  /\ thr' = [thr EXCEPT ![t] = "stopping"]
  /\ UNCHANGED <<mutex, pending, taskQueue, notify, posted, loopVars>>

(* ... then notify_event(). *)
StopNotify(t) ==
  /\ thr[t] = "stopping"
  /\ notify' = NotifyEvent
  /\ thr' = [thr EXCEPT ![t] = "idle"]
  /\ UNCHANGED <<running, mutex, pending, taskQueue, posted, loopVars>>

----------------------------------------------------------------------------
(* The owner. *)

(* What code called on the owner thread does to the loop: it may post a    *)
(* callback, which goes to task_queue_ without the lock, and call stop().  *)
(* queue is what task_queue_ holds besides.                                *)
OwnerCode(queue, posts, stops) ==
  /\ posts => posted[Owner] < MaxPosts
  /\ taskQueue' = IF posts
                  THEN Append(queue, [by |-> Owner, n |-> posted[Owner] + 1])
                  ELSE queue
  /\ posted' = [posted EXCEPT ![Owner] = IF posts THEN @ + 1 ELSE @]
  /\ running' = (running /\ ~stops)
  /\ notify' = IF stops THEN NotifyEvent ELSE notify

(* The owner uses the loop it constructed before it calls run(). *)
BeforeRun ==
  /\ phase = "new"
  /\ \E posts, stops \in BOOLEAN : OwnerCode(taskQueue, posts, stops)
  /\ UNCHANGED <<mutex, pending, thr, loopVars>>

Run ==
  /\ phase = "new"
  /\ phase' = "check"
  /\ UNCHANGED <<running, mutex, pending, taskQueue, notify, thr, posted,
                 callbacks, epollEvents, active, done>>

(* while (running_) *)
CheckRunning ==
  /\ phase = "check"
  /\ phase' = IF running THEN "wait" ELSE "exit"
  /\ UNCHANGED <<running, mutex, pending, taskQueue, notify, thr, posted,
                 callbacks, epollEvents, active, done>>

(* epoll_events_ doubles when a batch fills it. *)
Grow(n) == IF n = epollEvents THEN 2 * n ELSE epollEvents

(* pull_events(): epoll_wait returns as many of the ready sources as fit.  *)
(* The eventfd is ready exactly while its counter is not zero.             *)
PullEvents(batch) ==
  /\ phase = "wait"
  /\ batch # {}
  /\ Cardinality(batch) <= epollEvents
  /\ Notify \in batch => notify > 0
  /\ notify > 0 /\ Notify \notin batch => Cardinality(batch) = epollEvents
  /\ active' = batch
  /\ epollEvents' = Grow(Cardinality(batch))
  /\ phase' = "events"
  /\ UNCHANGED <<running, mutex, pending, taskQueue, notify, thr, posted,
                 callbacks, done>>

(* The 1000 ms timeout of epoll_wait, with nothing ready. *)
PullTimeout ==
  /\ phase = "wait"
  /\ notify = 0
  /\ active' = {}
  /\ epollEvents' = Grow(0)
  /\ phase' = "events"
  /\ UNCHANGED <<running, mutex, pending, taskQueue, notify, thr, posted,
                 callbacks, done>>

(* epoll_wait fails (a signal interrupts it): run() breaks out of the loop. *)
PullError ==
  /\ phase = "wait"
  /\ phase' = "exit"
  /\ UNCHANGED <<running, mutex, pending, taskQueue, notify, thr, posted,
                 callbacks, epollEvents, active, done>>

(* The reading callback of notify_event_: eventfd_read resets the counter. *)
HandleNotify ==
  /\ phase = "events"
  /\ Notify \in active
  /\ notify' = 0
  /\ active' = active \ {Notify}
  /\ UNCHANGED <<running, mutex, pending, taskQueue, thr, posted,
                 callbacks, epollEvents, phase, done>>

(* handle_events() of another source. *)
HandleIo(source) ==
  /\ phase = "events"
  /\ source \in active \ {Notify}
  /\ active' = active \ {source}
  /\ \E posts, stops \in BOOLEAN : OwnerCode(taskQueue, posts, stops)
  /\ UNCHANGED <<mutex, pending, thr, callbacks, epollEvents, phase, done>>

EventsDone ==
  /\ phase = "events"
  /\ active = {}
  /\ phase' = "swap"
  /\ UNCHANGED <<running, mutex, pending, taskQueue, notify, thr, posted,
                 callbacks, epollEvents, active, done>>

(* std::swap(callbacks, pending_callbacks_) into an empty vector. *)
SwapPending == callbacks' = pending /\ pending' = <<>>

(* The critical section of run(). *)
Swap ==
  /\ phase = "swap"
  /\ mutex = Free
  /\ SwapPending
  /\ phase' = "callbacks"
  /\ UNCHANGED <<running, mutex, taskQueue, notify, thr, posted, epollEvents,
                 active, done>>

(* callbacks[i](): in the order of the vector. *)
RunCallback ==
  /\ phase = "callbacks"
  /\ callbacks # <<>>
  /\ callbacks' = Tail(callbacks)
  /\ done' = [done EXCEPT ![Head(callbacks).by] = Head(callbacks).n]
  /\ \E posts, stops \in BOOLEAN : OwnerCode(taskQueue, posts, stops)
  /\ UNCHANGED <<mutex, pending, thr, epollEvents, active, phase>>

CallbacksDone ==
  /\ phase = "callbacks"
  /\ callbacks = <<>>
  /\ phase' = "tasks"
  /\ UNCHANGED <<running, mutex, pending, taskQueue, notify, thr, posted,
                 callbacks, epollEvents, active, done>>

(* task_queue_.front() *)
FrontTask == Head(taskQueue)

(* task_queue_.front()() and pop_front(). *)
RunTask ==
  /\ phase = "tasks"
  /\ taskQueue # <<>>
  /\ done' = [done EXCEPT ![FrontTask.by] = FrontTask.n]
  /\ \E posts, stops \in BOOLEAN : OwnerCode(Tail(taskQueue), posts, stops)
  /\ UNCHANGED <<mutex, pending, thr, callbacks, epollEvents, active, phase>>

TasksDone ==
  /\ phase = "tasks"
  /\ taskQueue = <<>>
  /\ phase' = "check"
  /\ UNCHANGED <<running, mutex, pending, taskQueue, notify, thr, posted,
                 callbacks, epollEvents, active, done>>

----------------------------------------------------------------------------

RemoteNext == \E t \in Remote : PostCallback(t) \/ PostNotify(t) \/ Stop(t) \/ StopNotify(t)

PullWoken == notify > 0 /\ \E batch \in SUBSET Sources : PullEvents(batch)

(* The steps the owner takes by itself: it does not wait for I/O or time. *)
OwnerProgress ==
  \/ Run
  \/ CheckRunning
  \/ PullWoken
  \/ HandleNotify
  \/ \E source \in Io : HandleIo(source)
  \/ EventsDone
  \/ Swap
  \/ RunCallback
  \/ CallbacksDone
  \/ RunTask
  \/ TasksDone

(* The steps the environment decides: I/O, the timeout, a signal. *)
OwnerEnvironment ==
  \/ BeforeRun
  \/ \E batch \in SUBSET Io : PullEvents(batch)
  \/ PullTimeout
  \/ PullError

Next == RemoteNext \/ OwnerProgress \/ OwnerEnvironment

(* Both kinds of thread keep executing; nothing makes I/O, the timeout, a  *)
(* signal or a new call to post_callback() or stop() happen.               *)
Fairness ==
  /\ WF_vars(OwnerProgress)
  /\ \A t \in Remote : WF_vars(PostNotify(t)) /\ WF_vars(StopNotify(t))

Spec == Init /\ [][Next]_vars /\ Fairness

----------------------------------------------------------------------------
(* Properties. *)

(* Every variable has its type; the queues hold callbacks. *)
TypeOK ==
  /\ running \in BOOLEAN
  /\ mutex \in Remote \cup {Free}
  /\ pending \in Seq(Callbacks)
  /\ callbacks \in Seq(Callbacks)
  /\ taskQueue \in Seq(Callbacks)
  /\ notify \in 0..NotifyMax
  /\ epollEvents \in Nat \ {0}
  /\ active \subseteq Sources
  /\ phase \in Phases
  /\ thr \in [Remote -> {"idle", "posting", "stopping"}]
  /\ posted \in [Threads -> 0..MaxPosts]
  /\ done \in [Threads -> 0..MaxPosts]

(* No lost wakeup: when the owner is about to block in epoll_wait and      *)
(* another thread has left a callback or has called stop(), the eventfd is *)
(* readable or that thread is just about to write it.  It is the order     *)
(* push-then-notify against read-then-swap that run() and post_callback()  *)
(* rely on (EventLoop.cpp:65-73, 159-161).                                 *)
NoLostWakeup ==
  phase \in {"check", "wait"} =>
    /\ pending # <<>> => notify > 0 \/ mutex # Free
    /\ phase = "wait" /\ ~running => notify > 0 \/ \E t \in Remote : thr[t] = "stopping"

(* The callbacks of one thread are invoked in the order in which it posted *)
(* them, each exactly once, none skipped, whichever queue they went        *)
(* through and however posting interleaves with run().                     *)
InvokedInOrder ==
  [][\A t \in Threads : done'[t] \in {done[t], done[t] + 1}]_vars

(* A callback that is posted and not invoked yet is in exactly the queues  *)
(* of its thread: no swap, pop or re-entrant post loses or repeats one.    *)
Queued(t) ==
  {c \in {callbacks[i] : i \in DOMAIN callbacks}
         \cup {pending[i] : i \in DOMAIN pending}
         \cup {taskQueue[i] : i \in DOMAIN taskQueue} : c.by = t}
NothingLost ==
  \A t \in Threads : Queued(t) = [by : {t}, n : (done[t] + 1)..posted[t]]

(* epoll_events_ never grows beyond twice the number of sources that can   *)
(* be ready at once (or its initial size).                                 *)
EpollEventsBounded ==
  epollEvents <= InitialEvents \/ epollEvents <= 2 * Cardinality(Sources)

(* A callback another thread posted is invoked, or the loop has ended,     *)
(* although neither I/O nor the 1000 ms timeout of epoll_wait ever helps.  *)
PostedIsInvoked ==
  \A t \in Remote : \A n \in 1..MaxPosts :
    (posted[t] >= n) ~> (done[t] >= n \/ phase = "exit")

(* stop() ends run(), again without the help of I/O or the timeout. *)
StopEndsRun == ~running ~> phase = "exit"

----------------------------------------------------------------------------
(* Inductive strengthenings. *)

(* Of NoLostWakeup: the eventfd may be drained before pending_callbacks_   *)
(* only while run() has yet to reach its swap.                             *)
WakeInv ==
  /\ pending # <<>> => notify > 0 \/ mutex # Free \/ phase \in {"events", "swap"}
  /\ phase = "wait" /\ ~running => notify > 0 \/ \E t \in Remote : thr[t] = "stopping"

(* Of InvokedInOrder and NothingLost, for the owner: task_queue_ holds     *)
(* exactly what it has posted and not run, in order.                       *)
TaskInv ==
  /\ Len(taskQueue) = posted[Owner] - done[Owner]
  /\ \A i \in 1..Len(taskQueue) :
       taskQueue[i].by = Owner /\ taskQueue[i].n = done[Owner] + i

(* Of the same, for the others: the vector being run comes before what is  *)
(* pending, each in posting order per thread, and together they cover      *)
(* everything not run.                                                     *)
InOrder(q) ==
  \A i, j \in 1..Len(q) : i < j /\ q[i].by = q[j].by => q[i].n < q[j].n
Waiting(q) ==
  \A i \in 1..Len(q) : /\ q[i].by \in Remote
                       /\ q[i].n > done[q[i].by]
                       /\ q[i].n <= posted[q[i].by]
PendingInv ==
  /\ phase # "callbacks" => callbacks = <<>>
  /\ InOrder(callbacks) /\ Waiting(callbacks)
  /\ InOrder(pending) /\ Waiting(pending)
  /\ \A i \in 1..Len(callbacks), j \in 1..Len(pending) :
       callbacks[i].by = pending[j].by => callbacks[i].n < pending[j].n
  /\ \A t \in Remote : done[t] <= posted[t]
  /\ \A t \in Remote : \A k \in (done[t] + 1)..posted[t] :
       \/ \E i \in 1..Len(callbacks) : callbacks[i] = [by |-> t, n |-> k]
       \/ \E i \in 1..Len(pending) : pending[i] = [by |-> t, n |-> k]
==============================================================================
