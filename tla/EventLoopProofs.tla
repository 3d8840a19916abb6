--------------------------- MODULE EventLoopProofs ---------------------------
(* Invariance proofs about EventLoop, for every set of threads and sources. *)
EXTENDS EventLoop, TLAPS, FiniteSetTheorems

LEMMA NotifyEventType ==
  ASSUME notify \in 0..NotifyMax
  PROVE  NotifyEvent \in 1..NotifyMax /\ NotifyEvent >= notify
BY BoundAssumption DEF NotifyEvent

(* What any code on the owner thread preserves of the type invariant. *)
LEMMA OwnerCodeType ==
  ASSUME TypeOK, NEW queue \in Seq(Callbacks),
         NEW posts \in BOOLEAN, NEW stops \in BOOLEAN,
         OwnerCode(queue, posts, stops)
  PROVE  /\ taskQueue' \in Seq(Callbacks)
         /\ posted' \in [Threads -> 0..MaxPosts]
         /\ running' \in BOOLEAN
         /\ notify' \in 0..NotifyMax
         /\ notify' >= notify
<1>1. posts => [by |-> Owner, n |-> posted[Owner] + 1] \in Callbacks
  BY BoundAssumption DEF OwnerCode, TypeOK, Threads, Callbacks
<1>2. taskQueue' \in Seq(Callbacks)
  BY <1>1 DEF OwnerCode
<1>3. posted' \in [Threads -> 0..MaxPosts]
  BY BoundAssumption DEF OwnerCode, TypeOK, Threads
<1>4. notify' \in 0..NotifyMax /\ notify' >= notify
  BY NotifyEventType, BoundAssumption DEF OwnerCode, TypeOK
<1> QED
  BY <1>2, <1>3, <1>4 DEF OwnerCode

(* Type correctness: every step of every thread keeps every variable in    *)
(* its type, in particular the eventfd counter within its limit and every  *)
(* queue a queue of callbacks.                                             *)
THEOREM TypeCorrect == Spec => []TypeOK
<1>1. Init => TypeOK
  BY BoundAssumption DEF Init, TypeOK, Phases, Threads
<1>2. TypeOK /\ [Next]_vars => TypeOK'
  <2> SUFFICES ASSUME TypeOK, [Next]_vars PROVE TypeOK'
    OBVIOUS
  <2> USE DEF Phases
  <2>1. ASSUME NEW t \in Remote, PostCallback(t) PROVE TypeOK'
    <3>1. [by |-> t, n |-> posted[t] + 1] \in Callbacks
      BY <2>1, BoundAssumption DEF PostCallback, TypeOK, Threads, Callbacks
    <3> QED
      BY <2>1, <3>1, BoundAssumption DEF PostCallback, TypeOK, loopVars, Threads
  <2>2. ASSUME NEW t \in Remote, PostNotify(t) PROVE TypeOK'
    BY <2>2, NotifyEventType DEF PostNotify, TypeOK, loopVars
  <2>3. ASSUME NEW t \in Remote, Stop(t) PROVE TypeOK'
    BY <2>3 DEF Stop, TypeOK, loopVars
  <2>4. ASSUME NEW t \in Remote, StopNotify(t) PROVE TypeOK'
    BY <2>4, NotifyEventType DEF StopNotify, TypeOK, loopVars
  <2>5. CASE BeforeRun
    BY <2>5, OwnerCodeType DEF BeforeRun, TypeOK, loopVars
  <2>6. CASE Run
    BY <2>6 DEF Run, TypeOK
  <2>7. CASE CheckRunning
    BY <2>7 DEF CheckRunning, TypeOK
  <2>8. ASSUME NEW batch \in SUBSET Sources, PullEvents(batch) PROVE TypeOK'
    <3>1. IsFiniteSet(Sources)
      BY SourceAssumption, FS_AddElement DEF Sources
    <3>2. Cardinality(batch) \in Nat
      BY <3>1, FS_Subset, FS_CardinalityType
    <3>3. epollEvents' \in Nat \ {0}
      BY <2>8, <3>2 DEF PullEvents, Grow, TypeOK
    <3> QED
      BY <2>8, <3>3 DEF PullEvents, TypeOK
  <2>9. CASE PullTimeout
    BY <2>9 DEF PullTimeout, Grow, TypeOK
  <2>10. CASE PullError
    BY <2>10 DEF PullError, TypeOK
  <2>11. CASE HandleNotify
    BY <2>11, BoundAssumption DEF HandleNotify, TypeOK
  <2>12. ASSUME NEW source \in Io, HandleIo(source) PROVE TypeOK'
    BY <2>12, OwnerCodeType DEF HandleIo, TypeOK
  <2>13. CASE EventsDone
    BY <2>13 DEF EventsDone, TypeOK
  <2>14. CASE Swap
    BY <2>14 DEF Swap, SwapPending, TypeOK
  <2>15. CASE RunCallback
    <3>1. Head(callbacks) \in Callbacks /\ Tail(callbacks) \in Seq(Callbacks)
      BY <2>15 DEF RunCallback, TypeOK
    <3>2. done' \in [Threads -> 0..MaxPosts]
      <4>1. Head(callbacks).by \in Threads /\ Head(callbacks).n \in 0..MaxPosts
        BY <3>1, BoundAssumption DEF Callbacks
      <4> QED
        BY <2>15, <4>1 DEF RunCallback, TypeOK
    <3>3. PICK posts, stops \in BOOLEAN : OwnerCode(taskQueue, posts, stops)
      BY <2>15 DEF RunCallback
    <3>4. taskQueue \in Seq(Callbacks)
      BY DEF TypeOK
    <3> QED
      BY <2>15, <3>1, <3>2, <3>3, <3>4, OwnerCodeType DEF RunCallback, TypeOK
  <2>16. CASE CallbacksDone
    BY <2>16 DEF CallbacksDone, TypeOK
  <2>17. CASE RunTask
    <3>1. FrontTask \in Callbacks /\ Tail(taskQueue) \in Seq(Callbacks)
      BY <2>17 DEF RunTask, FrontTask, TypeOK
    <3>2. done' \in [Threads -> 0..MaxPosts]
      <4>1. FrontTask.by \in Threads /\ FrontTask.n \in 0..MaxPosts
        BY <3>1, BoundAssumption DEF Callbacks
      <4> QED
        BY <2>17, <4>1 DEF RunTask, TypeOK
    <3>3. PICK posts, stops \in BOOLEAN : OwnerCode(Tail(taskQueue), posts, stops)
      BY <2>17 DEF RunTask
    <3>4. /\ taskQueue' \in Seq(Callbacks)
          /\ posted' \in [Threads -> 0..MaxPosts]
           /\ running' \in BOOLEAN
          /\ notify' \in 0..NotifyMax
      BY <3>1, <3>3, OwnerCodeType
    <3> QED
      BY <2>17, <3>2, <3>4 DEF RunTask, TypeOK
  <2>18. CASE TasksDone
    BY <2>18 DEF TasksDone, TypeOK
  <2>19. CASE UNCHANGED vars
    BY <2>19 DEF vars, TypeOK
  <2> QED
    BY <2>1, <2>2, <2>3, <2>4, <2>5, <2>6, <2>7, <2>8, <2>9, <2>10, <2>11, <2>12,
       <2>13, <2>14, <2>15, <2>16, <2>17, <2>18, <2>19
    DEF Next, RemoteNext, OwnerProgress, OwnerEnvironment, PullWoken, Sources
<1> QED
  BY <1>1, <1>2, PTL DEF Spec

(* No lost wakeup: when run() is about to block in epoll_wait while a      *)
(* callback of another thread is pending or stop() was called, the eventfd *)
(* is readable or about to be written.                                     *)
THEOREM WakeupNeverLost == Spec => []NoLostWakeup
<1>1. Init => WakeInv
  BY DEF Init, WakeInv
<1>2. TypeOK /\ WakeInv /\ [Next]_vars => WakeInv'
  <2> SUFFICES ASSUME TypeOK, WakeInv, [Next]_vars PROVE WakeInv'
    OBVIOUS
  <2>0. NotifyEvent > 0
    BY NotifyEventType DEF TypeOK
  <2>1. ASSUME NEW t \in Remote, PostCallback(t) PROVE WakeInv'
    BY <2>1, ThreadAssumption DEF PostCallback, WakeInv, TypeOK, loopVars
  <2>2. ASSUME NEW t \in Remote, PostNotify(t) PROVE WakeInv'
    BY <2>0, <2>2 DEF PostNotify, WakeInv, loopVars
  <2>3. ASSUME NEW t \in Remote, Stop(t) PROVE WakeInv'
    BY <2>3 DEF Stop, WakeInv, TypeOK, loopVars
  <2>4. ASSUME NEW t \in Remote, StopNotify(t) PROVE WakeInv'
    BY <2>0, <2>4 DEF StopNotify, WakeInv, loopVars
  <2>5. ASSUME NEW queue, NEW posts \in BOOLEAN, NEW stops \in BOOLEAN,
               OwnerCode(queue, posts, stops), phase # "wait",
               UNCHANGED <<pending, mutex, phase>>
        PROVE  WakeInv'
    <3>1. notify > 0 => notify' > 0
      BY <2>0, <2>5 DEF OwnerCode
    <3> QED
      BY <2>5, <3>1 DEF WakeInv
  <2>6. CASE BeforeRun
    BY <2>5, <2>6 DEF BeforeRun, loopVars
  <2>7. CASE Run
    BY <2>7 DEF Run, WakeInv
  <2>8. CASE CheckRunning
    BY <2>8 DEF CheckRunning, WakeInv
  <2>9. ASSUME NEW batch \in SUBSET Sources, PullEvents(batch) PROVE WakeInv'
    BY <2>9 DEF PullEvents, WakeInv
  <2>10. CASE PullTimeout
    BY <2>10 DEF PullTimeout, WakeInv
  <2>11. CASE PullError
    BY <2>11 DEF PullError, WakeInv
  <2>12. CASE HandleNotify
    BY <2>12 DEF HandleNotify, WakeInv
  <2>13. ASSUME NEW source \in Io, HandleIo(source) PROVE WakeInv'
    BY <2>5, <2>13 DEF HandleIo
  <2>14. CASE EventsDone
    BY <2>14 DEF EventsDone, WakeInv
  <2>15. CASE Swap
    BY <2>15 DEF Swap, SwapPending, WakeInv
  <2>16. CASE RunCallback
    BY <2>5, <2>16 DEF RunCallback
  <2>17. CASE CallbacksDone
    BY <2>17 DEF CallbacksDone, WakeInv
  <2>18. CASE RunTask
    BY <2>5, <2>18 DEF RunTask
  <2>19. CASE TasksDone
    BY <2>19 DEF TasksDone, WakeInv
  <2>20. CASE UNCHANGED vars
    BY <2>20 DEF vars, WakeInv
  <2> QED
    BY <2>1, <2>2, <2>3, <2>4, <2>6, <2>7, <2>8, <2>9, <2>10, <2>11, <2>12, <2>13,
       <2>14, <2>15, <2>16, <2>17, <2>18, <2>19, <2>20
    DEF Next, RemoteNext, OwnerProgress, OwnerEnvironment, PullWoken, Sources
<1>3. WakeInv => NoLostWakeup
  BY DEF WakeInv, NoLostWakeup
<1> QED
  BY <1>1, <1>2, <1>3, TypeCorrect, PTL DEF Spec

----------------------------------------------------------------------------
(* Order of invocation. *)

OrderInv == TaskInv /\ PendingInv

(* Code on the owner thread appends to task_queue_ at most its next        *)
(* callback: TaskInv is kept, and what the other threads posted is not     *)
(* touched.                                                                *)
LEMMA OwnerCodeTask ==
  ASSUME TypeOK, TaskInv, NEW posts \in BOOLEAN, NEW stops \in BOOLEAN,
         OwnerCode(taskQueue, posts, stops), done'[Owner] = done[Owner]
  PROVE  TaskInv' /\ \A t \in Remote : posted'[t] = posted[t]
<1> USE ThreadAssumption, BoundAssumption
<1>0. Owner \in Threads /\ Remote \subseteq Threads
  BY DEF Threads
<1>1. \A t \in Remote : posted'[t] = posted[t]
  BY <1>0 DEF OwnerCode, TypeOK
<1>2. CASE ~posts
  <2>1. taskQueue' = taskQueue /\ posted'[Owner] = posted[Owner]
    BY <1>0, <1>2 DEF OwnerCode, TypeOK
  <2> QED
    BY <1>1, <2>1 DEF TaskInv
<1>3. CASE posts
  <2> DEFINE c == [by |-> Owner, n |-> posted[Owner] + 1]
  <2>1. taskQueue' = Append(taskQueue, c) /\ posted'[Owner] = posted[Owner] + 1
    BY <1>0, <1>3 DEF OwnerCode, TypeOK
  <2>2. posted[Owner] \in Nat /\ done[Owner] \in Nat /\ taskQueue \in Seq(Callbacks)
    BY <1>0 DEF TypeOK
  <2>3. Len(taskQueue') = Len(taskQueue) + 1
    BY <2>1, <2>2
  <2>4. \A i \in 1..Len(taskQueue) : taskQueue'[i] = taskQueue[i]
    BY <2>1, <2>2
  <2>5. taskQueue'[Len(taskQueue) + 1] = c
    BY <2>1, <2>2
  <2> QED
    BY <1>1, <2>1, <2>2, <2>3, <2>4, <2>5 DEF TaskInv
<1> QED
  BY <1>2, <1>3

(* PendingInv depends only on the two vectors of callbacks, on what the    *)
(* remote threads posted and on which of it was invoked.                   *)
LEMMA PendingFrame ==
  ASSUME PendingInv, UNCHANGED <<callbacks, pending>>,
         phase' # "callbacks" => callbacks = <<>>,
         \A t \in Remote : posted'[t] = posted[t] /\ done'[t] = done[t]
  PROVE  PendingInv'
BY DEF PendingInv, InOrder, Waiting

(* The first callback of the vector run() works on is the next one of its  *)
(* thread.                                                                 *)
LEMMA HeadIsNext ==
  ASSUME TypeOK, PendingInv, callbacks # <<>>
  PROVE  /\ Head(callbacks).by \in Remote
         /\ Head(callbacks).n = done[Head(callbacks).by] + 1
<1> DEFINE c == callbacks[1]
<1>1. Head(callbacks) = c /\ 1 \in 1..Len(callbacks) /\ c \in Callbacks
  BY DEF TypeOK
<1>2. c.by \in Remote /\ c.n > done[c.by] /\ c.n <= posted[c.by]
  BY <1>1 DEF PendingInv, Waiting
<1>3. done[c.by] \in Nat /\ posted[c.by] \in Nat /\ c.n \in Nat
  BY <1>1, <1>2, BoundAssumption DEF TypeOK, Threads, Callbacks
<1> DEFINE k == done[c.by] + 1
<1>4. k \in (done[c.by] + 1)..posted[c.by]
  BY <1>2, <1>3
<1>5. CASE \E i \in 1..Len(callbacks) : callbacks[i] = [by |-> c.by, n |-> k]
  <2>1. PICK i \in 1..Len(callbacks) : callbacks[i] = [by |-> c.by, n |-> k]
    BY <1>5
  <2>2. callbacks[i].by = c.by /\ callbacks[i].n = k
    BY <2>1
  <2>3. i # 1 => c.n < callbacks[i].n
    BY <1>1, <2>2 DEF PendingInv, InOrder
  <2> QED
    BY <1>1, <1>2, <1>3, <2>2, <2>3
<1>6. CASE \E i \in 1..Len(pending) : pending[i] = [by |-> c.by, n |-> k]
  <2>1. PICK i \in 1..Len(pending) : pending[i] = [by |-> c.by, n |-> k]
    BY <1>6
  <2>2. pending[i].by = c.by /\ pending[i].n = k
    BY <2>1
  <2>3. c.n < pending[i].n
    BY <1>1, <2>2 DEF PendingInv
  <2> QED
    BY <1>1, <1>2, <1>3, <2>2, <2>3
<1> QED
  BY <1>2, <1>4, <1>5, <1>6 DEF PendingInv

LEMMA QueueElement ==
  ASSUME NEW q \in Seq(Callbacks), NEW i \in 1..Len(q)
  PROVE  q[i] \in Callbacks /\ q[i].by \in Threads /\ q[i].n \in Nat
<1>1. q[i] \in Callbacks
  OBVIOUS
<1> QED
  BY <1>1, BoundAssumption DEF Callbacks

(* Posting keeps the order of what is pending. *)
LEMMA PostCallbackOrder ==
  ASSUME TypeOK, PendingInv, NEW t \in Remote, PostCallback(t)
  PROVE  PendingInv'
<1> DEFINE c == [by |-> t, n |-> posted[t] + 1]
<1>0. /\ t \in Threads /\ Remote \subseteq Threads
      /\ posted[t] \in Nat /\ done[t] \in Nat
      /\ pending \in Seq(Callbacks)
  BY BoundAssumption DEF Threads, TypeOK
<1>1. /\ pending' = Append(pending, c)
      /\ UNCHANGED <<callbacks, phase, done>>
  BY DEF PostCallback, loopVars
<1>2. posted'[t] = posted[t] + 1 /\ \A u \in Remote : u # t => posted'[u] = posted[u]
  BY <1>0 DEF PostCallback, TypeOK
<1>3. Len(pending') = Len(pending) + 1 /\ Len(pending) \in Nat
  BY <1>0, <1>1
<1>4. \A i \in 1..Len(pending) : pending'[i] = pending[i]
  BY <1>0, <1>1
<1>5. pending'[Len(pending) + 1] = c
  BY <1>0, <1>1
<1>6. \A u \in Remote : /\ posted[u] \in Nat /\ done[u] \in Nat /\ posted'[u] \in Nat
                          /\ posted'[u] >= posted[u]
  <2> TAKE u \in Remote
  <2>1. posted[u] \in Nat /\ done[u] \in Nat
    BY <1>0, BoundAssumption DEF TypeOK
  <2> QED
    BY <1>2, <2>1
<1>7. \A i \in 1..Len(callbacks) : callbacks[i].n \in Nat
  BY QueueElement DEF TypeOK
<1>8. \A i \in 1..Len(pending) : pending[i].n \in Nat
  BY QueueElement DEF TypeOK
<1>9. InOrder(callbacks) /\ (phase # "callbacks" => callbacks = <<>>)
  BY DEF PendingInv
<1>10. InOrder(callbacks)' /\ (phase # "callbacks" => callbacks = <<>>)'
  BY <1>1, <1>9 DEF InOrder
<1>11. Waiting(callbacks)'
  <2> SUFFICES ASSUME NEW i \in 1..Len(callbacks)
               PROVE  /\ callbacks[i].by \in Remote
                      /\ callbacks[i].n > done[callbacks[i].by]
                      /\ callbacks[i].n <= posted'[callbacks[i].by]
    BY <1>1 DEF Waiting
  <2>1. /\ callbacks[i].by \in Remote
        /\ callbacks[i].n > done[callbacks[i].by]
        /\ callbacks[i].n <= posted[callbacks[i].by]
    BY DEF PendingInv, Waiting
  <2> QED
    BY <1>6, <1>7, <2>1
<1>12. \A i \in 1..Len(pending) : /\ pending[i].by \in Remote
                                  /\ pending[i].n > done[pending[i].by]
                                  /\ pending[i].n <= posted[pending[i].by]
  BY DEF PendingInv, Waiting
<1>13. Waiting(pending)'
  <2> SUFFICES ASSUME NEW i \in 1..(Len(pending) + 1)
               PROVE  /\ pending'[i].by \in Remote
                      /\ pending'[i].n > done[pending'[i].by]
                      /\ pending'[i].n <= posted'[pending'[i].by]
    BY <1>1, <1>3 DEF Waiting
  <2>1. CASE i \in 1..Len(pending)
    BY <1>4, <1>6, <1>8, <1>12, <2>1
  <2>2. CASE i = Len(pending) + 1
    <3>1. posted[t] >= done[t]
      BY DEF PendingInv
    <3> QED
      BY <1>0, <1>2, <1>5, <2>2, <3>1
  <2> QED
    BY <1>3, <2>1, <2>2
<1>14. InOrder(pending)'
  <2> SUFFICES ASSUME NEW i \in 1..(Len(pending) + 1), NEW j \in 1..(Len(pending) + 1),
                      i < j, pending'[i].by = pending'[j].by
               PROVE  pending'[i].n < pending'[j].n
    BY <1>3 DEF InOrder
  <2>1. i \in 1..Len(pending)
    BY <1>3
  <2>2. CASE j \in 1..Len(pending)
    BY <1>4, <2>1, <2>2 DEF PendingInv, InOrder
  <2>3. CASE j = Len(pending) + 1
    BY <1>0, <1>4, <1>5, <1>8, <1>12, <2>1, <2>3
  <2> QED
    BY <1>3, <2>2, <2>3
<1>15. ASSUME NEW i \in 1..Len(callbacks), NEW j \in 1..(Len(pending) + 1),
              callbacks[i].by = pending'[j].by
       PROVE  callbacks[i].n < pending'[j].n
  <2>1. CASE j \in 1..Len(pending)
    BY <1>4, <1>15, <2>1 DEF PendingInv
  <2>2. CASE j = Len(pending) + 1
    <3>1. callbacks[i].n <= posted[callbacks[i].by]
      BY DEF PendingInv, Waiting
    <3> QED
      BY <1>0, <1>5, <1>7, <1>15, <2>2, <3>1
  <2> QED
    BY <1>3, <2>1, <2>2
<1>16. ASSUME NEW u \in Remote, NEW k \in (done[u] + 1)..posted'[u]
       PROVE  \/ \E i \in 1..Len(callbacks) : callbacks[i] = [by |-> u, n |-> k]
              \/ \E i \in 1..Len(pending') : pending'[i] = [by |-> u, n |-> k]
  <2>1. CASE k \in (done[u] + 1)..posted[u]
    BY <1>3, <1>4, <2>1 DEF PendingInv
  <2>2. CASE u = t /\ k = posted[t] + 1
    BY <1>3, <1>5, <2>2
  <2> QED
    BY <1>0, <1>2, <1>6, <2>1, <2>2
<1>17. \A u \in Remote : done[u] <= posted'[u]
  BY <1>6 DEF PendingInv
<1> QED
  BY <1>1, <1>3, <1>10, <1>11, <1>13, <1>14, <1>15, <1>16, <1>17 DEF PendingInv

(* Swapping the pending callbacks into the empty vector of run() keeps     *)
(* their order.                                                            *)
LEMMA SwapOrder ==
  ASSUME TypeOK, PendingInv, Swap
  PROVE  PendingInv'
<1>1. callbacks = <<>> /\ callbacks' = pending /\ pending' = <<>> /\ phase' = "callbacks"
  BY DEF Swap, SwapPending, PendingInv
<1>2. UNCHANGED <<posted, done>>
  BY DEF Swap
<1>3. Len(<<>>) = 0
  OBVIOUS
<1>4. InOrder(callbacks)' /\ Waiting(callbacks)'
  BY <1>1, <1>2 DEF PendingInv, InOrder, Waiting
<1>5. InOrder(pending)' /\ Waiting(pending)'
  BY <1>1, <1>3 DEF InOrder, Waiting
<1>6. \A i \in 1..Len(callbacks'), j \in 1..Len(pending') :
        callbacks'[i].by = pending'[j].by => callbacks'[i].n < pending'[j].n
  BY <1>1, <1>3
<1>7. \A t \in Remote : \A k \in (done[t] + 1)..posted[t] :
        \E i \in 1..Len(pending) : pending[i] = [by |-> t, n |-> k]
  BY <1>1, <1>3 DEF PendingInv
<1>8. \A t \in Remote : done[t] <= posted[t]
  BY DEF PendingInv
<1> QED
  BY <1>1, <1>2, <1>4, <1>5, <1>6, <1>7, <1>8 DEF PendingInv

(* Invoking the first callback of the vector makes it the last one of its  *)
(* thread that was invoked; everything behind it is later.                 *)
LEMMA RunCallbackOrder ==
  ASSUME TypeOK, PendingInv, RunCallback,
         \A t \in Remote : posted'[t] = posted[t]
  PROVE  PendingInv'
<1> DEFINE c == callbacks[1]
<1> DEFINE m == Len(callbacks) - 1
<1>1. /\ callbacks \in Seq(Callbacks) /\ callbacks # <<>> /\ callbacks' = Tail(callbacks)
      /\ pending' = pending /\ phase' = "callbacks"
      /\ Head(callbacks) = c /\ 1 \in 1..Len(callbacks)
  BY DEF RunCallback, TypeOK
<1>2. /\ m \in Nat /\ Len(callbacks) = m + 1 /\ Len(callbacks') = m
      /\ \A i \in 1..m : callbacks'[i] = callbacks[i + 1] /\ i + 1 \in 1..Len(callbacks)
  BY <1>1
<1>3. c.by \in Remote /\ c.n = done[c.by] + 1
  BY <1>1, HeadIsNext
<1>4. /\ done'[c.by] = c.n
      /\ \A t \in Remote : t # c.by => done'[t] = done[t]
  <2>1. done' = [done EXCEPT ![c.by] = c.n]
    BY <1>1 DEF RunCallback
  <2> QED
    BY <1>3, <2>1 DEF TypeOK, Threads
<1>5. \A t \in Remote : posted[t] \in Nat /\ done[t] \in Nat
  BY BoundAssumption DEF TypeOK, Threads
<1>6. \A i \in 1..Len(callbacks) :
        /\ callbacks[i].by \in Remote /\ callbacks[i].n \in Nat
        /\ callbacks[i].n > done[callbacks[i].by]
        /\ callbacks[i].n <= posted[callbacks[i].by]
  BY <1>1, QueueElement DEF PendingInv, Waiting
<1>7. \A i \in 1..Len(pending) :
        /\ pending[i].by \in Remote /\ pending[i].n \in Nat
        /\ pending[i].n > done[pending[i].by]
        /\ pending[i].n <= posted[pending[i].by]
  BY QueueElement DEF PendingInv, Waiting, TypeOK
<1>8. \A i \in 1..Len(callbacks) : i > 1 /\ callbacks[i].by = c.by => callbacks[i].n > c.n
  BY <1>1, <1>6 DEF PendingInv, InOrder
<1>9. \A j \in 1..Len(pending) : pending[j].by = c.by => pending[j].n > c.n
  BY <1>1, <1>6, <1>7 DEF PendingInv
<1>10. InOrder(callbacks)'
  <2>1. ASSUME NEW i \in 1..m, NEW j \in 1..m, i < j, callbacks'[i].by = callbacks'[j].by
        PROVE  callbacks'[i].n < callbacks'[j].n
    <3>1. /\ i + 1 \in 1..Len(callbacks) /\ j + 1 \in 1..Len(callbacks) /\ i + 1 < j + 1
          /\ callbacks[i + 1].by = callbacks[j + 1].by
      BY <1>2, <2>1
    <3>2. callbacks[i + 1].n < callbacks[j + 1].n
      BY <3>1 DEF PendingInv, InOrder
    <3> QED
      BY <1>2, <3>2
  <2> QED
    BY <1>2, <2>1 DEF InOrder
<1>11. Waiting(callbacks)'
  <2> SUFFICES ASSUME NEW i \in 1..m
               PROVE  /\ callbacks[i + 1].by \in Remote
                      /\ callbacks[i + 1].n > done'[callbacks[i + 1].by]
                      /\ callbacks[i + 1].n <= posted'[callbacks[i + 1].by]
    BY <1>2 DEF Waiting
  <2>1. i + 1 \in 1..Len(callbacks) /\ i + 1 > 1
    BY <1>2
  <2> QED
    BY <1>4, <1>6, <1>8, <2>1
<1>12. InOrder(pending)' /\ Waiting(pending)'
  BY <1>1, <1>4, <1>7, <1>9 DEF PendingInv, InOrder, Waiting
<1>13. \A i \in 1..Len(callbacks'), j \in 1..Len(pending') :
         callbacks'[i].by = pending'[j].by => callbacks'[i].n < pending'[j].n
  BY <1>1, <1>2 DEF PendingInv
<1>14. \A t \in Remote : done'[t] <= posted'[t]
  BY <1>1, <1>4, <1>6 DEF PendingInv
<1>15. ASSUME NEW t \in Remote, NEW k \in (done'[t] + 1)..posted'[t]
       PROVE  \/ \E i \in 1..Len(callbacks') : callbacks'[i] = [by |-> t, n |-> k]
              \/ \E i \in 1..Len(pending') : pending'[i] = [by |-> t, n |-> k]
  <2>1. k \in (done[t] + 1)..posted[t] /\ (t = c.by => k > c.n)
    BY <1>1, <1>3, <1>4, <1>5, <1>6, <1>15
  <2>2. CASE \E i \in 1..Len(callbacks) : callbacks[i] = [by |-> t, n |-> k]
    <3>1. PICK i \in 1..Len(callbacks) : callbacks[i] = [by |-> t, n |-> k]
      BY <2>2
    <3>2. callbacks[i].by = t /\ callbacks[i].n = k
      BY <3>1
    <3>3. i # 1
      BY <1>1, <1>6, <2>1, <3>2
    <3>4. i - 1 \in 1..m /\ (i - 1) + 1 = i
      BY <1>2, <3>3
    <3>5. callbacks'[i - 1] = callbacks[i]
      BY <1>2, <3>4
    <3> QED
      BY <1>2, <3>1, <3>4, <3>5
  <2>3. CASE \E i \in 1..Len(pending) : pending[i] = [by |-> t, n |-> k]
    BY <1>1, <2>3
  <2> QED
    BY <2>1, <2>2, <2>3 DEF PendingInv
<1> QED
  BY <1>1, <1>10, <1>11, <1>12, <1>13, <1>14, <1>15 DEF PendingInv

(* The task at the front of task_queue_ is the next one of the owner.      *)
LEMMA FrontIsNext ==
  ASSUME TypeOK, TaskInv, taskQueue # <<>>
  PROVE  FrontTask.by = Owner /\ FrontTask.n = done[Owner] + 1
<1>1. FrontTask = taskQueue[1] /\ 1 \in 1..Len(taskQueue)
  BY DEF TypeOK, FrontTask
<1> QED
  BY <1>1 DEF TaskInv

(* Running the front task, which may post one more, keeps task_queue_ what *)
(* the owner has posted and not run.                                       *)
LEMMA RunTaskOrder ==
  ASSUME TypeOK, TaskInv, RunTask
  PROVE  /\ TaskInv'
         /\ \A t \in Remote : posted'[t] = posted[t] /\ done'[t] = done[t]
<1> USE ThreadAssumption, BoundAssumption
<1> DEFINE tail == Tail(taskQueue)
<1> DEFINE m == Len(taskQueue) - 1
<1>0. Owner \in Threads /\ Remote \subseteq Threads
  BY DEF Threads
<1>1. PICK posts, stops \in BOOLEAN : OwnerCode(tail, posts, stops)
  BY DEF RunTask
<1>2. posted[Owner] \in Nat /\ done[Owner] \in Nat
  BY <1>0 DEF TypeOK
<1>3. taskQueue # <<>> /\ taskQueue \in Seq(Callbacks)
  BY DEF RunTask, TypeOK
<1>4. FrontTask.by = Owner /\ FrontTask.n = done[Owner] + 1
  BY <1>3, FrontIsNext
<1>5. done'[Owner] = done[Owner] + 1 /\ \A t \in Remote : done'[t] = done[t]
  <2>1. done' = [done EXCEPT ![Owner] = done[Owner] + 1]
    BY <1>4 DEF RunTask
  <2> QED
    BY <1>0, <2>1 DEF TypeOK
<1>6. \A t \in Remote : posted'[t] = posted[t]
  BY <1>0, <1>1 DEF OwnerCode, TypeOK
<1>7. /\ tail \in Seq(Callbacks) /\ m \in Nat /\ Len(taskQueue) = m + 1 /\ Len(tail) = m
      /\ \A i \in 1..m : tail[i] = taskQueue[i + 1] /\ i + 1 \in 1..Len(taskQueue)
  BY <1>3
<1>8. m = posted[Owner] - (done[Owner] + 1)
  BY <1>2, <1>7 DEF TaskInv
<1>9. \A i \in 1..m : tail[i].by = Owner /\ tail[i].n = (done[Owner] + 1) + i
  <2> TAKE i \in 1..m
  <2>1. taskQueue[i + 1].by = Owner /\ taskQueue[i + 1].n = done[Owner] + (i + 1)
    BY <1>7 DEF TaskInv
  <2> QED
    BY <1>2, <1>7, <2>1
<1> HIDE DEF tail, m
<1>10. CASE ~posts
  <2>1. taskQueue' = tail /\ posted'[Owner] = posted[Owner]
    BY <1>0, <1>1, <1>10 DEF OwnerCode, TypeOK
  <2> QED
    BY <1>5, <1>6, <1>7, <1>8, <1>9, <2>1 DEF TaskInv
<1>11. CASE posts
  <2> DEFINE c == [by |-> Owner, n |-> posted[Owner] + 1]
  <2>1. taskQueue' = Append(tail, c) /\ posted'[Owner] = posted[Owner] + 1
    BY <1>0, <1>1, <1>11 DEF OwnerCode, TypeOK
  <2>2. Len(taskQueue') = m + 1 /\ taskQueue'[m + 1] = c
    BY <1>7, <2>1
  <2>3. \A i \in 1..m : taskQueue'[i] = tail[i]
    BY <1>7, <2>1
  <2>4. c.by = Owner /\ c.n = done'[Owner] + (m + 1)
    BY <1>2, <1>5, <1>7, <1>8
  <2>5. Len(taskQueue') = posted'[Owner] - done'[Owner]
    BY <1>2, <1>5, <1>7, <1>8, <2>1, <2>2
  <2>6. \A i \in 1..(m + 1) : taskQueue'[i].by = Owner /\ taskQueue'[i].n = done'[Owner] + i
    BY <1>5, <1>7, <1>9, <2>2, <2>3, <2>4
  <2> QED
    BY <1>5, <1>6, <2>2, <2>5, <2>6 DEF TaskInv
<1> QED
  BY <1>10, <1>11

(* The inductive invariant of both queues: task_queue_ holds what the      *)
(* owner posted and has not run, and the vectors of callbacks hold what    *)
(* the other threads posted, in the order of posting.                      *)
THEOREM QueuesInOrder == Spec => []OrderInv
<1>1. Init => OrderInv
  <2>1. Len(<<>>) = 0
    OBVIOUS
  <2> QED
    BY <2>1 DEF Init, OrderInv, TaskInv, PendingInv, InOrder, Waiting, Threads
<1>2. TypeOK /\ OrderInv /\ [Next]_vars => OrderInv'
  <2> SUFFICES ASSUME TypeOK, OrderInv, [Next]_vars PROVE OrderInv'
    OBVIOUS
  <2> USE DEF OrderInv
  <2>0. ASSUME UNCHANGED <<taskQueue, callbacks, pending, posted, done>>,
               phase' # "callbacks" => callbacks = <<>>
        PROVE  OrderInv'
    <3>1. TaskInv'
      BY <2>0 DEF TaskInv
    <3> QED
      BY <2>0, <3>1, PendingFrame
  <2>1. ASSUME NEW t \in Remote, PostCallback(t) PROVE OrderInv'
    <3>1. posted'[Owner] = posted[Owner] /\ UNCHANGED <<taskQueue, done>>
      BY <2>1, ThreadAssumption DEF PostCallback, TypeOK, Threads, loopVars
    <3>2. TaskInv'
      BY <3>1 DEF TaskInv
    <3> QED
      BY <2>1, <3>2, PostCallbackOrder
  <2>2. ASSUME NEW t \in Remote, PostNotify(t) \/ Stop(t) \/ StopNotify(t) PROVE OrderInv'
    BY <2>0, <2>2 DEF PostNotify, Stop, StopNotify, loopVars, PendingInv
  <2>3. ASSUME NEW posts \in BOOLEAN, NEW stops \in BOOLEAN,
               OwnerCode(taskQueue, posts, stops), UNCHANGED <<callbacks, pending, done, phase>>
        PROVE  OrderInv'
    <3>1. TaskInv' /\ \A t \in Remote : posted'[t] = posted[t]
      BY <2>3, OwnerCodeTask
    <3>2. PendingInv'
      <4>1. phase' # "callbacks" => callbacks = <<>>
        BY <2>3 DEF PendingInv
      <4> QED
        BY <2>3, <3>1, <4>1, PendingFrame
    <3> QED
      BY <3>1, <3>2
  <2>4. CASE BeforeRun
    BY <2>3, <2>4 DEF BeforeRun, loopVars
  <2>5. CASE Run \/ CheckRunning \/ EventsDone \/ PullTimeout \/ PullError
    BY <2>0, <2>5 DEF Run, CheckRunning, EventsDone, PullTimeout, PullError, PendingInv
  <2>6. ASSUME NEW batch \in SUBSET Sources, PullEvents(batch) PROVE OrderInv'
    BY <2>0, <2>6 DEF PullEvents, PendingInv
  <2>7. CASE HandleNotify
    BY <2>0, <2>7 DEF HandleNotify, PendingInv
  <2>8. ASSUME NEW source \in Io, HandleIo(source) PROVE OrderInv'
    BY <2>3, <2>8 DEF HandleIo
  <2>9. CASE Swap
    <3>1. TaskInv'
      BY <2>9 DEF Swap, TaskInv
    <3> QED
      BY <2>9, <3>1, SwapOrder
  <2>10. CASE RunCallback
    <3>1. PICK posts, stops \in BOOLEAN : OwnerCode(taskQueue, posts, stops)
      BY <2>10 DEF RunCallback
    <3>2. done'[Owner] = done[Owner]
      <4>1. Head(callbacks).by # Owner
        BY <2>10, HeadIsNext, ThreadAssumption DEF RunCallback
      <4> QED
        BY <2>10, <4>1 DEF RunCallback, TypeOK, Threads
    <3>3. TaskInv' /\ \A t \in Remote : posted'[t] = posted[t]
      BY <3>1, <3>2, OwnerCodeTask
    <3> QED
      BY <2>10, <3>3, RunCallbackOrder
  <2>11. CASE CallbacksDone \/ TasksDone
    BY <2>0, <2>11 DEF CallbacksDone, TasksDone, PendingInv
  <2>12. CASE RunTask
    <3>1. /\ TaskInv'
          /\ \A t \in Remote : posted'[t] = posted[t] /\ done'[t] = done[t]
      BY <2>12, RunTaskOrder
    <3>2. UNCHANGED <<callbacks, pending, phase>>
      BY <2>12 DEF RunTask
    <3>3. PendingInv'
      <4>1. phase' # "callbacks" => callbacks = <<>>
        BY <3>2 DEF PendingInv
      <4> QED
        BY <3>1, <3>2, <4>1, PendingFrame
    <3> QED
      BY <3>1, <3>3
  <2>13. CASE UNCHANGED vars
    BY <2>0, <2>13 DEF vars, PendingInv
  <2> QED
    BY <2>1, <2>2, <2>4, <2>5, <2>6, <2>7, <2>8, <2>9, <2>10, <2>11, <2>12, <2>13
    DEF Next, RemoteNext, OwnerProgress, OwnerEnvironment, PullWoken, Sources
<1> QED
  BY <1>1, <1>2, TypeCorrect, PTL DEF Spec

(* The callbacks of a thread are invoked in the order in which it posted   *)
(* them, none skipped and none repeated (run() and post_callback()).       *)
THEOREM CallbacksInvokedInOrder == Spec => InvokedInOrder
<1>1. TypeOK /\ OrderInv /\ [Next]_vars
        => [\A t \in Threads : done'[t] \in {done[t], done[t] + 1}]_vars
  <2> SUFFICES ASSUME TypeOK, OrderInv, Next
               PROVE  \A t \in Threads : done'[t] \in {done[t], done[t] + 1}
    OBVIOUS
  <2>1. CASE UNCHANGED done
    BY <2>1
  <2>2. CASE RunCallback
    BY <2>2, HeadIsNext DEF RunCallback, OrderInv, TypeOK
  <2>3. CASE RunTask
    BY <2>3, FrontIsNext DEF RunTask, OrderInv, TypeOK
  <2>4. CASE ~RunCallback /\ ~RunTask
    BY <2>1, <2>4 DEF Next, RemoteNext, OwnerProgress, OwnerEnvironment, PullWoken,
       PostCallback, PostNotify, Stop, StopNotify, BeforeRun, Run, CheckRunning,
       PullEvents, PullTimeout, PullError, HandleNotify, HandleIo, EventsDone, Swap,
       CallbacksDone, TasksDone, loopVars
  <2> QED
    BY <2>2, <2>3, <2>4
<1> QED
  BY <1>1, TypeCorrect, QueuesInOrder, PTL DEF Spec, InvokedInOrder

(* A callback is in a queue exactly while it is posted and not invoked.    *)
THEOREM NoCallbackLost == Spec => []NothingLost
<1>1. TypeOK /\ OrderInv => NothingLost
  <2> SUFFICES ASSUME TypeOK, OrderInv, NEW t \in Threads
               PROVE  Queued(t) = [by : {t}, n : (done[t] + 1)..posted[t]]
    BY DEF NothingLost
  <2>0. posted[t] \in Nat /\ done[t] \in Nat
    BY BoundAssumption DEF TypeOK
  <2>1. \A i \in 1..Len(taskQueue) : /\ taskQueue[i] \in Callbacks /\ taskQueue[i].by = Owner
                                      /\ taskQueue[i].n = done[Owner] + i
    BY QueueElement DEF TypeOK, OrderInv, TaskInv
  <2>2. \A i \in 1..Len(callbacks) : /\ callbacks[i] \in Callbacks
                                       /\ callbacks[i].by \in Remote
                                       /\ callbacks[i].n > done[callbacks[i].by]
                                       /\ callbacks[i].n <= posted[callbacks[i].by]
    BY QueueElement DEF TypeOK, OrderInv, PendingInv, Waiting
  <2>3. \A i \in 1..Len(pending) : /\ pending[i] \in Callbacks
                                     /\ pending[i].by \in Remote
                                     /\ pending[i].n > done[pending[i].by]
                                     /\ pending[i].n <= posted[pending[i].by]
    BY QueueElement DEF TypeOK, OrderInv, PendingInv, Waiting
  <2>4. /\ DOMAIN taskQueue = 1..Len(taskQueue) /\ DOMAIN callbacks = 1..Len(callbacks)
        /\ DOMAIN pending = 1..Len(pending) /\ Len(taskQueue) \in Nat
    BY DEF TypeOK
  <2>5. CASE t = Owner
    <3>1. t \notin Remote /\ Len(taskQueue) = posted[t] - done[t]
      BY <2>5, ThreadAssumption DEF OrderInv, TaskInv
    <3>2. ASSUME NEW c \in Queued(t)
          PROVE  c \in [by : {t}, n : (done[t] + 1)..posted[t]]
      <4>1. PICK i \in 1..Len(taskQueue) : c = taskQueue[i]
        BY <2>2, <2>3, <2>4, <3>1, <3>2 DEF Queued
      <4>2. c \in Callbacks /\ c.by = t /\ c.n = done[t] + i
        BY <2>1, <2>5, <4>1
      <4>3. c.n \in (done[t] + 1)..posted[t]
        BY <2>0, <3>1, <4>2
      <4> QED
        BY <4>2, <4>3 DEF Callbacks
    <3>3. ASSUME NEW c \in [by : {t}, n : (done[t] + 1)..posted[t]]
          PROVE  c \in Queued(t)
      <4>1. c.by = t /\ c.n \in (done[t] + 1)..posted[t] /\ c = [by |-> c.by, n |-> c.n]
        OBVIOUS
      <4>2. c.n - done[t] \in 1..Len(taskQueue)
        BY <2>0, <3>1, <4>1
      <4> DEFINE d == taskQueue[c.n - done[t]]
      <4>3. d \in Callbacks /\ d.by = t /\ d.n = c.n
        BY <2>0, <2>1, <2>5, <4>1, <4>2
      <4>4. d = c
        BY <4>1, <4>3 DEF Callbacks
      <4> QED
        BY <2>4, <4>1, <4>2, <4>4 DEF Queued
    <3> QED
      BY <3>2, <3>3
  <2>6. CASE t \in Remote
    <3>1. t # Owner
      BY <2>6, ThreadAssumption
    <3>2. ASSUME NEW c \in Queued(t)
          PROVE  c \in [by : {t}, n : (done[t] + 1)..posted[t]]
      <4>1. c \in Callbacks /\ c.by = t /\ c.n > done[t] /\ c.n <= posted[t]
        BY <2>1, <2>2, <2>3, <2>4, <3>1, <3>2 DEF Queued
      <4>2. c.n \in Nat
        BY <4>1, BoundAssumption DEF Callbacks
      <4>3. c.n \in (done[t] + 1)..posted[t]
        BY <2>0, <4>1, <4>2
      <4> QED
        BY <4>1, <4>3 DEF Callbacks
    <3>3. ASSUME NEW c \in [by : {t}, n : (done[t] + 1)..posted[t]]
          PROVE  c \in Queued(t)
      <4>1. c.by = t /\ c.n \in (done[t] + 1)..posted[t] /\ c = [by |-> t, n |-> c.n]
        OBVIOUS
      <4>2. \/ \E i \in 1..Len(callbacks) : callbacks[i] = c
            \/ \E i \in 1..Len(pending) : pending[i] = c
        BY <2>6, <4>1 DEF OrderInv, PendingInv
      <4> QED
        BY <2>4, <4>1, <4>2 DEF Queued
    <3> QED
      BY <3>2, <3>3
  <2> QED
    BY <2>5, <2>6 DEF Threads
<1> QED
  BY <1>1, TypeCorrect, QueuesInOrder, PTL

(* pull_events() doubles epoll_events_ only when a batch has filled it,    *)
(* and a batch has at most one entry per registered source: the array      *)
(* stays bounded by what is registered, however long the loop runs.        *)
THEOREM EventArrayBounded == Spec => []EpollEventsBounded
<1>1. Init => EpollEventsBounded
  BY BoundAssumption DEF Init, EpollEventsBounded
<1>2. TypeOK /\ EpollEventsBounded /\ [Next]_vars => EpollEventsBounded'
  <2> SUFFICES ASSUME TypeOK, EpollEventsBounded, [Next]_vars PROVE EpollEventsBounded'
    OBVIOUS
  <2>1. ASSUME NEW batch \in SUBSET Sources, PullEvents(batch) PROVE EpollEventsBounded'
    <3>1. IsFiniteSet(Sources)
      BY SourceAssumption, FS_AddElement DEF Sources
    <3>2. Cardinality(batch) \in Nat /\ Cardinality(batch) <= Cardinality(Sources)
          /\ Cardinality(Sources) \in Nat
      BY <3>1, FS_Subset, FS_CardinalityType
    <3>3. epollEvents' \in {epollEvents, 2 * Cardinality(batch)}
      BY <2>1 DEF PullEvents, Grow
    <3> QED
      BY <3>2, <3>3 DEF EpollEventsBounded
  <2>2. CASE UNCHANGED epollEvents
    BY <2>2 DEF EpollEventsBounded
  <2>3. CASE PullTimeout
    BY <2>2, <2>3 DEF PullTimeout, Grow, TypeOK
  <2>4. \/ PullWoken \/ (\E batch \in SUBSET Io : PullEvents(batch)) \/ PullTimeout
        \/ UNCHANGED epollEvents
    BY DEF Next, RemoteNext, OwnerProgress, OwnerEnvironment, PostCallback, PostNotify,
           Stop, StopNotify, BeforeRun, Run, CheckRunning, PullError,
           HandleNotify, HandleIo, EventsDone, Swap, RunCallback, CallbacksDone, RunTask,
           TasksDone, loopVars, vars
  <2> QED
    BY <2>1, <2>2, <2>3, <2>4 DEF PullWoken, Sources
<1> QED
  BY <1>1, <1>2, TypeCorrect, PTL DEF Spec
==============================================================================
