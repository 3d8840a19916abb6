------------------------------ MODULE Connection ------------------------------
(***************************************************************************)
(* muti::Connection on its event loop: the callbacks of its event source,  *)
(* the closures close(), force_close() and write() post to the loop, the   *)
(* closures' references that keep it alive, and its destruction.           *)
(*                                                                         *)
(* One connection is modelled, from the moment it is accepted or connected *)
(* until its object is deleted.  The loop thread runs the cycle of         *)
(* EventLoop::run() (module EventLoop) restricted to this connection; the  *)
(* user's callbacks run on it, and another thread may hold a ConnectionPtr *)
(* and call the API at any moment.                                         *)
(***************************************************************************)
EXTENDS Integers, Sequences, FiniteSets, SequencesExt, EventSource

CONSTANTS
  Scripts,     \* the calls the user makes in each of its callbacks
  Holders,     \* who may keep a ConnectionPtr: some of "local", "remote"
  RemoteCalls, \* the calls of the other thread
  MaxTasks,    \* bound: closures the user lets wait in task_queue_
  MaxBytes     \* bound: the bytes write() accepts

Hooks == {"established", "read", "error", "closed"}

(* A closure in a queue of the loop: what it calls, whether it captured    *)
(* self = shared_from_this() or the plain this, and the bytes to write: at *)
(* least one, for a ByteBuffer of none fails its assertion.                *)
Calls ==
  [op : {"close", "force_close"}, ref : {"self", "this"}, len : {0}]
    \cup [op : {"write"}, ref : {"self", "this"}, len : Nat \ {0}]

ASSUME ConnectionAssumption ==
  /\ Scripts \in [Hooks -> SUBSET Seq(Calls)]
  /\ Holders \subseteq {"local", "remote"}
  /\ RemoteCalls \subseteq Calls
  /\ MaxTasks \in Nat
  /\ MaxBytes \in Nat

Null == -1   \* buffer_out_ before the first do_write()

VARIABLES
  state,       \* state_
  es,          \* event_source_
  bufOut,      \* the bytes in buffer_out_, or Null
  inMap,       \* connections_ holds the connection
  tasks,       \* task_queue_
  pending,     \* pending_callbacks_
  batch,       \* the local vector callbacks of run()
  next,        \* the index of the next element of batch to invoke
  phase,       \* where the loop thread is
  ready,       \* ready_ops_ of the event the loop is handling
  held,        \* the users that keep a ConnectionPtr
  remote,      \* the other thread: idle, or past the is_closed() of write()
  peer,        \* the other end of the socket, as the kernel knows it
  alive,       \* the Connection object is not deleted yet
  fault,       \* the undefined behaviour or failed assertion that ended the run
  closedCalls, \* history: calls of closed_callback_, counted up to 2
  accepted,    \* history: the bytes of the calls of write() that returned true
  taken        \* history: the bytes the socket took

queues == <<pending, batch, next>>
vars == <<state, es, bufOut, inMap, tasks, pending, batch, next, phase, ready,
          held, remote, peer, alive, fault, closedCalls, accepted, taken>>

----------------------------------------------------------------------------
(* Mutants. *)

ForceCloseTaskThis == [op |-> "force_close", ref |-> "this", len |-> 0]
ForceCloseTaskGraceful == [op |-> "close", ref |-> "self", len |-> 0]
GuardedByNothing == TRUE
EnableWritingNever == es
RemovedNever == inMap
WrittenTwice(n) == bufOut - 2 * n
StillWriting(total) == FALSE
RefusedNever == FALSE

----------------------------------------------------------------------------

Init ==
  /\ state = "New"
  /\ es = NewEventSource
  /\ bufOut = Null
  /\ inMap = FALSE
  /\ tasks = <<>>
  /\ pending = <<>>
  /\ batch = <<>>
  /\ next = 1
  /\ phase = "new"
  /\ ready = {}
  /\ held = {}
  /\ remote = "idle"
  /\ peer = "open"
  /\ alive = TRUE
  /\ fault = "none"
  /\ closedCalls = 0
  /\ accepted = 0
  /\ taken = 0

IsClosed(s) == s \in {"Closed", "Disconnecting"}
HasBytesToWrite == bufOut > 0

CloseTask == [op |-> "close", ref |-> "self", len |-> 0]
ForceCloseTask == [op |-> "force_close", ref |-> "self", len |-> 0]

(* The ConnectionPtrs left: the map's, the users' and those captured by    *)
(* closures.  The vector batch keeps its closures until the iteration of   *)
(* run() ends, those already invoked included.                             *)
Captures(q) == \E i \in DOMAIN q : q[i].ref = "self"
HasReference == inMap \/ held # {} \/ Captures(tasks) \/ Captures(pending) \/ Captures(batch)

ForceQueued == \E i \in DOMAIN tasks : tasks[i].op = "force_close"

(* The step leaves the event source e; the object and e are deleted when   *)
(* no ConnectionPtr is left.                                               *)
Release(e) ==
  /\ alive' = (alive /\ HasReference')
  /\ es' = IF alive' THEN e ELSE DisableAll(e)

(* A user callback, given state_ and what the handler around it posts      *)
(* before and after: the closures its calls post, write() being refused    *)
(* when is_closed(), and whether it keeps or drops a ConnectionPtr.        *)
Refused(c, s) == c.op = "write" /\ IsClosed(s)
Accepted(script, s) ==
  LET upTo[n \in 0..Len(script)] ==
        IF n = 0 THEN <<>>
        ELSE IF Refused(script[n], s) THEN upTo[n - 1]
        ELSE Append(upTo[n - 1], script[n])
  IN  upTo[Len(script)]
LenIn(q) ==
  LET upTo[n \in 0..Len(q)] == IF n = 0 THEN 0 ELSE upTo[n - 1] + q[n].len
  IN  upTo[Len(q)]
UserCallback(hook, s, before, after) ==
  \E script \in Scripts[hook] :
    /\ tasks' = before \o Accepted(script, s) \o after
    /\ Len(script) > 0 => Len(tasks') <= MaxTasks
    /\ accepted' = accepted + LenIn(Accepted(script, s))
    /\ accepted' <= MaxBytes
    /\ held' \in SUBSET Holders
    /\ "remote" \in held => "remote" \in held'

NoUserCallback(q) == tasks' = q /\ UNCHANGED <<held, accepted>>

(* The process ends here. *)
Fault(kind) ==
  /\ fault' = kind
  /\ phase' = "dead"
  /\ UNCHANGED <<state, es, bufOut, inMap, tasks, queues, ready, held, remote, peer,
                 alive, closedCalls, accepted, taken>>

----------------------------------------------------------------------------
(* EventLoop::on_new_connection() and Connection::register_event(), from a *)
(* handler of the Acceptor or the Connector.                               *)
OnNewConnection ==
  /\ phase = "new"
  /\ state' = "Receiving"
  /\ inMap' = TRUE
  /\ UserCallback("established", state', tasks, <<>>)
  /\ phase' = "swap"
  /\ UNCHANGED <<bufOut, queues, ready, remote, peer, fault, closedCalls, taken>>
  /\ Release(EnableOps(NewEventSource, "IN"))

----------------------------------------------------------------------------
(* The peer, the kernel and epoll_wait. *)

(* The peer shuts its side down, or the connection is reset. *)
PeerShut ==
  /\ phase # "dead"
  /\ peer = "open"
  /\ peer' = "shut"
  /\ UNCHANGED <<state, es, bufOut, inMap, tasks, queues, phase, ready, held, remote,
                 alive, fault, closedCalls, accepted, taken>>

PeerReset ==
  /\ phase # "dead"
  /\ peer \in {"open", "shut"}
  /\ peer' = "reset"
  /\ UNCHANGED <<state, es, bufOut, inMap, tasks, queues, phase, ready, held, remote,
                 alive, fault, closedCalls, accepted, taken>>

(* The events epoll_wait may report: only armed ones, and always the ones  *)
(* that are certainly ready.  A reset is an ERR until a read or a write    *)
(* has taken the error from the socket ("dead").  HUP has no callback on a *)
(* connection and is left out.                                             *)
Reported(r) ==
  /\ r \subseteq es.armed \cup {"ERR"}
  /\ ("ERR" \in r) = (es.watched /\ peer = "reset")
  /\ peer # "open" => es.armed \cap {"IN"} \subseteq r
  /\ peer \in {"reset", "dead"} => es.armed \subseteq r

Poll(r) ==
  /\ phase = "poll"
  /\ Reported(r)
  /\ ready' = r
  /\ phase' = "events"
  /\ UNCHANGED <<state, es, bufOut, inMap, tasks, queues, held, remote, peer, alive,
                 fault, closedCalls, accepted, taken>>

----------------------------------------------------------------------------
(* EventSource::handle_events(): ERR alone, or IN and then OUT. *)

(* The loop follows the EventSource* it got from epoll_wait. *)
StaleEventSource ==
  /\ phase \in {"events", "out"}
  /\ ready # {}
  /\ ~alive
  /\ Fault("uaf")

NothingReady ==
  /\ phase = "events"
  /\ ready = {}
  /\ phase' = "swap"
  /\ UNCHANGED <<state, es, bufOut, inMap, tasks, queues, ready, held, remote, peer,
                 alive, fault, closedCalls, accepted, taken>>

(* error_callback_ is force_close(); then disable_all(). *)
HandleError ==
  /\ phase = "events"
  /\ alive
  /\ "ERR" \in ready
  /\ tasks' = Append(tasks, ForceCloseTask)
  /\ phase' = "swap"
  /\ UNCHANGED <<state, bufOut, inMap, queues, ready, held, remote, peer, fault,
                 closedCalls, accepted, taken>>
  /\ Release(DisableAll(es))

(* The guard of what handle_events() does with IN, and what all outcomes   *)
(* of the read() leave alone.                                              *)
Reading ==
  /\ phase = "events"
  /\ alive
  /\ "IN" \in ready /\ "ERR" \notin ready
  /\ phase' = "out"
  /\ UNCHANGED <<state, bufOut, inMap, queues, ready, remote, fault, closedCalls, taken>>

(* n < 0: error_callback_ and then force_close(), for which the object     *)
(* must have survived the callback.                                        *)
ReadError ==
  /\ Reading
  /\ peer = "reset"
  /\ peer' = "dead"
  /\ UserCallback("error", state, tasks, <<ForceCloseTask>>)
  /\ \/ inMap \/ held' # {}
     \/ Captures(pending) \/ Captures(SubSeq(tasks', 1, Len(tasks') - 1))
  /\ Release(es)

ReadErrorDropped ==
  /\ phase = "events"
  /\ alive
  /\ "IN" \in ready /\ "ERR" \notin ready
  /\ peer = "reset"
  /\ ~inMap /\ "remote" \notin held
  /\ ~Captures(pending) /\ ~Captures(tasks)
  /\ \E script \in Scripts["error"] : ~Captures(Accepted(script, state))
  /\ Fault("uaf")

(* n = 0 *)
ReadEof ==
  /\ Reading
  /\ peer \in {"shut", "dead"}
  /\ NoUserCallback(Append(tasks, CloseTask))
  /\ UNCHANGED peer
  /\ Release(DisableOps(es, "IN"))

(* n > 0: data may also precede the end of the stream. *)
ReadData ==
  /\ Reading
  /\ peer \in {"open", "shut"}
  /\ UserCallback("read", state, tasks, <<>>)
  /\ UNCHANGED peer
  /\ Release(es)

NoReading ==
  /\ phase = "events"
  /\ alive
  /\ ready = {"OUT"}
  /\ phase' = "out"
  /\ UNCHANGED <<state, es, bufOut, inMap, tasks, queues, ready, held, remote, peer,
                 alive, fault, closedCalls, accepted, taken>>

NoWriting ==
  /\ phase = "out"
  /\ alive
  /\ "OUT" \notin ready
  /\ phase' = "swap"
  /\ UNCHANGED <<state, es, bufOut, inMap, tasks, queues, ready, held, remote, peer,
                 alive, fault, closedCalls, accepted, taken>>

(* handle_write() asserts that there is something to write. *)
HandleWriteAssert ==
  /\ phase = "out"
  /\ alive
  /\ "OUT" \in ready
  /\ ~HasBytesToWrite
  /\ Fault("assert")

(* The guard of the rest of handle_write(). *)
Writing ==
  /\ phase = "out"
  /\ alive
  /\ "OUT" \in ready
  /\ HasBytesToWrite
  /\ phase' = "swap"
  /\ UNCHANGED <<state, inMap, queues, ready, remote, fault, closedCalls>>

(* total < 0: force_close() and then error_callback_. *)
WriteError ==
  /\ Writing
  /\ peer \in {"reset", "dead"}
  /\ peer' = "dead"
  /\ UserCallback("error", state, Append(tasks, ForceCloseTask), <<>>)
  /\ UNCHANGED <<bufOut, taken>>
  /\ Release(es)

(* total = 0 *)
WriteNothing ==
  /\ Writing
  /\ peer \in {"open", "shut"}
  /\ NoUserCallback(Append(tasks, ForceCloseTask))
  /\ UNCHANGED <<bufOut, peer, taken>>
  /\ Release(es)

(* total > 0.  While disconnecting, writing stops and close() runs again   *)
(* however much was written.                                               *)
Written(n) == bufOut - n
WriteDone(total) == state = "Disconnecting" \/ Written(total) = 0
WriteBytes(total) ==
  /\ Writing
  /\ peer \in {"open", "shut"}
  /\ bufOut' = Written(total)
  /\ taken' = taken + total
  /\ NoUserCallback(IF state = "Disconnecting" THEN Append(tasks, CloseTask) ELSE tasks)
  /\ UNCHANGED peer
  /\ Release(IF WriteDone(total) THEN DisableOps(es, "OUT") ELSE es)

----------------------------------------------------------------------------
(* The closures, run with the task_queue_ q behind them. *)

CountClosed == closedCalls' = IF closedCalls < 2 THEN closedCalls + 1 ELSE 2

(* remove_connection() *)
Removed == FALSE

(* The closure of close(). *)
RunClose(q) ==
  /\ ~HasBytesToWrite
  /\ state' = "Closed"
  /\ UserCallback("closed", state', q, <<>>)
  /\ CountClosed
  /\ inMap' = Removed
  /\ UNCHANGED bufOut
  /\ Release(es)

RunCloseLater(q) ==
  /\ HasBytesToWrite
  /\ state' = "Disconnecting"
  /\ NoUserCallback(q)
  /\ UNCHANGED <<closedCalls, inMap, bufOut>>
  /\ Release(es)

(* The closure of force_close(): the map decides whether the connection    *)
(* was closed before.                                                      *)
StillInMap == inMap
RunForceClose(q) ==
  /\ bufOut # Null
  /\ state' = "Closed"
  /\ bufOut' = 0
  /\ IF StillInMap
     THEN UserCallback("closed", state', q, <<>>) /\ CountClosed /\ inMap' = Removed
     ELSE NoUserCallback(q) /\ UNCHANGED <<closedCalls, inMap>>
  /\ Release(InterestOps(es, {}))

EnableWriting == EnableOps(es, "OUT")

(* do_write() *)
WriteRefused == state = "Closed"
RunWrite(q, len) ==
  IF WriteRefused
  THEN /\ NoUserCallback(Append(q, ForceCloseTask))
       /\ UNCHANGED <<state, closedCalls, inMap, bufOut>>
       /\ Release(es)
  ELSE /\ bufOut' = (IF bufOut = Null THEN 0 ELSE bufOut) + len
       /\ NoUserCallback(q)
       /\ UNCHANGED <<state, closedCalls, inMap>>
       /\ Release(EnableWriting)

Invoke(c, q) ==
  \/ c.op = "close" /\ (RunClose(q) \/ RunCloseLater(q))
  \/ c.op = "force_close" /\ RunForceClose(q)
  \/ c.op = "write" /\ RunWrite(q, c.len)

(* An invocation that ends the process: a closure that captured this runs  *)
(* after the object was deleted, or force_close() clears a buffer_out_     *)
(* that was never allocated.                                               *)
InvokeFault(c) ==
  \/ ~alive /\ Fault("uaf")
  \/ alive /\ c.op = "force_close" /\ bufOut = Null /\ Fault("null")

----------------------------------------------------------------------------
(* The rest of an iteration of run(). *)

Swap ==
  /\ phase = "swap"
  /\ batch' = pending
  /\ pending' = <<>>
  /\ next' = 1
  /\ phase' = "callbacks"
  /\ UNCHANGED <<state, es, bufOut, inMap, tasks, ready, held, remote, peer, alive,
                 fault, closedCalls, accepted, taken>>

RunCallback ==
  /\ phase = "callbacks"
  /\ next <= Len(batch)
  /\ \/ /\ alive
        /\ UNCHANGED <<pending, batch, phase, ready, remote, peer, fault, taken>>
        /\ next' = next + 1
        /\ Invoke(batch[next], tasks)
     \/ InvokeFault(batch[next])

CallbacksDone ==
  /\ phase = "callbacks"
  /\ next > Len(batch)
  /\ phase' = "tasks"
  /\ UNCHANGED <<state, es, bufOut, inMap, tasks, queues, ready, held, remote, peer,
                 alive, fault, closedCalls, accepted, taken>>

RunTask ==
  /\ phase = "tasks"
  /\ tasks # <<>>
  /\ \/ /\ alive
        /\ UNCHANGED <<queues, phase, ready, remote, peer, fault, taken>>
        /\ Invoke(Head(tasks), Tail(tasks))
     \/ InvokeFault(Head(tasks))

(* The iteration ends; the vector of callbacks is destroyed with it. *)
TasksDone ==
  /\ phase = "tasks"
  /\ tasks = <<>>
  /\ batch' = <<>>
  /\ next' = 1
  /\ ready' = {}
  /\ phase' = "poll"
  /\ UNCHANGED <<state, bufOut, inMap, tasks, pending, held, remote, peer, fault,
                 closedCalls, accepted, taken>>
  /\ Release(es)

----------------------------------------------------------------------------
(* The other thread, while it holds a ConnectionPtr. *)

RemoteHolds == phase # "dead" /\ "remote" \in held

(* is_closed() at the start of write() reads state_ without a lock ... *)
RemoteCheck ==
  /\ RemoteHolds
  /\ remote = "idle"
  /\ ~IsClosed(state)
  /\ \E c \in RemoteCalls : c.op = "write" /\ accepted + c.len <= MaxBytes
  /\ remote' = "checked"
  /\ UNCHANGED <<state, es, bufOut, inMap, tasks, queues, phase, ready, held, peer,
                 alive, fault, closedCalls, accepted, taken>>

(* ... and post_callback() comes later.  close() and force_close() do not  *)
(* look at state_.                                                         *)
RemotePost(c) ==
  /\ RemoteHolds
  /\ remote = IF c.op = "write" THEN "checked" ELSE "idle"
  /\ Len(pending) < MaxTasks
  /\ accepted + c.len <= MaxBytes
  /\ pending' = Append(pending, c)
  /\ accepted' = accepted + c.len
  /\ remote' = "idle"
  /\ UNCHANGED <<state, es, bufOut, inMap, tasks, batch, next, phase, ready, held, peer,
                 alive, fault, closedCalls, taken>>

RemoteDrop ==
  /\ RemoteHolds
  /\ remote = "idle"
  /\ held' = held \ {"remote"}
  /\ UNCHANGED <<state, bufOut, inMap, tasks, queues, phase, ready, remote, peer, fault,
                 closedCalls, accepted, taken>>
  /\ Release(es)

----------------------------------------------------------------------------

(* The steps the loop thread takes once it is woken. *)
LoopNext ==
  \/ OnNewConnection
  \/ StaleEventSource \/ NothingReady \/ HandleError
  \/ ReadError \/ ReadErrorDropped \/ ReadEof \/ ReadData \/ NoReading
  \/ NoWriting \/ HandleWriteAssert \/ WriteError \/ WriteNothing
  \/ \E total \in 1..bufOut : WriteBytes(total)
  \/ Swap \/ RunCallback \/ CallbacksDone \/ RunTask \/ TasksDone

PollNext == \E r \in SUBSET {"IN", "OUT", "ERR"} : Poll(r)

RemoteNext ==
  \/ RemoteCheck
  \/ \E c \in RemoteCalls : RemotePost(c)
  \/ RemoteDrop

Next == LoopNext \/ PollNext \/ PeerShut \/ PeerReset \/ RemoteNext

(* The loop thread keeps running; epoll_wait returns at the latest after   *)
(* its timeout of one second.                                              *)
Spec == Init /\ [][Next]_vars /\ WF_vars(LoopNext \/ PollNext)

----------------------------------------------------------------------------
(* Properties. *)

(* Every variable has its type. *)
TypeOK ==
  /\ state \in {"New", "Receiving", "Disconnecting", "Closed"}
  /\ es \in EventSources
  /\ bufOut \in {Null} \cup Nat
  /\ inMap \in BOOLEAN
  /\ tasks \in Seq(Calls) /\ pending \in Seq(Calls) /\ batch \in Seq(Calls)
  /\ next \in Nat \ {0}
  /\ phase \in {"new", "poll", "events", "out", "swap", "callbacks", "tasks", "dead"}
  /\ ready \subseteq Ops \cup {"ERR"}
  /\ held \subseteq Holders
  /\ remote \in {"idle", "checked"}
  /\ peer \in {"open", "shut", "reset", "dead"}
  /\ alive \in BOOLEAN
  /\ fault \in {"none", "uaf", "null", "assert"}
  /\ closedCalls \in 0..2
  /\ accepted \in 0..MaxBytes
  /\ taken \in Nat

(* Until it is closed, what epoll watches for the connection is what its   *)
(* event source is interested in: no order of enabling, disabling, errors  *)
(* and re-registration makes the two drift (EventSource.cpp:13-46).        *)
EpollAgrees ==
  state \in {"Receiving", "Disconnecting"} =>
    /\ es.armed = es.interest
    /\ es.watched = (es.interest # {})
    /\ es.watched = (es.state = "Registered")

(* Until it is closed, the connection waits to write only while it has     *)
(* bytes: what the assertion of handle_write() relies on.                  *)
WritingHasBytes ==
  state # "Closed" /\ "OUT" \in es.interest => HasBytesToWrite

(* While it receives, bytes in buffer_out_ are never stranded: writing is  *)
(* armed, or the closure that will throw them away is queued.              *)
BytesHaveWriter ==
  state = "Receiving" /\ HasBytesToWrite =>
    "OUT" \in es.armed \/ ForceQueued

(* A closed connection stays closed, although closures of close(), write() *)
(* and force_close() that were queued before still run on it.              *)
ClosedIsFinal == [][state = "Closed" => state' = "Closed"]_vars

(* No closure and no event reaches the object after its deletion. *)
NoUseAfterFree == fault # "uaf"

(* To its user the connection is a session (module Session).  A byte that  *)
(* write() accepted stays in a queued closure or in buffer_out_ until the  *)
(* socket takes it, none is lost or sent twice on the way; the connection  *)
(* gives unsent bytes up only after a reset or when a failed write has     *)
(* queued force_close(); closed_callback_ runs exactly once and before the *)
(* object is deleted, whichever of an end of file, an error and closures   *)
(* still queued come together, and write() accepts nothing after it.  For  *)
(* a user that writes and leaves the closing to the library, whose own     *)
(* close() would overtake what it writes behind it.                        *)
Unsent ==
  LenIn(tasks) + LenIn(pending) + LenIn(SubSeq(batch, next, Len(batch)))
    + (IF bufOut = Null THEN 0 ELSE bufOut)
Status ==
  CASE phase = "new" -> "new"
    [] phase # "new" /\ closedCalls = 0 ->
         IF ~alive THEN "dropped"
         ELSE IF peer \in {"reset", "dead"} \/ ForceQueued THEN "failing" ELSE "open"
    [] closedCalls = 1 -> IF alive THEN "closed" ELSE "freed"
    [] OTHER -> "closed again"
S == INSTANCE Session WITH status <- Status, unsent <- Unsent
ImplementsSession == S!Spec

(* A connection that is reset while epoll watches it gets closed, in       *)
(* whatever callback or closure the loop is when it happens.               *)
ResetCloses ==
  peer = "reset" /\ es.watched ~> (state = "Closed" \/ fault # "none")

(* The loop dispatches events only to a connection that the map holds and  *)
(* that is not closed, so no callback follows closed_callback_.            *)
DispatchedWhileOpen ==
  phase \in {"poll", "events", "out"} /\ alive => inMap /\ state # "Closed"

(* A closed connection is deleted, with its descriptor. *)
ClosedIsFreed == state = "Closed" ~> (~alive \/ fault # "none")

(* The assertion of handle_write(), Connection.cpp:182. *)
AssertionHolds == fault # "assert"

(* force_close() works on a connection that never wrote: the constructor   *)
(* leaves buffer_out_ null and has_bytes_to_write() expects it null.       *)
NoNullBuffer == fault # "null"

(* A connection that is disconnecting because it "has bytes to write"      *)
(* (Connection.cpp:109) is going to write them or has a closure queued.    *)
DisconnectingWrites ==
  state = "Disconnecting" /\ HasBytesToWrite /\ phase = "poll" =>
    "OUT" \in es.armed \/ pending # <<>>

----------------------------------------------------------------------------
(* Inductive strengthening, for module ConnectionProofs. *)

(* A connection that is not closed is in the map, hence alive; one that is *)
(* closed has nothing to write, so that no late closure reopens it; and    *)
(* nothing happens to it before it is established.                         *)
OpenInv ==
  /\ state = "New" <=> phase = "new"
  /\ state = "New" => /\ es = NewEventSource /\ bufOut = Null
                      /\ alive /\ held = {}
  /\ state \in {"Receiving", "Disconnecting"} => inMap /\ alive
  /\ state = "Closed" => ~HasBytesToWrite
  /\ EpollAgrees
  /\ WritingHasBytes
  /\ BytesHaveWriter

(* A user that keeps no ConnectionPtr, and whose write(const void*, len),  *)
(* the only call that captures this, neither follows a close() or a        *)
(* force_close() of the same callback nor is made in error_callback_,      *)
(* where a force_close() is queued already.                                *)
CarefulUser ==
  /\ Holders = {}
  /\ \A hook \in Hooks : \A script \in Scripts[hook] : \A j \in DOMAIN script :
       \/ script[j].ref = "self"
       \/ /\ script[j].op = "write" /\ hook # "error"
          /\ \A i \in 1..(j - 1) : script[i].op = "write"

(* What keeps such a user's connection alive: behind a closure that closes *)
(* it, every closure is a reference, so that a closed connection lives     *)
(* exactly until its queue is empty, which it is before epoll_wait; and    *)
(* epoll no longer knows a connection that was deleted.                    *)
AllSelf(q) == \A i \in DOMAIN q : q[i].ref = "self"
ClosesSafely(q) ==
  \A i, j \in DOMAIN q : i < j /\ q[i].op # "write" => q[j].ref = "self"
LifeInv ==
  /\ held = {} /\ pending = <<>> /\ batch = <<>>
  /\ phase \in {"new", "poll", "events"} => tasks = <<>>
  /\ ClosesSafely(tasks)
  /\ es.watched <=> es.state = "Registered"
  /\ ~es.watched => es.armed = {}
  /\ ~alive => ~es.watched
  /\ state = "Closed" => ~inMap /\ AllSelf(tasks) /\ (alive <=> tasks # <<>>)
  /\ phase = "out" => alive /\ state # "Closed"
  /\ phase = "events" /\ ready # {} => alive
  /\ fault # "uaf"
==============================================================================
