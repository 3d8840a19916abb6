------------------------------ MODULE Acceptor ------------------------------
(***************************************************************************)
(* One loop of a muti::TcpServer with many connections: the Acceptor and   *)
(* its listening socket, the connections it creates, connections_ keyed by *)
(* descriptor, and the process's descriptors, whose numbers are reused.    *)
(*                                                                         *)
(* Module Connection has one connection in detail.  Here a connection is   *)
(* what it does to the others: the closures its handlers and its users     *)
(* post, the map entry it removes, the descriptor it closes when deleted.  *)
(* Whether it has bytes left to write is a free choice; that it has        *)
(* written before, so that force_close() finds a buffer_out_, is assumed.  *)
(*                                                                         *)
(* The user may keep ConnectionPtrs as long as it likes, also of closed    *)
(* connections.  It takes them in established_callback_, and uses them and *)
(* lets go of them in any callback.                                        *)
(***************************************************************************)
EXTENDS Integers, Sequences, FiniteSets, FiniteSetsExt

CONSTANTS
  Conns,      \* bound: Connection objects that exist at once
  MaxHeld,    \* bound: ConnectionPtrs the user keeps
  Fds,        \* the descriptors left to the process
  Listener,   \* accept_event_, the event source of the Acceptor
  None,       \* no connection
  MaxBacklog, \* the length of the kernel's accept queue (SOMAXCONN)
  MaxAborts,  \* bound: peers that give up just before they are accepted
  MaxTasks    \* bound: closures the user lets wait in task_queue_

NoFd == -1    \* what accept4() returns when it fails

ASSUME AcceptorAssumption ==
  /\ Listener \notin Conns /\ None \notin Conns
  /\ Fds \subseteq Nat /\ IsFiniteSet(Fds)
  /\ MaxBacklog \in Nat \ {0}
  /\ MaxAborts \in Nat
  /\ MaxTasks \in Nat \ {0}
  /\ MaxHeld \in Nat
  \* one object per map entry and ConnectionPtr, and one for the next accept
  /\ IsFiniteSet(Conns) /\ Cardinality(Conns) >= Cardinality(Fds) + MaxHeld + 2

Closures == [op : {"close", "force_close", "write"}, conn : Conns]

VARIABLES
  backlog,      \* connections in the kernel's accept queue
  aborts,       \* history: peers that gave up just before they were accepted
  open,         \* the descriptor table: the connection that has each descriptor
  connections,  \* connections_, from descriptors, and -1, to connections
  fd,           \* fd_ of each connection
  state,        \* of each connection: it does not exist, its state_ is Closed,
                \* or any other state_
  held,         \* the connections of which the user keeps a ConnectionPtr
  watched,      \* the event sources in the epoll set
  active,       \* the event sources in active_events not handled yet
  tasks,        \* task_queue_
  phase,        \* where the thread of the loop is
  dropped       \* history: the closed connections whose ConnectionPtr the user
                \* let go of in the event callbacks of this batch

vars == <<backlog, aborts, open, connections, fd, state, held, watched, active, tasks,
          phase, dropped>>

----------------------------------------------------------------------------
(* Mutants. *)

ReferencedByThis(c) == c \in held \/ \E f \in DOMAIN connections : connections[f] = c
ClosedEarly(dead, st) == {f \in Fds : open[f] \in dead \/ (open[f] # None /\ st[open[f]] = "Closed")}
ClosedNever(dead, st) == {}
WatchedGivesUp(c, f) == IF f = NoFd THEN watched \ {Listener} ELSE watched \cup {c}
AcceptedTwice == backlog - 2

----------------------------------------------------------------------------

(* After the constructor of the Acceptor: bound, listening, registered. *)
Init ==
  /\ backlog = 0
  /\ aborts = 0
  /\ open = [f \in Fds |-> None]
  /\ connections = [f \in Fds \cup {NoFd} |-> None]
  /\ fd = [c \in Conns |-> NoFd]
  /\ state = [c \in Conns |-> "none"]
  /\ held = {}
  /\ watched = {Listener}
  /\ active = {}
  /\ tasks = <<>>
  /\ phase = "tasks"
  /\ dropped = {}

FreeFds == {f \in Fds : open[f] = None}

(* The ConnectionPtrs: the map's, the user's, the ones closures captured. *)
InMap(c) == \E f \in DOMAIN connections : connections[f] = c
Referenced(c) ==
  \/ c \in held
  \/ InMap(c)
  \/ \E i \in DOMAIN tasks : tasks[i].conn = c

(* Every step that may drop a ConnectionPtr ends with ~Connection() of the *)
(* connections that have none left: their event sources are unregistered   *)
(* and their descriptors closed, which has no effect for -1.  op, d, st    *)
(* and w are what the step makes of open, fd, state and watched.           *)
ClosedFds(dead, st) == {f \in Fds : open[f] \in dead}
Release(op, d, st, w) ==
  LET dead == {c \in Conns : st[c] # "none" /\ ~Referenced(c)'}
  IN  /\ open' = [f \in Fds |-> IF f \in ClosedFds(dead, st) THEN None ELSE op[f]]
      /\ fd' = [c \in Conns |-> IF c \in dead THEN NoFd ELSE d[c]]
      /\ state' = [c \in Conns |-> IF c \in dead THEN "none" ELSE st[c]]
      /\ watched' = w \ dead

(* The user's code in a callback: with the ConnectionPtrs ptrs at hand it  *)
(* makes at most one call, which goes behind the closures of q; write() of *)
(* a closed connection posts nothing.                                      *)
UserCode(ptrs, q) ==
  \/ tasks' = q
  \/ \E call \in [op : {"close", "force_close", "write"}, conn : ptrs] :
       /\ call.op = "write" => state[call.conn] # "Closed"
       /\ tasks' = Append(q, call) /\ Len(tasks') <= MaxTasks

(* What the user lets go of in an event callback, unless the map has it. *)
LetGo == {c \in held \ held' : ~InMap(c)'}

----------------------------------------------------------------------------
(* The kernel. *)

Arrive ==
  /\ phase \notin {"destroy", "gone", "crashed"}
  /\ backlog < MaxBacklog
  /\ backlog' = backlog + 1
  /\ UNCHANGED <<aborts, open, connections, fd, state, held, watched, active, tasks, phase,
                 dropped>>

(* The peer gives up between epoll_wait and accept4(); if it gave up       *)
(* before, it might as well not have come.                                 *)
Abort ==
  /\ Listener \in active /\ backlog > 0
  /\ aborts < MaxAborts
  /\ backlog' = backlog - 1
  /\ aborts' = aborts + 1
  /\ UNCHANGED <<open, connections, fd, state, held, watched, active, tasks, phase,
                 dropped>>

----------------------------------------------------------------------------
(* The loop. *)

(* The end of an iteration of run(), where the loop sleeps. *)
Idle == phase = "tasks" /\ tasks = <<>>

(* pull_events(): the listening socket is ready while its queue is not     *)
(* empty; a connection may be ready whenever it is watched.  The batch may *)
(* leave any of them out: epoll_events_ can be too small for all, and the  *)
(* eventfd of the loop takes a place as well.                              *)
Poll(batch) ==
  /\ Idle
  /\ Listener \in batch => backlog > 0
  /\ active' = batch
  /\ phase' = "events"
  /\ UNCHANGED <<backlog, aborts, open, connections, fd, state, held, watched, tasks, dropped>>

(* on_new_connection() for the new Connection c with descriptor f, called  *)
(* from the reading callback of accept_event_: register_event(), whose     *)
(* EPOLL_CTL_ADD fails for -1, the map entry, which replaces an older one, *)
(* and established_callback_.                                              *)
Watched(c, f) == IF f = NoFd THEN watched ELSE watched \cup {c}
OnNewConnection(c, f, op) ==
  /\ active' = active \ {Listener}
  /\ connections' = [connections EXCEPT ![f] = c]
  /\ held' \in SUBSET (held \cup {c}) /\ Cardinality(held') <= MaxHeld
  /\ dropped' = dropped \cup LetGo
  /\ UserCode(held \cup {c}, tasks)
  /\ UNCHANGED <<aborts, phase>>
  /\ Release(op, [fd EXCEPT ![c] = f], [state EXCEPT ![c] = "Open"], Watched(c, f))

Fresh == CHOOSE c \in Conns : state[c] = "none" /\ c \notin active
Accepted == backlog - 1
Accept ==
  /\ phase = "events" /\ Listener \in active
  /\ backlog > 0 /\ FreeFds # {}
  /\ backlog' = Accepted
  /\ LET f == Min(FreeFds)  \* the kernel gives the lowest one
     IN  OnNewConnection(Fresh, f, [open EXCEPT ![f] = Fresh])

(* accept4() fails: no descriptor is left, or the peer has given up.  The  *)
(* failure is logged and -1 passed on as the descriptor.                   *)
AcceptFails ==
  /\ phase = "events" /\ Listener \in active
  /\ backlog = 0 \/ FreeFds = {}
  /\ UNCHANGED backlog
  /\ OnNewConnection(Fresh, NoFd, open)

(* handle_events() of a connection: a callback of the user; or close() at  *)
(* end of file, or force_close() at EPOLLERR, and the registration ends.   *)
(* The library's calls that leave it registered (an end of file with       *)
(* writing enabled, read() or write() failing) do what the user's do.      *)
HandleEvents(c) ==
  /\ phase = "events" /\ c \in active \ {Listener}
  /\ state[c] # "none"
  /\ UNCHANGED <<backlog, aborts, connections, phase>>
  /\ \/ /\ held' \in SUBSET held /\ dropped' = dropped \cup LetGo
        /\ UserCode(held \cup {c}, tasks)
        /\ Release(open, fd, state, watched)
     \/ /\ \E op \in {"close", "force_close"} :
             tasks' = Append(tasks, [op |-> op, conn |-> c])
        /\ watched' = watched \ {c}
        /\ UNCHANGED <<open, fd, state, held, dropped>>
  /\ active' = IF state'[c] = "none" THEN active ELSE active \ {c}

(* The process ends: the kernel takes the descriptors back. *)
Crash ==
  /\ backlog' = 0 /\ UNCHANGED aborts
  /\ open' = [f \in Fds |-> None]
  /\ connections' = [f \in Fds \cup {NoFd} |-> None]
  /\ fd' = [c \in Conns |-> NoFd]
  /\ state' = [c \in Conns |-> "none"]
  /\ held' = {} /\ dropped' = {}
  /\ watched' = {} /\ active' = {}
  /\ tasks' = <<>>
  /\ phase' = "crashed"

(* The loop follows the pointer to the event source of a connection that   *)
(* was deleted, or goes on in the handle_events() in which it was deleted. *)
HandleStale(c) ==
  /\ phase = "events" /\ c \in active \ {Listener}
  /\ state[c] = "none"
  /\ Crash

(* All events are handled.  The user's callbacks among pending_callbacks_, *)
(* where it lets go of some ConnectionPtrs after using them.               *)
UserCallbacks ==
  /\ phase = "events" /\ active = {}
  /\ held' \in SUBSET held
  /\ UserCode(held, tasks)
  /\ phase' = "tasks"
  /\ dropped' = {}
  /\ UNCHANGED <<backlog, aborts, connections, active>>
  /\ Release(open, fd, state, watched)

----------------------------------------------------------------------------
(* The closures of task_queue_, one per action. *)

Running(op, c) ==
  /\ phase = "tasks" /\ tasks # <<>>
  /\ Head(tasks) = [op |-> op, conn |-> c]
  /\ UNCHANGED <<backlog, aborts, active, phase, dropped>>

(* connections_.erase(fd_): by number, whichever connection it finds. *)
RemoveConnection(c) == connections' = [connections EXCEPT ![fd[c]] = None]

(* closed_callback_, in which the user may call another connection that is *)
(* open (close() of a closed one would call closed_callback_ again,        *)
(* without end), and remove_connection().                                  *)
Closing(c) ==
  /\ held' \in SUBSET held
  /\ UserCode({d \in held \ {c} : state[d] = "Open"}, Tail(tasks))
  /\ RemoveConnection(c)
  /\ Release(open, fd, [state EXCEPT ![c] = "Closed"], watched)

RunClose(c) == Running("close", c) /\ Closing(c)

(* The closure of close() that finds bytes to write (a connection that is  *)
(* closed never has any) and leaves closing to handle_write().             *)
RunCloseLater(c) ==
  /\ Running("close", c)
  /\ state[c] = "Open"
  /\ tasks' = Tail(tasks)
  /\ UNCHANGED <<connections, held>>
  /\ Release(open, fd, state, watched)

(* The closure of force_close() looks its number up in the map. *)
RunForceClose(c) ==
  /\ Running("force_close", c)
  /\ connections[fd[c]] # None
  /\ Closing(c)

RunForceCloseAgain(c) ==
  /\ Running("force_close", c)
  /\ connections[fd[c]] = None
  /\ tasks' = Tail(tasks)
  /\ UNCHANGED <<connections, held>>
  /\ Release(open, fd, [state EXCEPT ![c] = "Closed"], watched)

(* The closure of write(const ByteBufferPtr&). *)
RunWrite(c) ==
  /\ Running("write", c)
  /\ tasks' = Tail(tasks) \o (IF state[c] = "Closed"
                              THEN <<[op |-> "force_close", conn |-> c]>> ELSE <<>>)
  /\ UNCHANGED <<connections, held>>
  /\ Release(open, fd, state, watched)

----------------------------------------------------------------------------
(* The end: run() returns, the Acceptor goes out of scope and closes the   *)
(* listening socket, ~TcpServer() deletes the loop, which clears           *)
(* connections_ without a closed_callback_.                                *)

RunReturns ==
  /\ Idle
  /\ phase' = "unwind"
  /\ UNCHANGED <<backlog, aborts, open, connections, fd, state, held, watched, active, tasks,
                 dropped>>

DestroyAcceptor ==
  /\ phase = "unwind"
  /\ watched' = watched \ {Listener}
  /\ backlog' = 0
  /\ phase' = "destroy"
  /\ UNCHANGED <<aborts, open, connections, fd, state, held, active, tasks, dropped>>

DestroyLoop ==
  /\ phase = "destroy"
  /\ connections' = [f \in DOMAIN connections |-> None]
  /\ phase' = "gone"
  /\ UNCHANGED <<backlog, aborts, held, active, tasks, dropped>>
  /\ Release(open, fd, state, watched)

Gone == phase \in {"gone", "crashed"} /\ UNCHANGED vars

----------------------------------------------------------------------------

LoopNext ==
  \/ \E batch \in SUBSET watched : Poll(batch)
  \/ Accept \/ AcceptFails
  \/ \E c \in active \ {Listener} : HandleEvents(c) \/ HandleStale(c)
  \/ \E c \in Conns :
       \/ RunClose(c) \/ RunCloseLater(c)
       \/ RunForceClose(c) \/ RunForceCloseAgain(c)
       \/ RunWrite(c)
  \/ UserCallbacks

Next == Arrive \/ Abort \/ LoopNext \/ RunReturns \/ DestroyAcceptor \/ DestroyLoop \/ Gone

(* The listening socket gets its place in a batch. *)
PollListener == \E batch \in SUBSET watched : Listener \in batch /\ Poll(batch)

(* The thread of the loop keeps running; and epoll_wait does not leave the *)
(* listening socket out for ever, since every batch that fills             *)
(* epoll_events_ doubles it.                                               *)
Spec == Init /\ [][Next]_vars /\ WF_vars(LoopNext) /\ SF_vars(PollListener)

----------------------------------------------------------------------------
(* Properties. *)

(* Every variable has its type. *)
TypeOK ==
  /\ backlog \in 0..MaxBacklog /\ aborts \in 0..MaxAborts
  /\ open \in [Fds -> Conns \cup {None}]
  /\ connections \in [Fds \cup {NoFd} -> Conns \cup {None}]
  /\ fd \in [Conns -> Fds \cup {NoFd}]
  /\ state \in [Conns -> {"none", "Open", "Closed"}]
  /\ held \subseteq Conns
  /\ watched \subseteq Conns \cup {Listener}
  /\ active \subseteq Conns \cup {Listener}
  /\ tasks \in Seq(Closures)
  /\ phase \in {"events", "tasks", "unwind", "destroy", "gone", "crashed"}
  /\ dropped \subseteq Conns

(* The library leaves no raw pointer in active_events to a connection that *)
(* was deleted, although handlers of one batch close connections and an    *)
(* accept may replace a map entry: where one is left, the user let go of   *)
(* the last ConnectionPtr in an event callback of this very batch.  And no *)
(* queued closure reaches a deleted connection.                            *)
NoStalePointer ==
  /\ \A c \in active \ {Listener} : state[c] # "none" \/ c \in dropped
  /\ \A i \in DOMAIN tasks : state[tasks[i].conn] # "none"

(* connections_ is keyed by a number that is reused, and remove_connection *)
(* erases by it: still an accepted connection that is not closed is in the *)
(* map under its own descriptor, whatever late close() and force_close()   *)
(* of older connections with the same number ran.                          *)
MapHoldsTheOpen ==
  phase # "gone" =>
    \A c \in Conns :
      state[c] = "Open" /\ fd[c] # NoFd =>
        connections[fd[c]] = c /\ open[fd[c]] = c

(* When the loop sleeps, and when it is deleted, the process has no other  *)
(* descriptor open than those of connections that the map or the user      *)
(* holds: closing leaks none.                                              *)
NoDescriptorLeak ==
  Idle \/ phase = "gone" =>
    \A f \in Fds : open[f] # None => open[f] \in held \/ connections[f] = open[f]

(* A connection waiting in the accept queue is accepted as long as there   *)
(* are descriptors; one that failed for lack of them is tried again, and   *)
(* so is a listening socket that a full batch left out.                    *)
BacklogTaken ==
  backlog = MaxBacklog ~>
    (backlog < MaxBacklog \/ FreeFds = {}
      \/ phase \in {"unwind", "destroy", "gone", "crashed"})

----------------------------------------------------------------------------
(* Inductive strengthenings, for module AcceptorProofs. *)

(* The connections that the map or the user holds. *)
Kept(c) == c \in held \/ InMap(c)

(* A connection exists exactly while some ConnectionPtr refers to it. *)
RefInv == \A c \in Conns : state[c] # "none" <=> Referenced(c)

(* A connection has its descriptor until it is deleted, and the map is     *)
(* keyed by it: what an older connection with the same number left behind  *)
(* is gone before the number is given out again.                           *)
FdInv ==
  /\ \A c \in Conns : state[c] = "none" => fd[c] = NoFd
  /\ \A f \in Fds, c \in Conns : open[f] = c <=> fd[c] = f
  /\ \A f \in Fds \cup {NoFd}, c \in Conns : connections[f] = c => fd[c] = f

(* The epoll set holds no connection whose accept4() failed; during a      *)
(* batch what is left of it is kept, or was let go of by the user; and     *)
(* before the accept of the batch so is every connection, which leaves one *)
(* for Fresh to find.                                                      *)
BatchInv ==
  /\ \A c \in watched \ {Listener} : fd[c] # NoFd
  /\ \A c \in active \ {Listener} : (fd[c] # NoFd /\ Kept(c)) \/ c \in dropped
  /\ phase # "events" => active = {} /\ dropped = {}
  /\ Listener \in active =>
       /\ \A c \in Conns : state[c] # "none" => Kept(c) \/ c \in dropped
       /\ Cardinality(held \cup dropped) <= MaxHeld
  /\ Cardinality(held) <= MaxHeld
  /\ phase \in {"unwind", "destroy", "gone", "crashed"} => tasks = <<>>
==============================================================================
