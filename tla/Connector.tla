------------------------------ MODULE Connector ------------------------------
(***************************************************************************)
(* muti::Connector: a non-blocking connect(), its outcome reported through *)
(* the event source of the Connector, and the socket handed over to a      *)
(* Connection, which registers an event source of its own for it.          *)
(*                                                                         *)
(* Several Connectors share the loop and the descriptor table, whose       *)
(* numbers are reused.  Everything runs on the loop thread, and            *)
(* start_connect() is called at most once per Connector.  A Connector is   *)
(* not deleted while its event is among the active_events of the loop:     *)
(* neither inside one of its own callbacks nor in the handler of another   *)
(* source of the same batch, where the destructor leaves a dangling        *)
(* pointer behind.  The Connection (module Connection) appears only as the *)
(* owner of the descriptor and of its event source, until it is deleted.   *)
(***************************************************************************)
EXTENDS Integers, Sequences, EventSource

CONSTANTS
  Sessions,  \* the Connectors a client creates
  Fds,       \* the descriptors socket() may return
  None       \* a descriptor nobody has open

ASSUME ConnectorAssumption == None \notin Sessions

VARIABLES
  life,     \* each Connector: none, new, started, deleted
  fd,       \* fd_, of the Connector and of its Connection
  es,       \* event_source_ of the Connector
  connEs,   \* event_source_ of the Connection
  conn,     \* the Connection: none, open, deleted
  sock,     \* the connection attempt, as the kernel knows it
  ops,      \* ready_ops_ of the event the loop is about to handle, {} if none
  open,     \* the descriptor table: who opened each descriptor
  foreign,  \* history: a close() hit a descriptor that somebody else opened
  reports   \* history: the callbacks that reported an outcome to the user

vars == <<life, fd, es, connEs, conn, sock, ops, open, foreign, reports>>

----------------------------------------------------------------------------
(* Mutants. *)

HandleErrorKeepsFd(s) ==
  /\ reports' = [reports EXCEPT ![s] = Append(@, "error")]
  /\ UNCHANGED <<open, foreign>>
NotEnabled(s) == es[s]
EnabledReading(s) == EnableOps(es[s], "IN")
NotDisabled(s) == es[s]
ClosesToo(s) == TRUE

----------------------------------------------------------------------------

Init ==
  /\ life = [s \in Sessions |-> "none"]
  /\ fd = [s \in Sessions |-> None]
  /\ es = [s \in Sessions |-> NewEventSource]
  /\ connEs = [s \in Sessions |-> NewEventSource]
  /\ conn = [s \in Sessions |-> "none"]
  /\ sock = [s \in Sessions |-> "unconnected"]
  /\ ops = [s \in Sessions |-> {}]
  /\ open = [f \in Fds |-> None]
  /\ foreign = FALSE
  /\ reports = [s \in Sessions |-> <<>>]

(* ::close(fd_), which also takes the descriptor out of the epoll set. *)
CloseFd(s) ==
  /\ open' = [open EXCEPT ![fd[s]] = None]
  /\ foreign' = (foreign \/ open[fd[s]] # s)
Unwatched(e) == [e EXCEPT !.watched = FALSE, !.armed = {}]

Report(s, outcome) == reports' = [reports EXCEPT ![s] = Append(@, outcome)]

(* handle_error(): connect_error_callback_, then close(fd_). *)
HandleError(s) == Report(s, "error") /\ CloseFd(s)

----------------------------------------------------------------------------

(* The constructor, when socket() succeeds. *)
Create(s, f) ==
  /\ life[s] = "none"
  /\ open[f] = None
  /\ life' = [life EXCEPT ![s] = "new"]
  /\ fd' = [fd EXCEPT ![s] = f]
  /\ open' = [open EXCEPT ![f] = s]
  /\ UNCHANGED <<es, connEs, conn, sock, ops, foreign, reports>>

(* start_connect() when connect() fails at once. *)
ConnectFails(s) ==
  /\ life[s] = "new"
  /\ life' = [life EXCEPT ![s] = "started"]
  /\ HandleError(s)
  /\ UNCHANGED <<fd, es, connEs, conn, sock, ops>>

(* start_connect() when it succeeds or is in progress. *)
EnabledWriting(s) == EnableOps(es[s], "OUT")
StartConnect(s, outcome) ==
  /\ life[s] = "new"
  /\ life' = [life EXCEPT ![s] = "started"]
  /\ sock' = [sock EXCEPT ![s] = outcome]
  /\ es' = [es EXCEPT ![s] = EnabledWriting(s)]
  /\ UNCHANGED <<fd, connEs, conn, ops, open, foreign, reports>>

----------------------------------------------------------------------------
(* The kernel and epoll_wait. *)

Resolve(s, outcome) ==
  /\ sock[s] = "connecting"
  /\ sock' = [sock EXCEPT ![s] = outcome]
  /\ UNCHANGED <<life, fd, es, connEs, conn, ops, open, foreign, reports>>

(* An established connection is reset. *)
Reset(s) ==
  /\ sock[s] = "connected"
  /\ sock' = [sock EXCEPT ![s] = "failed"]
  /\ UNCHANGED <<life, fd, es, connEs, conn, ops, open, foreign, reports>>

(* Writable once the attempt has an outcome, with ERR when it failed. *)
Poll(s) ==
  /\ ops[s] = {}
  /\ es[s].watched
  /\ sock[s] \in {"connected", "failed"}
  /\ ops' = [ops EXCEPT ![s] = es[s].armed \cup {o \in {"ERR"} : sock[s] = "failed"}]
  /\ UNCHANGED <<life, fd, es, connEs, conn, sock, open, foreign, reports>>

----------------------------------------------------------------------------
(* EventSource::handle_events() of a Connector. *)

(* ERR: handle_error(), then disable_all(). *)
HandleErrorEvent(s) ==
  /\ "ERR" \in ops[s]
  /\ HandleError(s)
  /\ es' = [es EXCEPT ![s] = DisableAll(Unwatched(@))]
  /\ ops' = [ops EXCEPT ![s] = {}]
  /\ UNCHANGED <<life, fd, connEs, conn, sock>>

(* handle_connected(): disable_writing() takes the descriptor out of the   *)
(* epoll set, so that the Connection can add it.  SO_ERROR tells what      *)
(* happened since epoll_wait.                                              *)
DisabledWriting(s) == DisableOps(es[s], "OUT")
ConnectError(s) == sock[s] = "failed"

HandleConnectError(s) ==
  /\ ops[s] = {"OUT"}
  /\ ConnectError(s)
  /\ HandleError(s)
  /\ es' = [es EXCEPT ![s] = Unwatched(DisabledWriting(s))]
  /\ ops' = [ops EXCEPT ![s] = {}]
  /\ UNCHANGED <<life, fd, connEs, conn, sock>>

(* EPOLL_CTL_ADD of the Connection fails when the Connector's is there. *)
HandleConnected(s) ==
  /\ ops[s] = {"OUT"}
  /\ ~ConnectError(s)
  /\ es' = [es EXCEPT ![s] = DisabledWriting(s)]
  /\ conn' = [conn EXCEPT ![s] = "open"]
  /\ connEs' = [connEs EXCEPT ![s] = IF DisabledWriting(s).watched
                                     THEN Unwatched(EnableOps(@, "IN"))
                                     ELSE EnableOps(@, "IN")]
  /\ ops' = [ops EXCEPT ![s] = {}]
  /\ Report(s, "established")
  /\ UNCHANGED <<life, fd, sock, open, foreign>>

----------------------------------------------------------------------------

(* ~Connector(): the event source goes, fd_ stays open. *)
DestructorCloses(s) == FALSE
Delete(s) ==
  /\ life[s] \in {"new", "started"}
  /\ ops[s] = {}
  /\ life' = [life EXCEPT ![s] = "deleted"]
  /\ es' = [es EXCEPT ![s] = DisableAll(@)]
  /\ IF DestructorCloses(s) THEN CloseFd(s) ELSE UNCHANGED <<open, foreign>>
  /\ UNCHANGED <<fd, connEs, conn, sock, ops, reports>>

(* ~Connection() *)
ConnectionDeleted(s) ==
  /\ conn[s] = "open"
  /\ conn' = [conn EXCEPT ![s] = "deleted"]
  /\ connEs' = [connEs EXCEPT ![s] = DisableAll(@)]
  /\ CloseFd(s)
  /\ UNCHANGED <<life, fd, es, sock, ops, reports>>

Handle(s) ==
  Poll(s) \/ HandleErrorEvent(s) \/ HandleConnectError(s) \/ HandleConnected(s)

Resolves(s) == \E outcome \in {"connected", "failed"} : Resolve(s, outcome)

Next ==
  \E s \in Sessions :
    \/ \E f \in Fds : Create(s, f)
    \/ ConnectFails(s)
    \/ \E outcome \in {"connecting", "connected"} : StartConnect(s, outcome)
    \/ Resolves(s) \/ Reset(s)
    \/ Handle(s)
    \/ Delete(s) \/ ConnectionDeleted(s)

(* The loop handles what is ready, and TCP gives up in the end. *)
Spec ==
  /\ Init /\ [][Next]_vars
  /\ \A s \in Sessions : WF_vars(Handle(s)) /\ WF_vars(Resolves(s))

----------------------------------------------------------------------------
(* Properties. *)

(* Every variable has its type. *)
TypeOK ==
  /\ life \in [Sessions -> {"none", "new", "started", "deleted"}]
  /\ fd \in [Sessions -> Fds \cup {None}]
  /\ es \in [Sessions -> EventSources]
  /\ connEs \in [Sessions -> EventSources]
  /\ conn \in [Sessions -> {"none", "open", "deleted"}]
  /\ sock \in [Sessions -> {"unconnected", "connecting", "connected", "failed"}]
  /\ ops \in [Sessions -> SUBSET {"OUT", "ERR"}]
  /\ open \in [Fds -> Sessions \cup {None}]
  /\ foreign \in BOOLEAN
  /\ reports \in [Sessions -> Seq({"established", "error"})]

(* Connector and Connection share fd_, and yet no close() ever hits a      *)
(* number that was reused for another socket.                              *)
NoForeignClose == ~foreign

(* An attempt has one outcome; after an error the descriptor is closed.    *)
OneOutcome ==
  \A s \in Sessions :
    /\ Len(reports[s]) <= 1
    /\ reports[s] = <<"error">> => ~\E f \in Fds : open[f] = s

(* The hand-over keeps the descriptor watched by exactly one event source: *)
(* while the Connection is open, by its own.                               *)
HandedOver ==
  \A s \in Sessions :
    conn[s] = "open" => connEs[s].armed = {"IN"} /\ ~es[s].watched

(* A started attempt is reported, unless the Connector is deleted first. *)
AttemptReported ==
  \A s \in Sessions :
    life[s] = "started" ~> (reports[s] # <<>> \/ life[s] = "deleted")

----------------------------------------------------------------------------
(* Inductive strengthenings, for module ConnectorProofs. *)

(* An event source registered for op, in agreement with the epoll set. *)
Watching(op) ==
  [state |-> "Registered", interest |-> {op}, watched |-> TRUE, armed |-> {op}]

(* Connector or Connection still answers for fd_. *)
Holds(s) ==
  life[s] # "none" /\ reports[s] # <<"error">> /\ conn[s] # "deleted"

Pending(s) == life[s] = "started" /\ reports[s] = <<>>

(* A Connector watches fd_ exactly while its attempt is pending, and only  *)
(* then has an event to handle; the Connection exists exactly after        *)
(* "established" and watches fd_ exactly while it is open.                 *)
AttemptInv ==
  \A s \in Sessions :
    /\ es[s] = IF Pending(s) THEN Watching("OUT") ELSE NewEventSource
    /\ connEs[s] = IF conn[s] = "open" THEN Watching("IN") ELSE NewEventSource
    /\ ops[s] # {} => Pending(s)
    /\ reports[s] \in {<<>>, <<"error">>, <<"established">>}
    /\ reports[s] # <<>> => life[s] \in {"started", "deleted"}
    /\ conn[s] # "none" <=> reports[s] = <<"established">>

(* The descriptors of the table are exactly the ones somebody holds. *)
OwnerInv ==
  \A s \in Sessions :
    /\ life[s] # "none" => fd[s] \in Fds
    /\ \A f \in Fds : open[f] = s <=> Holds(s) /\ fd[s] = f
==============================================================================
