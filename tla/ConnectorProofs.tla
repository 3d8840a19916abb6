--------------------------- MODULE ConnectorProofs ---------------------------
(* Invariance proofs about Connector, for every set of Connectors and of   *)
(* descriptors.                                                            *)
EXTENDS Connector, TLAPS

----------------------------------------------------------------------------
(* Event sources. *)

LEMMA SameFields ==
  ASSUME NEW e \in EventSources, NEW b, NEW a, e.watched = b, e.armed = a
  PROVE  [e EXCEPT !.watched = b, !.armed = a] = e
BY DEF EventSources

(* What the calls the Connector makes do to its event sources. *)
LEMMA EventSourceSteps ==
  ASSUME NEW op \in Ops
  PROVE  /\ EnableOps(NewEventSource, op) = Watching(op)
         /\ DisableOps(Watching(op), op) = NewEventSource
         /\ DisableAll(Watching(op)) = NewEventSource
         /\ DisableAll(NewEventSource) = NewEventSource
         /\ DisableAll(Unwatched(Watching(op))) = NewEventSource
         /\ Unwatched(NewEventSource) = NewEventSource
<1> USE DEF NewEventSource, Watching, Ops
<1>1. EnableOps(NewEventSource, op) = Watching(op)
  BY DEF EnableOps, RegisterEvent
<1>2. DisableOps(Watching(op), op) = NewEventSource
  BY DEF DisableOps, UnregisterEvent
<1>3. DisableAll(Watching(op)) = NewEventSource
  BY DEF DisableAll, UnregisterEvent
<1>4. DisableAll(NewEventSource) = NewEventSource
  BY DEF DisableAll
<1>5. DisableAll(Unwatched(Watching(op))) = NewEventSource
  BY DEF DisableAll, Unwatched, UnregisterEvent
<1>6. Unwatched(NewEventSource) = NewEventSource
  <2>1. NewEventSource \in EventSources
    BY DEF EventSources
  <2>2. NewEventSource.watched = FALSE /\ NewEventSource.armed = {}
    OBVIOUS
  <2> QED
    BY <2>1, <2>2, SameFields DEF Unwatched
<1> QED
  BY <1>1, <1>2, <1>3, <1>4, <1>5, <1>6

LEMMA EventSourceTypes ==
  ASSUME NEW op \in Ops
  PROVE  Watching(op) \in EventSources /\ NewEventSource \in EventSources
BY DEF Watching, NewEventSource, EventSources, Ops

LEMMA EventSourceFields ==
  ASSUME NEW op \in Ops
  PROVE  /\ Watching(op).watched /\ Watching(op).armed = {op}
         /\ ~NewEventSource.watched
BY DEF Watching, NewEventSource

----------------------------------------------------------------------------
(* Outcomes and descriptors. *)

LEMMA Outcomes ==
  /\ Append(<<>>, "error") = <<"error">>
  /\ Append(<<>>, "established") = <<"established">>
  /\ <<"error">> # <<>> /\ <<"established">> # <<>> /\ <<"error">> # <<"established">>
  /\ \A r \in {<<>>, <<"error">>, <<"established">>} :
       r \in Seq({"established", "error"}) /\ Len(r) <= 1
OBVIOUS

IInv == TypeOK /\ AttemptInv /\ OwnerInv /\ NoForeignClose

(* A close() by whoever holds fd_ closes the descriptor it opened, and     *)
(* nobody else loses one.                                                  *)
LEMMA CloseOwn ==
  ASSUME IInv, NEW s \in Sessions, Holds(s), CloseFd(s)
  PROVE  /\ open' \in [Fds -> Sessions \cup {None}]
         /\ foreign' = FALSE
         /\ \A f \in Fds : open'[f] # s
         /\ \A t \in Sessions \ {s}, f \in Fds : open'[f] = t <=> open[f] = t
<1>1. fd[s] \in Fds /\ open[fd[s]] = s
  BY DEF IInv, OwnerInv, Holds
<1>2. open' = [open EXCEPT ![fd[s]] = None] /\ open \in [Fds -> Sessions \cup {None}]
  BY DEF CloseFd, IInv, TypeOK
<1>3. foreign' = FALSE
  BY <1>1 DEF CloseFd, IInv, NoForeignClose, TypeOK
<1>4. \A f \in Fds : open[f] = s => f = fd[s]
  BY DEF IInv, OwnerInv
<1>5. \A f \in Fds : open'[f] # s
  BY <1>1, <1>2, <1>4, ConnectorAssumption
<1>6. ASSUME NEW t \in Sessions \ {s}, NEW f \in Fds PROVE open'[f] = t <=> open[f] = t
  BY <1>1, <1>2, ConnectorAssumption
<1> QED
  BY <1>1, <1>2, <1>3, <1>5, <1>6

(* OwnerInv after a step of s that closes nothing. *)
LEMMA OwnerKept ==
  ASSUME IInv, NEW s \in Sessions,
         \A t \in Sessions : Holds(t)' <=> Holds(t),
         \A t \in Sessions : life'[t] # "none" => life[t] # "none",
         UNCHANGED <<open, fd>>
  PROVE  OwnerInv'
BY DEF IInv, OwnerInv

(* OwnerInv after a step of s that closes fd_. *)
LEMMA OwnerClosed ==
  ASSUME IInv, NEW s \in Sessions, Holds(s), CloseFd(s),
         ~Holds(s)',
         \A t \in Sessions \ {s} : Holds(t)' <=> Holds(t),
         \A t \in Sessions : life'[t] # "none" => life[t] # "none",
         UNCHANGED fd
  PROVE  OwnerInv'
<1>1. /\ \A f \in Fds : open'[f] # s
      /\ \A t \in Sessions \ {s}, f \in Fds : open'[f] = t <=> open[f] = t
  BY CloseOwn
<1>2. ASSUME NEW t \in Sessions, NEW f \in Fds
      PROVE  open'[f] = t <=> Holds(t)' /\ fd'[t] = f
  <2>1. CASE t = s
    BY <1>1, <2>1
  <2>2. CASE t # s
    BY <1>1, <2>2 DEF IInv, OwnerInv
  <2> QED
    BY <2>1, <2>2
<1>3. ASSUME NEW t \in Sessions PROVE life'[t] # "none" => fd'[t] \in Fds
  BY DEF IInv, OwnerInv
<1> QED
  BY <1>2, <1>3 DEF OwnerInv

----------------------------------------------------------------------------
(* One lemma per operation: it keeps the inductive invariant. *)

LEMMA CreateStep ==
  ASSUME IInv, NEW s \in Sessions, NEW f \in Fds, Create(s, f)
  PROVE  IInv'
<1> USE DEF IInv
<1>1. TypeOK'
  BY DEF Create, TypeOK
<1>2. AttemptInv'
  BY DEF Create, TypeOK, AttemptInv, Pending
<1>3. OwnerInv'
  <2>1. \A t \in Sessions \ {s} : Holds(t)' <=> Holds(t)
    BY DEF Create, TypeOK, Holds
  <2>2. Holds(s)' /\ fd'[s] = f
    BY Outcomes DEF Create, TypeOK, Holds, AttemptInv
  <2>3. \A g \in Fds : open[g] # s
    BY DEF Create, OwnerInv, Holds
  <2> QED
    BY <2>1, <2>2, <2>3, ConnectorAssumption DEF Create, TypeOK, OwnerInv
<1>4. NoForeignClose'
  BY DEF Create, NoForeignClose
<1> QED
  BY <1>1, <1>2, <1>3, <1>4

LEMMA ConnectFailsStep ==
  ASSUME IInv, NEW s \in Sessions, ConnectFails(s)
  PROVE  IInv'
<1> USE DEF IInv
<1>1. reports[s] = <<>> /\ life[s] = "new" /\ conn[s] = "none"
  BY Outcomes DEF ConnectFails, AttemptInv, TypeOK
<1>2. reports' = [reports EXCEPT ![s] = <<"error">>]
  BY <1>1, Outcomes DEF ConnectFails, HandleError, Report
<1>3. Holds(s) /\ CloseFd(s)
  BY <1>1, Outcomes DEF Holds, ConnectFails, HandleError
<1>4. ~Holds(s)' /\ \A t \in Sessions \ {s} : Holds(t)' <=> Holds(t)
  BY <1>2 DEF Holds, ConnectFails, TypeOK
<1>5. TypeOK'
  BY <1>2, <1>3, CloseOwn, Outcomes DEF ConnectFails, TypeOK
<1>6. AttemptInv'
  BY <1>1, <1>2, Outcomes DEF ConnectFails, TypeOK, AttemptInv, Pending
<1>7. OwnerInv'
  BY <1>1, <1>3, <1>4, OwnerClosed DEF ConnectFails, TypeOK
<1>8. NoForeignClose'
  BY <1>3, CloseOwn DEF NoForeignClose
<1> QED
  BY <1>5, <1>6, <1>7, <1>8

LEMMA StartConnectStep ==
  ASSUME IInv, NEW s \in Sessions, NEW outcome \in {"connecting", "connected"},
         StartConnect(s, outcome)
  PROVE  IInv'
<1> USE DEF IInv
<1>1. reports[s] = <<>> /\ life[s] = "new"
  BY Outcomes DEF StartConnect, AttemptInv, TypeOK
<1>2. es' = [es EXCEPT ![s] = Watching("OUT")]
  BY <1>1, EventSourceSteps DEF StartConnect, EnabledWriting, AttemptInv, Pending, Ops
<1>3. TypeOK'
  BY <1>2, EventSourceTypes DEF StartConnect, TypeOK, Ops
<1>4. AttemptInv'
  BY <1>1, <1>2 DEF StartConnect, TypeOK, AttemptInv, Pending
<1>5. OwnerInv'
  BY <1>1, OwnerKept DEF StartConnect, TypeOK, Holds
<1>6. NoForeignClose'
  BY DEF StartConnect, NoForeignClose
<1> QED
  BY <1>3, <1>4, <1>5, <1>6

(* The kernel changes nothing but the state of the attempt. *)
LEMMA KernelStep ==
  ASSUME IInv, NEW s \in Sessions, NEW outcome \in {"connected", "failed"},
         Resolve(s, outcome) \/ Reset(s)
  PROVE  IInv'
<1> USE DEF IInv
<1>1. TypeOK'
  <2>1. sock' \in [Sessions -> {"unconnected", "connecting", "connected", "failed"}]
    BY DEF Resolve, Reset, TypeOK
  <2> QED
    BY <2>1 DEF Resolve, Reset, TypeOK
<1>2. AttemptInv'
  BY DEF Resolve, Reset, AttemptInv, Pending
<1>3. OwnerInv'
  BY DEF Resolve, Reset, OwnerInv, Holds
<1> QED
  BY <1>1, <1>2, <1>3 DEF Resolve, Reset, NoForeignClose

(* Only a pending attempt is polled, for its Connector alone is watched. *)
LEMMA PollStep ==
  ASSUME IInv, NEW s \in Sessions, Poll(s)
  PROVE  IInv'
<1> USE DEF IInv
<1>1. Pending(s) /\ es[s].armed = {"OUT"}
  BY EventSourceFields DEF Poll, AttemptInv, Ops
<1>2. TypeOK'
  BY <1>1 DEF Poll, TypeOK
<1>3. AttemptInv'
  BY <1>1 DEF Poll, TypeOK, AttemptInv, Pending
<1>4. OwnerInv'
  BY DEF Poll, OwnerInv, Holds
<1> QED
  BY <1>2, <1>3, <1>4 DEF Poll, NoForeignClose

(* Both handlers that report an error: fd_ is closed and the event source  *)
(* of the Connector is gone.                                               *)
LEMMA ErrorStep ==
  ASSUME IInv, NEW s \in Sessions, HandleErrorEvent(s) \/ HandleConnectError(s)
  PROVE  IInv'
<1> USE DEF IInv
<1>1. Pending(s) /\ es[s] = Watching("OUT") /\ conn[s] = "none"
  BY Outcomes DEF HandleErrorEvent, HandleConnectError, AttemptInv, Pending, TypeOK
<1>2. es' = [es EXCEPT ![s] = NewEventSource]
  BY <1>1, EventSourceSteps
  DEF HandleErrorEvent, HandleConnectError, DisabledWriting, Ops
<1>3. reports' = [reports EXCEPT ![s] = <<"error">>]
  BY <1>1, Outcomes
  DEF HandleErrorEvent, HandleConnectError, HandleError, Report, Pending
<1>4. Holds(s) /\ CloseFd(s)
  BY <1>1, Outcomes
  DEF Holds, HandleErrorEvent, HandleConnectError, HandleError, Pending
<1>5. /\ ops' = [ops EXCEPT ![s] = {}]
      /\ UNCHANGED <<life, fd, connEs, conn, sock>>
  BY DEF HandleErrorEvent, HandleConnectError
<1>6. ~Holds(s)' /\ \A t \in Sessions \ {s} : Holds(t)' <=> Holds(t)
  BY <1>3, <1>5 DEF Holds, TypeOK
<1>7. TypeOK'
  BY <1>2, <1>3, <1>4, <1>5, CloseOwn, Outcomes, EventSourceTypes DEF TypeOK, Ops
<1>8. AttemptInv'
  BY <1>1, <1>2, <1>3, <1>5, Outcomes DEF TypeOK, AttemptInv, Pending
<1>9. OwnerInv'
  BY <1>4, <1>5, <1>6, OwnerClosed
<1>10. NoForeignClose'
  BY <1>4, CloseOwn DEF NoForeignClose
<1> QED
  BY <1>7, <1>8, <1>9, <1>10

(* The hand-over: the Connector is out of the epoll set before the         *)
(* Connection adds the descriptor, so that the ADD succeeds.               *)
LEMMA HandleConnectedStep ==
  ASSUME IInv, NEW s \in Sessions, HandleConnected(s)
  PROVE  IInv'
<1> USE DEF IInv
<1>1. Pending(s) /\ es[s] = Watching("OUT") /\ conn[s] = "none"
      /\ connEs[s] = NewEventSource
  BY Outcomes DEF HandleConnected, AttemptInv, Pending, TypeOK
<1>2. DisabledWriting(s) = NewEventSource
  BY <1>1, EventSourceSteps DEF DisabledWriting, Ops
<1>3. es' = [es EXCEPT ![s] = NewEventSource]
  BY <1>2 DEF HandleConnected
<1>4. connEs' = [connEs EXCEPT ![s] = Watching("IN")]
  BY <1>1, <1>2, EventSourceSteps, EventSourceFields DEF HandleConnected, Ops
<1>5. reports' = [reports EXCEPT ![s] = <<"established">>]
  BY <1>1, Outcomes DEF HandleConnected, Report, Pending
<1>6. /\ ops' = [ops EXCEPT ![s] = {}]
      /\ conn' = [conn EXCEPT ![s] = "open"]
      /\ UNCHANGED <<life, fd, sock, open, foreign>>
  BY DEF HandleConnected
<1>7. TypeOK'
  BY <1>3, <1>4, <1>5, <1>6, Outcomes, EventSourceTypes DEF TypeOK, Ops
<1>8. AttemptInv'
  BY <1>1, <1>3, <1>4, <1>5, <1>6, Outcomes DEF TypeOK, AttemptInv, Pending
<1>9. OwnerInv'
  BY <1>1, <1>5, <1>6, Outcomes, OwnerKept DEF TypeOK, Holds, Pending
<1> QED
  BY <1>6, <1>7, <1>8, <1>9 DEF NoForeignClose

LEMMA DeleteStep ==
  ASSUME IInv, NEW s \in Sessions, Delete(s)
  PROVE  IInv'
<1> USE DEF IInv
<1>1. es[s] \in {Watching("OUT"), NewEventSource}
  BY DEF AttemptInv
<1>2. es' = [es EXCEPT ![s] = NewEventSource]
  BY <1>1, EventSourceSteps DEF Delete, Ops
<1>3. /\ life' = [life EXCEPT ![s] = "deleted"]
      /\ life[s] # "none" /\ ops[s] = {}
      /\ UNCHANGED <<fd, connEs, conn, sock, ops, reports, open, foreign>>
  BY DEF Delete, DestructorCloses
<1>4. TypeOK'
  BY <1>2, <1>3, EventSourceTypes DEF TypeOK, Ops
<1>5. AttemptInv'
  BY <1>2, <1>3 DEF TypeOK, AttemptInv, Pending
<1>6. OwnerInv'
  BY <1>3, OwnerKept DEF TypeOK, Holds
<1> QED
  BY <1>3, <1>4, <1>5, <1>6 DEF NoForeignClose

LEMMA ConnectionDeletedStep ==
  ASSUME IInv, NEW s \in Sessions, ConnectionDeleted(s)
  PROVE  IInv'
<1> USE DEF IInv
<1>1. /\ conn[s] = "open" /\ reports[s] = <<"established">>
      /\ life[s] # "none" /\ connEs[s] = Watching("IN")
  BY Outcomes DEF ConnectionDeleted, AttemptInv
<1>2. connEs' = [connEs EXCEPT ![s] = NewEventSource]
  BY <1>1, EventSourceSteps DEF ConnectionDeleted, Ops
<1>3. /\ conn' = [conn EXCEPT ![s] = "deleted"]
      /\ UNCHANGED <<life, fd, es, sock, ops, reports>>
  BY DEF ConnectionDeleted
<1>4. Holds(s) /\ CloseFd(s)
  BY <1>1, Outcomes DEF Holds, ConnectionDeleted
<1>5. ~Holds(s)' /\ \A t \in Sessions \ {s} : Holds(t)' <=> Holds(t)
  BY <1>3 DEF Holds, TypeOK
<1>6. TypeOK'
  BY <1>2, <1>3, <1>4, CloseOwn, EventSourceTypes DEF TypeOK, Ops
<1>7. AttemptInv'
  BY <1>1, <1>2, <1>3 DEF TypeOK, AttemptInv, Pending
<1>8. OwnerInv'
  BY <1>3, <1>4, <1>5, OwnerClosed
<1>9. NoForeignClose'
  BY <1>4, CloseOwn DEF NoForeignClose
<1> QED
  BY <1>6, <1>7, <1>8, <1>9

----------------------------------------------------------------------------

(* Who watches and who answers for fd_ at every moment of an attempt. *)
THEOREM ConnectorInvariant == Spec => []IInv
<1>1. Init => IInv
  <2> SUFFICES ASSUME Init PROVE IInv
    OBVIOUS
  <2>1. TypeOK
    <3>1. NewEventSource \in EventSources
      BY EventSourceTypes DEF Ops
    <3>2. <<>> \in Seq({"established", "error"})
      OBVIOUS
    <3> QED
      BY <3>1, <3>2 DEF Init, TypeOK
  <2>2. AttemptInv
    BY Outcomes DEF Init, AttemptInv, Pending
  <2>3. OwnerInv
    BY ConnectorAssumption DEF Init, OwnerInv, Holds
  <2> QED
    BY <2>1, <2>2, <2>3 DEF Init, IInv, NoForeignClose
<1>2. IInv /\ [Next]_vars => IInv'
  <2> SUFFICES ASSUME IInv, [Next]_vars PROVE IInv'
    OBVIOUS
  <2>1. CASE UNCHANGED vars
    BY <2>1
    DEF vars, IInv, TypeOK, AttemptInv, OwnerInv, NoForeignClose, Pending, Holds
  <2>2. CASE Next
    BY <2>2, CreateStep, ConnectFailsStep, StartConnectStep, KernelStep, PollStep,
       ErrorStep, HandleConnectedStep, DeleteStep, ConnectionDeletedStep
    DEF Next, Handle, Resolves
  <2> QED
    BY <2>1, <2>2
<1> QED
  BY <1>1, <1>2, PTL DEF Spec

(* Type correctness. *)
THEOREM TypeCorrect == Spec => []TypeOK
<1>1. IInv => TypeOK
  BY DEF IInv
<1> QED
  BY <1>1, ConnectorInvariant, PTL

(* However many Connectors share the descriptor table and however often    *)
(* the kernel reuses a number, no close() of handle_error() or of a        *)
(* Connection hits a descriptor that somebody else opened.                 *)
THEOREM ClosesOnlyItsOwn == Spec => []NoForeignClose
<1>1. IInv => NoForeignClose
  BY DEF IInv
<1> QED
  BY <1>1, ConnectorInvariant, PTL

(* An attempt is reported at most once, and after an error the Connector   *)
(* has no descriptor left.                                                 *)
THEOREM ReportedOnce == Spec => []OneOutcome
<1>1. IInv => OneOutcome
  <2> SUFFICES ASSUME IInv, NEW s \in Sessions
               PROVE  /\ Len(reports[s]) <= 1
                      /\ reports[s] = <<"error">> => ~\E f \in Fds : open[f] = s
    BY DEF OneOutcome
  <2>1. Len(reports[s]) <= 1
    BY Outcomes DEF IInv, AttemptInv
  <2>2. ASSUME reports[s] = <<"error">> PROVE ~\E f \in Fds : open[f] = s
    BY <2>2 DEF IInv, OwnerInv, Holds
  <2> QED
    BY <2>1, <2>2
<1> QED
  BY <1>1, ConnectorInvariant, PTL

(* While a Connection is open its own event source watches the descriptor  *)
(* for reading, and the Connector's does not.                              *)
THEOREM HandOverComplete == Spec => []HandedOver
<1>1. IInv => HandedOver
  <2> SUFFICES ASSUME IInv, NEW s \in Sessions, conn[s] = "open"
               PROVE  connEs[s].armed = {"IN"} /\ ~es[s].watched
    BY DEF HandedOver
  <2>1. connEs[s] = Watching("IN") /\ reports[s] = <<"established">>
    BY DEF IInv, AttemptInv
  <2>2. es[s] = NewEventSource
    BY <2>1, Outcomes DEF IInv, AttemptInv, Pending
  <2> QED
    BY <2>1, <2>2, EventSourceFields DEF Ops
<1> QED
  BY <1>1, ConnectorInvariant, PTL
==============================================================================
