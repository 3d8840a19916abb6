----------------------------- MODULE EventSource -----------------------------
(***************************************************************************)
(* muti::EventSource and the epoll_ctl calls EventLoop makes for it.       *)
(*                                                                         *)
(* An event source is a record: state and interest are state_ and          *)
(* interest_ops_; watched and armed are what the kernel holds for the      *)
(* descriptor, whether it is in the epoll set and with which events.       *)
(***************************************************************************)

Ops == {"IN", "OUT"}

EventSources ==
  [state : {"NoEvent", "Registered"}, interest : SUBSET Ops,
   watched : BOOLEAN, armed : SUBSET Ops]

NewEventSource ==
  [state |-> "NoEvent", interest |-> {}, watched |-> FALSE, armed |-> {}]

----------------------------------------------------------------------------
(* Mutants. *)

(* disable_ops() that forgets the modify_event(). *)
DisableOpsNoModify(es, op) ==
  LET e == [es EXCEPT !.interest = @ \ {op}]
  IN  IF e.interest = {}
      THEN [e EXCEPT !.state = "NoEvent", !.watched = FALSE, !.armed = {}]
      ELSE e

----------------------------------------------------------------------------
(* epoll_ctl: ADD fails when the descriptor is in the set, MOD and DEL     *)
(* when it is not.  A failure is logged and has no effect.                 *)

RegisterEvent(es) ==
  IF es.watched THEN es ELSE [es EXCEPT !.watched = TRUE, !.armed = es.interest]

ModifyEvent(es) ==
  IF es.watched THEN [es EXCEPT !.armed = es.interest] ELSE es

UnregisterEvent(es) ==
  [es EXCEPT !.watched = FALSE, !.armed = {}]

----------------------------------------------------------------------------

(* enable_ops(): interest_ops_ is not empty after it, so the test of       *)
(* EventSource.cpp:16 always holds.                                        *)
EnableOps(es, op) ==
  LET e == [es EXCEPT !.interest = @ \cup {op}]
  IN  IF e.state = "NoEvent"
      THEN RegisterEvent([e EXCEPT !.state = "Registered"])
      ELSE ModifyEvent(e)

DisableOps(es, op) ==
  LET e == [es EXCEPT !.interest = @ \ {op}]
  IN  IF e.interest = {}
      THEN [UnregisterEvent(e) EXCEPT !.state = "NoEvent"]
      ELSE ModifyEvent(e)

(* disable_all(), also all that the destructor does. *)
DisableAll(es) ==
  LET e == [es EXCEPT !.interest = {}]
  IN  IF e.state = "Registered"
      THEN [UnregisterEvent(e) EXCEPT !.state = "NoEvent"]
      ELSE e

(* interest_ops(ops), the plain setter: epoll is not told. *)
InterestOps(es, ops) == [es EXCEPT !.interest = ops]
==============================================================================
