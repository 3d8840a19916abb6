------------------------------- MODULE Session -------------------------------
(***************************************************************************)
(* A connection as its user sees it: it is established, accepts bytes and  *)
(* hands them to the socket, is closed once and then freed.  Every byte it *)
(* accepted was taken by the socket or is still unsent; only a connection  *)
(* that fails gives unsent bytes up.                                       *)
(***************************************************************************)
EXTENDS Naturals

VARIABLES
  status,    \* "new", "open", "failing", "closed" or "freed"
  accepted,  \* the bytes of the calls of write() that returned true
  taken,     \* the bytes the socket took
  unsent     \* the bytes that wait to be taken

vars == <<status, accepted, taken, unsent>>

Init == status = "new" /\ accepted = 0 /\ taken = 0 /\ unsent = 0

(* established_callback_ may write already. *)
Establish ==
  /\ status = "new"
  /\ status' \in {"open", "failing"}
  /\ accepted' \in Nat
  /\ unsent' = accepted'
  /\ UNCHANGED taken

(* The socket is reset, or a write to it fails. *)
Fail ==
  /\ status = "open"
  /\ status' = "failing"
  /\ UNCHANGED <<accepted, taken, unsent>>

Write ==
  /\ status \in {"open", "failing"}
  /\ accepted' > accepted
  /\ unsent' = unsent + (accepted' - accepted)
  /\ UNCHANGED <<status, taken>>

Send ==
  /\ status \in {"open", "failing"}
  /\ taken' > taken
  /\ unsent' = unsent - (taken' - taken)
  /\ UNCHANGED <<status, accepted>>

(* closed_callback_; when nobody keeps the connection it is freed at once. *)
Close ==
  /\ \/ status = "open" /\ unsent = 0 /\ unsent' = 0
     \/ status = "failing" /\ unsent' <= unsent
  /\ status' = "closed" \/ (status' = "freed" /\ unsent' = 0)
  /\ UNCHANGED <<accepted, taken>>

(* A write() accepted before the connection failed comes too late. *)
Discard ==
  /\ status = "closed"
  /\ unsent' < unsent
  /\ status' = "closed" \/ (status' = "freed" /\ unsent' = 0)
  /\ UNCHANGED <<accepted, taken>>

Free ==
  /\ status = "closed" /\ unsent = 0
  /\ status' = "freed"
  /\ UNCHANGED <<accepted, taken, unsent>>

Next == Establish \/ Fail \/ Write \/ Send \/ Close \/ Discard \/ Free

Spec == Init /\ [][Next]_vars
==============================================================================
