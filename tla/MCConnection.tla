----------------------------- MODULE MCConnection -----------------------------
(* The users of a connection that TLC explores. *)
EXTENDS Connection

Write(ref, len) == [op |-> "write", ref |-> ref, len |-> len]

(* A user that makes any call, one per callback. *)
AnyCall == {CloseTask, ForceCloseTask, Write("self", 1), Write("this", 1)}
AnyScripts == [h \in Hooks |-> {<<>>} \cup {<<c>> : c \in AnyCall}]

(* The echo server: it writes when established or when it has read, also   *)
(* with write(const void*, len), and calls nothing else.                   *)
EchoCall == {Write("self", 2), Write("this", 1)}
EchoScripts ==
  [h \in Hooks |->
     {<<>>} \cup {<<c>> : c \in {d \in EchoCall : h \in {"established", "read"}}}]

(* A user that writes in every callback and closes nothing. *)
WriterScripts ==
  [h \in Hooks |-> {<<>>, <<Write("self", 1)>>}
                    \cup (IF h = "error" THEN {} ELSE {<<Write("this", 2)>>})]

(* The datetime server: write() and then close() when established. *)
DatetimeScripts ==
  [h \in Hooks |-> IF h = "established" THEN {<<Write("this", 2), CloseTask>>} ELSE {<<>>}]

(* A user that writes, forces the end and keeps its ConnectionPtr. *)
ForceScripts ==
  [h \in Hooks |-> IF h = "established" THEN {<<Write("self", 1), ForceCloseTask>>} ELSE {<<>>}]

NoCalls == {}

(* The programs of benchmark/, and a user that only writes, keep the rules  *)
(* under which ConnectionProofs shows that no connection is used after it   *)
(* was deleted.                                                             *)
ASSUME BenchmarksAreCareful ==
  Scripts \in {EchoScripts, DatetimeScripts, WriterScripts} => CarefulUser
==============================================================================
