------------------------------ MODULE ByteStream ------------------------------
(***************************************************************************)
(* What a buffer between a producer and a socket promises: the bytes that  *)
(* are put come out once, in order, and nothing else does.                 *)
(***************************************************************************)
EXTENDS Integers, Sequences

CONSTANT Byte    \* the values of a byte

VARIABLES
  content,       \* the bytes that were put and not taken yet
  io             \* the last operation and the bytes it moved

Init == content = <<>> /\ io = [op |-> "new", bytes |-> <<>>]

(* The producer appends any bytes. *)
Put ==
  /\ io'.op = "put"
  /\ io'.bytes \in Seq(Byte)
  /\ content' = content \o io'.bytes

(* The consumer, get() or the socket, takes bytes from the front. *)
Take ==
  /\ io'.op \in {"get", "write"}
  /\ content = io'.bytes \o content'

(* Everything is thrown away. *)
Clear ==
  /\ io' = [op |-> "clear", bytes |-> <<>>]
  /\ content' = <<>>

Next == Put \/ Take \/ Clear

Spec == Init /\ [][Next]_<<content, io>>
==============================================================================
