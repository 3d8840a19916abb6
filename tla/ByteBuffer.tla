------------------------------ MODULE ByteBuffer ------------------------------
(***************************************************************************)
(* muti::ByteBuffer: a fixed piece of memory with a position, a limit and  *)
(* a mark.  One buffer is modelled, used in every way the code uses one:   *)
(* filled with put() and flipped, as write(const void*, len) does, and     *)
(* handed to a read callback as the recv_buffer_ that all connections of a *)
(* loop share and that the callback may leave in any state.                *)
(*                                                                         *)
(* The assertions of the code are the obligations of its callers: a call   *)
(* that breaks one ends the process and is no step here.                   *)
(***************************************************************************)
EXTENDS Integers, Sequences

CONSTANTS
  Capacity,  \* capacity(), which the code keeps in front of the data
  Byte       \* the values of a byte

ASSUME CapacityAssumption == Capacity \in Nat \ {0}
ASSUME ByteAssumption == Byte \subseteq Nat

Junk == -1      \* an uninitialised byte of malloc()
NoMark == -1
Cells == 0..(Capacity - 1)

VARIABLES
  buf,   \* the buffer: data_, position_, limit_ and mark_
  mode,  \* history: what the calls so far make of the buffer
  msg    \* history: the bytes that were put into it

vars == <<buf, mode, msg>>

Buffers ==
  [data : [Cells -> Byte \cup {Junk}], position : 0..Capacity,
   limit : 0..Capacity, mark : 0..Capacity \cup {NoMark}]

Remaining(b) == b.limit - b.position

----------------------------------------------------------------------------
(* Mutants. *)

LimitedNotClipped(b, l) ==
  [b EXCEPT !.limit = l, !.mark = IF @ > l THEN NoMark ELSE @]
FlippedKeepsLimit(b) == [b EXCEPT !.position = 0, !.mark = NoMark]
TakenAll(b, len) == [b EXCEPT !.position = @ + len]

----------------------------------------------------------------------------
(* What each method makes of a buffer b. *)

Positioned(b, p) ==
  [b EXCEPT !.position = p, !.mark = IF @ > p THEN NoMark ELSE @]

Limited(b, l) ==
  [b EXCEPT !.limit = l,
            !.position = IF @ > l THEN l ELSE @,
            !.mark = IF @ > l THEN NoMark ELSE @]

Marked(b) == [b EXCEPT !.mark = b.position]
ResetToMark(b) == [b EXCEPT !.position = b.mark]
Cleared(b) == [b EXCEPT !.position = 0, !.limit = Capacity, !.mark = NoMark]
Flipped(b) == [b EXCEPT !.limit = b.position, !.position = 0, !.mark = NoMark]
Rewound(b) == [b EXCEPT !.position = 0, !.mark = NoMark]

(* memcpy() to data(), the bytes at position_. *)
Stored(b, bytes) ==
  [b EXCEPT !.data = [i \in Cells |-> IF i \in b.position..(b.position + Len(bytes) - 1)
                                      THEN bytes[i - b.position + 1]
                                      ELSE b.data[i]]]
Filled(b, bytes) == [Stored(b, bytes) EXCEPT !.position = @ + Len(bytes)]

(* get() of at most len bytes. *)
Taken(b, len) ==
  [b EXCEPT !.position = @ + (IF len < Remaining(b) THEN len ELSE Remaining(b))]

----------------------------------------------------------------------------

Init ==
  /\ buf = [data |-> [i \in Cells |-> Junk], position |-> 0, limit |-> Capacity,
            mark |-> NoMark]
  /\ mode = "filling"
  /\ msg = <<>>

(* The histories: a buffer is "filling" while calls append to it from its  *)
(* beginning, "reading" from flip() on while they only move the position,  *)
(* and "other" when its user did something else with it.                   *)
Moves == mode' = (IF mode = "reading" THEN mode ELSE "other") /\ UNCHANGED msg

SetPosition(p) ==
  /\ p <= buf.limit
  /\ buf' = Positioned(buf, p)
  /\ Moves

SetLimit(l) ==
  /\ buf' = Limited(buf, l)
  /\ mode' = "other"
  /\ UNCHANGED msg

Mark ==
  /\ buf' = Marked(buf)
  /\ UNCHANGED <<mode, msg>>

Reset ==
  /\ buf.mark >= 0
  /\ buf' = ResetToMark(buf)
  /\ msg' = IF mode = "filling" THEN SubSeq(msg, 1, buf.mark) ELSE msg
  /\ UNCHANGED mode

Clear ==
  /\ buf' = Cleared(buf)
  /\ mode' = "filling"
  /\ msg' = <<>>

Flip ==
  /\ buf' = Flipped(buf)
  /\ mode' = IF mode = "filling" THEN "reading" ELSE "other"
  /\ UNCHANGED msg

Rewind ==
  /\ buf' = Rewound(buf)
  /\ Moves

Put(bytes) ==
  /\ Len(bytes) <= Remaining(buf)
  /\ buf' = Filled(buf, bytes)
  /\ mode' = IF mode = "filling" THEN mode ELSE "other"
  /\ msg' = IF mode = "filling" THEN msg \o bytes ELSE msg

Get(len) ==
  /\ buf' = Taken(buf, len)
  /\ Moves

(* n is an int: the assertion lets a negative one through, which moves the *)
(* position back, below the mark or below 0.  That is the caller's error   *)
(* as well; the n of Next are not negative.                                *)
Skip(n) ==
  /\ Remaining(buf) >= n
  /\ buf' = [buf EXCEPT !.position = @ + n]
  /\ Moves

(* The reading callback of a connection: clear(), read() into the memory,  *)
(* position(n) and flip(), for n > 0.                                      *)
Receive(bytes) ==
  /\ bytes # <<>>
  /\ Len(bytes) <= Remaining(Cleared(buf))
  /\ buf' = Flipped(Positioned(Stored(Cleared(buf), bytes), Len(bytes)))
  /\ mode' = "reading"
  /\ msg' = bytes

Payloads == UNION {[1..n -> Byte] : n \in 0..Capacity}

Next ==
  \/ \E n \in 0..Capacity : SetPosition(n) \/ SetLimit(n) \/ Get(n) \/ Skip(n)
  \/ Mark \/ Reset \/ Clear \/ Flip \/ Rewind
  \/ \E bytes \in Payloads : Put(bytes) \/ Receive(bytes)

Spec == Init /\ [][Next]_vars

----------------------------------------------------------------------------
(* Properties. *)

(* Every variable has its type: the position and the limit stay within the *)
(* memory.                                                                 *)
TypeOK ==
  /\ buf \in Buffers
  /\ mode \in {"filling", "reading", "other"}
  /\ msg \in Seq(Byte)

(* mark <= position <= limit, so that remaining() is never negative and    *)
(* reset() never moves forward, whatever the order of the calls, limit()   *)
(* below the position and position() below the mark included.              *)
Ordered == buf.mark <= buf.position /\ buf.position <= buf.limit

(* What was put, or received, is what is there to get: up to the limit, in *)
(* order, whatever was left in the buffer by its last user and wherever    *)
(* get(), skip(), mark(), reset(), rewind() and position() have moved.     *)
Holds(n) == n = Len(msg) /\ \A i \in 1..n : buf.data[i - 1] = msg[i]
ReadsWhatWasPut ==
  /\ mode = "filling" => Holds(buf.position) /\ buf.limit = Capacity
  /\ mode = "reading" => Holds(buf.limit)
==============================================================================
