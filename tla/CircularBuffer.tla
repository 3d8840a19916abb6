---------------------------- MODULE CircularBuffer ----------------------------
(***************************************************************************)
(* muti::CircularBuffer, the output buffer of a connection: a ring whose   *)
(* two counters run freely in unsigned integers and are masked by a        *)
(* capacity that is a power of two.                                        *)
(*                                                                         *)
(* The integers are Width bits wide (32 in the code).  A payload is the    *)
(* next bytes of a periodic stream, so that a lost, repeated or displaced  *)
(* byte shows.                                                             *)
(*                                                                         *)
(* A resize() whose result does not fit the allocation ends the behaviour  *)
(* (overrun).  In the code the memcpy() of line 119 overruns the memory    *)
(* then; when the buffer was full with its content at the beginning,       *)
(* nothing is copied beyond it, but the counters are, buffer_len() exceeds *)
(* capacity_ and the code goes on.                                         *)
(***************************************************************************)
EXTENDS Integers, Sequences

CONSTANTS
  Width,    \* the bits of uint32_t
  Period,   \* the period of the payload
  MaxLen    \* bound: the length of one put() or get()

(* 2^i, in a form that proofs can unfold. *)
TwoTo[i \in 0..Width] == IF i = 0 THEN 1 ELSE 2 * TwoTo[i - 1]

Modulus == TwoTo[Width]
MaxCapacity == TwoTo[Width - 1]   \* 0x80000000
PowersOfTwo == {TwoTo[i] : i \in 0..(Width - 1)}

ASSUME CircularBufferAssumption ==
  /\ Width \in Nat \ {0, 1}
  /\ Period \in Nat \ {0}
  /\ MaxLen \in 0..(Modulus - 1)

Byte == 0..(Period - 1)
Junk == -1                        \* an uninitialised byte of malloc()

VARIABLES
  data,      \* data_, a function on 0 .. capacity - 1
  capacity,  \* capacity_
  in,        \* in_
  out,       \* out_
  overrun,   \* resize() went beyond the allocation, in its bytes or its counters
  sent,      \* history: the phase of the payload
  io         \* history: the last operation and the bytes it moved

vars == <<data, capacity, in, out, overrun, sent, io>>

----------------------------------------------------------------------------
(* Mutants. *)

RoundupExact(v) == v
RoundupDown(v) ==
  IF v < 2 THEN 2
  ELSE CHOOSE p \in PowersOfTwo : p <= v /\ \A q \in PowersOfTwo : q <= v => q <= p
RoundupTwice(v) ==
  IF v > TwoTo[Width - 2] THEN MaxCapacity
  ELSE CHOOSE p \in PowersOfTwo : p >= 2 * v /\ \A q \in PowersOfTwo : q >= 2 * v => p <= q
RemainingOneMore == (capacity - in + out + 1) % Modulus
FrontSwapped(n) ==
  LET rest == capacity - (out % capacity)
      first == IF n <= rest THEN n ELSE rest
  IN  [i \in 1..(n - first) |-> data[i - 1]] \o [i \in 1..first |-> data[(out % capacity) + i - 1]]

----------------------------------------------------------------------------
(* uint32_t *)

Add(a, b) == IF a + b < Modulus THEN a + b ELSE a + b - Modulus
Sub(a, b) == IF a >= b THEN a - b ELSE a - b + Modulus
Lesser(a, b) == IF a <= b THEN a ELSE b

IsPowOfTwo(v) == v \in PowersOfTwo

(* The smallest power of two from 2 on that is at least v, and 2^31 when   *)
(* there is none.                                                          *)
RoundupPowOfTwo(v) ==
  IF v < 2 THEN 2
  ELSE IF v > MaxCapacity THEN MaxCapacity
  ELSE CHOOSE p \in PowersOfTwo : p >= v /\ \A q \in PowersOfTwo : q >= v => p <= q

BufferLen == Sub(in, out)
Full == BufferLen = capacity
BufferRemaining == Add(Sub(capacity, in), out)
InIndex == in % capacity     \* in_ & (capacity_ - 1)
OutIndex == out % capacity
FullAtBegin == Full /\ InIndex = 0

----------------------------------------------------------------------------
(* Memory. *)

(* memcpy() of the sequence s to d + at *)
Copied(d, at, s) ==
  [i \in DOMAIN d |-> IF i \in at..(at + Len(s) - 1) THEN s[i - at + 1] ELSE d[i]]

(* n bytes read from data_ + at *)
Bytes(at, n) == [i \in 1..n |-> data[at + i - 1]]

(* The first n bytes of the content: from out_ to the end of the memory,   *)
(* then from its beginning.                                                *)
Front(n) ==
  LET first == Lesser(n, capacity - OutIndex)
  IN  Bytes(OutIndex, first) \o Bytes(0, n - first)

Payload(length) == [i \in 1..length |-> (sent + i - 1) % Period]

----------------------------------------------------------------------------

(* The constructor, for every capacity asked for. *)
Init ==
  \E asked \in 0..(Modulus - 1) :
    LET cap == Lesser(asked, MaxCapacity)
    IN  /\ capacity = IF IsPowOfTwo(cap) THEN cap ELSE RoundupPowOfTwo(cap)
        /\ data = [i \in 0..(capacity - 1) |-> Junk]
        /\ in = 0 /\ out = 0
        /\ overrun = FALSE
        /\ sent = 0
        /\ io = [op |-> "new", bytes |-> <<>>]

Appended(length) ==
  /\ sent' = (sent + length) % Period
  /\ io' = [op |-> "put", bytes |-> Payload(length)]

(* put() when the bytes fit. *)
PutFits(length) ==
  /\ ~overrun
  /\ BufferRemaining >= length
  /\ LET first == Lesser(length, capacity - InIndex)
         begin == Copied(data, InIndex, SubSeq(Payload(length), 1, first))
     IN  data' = Copied(begin, 0, SubSeq(Payload(length), first + 1, length))
  /\ in' = Add(in, length)
  /\ Appended(length)
  /\ UNCHANGED <<capacity, out, overrun>>

(* The bytes resize() leaves in the new memory. *)
Resized(fresh, length) ==
  IF FullAtBegin
  THEN Copied(fresh, 0, Bytes(0, capacity))
  ELSE Copied(Copied(fresh, 0, Front(BufferLen)), BufferLen, Payload(length))

(* put() when they do not: resize(). *)
PutResizes(length) ==
  /\ ~overrun
  /\ BufferRemaining < length
  /\ capacity' = RoundupPowOfTwo(Add(length, capacity))
  /\ data' = Resized([i \in 0..(capacity' - 1) |-> Junk], length)
  /\ overrun' = (BufferLen + length > capacity')
  /\ out' = 0
  /\ in' = Add(length, BufferLen)
  /\ Appended(length)

(* get() *)
Get(length) ==
  /\ ~overrun
  /\ LET size == Lesser(length, BufferLen)
     IN  /\ io' = [op |-> "get", bytes |-> Front(size)]
         /\ out' = Add(out, size)
  /\ UNCHANGED <<data, capacity, in, overrun, sent>>

(* write_to_fd() when the socket takes n bytes.  It asserts ~empty(); a    *)
(* failed write changes nothing.                                           *)
WriteToFd(n) ==
  /\ ~overrun
  /\ n \in 1..BufferLen
  /\ LET iov == IF FullAtBegin THEN Bytes(0, capacity) ELSE Front(BufferLen)
     IN  io' = [op |-> "write", bytes |-> SubSeq(iov, 1, n)]
  /\ out' = Add(out, n)
  /\ UNCHANGED <<data, capacity, in, overrun, sent>>

(* clear() *)
Clear ==
  /\ ~overrun
  /\ in' = 0 /\ out' = 0
  /\ io' = [op |-> "clear", bytes |-> <<>>]
  /\ UNCHANGED <<data, capacity, overrun, sent>>

Next ==
  \/ \E length \in 0..MaxLen : PutFits(length) \/ PutResizes(length) \/ Get(length)
  \/ \E n \in 1..(Modulus - 1) : WriteToFd(n)
  \/ Clear

Spec == Init /\ [][Next]_vars

----------------------------------------------------------------------------
(* Properties. *)

(* The type of the state: the counters are unsigned integers, the capacity *)
(* is a power of two.                                                      *)
TypeOK ==
  /\ capacity \in PowersOfTwo
  /\ data \in [0..(capacity - 1) -> Byte \cup {Junk}]
  /\ in \in 0..(Modulus - 1)
  /\ out \in 0..(Modulus - 1)
  /\ overrun \in BOOLEAN
  /\ sent \in Byte

(* The content never exceeds the capacity, wherever the counters wrapped,  *)
(* and the free space is what the capacity leaves.                         *)
Window ==
  ~overrun => BufferLen <= capacity /\ BufferRemaining = capacity - BufferLen

(* resize() allocates enough, for what it copies and for the length its    *)
(* counters give, as long as the new bytes and the capacity together stay  *)
(* within 2^31.                                                            *)
OverrunOnlyAtLimit ==
  [][overrun' => Len(io'.bytes) + capacity > MaxCapacity]_vars

(* The memory stays proportional to the content: resize() allocates less   *)
(* than 4 times what the buffer then holds, however often it was resized   *)
(* and however little it held before.                                      *)
CapacityBounded ==
  [][capacity' # capacity /\ ~overrun' => capacity' < 4 * BufferLen']_vars

(* The content, and the stream it implements. *)
Content == Front(BufferLen)
Stream == INSTANCE ByteStream WITH content <- Content

(* Every step is a step of ByteStream, except the two in which resize()    *)
(* goes wrong: the buffer is full with its content at the beginning of the *)
(* memory, or the sizes exceed 2^31.  After the former, later bytes still  *)
(* come out in order.                                                      *)
ResizeFails(length) ==
  PutResizes(length) /\ (FullAtBegin \/ length + capacity > MaxCapacity)
ImplementsStream ==
  Stream!Init /\ [][(\E length \in 0..MaxLen : ResizeFails(length)) \/ Stream!Next]_vars

(* The bytes handed out are bytes that were put: "last append data to the  *)
(* buffer" (CircularBuffer.cpp:118).                                       *)
NoJunk == ~overrun => \A i \in 1..BufferLen : Content[i] # Junk
==============================================================================
