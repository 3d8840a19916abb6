--------------------------- MODULE ByteBufferProofs ---------------------------
(* Invariance proofs about ByteBuffer, for every capacity. *)
EXTENDS ByteBuffer, TLAPS

(* A payload is a sequence of bytes no longer than the buffer. *)
LEMMA PayloadIsSeq ==
  ASSUME NEW bytes \in Payloads
  PROVE  bytes \in Seq(Byte) /\ Len(bytes) \in 0..Capacity
<1>1. PICK n \in 0..Capacity : bytes \in [1..n -> Byte]
  BY DEF Payloads
<1>2. n \in Nat
  BY CapacityAssumption
<1>3. bytes \in Seq(Byte)
  BY <1>1, <1>2
<1>4. Len(bytes) = n
  BY <1>1, <1>2
<1> QED
  BY <1>3, <1>4

(* What memcpy() leaves in the memory. *)
LEMMA StoredBuffer ==
  ASSUME NEW b \in Buffers, NEW bytes \in Seq(Byte),
         b.position + Len(bytes) <= Capacity
  PROVE  /\ Stored(b, bytes) \in Buffers
         /\ Stored(b, bytes).position = b.position
         /\ Stored(b, bytes).limit = b.limit
         /\ Stored(b, bytes).mark = b.mark
         /\ \A i \in 1..Len(bytes) : Stored(b, bytes).data[b.position + i - 1] = bytes[i]
         /\ \A i \in 1..b.position : Stored(b, bytes).data[i - 1] = b.data[i - 1]
<1> DEFINE after == [i \in Cells |-> IF i \in b.position..(b.position + Len(bytes) - 1)
                                     THEN bytes[i - b.position + 1] ELSE b.data[i]]
<1>1. b.position \in 0..Capacity /\ b.data \in [Cells -> Byte \cup {Junk}]
  BY DEF Buffers
<1>2. ASSUME NEW i \in Cells PROVE after[i] \in Byte \cup {Junk}
  BY <1>1, CapacityAssumption DEF Cells
<1>3. after \in [Cells -> Byte \cup {Junk}]
  BY <1>2
<1>4. Stored(b, bytes) = [b EXCEPT !.data = after]
  BY DEF Stored
<1>5. Stored(b, bytes) \in Buffers /\ Stored(b, bytes).data = after
  BY <1>3, <1>4 DEF Buffers
<1>6. ASSUME NEW i \in 1..Len(bytes) PROVE after[b.position + i - 1] = bytes[i]
  BY <1>1, CapacityAssumption DEF Cells
<1>7. ASSUME NEW i \in 1..b.position PROVE after[i - 1] = b.data[i - 1]
  BY <1>1, CapacityAssumption DEF Cells
<1> QED
  BY <1>4, <1>5, <1>6, <1>7 DEF Buffers

(* What each method leaves of a buffer, field by field. *)
LEMMA PositionedBuffer ==
  ASSUME NEW b \in Buffers, NEW p \in 0..Capacity
  PROVE  /\ Positioned(b, p) \in Buffers
         /\ Positioned(b, p).data = b.data
         /\ Positioned(b, p).position = p
         /\ Positioned(b, p).limit = b.limit
         /\ Positioned(b, p).mark = (IF b.mark > p THEN NoMark ELSE b.mark)
<1>1. Positioned(b, p) \in Buffers
  BY CapacityAssumption DEF Positioned, Buffers, NoMark
<1>2. Positioned(b, p).data = b.data
  BY DEF Positioned, Buffers
<1>3. Positioned(b, p).position = p
  BY DEF Positioned, Buffers
<1>4. Positioned(b, p).limit = b.limit
  BY DEF Positioned, Buffers
<1>5. Positioned(b, p).mark = (IF b.mark > p THEN NoMark ELSE b.mark)
  BY DEF Positioned, Buffers
<1> QED
  BY <1>1, <1>2, <1>3, <1>4, <1>5

LEMMA LimitedBuffer ==
  ASSUME NEW b \in Buffers, NEW l \in 0..Capacity
  PROVE  /\ Limited(b, l) \in Buffers
         /\ Limited(b, l).data = b.data
         /\ Limited(b, l).position = (IF b.position > l THEN l ELSE b.position)
         /\ Limited(b, l).limit = l
         /\ Limited(b, l).mark = (IF b.mark > l THEN NoMark ELSE b.mark)
<1>1. Limited(b, l) \in Buffers
  BY CapacityAssumption DEF Limited, Buffers, NoMark
<1>2. Limited(b, l).data = b.data
  BY DEF Limited, Buffers
<1>3. Limited(b, l).position = (IF b.position > l THEN l ELSE b.position)
  BY DEF Limited, Buffers
<1>4. Limited(b, l).limit = l
  BY DEF Limited, Buffers
<1>5. Limited(b, l).mark = (IF b.mark > l THEN NoMark ELSE b.mark)
  BY DEF Limited, Buffers
<1> QED
  BY <1>1, <1>2, <1>3, <1>4, <1>5

LEMMA MarkedBuffer ==
  ASSUME NEW b \in Buffers
  PROVE  /\ Marked(b) \in Buffers
         /\ Marked(b).data = b.data
         /\ Marked(b).position = b.position
         /\ Marked(b).limit = b.limit
         /\ Marked(b).mark = b.position
<1>1. Marked(b) \in Buffers
  BY CapacityAssumption DEF Marked, Buffers, NoMark
<1>2. Marked(b).data = b.data
  BY DEF Marked, Buffers
<1>3. Marked(b).position = b.position
  BY DEF Marked, Buffers
<1>4. Marked(b).limit = b.limit
  BY DEF Marked, Buffers
<1>5. Marked(b).mark = b.position
  BY DEF Marked, Buffers
<1> QED
  BY <1>1, <1>2, <1>3, <1>4, <1>5

LEMMA ResetToMarkBuffer ==
  ASSUME NEW b \in Buffers, b.mark >= 0
  PROVE  /\ ResetToMark(b) \in Buffers
         /\ ResetToMark(b).data = b.data
         /\ ResetToMark(b).position = b.mark
         /\ ResetToMark(b).limit = b.limit
         /\ ResetToMark(b).mark = b.mark
<1>1. ResetToMark(b) \in Buffers
  BY CapacityAssumption DEF ResetToMark, Buffers, NoMark
<1>2. ResetToMark(b).data = b.data
  BY DEF ResetToMark, Buffers
<1>3. ResetToMark(b).position = b.mark
  BY DEF ResetToMark, Buffers
<1>4. ResetToMark(b).limit = b.limit
  BY DEF ResetToMark, Buffers
<1>5. ResetToMark(b).mark = b.mark
  BY DEF ResetToMark, Buffers
<1> QED
  BY <1>1, <1>2, <1>3, <1>4, <1>5

LEMMA ClearedBuffer ==
  ASSUME NEW b \in Buffers
  PROVE  /\ Cleared(b) \in Buffers
         /\ Cleared(b).data = b.data
         /\ Cleared(b).position = 0
         /\ Cleared(b).limit = Capacity
         /\ Cleared(b).mark = NoMark
<1>1. Cleared(b) \in Buffers
  <2>1. 0 \in 0..Capacity /\ Capacity \in 0..Capacity
    BY CapacityAssumption
  <2> QED
    BY <2>1 DEF Cleared, Buffers
<1>2. Cleared(b).data = b.data
  BY DEF Cleared, Buffers
<1>3. Cleared(b).position = 0
  BY DEF Cleared, Buffers
<1>4. Cleared(b).limit = Capacity
  BY DEF Cleared, Buffers
<1>5. Cleared(b).mark = NoMark
  BY DEF Cleared, Buffers
<1> QED
  BY <1>1, <1>2, <1>3, <1>4, <1>5

LEMMA FlippedBuffer ==
  ASSUME NEW b \in Buffers
  PROVE  /\ Flipped(b) \in Buffers
         /\ Flipped(b).data = b.data
         /\ Flipped(b).position = 0
         /\ Flipped(b).limit = b.position
         /\ Flipped(b).mark = NoMark
<1>1. Flipped(b) \in Buffers
  <2>1. 0 \in 0..Capacity /\ Capacity \in 0..Capacity
    BY CapacityAssumption
  <2> QED
    BY <2>1 DEF Flipped, Buffers
<1>2. Flipped(b).data = b.data
  BY DEF Flipped, Buffers
<1>3. Flipped(b).position = 0
  BY DEF Flipped, Buffers
<1>4. Flipped(b).limit = b.position
  BY DEF Flipped, Buffers
<1>5. Flipped(b).mark = NoMark
  BY DEF Flipped, Buffers
<1> QED
  BY <1>1, <1>2, <1>3, <1>4, <1>5

LEMMA RewoundBuffer ==
  ASSUME NEW b \in Buffers
  PROVE  /\ Rewound(b) \in Buffers
         /\ Rewound(b).data = b.data
         /\ Rewound(b).position = 0
         /\ Rewound(b).limit = b.limit
         /\ Rewound(b).mark = NoMark
<1>1. Rewound(b) \in Buffers
  <2>1. 0 \in 0..Capacity /\ Capacity \in 0..Capacity
    BY CapacityAssumption
  <2> QED
    BY <2>1 DEF Rewound, Buffers
<1>2. Rewound(b).data = b.data
  BY DEF Rewound, Buffers
<1>3. Rewound(b).position = 0
  BY DEF Rewound, Buffers
<1>4. Rewound(b).limit = b.limit
  BY DEF Rewound, Buffers
<1>5. Rewound(b).mark = NoMark
  BY DEF Rewound, Buffers
<1> QED
  BY <1>1, <1>2, <1>3, <1>4, <1>5

LEMMA MovedBuffer ==
  ASSUME NEW b \in Buffers, NEW p \in 0..Capacity
  PROVE  /\ [b EXCEPT !.position = p] \in Buffers
         /\ [b EXCEPT !.position = p].data = b.data
         /\ [b EXCEPT !.position = p].position = p
         /\ [b EXCEPT !.position = p].limit = b.limit
         /\ [b EXCEPT !.position = p].mark = b.mark
BY CapacityAssumption DEF Buffers

(* Every step keeps the types and the order of mark, position and limit:   *)
(* put(), get() and skip() stay within the memory because the position     *)
(* does not exceed the limit.                                              *)
LEMMA OrderedStep ==
  TypeOK /\ Ordered /\ ReadsWhatWasPut /\ [Next]_vars => (TypeOK /\ Ordered)'
<1> USE CapacityAssumption
<1> SUFFICES ASSUME TypeOK, Ordered, ReadsWhatWasPut, [Next]_vars PROVE (TypeOK /\ Ordered)'
  OBVIOUS
<1> USE DEF NoMark
<1>0. /\ buf \in Buffers
      /\ buf.position \in 0..Capacity /\ buf.limit \in 0..Capacity
      /\ buf.mark \in 0..Capacity \cup {NoMark}
  BY DEF TypeOK, Buffers
<1>1. ASSUME NEW n \in 0..Capacity, SetPosition(n) PROVE (TypeOK /\ Ordered)'
  <2>1. buf' = Positioned(buf, n)
    BY <1>1 DEF SetPosition
  <2>2. buf' \in Buffers
    BY <1>0, <2>1, PositionedBuffer
  <2>3. /\ buf'.position = n /\ buf'.limit = buf.limit
        /\ buf'.mark = (IF buf.mark > n THEN NoMark ELSE buf.mark)
    BY <1>0, <2>1, PositionedBuffer
  <2>4. Ordered'
    BY <1>0, <1>1, <2>3 DEF SetPosition, Ordered
  <2> QED
    BY <1>1, <2>2, <2>4 DEF SetPosition, Moves, TypeOK
<1>2. ASSUME NEW n \in 0..Capacity, SetLimit(n) PROVE (TypeOK /\ Ordered)'
  <2>1. buf' = Limited(buf, n)
    BY <1>2 DEF SetLimit
  <2>2. buf' \in Buffers
    BY <1>0, <2>1, LimitedBuffer
  <2>3. /\ buf'.position = (IF buf.position > n THEN n ELSE buf.position)
        /\ buf'.limit = n
        /\ buf'.mark = (IF buf.mark > n THEN NoMark ELSE buf.mark)
    BY <1>0, <2>1, LimitedBuffer
  <2>4. Ordered'
    BY <1>0, <2>3 DEF Ordered
  <2> QED
    BY <1>2, <2>2, <2>4 DEF SetLimit, TypeOK
<1>3. ASSUME NEW n \in 0..Capacity, Get(n) PROVE (TypeOK /\ Ordered)'
  <2> DEFINE p == buf.position + (IF n < Remaining(buf) THEN n ELSE Remaining(buf))
  <2>1. p \in buf.position..buf.limit
    BY <1>0 DEF Remaining, Ordered
  <2>2. buf' = [buf EXCEPT !.position = p]
    BY <1>3 DEF Get, Taken
  <2> HIDE DEF p
  <2>3. buf' \in Buffers /\ Ordered'
    BY <1>0, <2>1, <2>2, MovedBuffer DEF Ordered
  <2> QED
    BY <1>3, <2>3 DEF Get, Moves, TypeOK
<1>4. ASSUME NEW n \in 0..Capacity, Skip(n) PROVE (TypeOK /\ Ordered)'
  <2> DEFINE p == buf.position + n
  <2>1. p \in buf.position..buf.limit
    BY <1>0, <1>4 DEF Skip, Remaining
  <2>2. buf' = [buf EXCEPT !.position = p]
    BY <1>4 DEF Skip
  <2> HIDE DEF p
  <2>3. buf' \in Buffers /\ Ordered'
    BY <1>0, <2>1, <2>2, MovedBuffer DEF Ordered
  <2> QED
    BY <1>4, <2>3 DEF Skip, Moves, TypeOK
<1>5. CASE Mark
  <2>1. buf' \in Buffers /\ Ordered'
    BY <1>0, <1>5, MarkedBuffer DEF Mark, Ordered
  <2> QED
    BY <1>5, <2>1 DEF Mark, TypeOK
<1>6. CASE Reset
  <2>1. buf' \in Buffers /\ Ordered'
    BY <1>0, <1>6, ResetToMarkBuffer DEF Reset, Ordered
  <2>2. mode = "filling" => buf.mark \in 0..Len(msg)
    BY <1>0, <1>6 DEF Reset, Ordered, ReadsWhatWasPut, Holds
  <2>3. mode = "filling" => SubSeq(msg, 1, buf.mark) \in Seq(Byte)
    BY <2>2 DEF TypeOK
  <2> QED
    BY <1>6, <2>1, <2>3 DEF Reset, TypeOK
<1>7. CASE Clear
  <2>1. buf' \in Buffers /\ Ordered'
    BY <1>0, <1>7, ClearedBuffer DEF Clear, Ordered
  <2> QED
    BY <1>7, <2>1 DEF Clear, TypeOK
<1>8. CASE Flip
  <2>1. buf' \in Buffers /\ Ordered'
    BY <1>0, <1>8, FlippedBuffer DEF Flip, Ordered
  <2> QED
    BY <1>8, <2>1 DEF Flip, TypeOK
<1>9. CASE Rewind
  <2>1. buf' \in Buffers /\ Ordered'
    BY <1>0, <1>9, RewoundBuffer DEF Rewind, Ordered
  <2> QED
    BY <1>9, <2>1 DEF Rewind, Moves, TypeOK
<1>10. ASSUME NEW bytes \in Payloads, Put(bytes) PROVE (TypeOK /\ Ordered)'
  <2>1. bytes \in Seq(Byte) /\ Len(bytes) \in 0..Capacity
    BY PayloadIsSeq
  <2> DEFINE b == Stored(buf, bytes)
             p == buf.position + Len(bytes)
  <2>2. p \in buf.position..buf.limit
    BY <1>0, <1>10, <2>1 DEF Put, Remaining
  <2>3. /\ b \in Buffers /\ b.position = buf.position
        /\ b.limit = buf.limit /\ b.mark = buf.mark
    BY <1>0, <2>1, <2>2, StoredBuffer
  <2>4. buf' = [b EXCEPT !.position = p]
    BY <1>10, <2>3 DEF Put, Filled
  <2> HIDE DEF b, p
  <2>5. buf' \in Buffers /\ Ordered'
    BY <1>0, <2>2, <2>3, <2>4, MovedBuffer DEF Ordered
  <2>6. mode' \in {"filling", "reading", "other"} /\ msg' \in Seq(Byte)
    BY <1>10, <2>1 DEF Put, TypeOK
  <2> QED
    BY <2>5, <2>6 DEF TypeOK
<1>11. ASSUME NEW bytes \in Payloads, Receive(bytes) PROVE (TypeOK /\ Ordered)'
  <2>1. bytes \in Seq(Byte) /\ Len(bytes) \in 0..Capacity
    BY PayloadIsSeq
  <2>2. Stored(Cleared(buf), bytes) \in Buffers
    BY <1>0, <2>1, ClearedBuffer, StoredBuffer
  <2>3. /\ Positioned(Stored(Cleared(buf), bytes), Len(bytes)) \in Buffers
        /\ Positioned(Stored(Cleared(buf), bytes), Len(bytes)).position = Len(bytes)
    BY <2>1, <2>2, PositionedBuffer
  <2>4. buf' \in Buffers /\ Ordered'
    BY <1>11, <2>1, <2>3, FlippedBuffer DEF Receive, Ordered
  <2> QED
    BY <1>11, <2>1, <2>4 DEF Receive, TypeOK
<1>12. CASE UNCHANGED vars
  BY <1>12 DEF vars, TypeOK, Ordered
<1> QED
  BY <1>1, <1>2, <1>3, <1>4, <1>5, <1>6, <1>7, <1>8, <1>9, <1>10, <1>11, <1>12 DEF Next

(* Every step keeps the bytes. *)
LEMMA RoundTripStep ==
  TypeOK /\ Ordered /\ ReadsWhatWasPut /\ [Next]_vars => ReadsWhatWasPut'
<1> USE CapacityAssumption
<1> SUFFICES ASSUME TypeOK, Ordered, ReadsWhatWasPut, [Next]_vars PROVE ReadsWhatWasPut'
  OBVIOUS
<1>1. ASSUME NEW n \in 0..Capacity, SetPosition(n) PROVE ReadsWhatWasPut'
  BY <1>1 DEF SetPosition, Positioned, Moves, TypeOK, Buffers, ReadsWhatWasPut, Holds
<1>2. ASSUME NEW n \in 0..Capacity, SetLimit(n) PROVE ReadsWhatWasPut'
  BY <1>2 DEF SetLimit, ReadsWhatWasPut
<1>3. ASSUME NEW n \in 0..Capacity, Get(n) PROVE ReadsWhatWasPut'
  BY <1>3 DEF Get, Taken, Moves, TypeOK, Buffers, ReadsWhatWasPut, Holds
<1>4. ASSUME NEW n \in 0..Capacity, Skip(n) PROVE ReadsWhatWasPut'
  BY <1>4 DEF Skip, Moves, TypeOK, Buffers, ReadsWhatWasPut, Holds
<1>5. CASE Mark
  BY <1>5 DEF Mark, Marked, TypeOK, Buffers, ReadsWhatWasPut, Holds
<1>6. CASE Reset
  <2>1. CASE mode = "filling"
    <3>1. /\ buf.mark \in 0..Len(msg)
          /\ buf'.position = buf.mark /\ buf'.limit = Capacity /\ buf'.data = buf.data
      <4>1. buf.mark \in 0..Len(msg) /\ buf.limit = Capacity
        <5>1. buf.mark \in Int /\ buf.mark >= 0 /\ buf.mark <= buf.position
          BY <1>6 DEF Reset, TypeOK, Buffers, Ordered, NoMark
        <5>2. buf.position = Len(msg) /\ buf.limit = Capacity /\ Len(msg) \in Nat
          BY <2>1 DEF TypeOK, ReadsWhatWasPut, Holds
        <5> QED
          BY <5>1, <5>2
      <4>2. buf'.position = buf.mark /\ buf'.limit = buf.limit /\ buf'.data = buf.data
        <5>1. buf \in Buffers /\ buf.mark >= 0 /\ buf' = ResetToMark(buf)
          BY <1>6 DEF Reset, TypeOK
        <5> QED
          BY <5>1, ResetToMarkBuffer
      <4> QED
        BY <4>1, <4>2
    <3>2. msg' = SubSeq(msg, 1, buf.mark) /\ mode' = "filling"
      BY <1>6, <2>1 DEF Reset
    <3>3. msg \in Seq(Byte) /\ \A i \in 1..Len(msg) : buf.data[i - 1] = msg[i]
      BY <2>1 DEF TypeOK, ReadsWhatWasPut, Holds
    <3>4. Len(msg') = buf.mark /\ \A i \in 1..buf.mark : msg'[i] = msg[i]
      BY <3>1, <3>2, <3>3
    <3> QED
      BY <3>1, <3>2, <3>3, <3>4 DEF ReadsWhatWasPut, Holds
  <2>2. CASE mode # "filling"
    BY <1>6, <2>2 DEF Reset, ResetToMark, TypeOK, Buffers, ReadsWhatWasPut, Holds
  <2> QED
    BY <2>1, <2>2
<1>7. CASE Clear
  BY <1>7 DEF Clear, Cleared, TypeOK, Buffers, ReadsWhatWasPut, Holds
<1>8. CASE Flip
  BY <1>8 DEF Flip, Flipped, TypeOK, Buffers, ReadsWhatWasPut, Holds
<1>9. CASE Rewind
  BY <1>9 DEF Rewind, Rewound, Moves, TypeOK, Buffers, ReadsWhatWasPut, Holds
<1>10. ASSUME NEW bytes \in Payloads, Put(bytes) PROVE ReadsWhatWasPut'
  <2>1. bytes \in Seq(Byte) /\ Len(bytes) \in 0..Capacity
    BY PayloadIsSeq
  <2>2. buf \in Buffers /\ buf.position + Len(bytes) <= Capacity
    BY <1>10, <2>1 DEF Put, Remaining, TypeOK, Buffers
  <2>3. CASE mode = "filling"
    <3>1. /\ Stored(buf, bytes) \in Buffers
          /\ Stored(buf, bytes).position = buf.position
          /\ Stored(buf, bytes).limit = buf.limit
          /\ \A i \in 1..Len(bytes) :
               Stored(buf, bytes).data[buf.position + i - 1] = bytes[i]
          /\ \A i \in 1..buf.position : Stored(buf, bytes).data[i - 1] = buf.data[i - 1]
      BY <2>1, <2>2, StoredBuffer
    <3>2. /\ buf'.data = Stored(buf, bytes).data
          /\ buf'.position = buf.position + Len(bytes)
          /\ buf'.limit = Capacity
      <4> DEFINE b == Stored(buf, bytes)
      <4>1. buf' = [b EXCEPT !.position = buf.position + Len(bytes)]
        BY <1>10, <3>1 DEF Put, Filled
      <4>2. buf.limit = Capacity
        BY <2>3 DEF ReadsWhatWasPut
      <4>3. buf.position + Len(bytes) \in 0..Capacity
        BY <2>1, <2>2 DEF Buffers
      <4>4. b \in Buffers /\ b.limit = buf.limit
        BY <3>1
      <4> HIDE DEF b
      <4>5. /\ buf'.data = b.data /\ buf'.limit = b.limit
            /\ buf'.position = buf.position + Len(bytes)
        BY <4>1, <4>3, <4>4, MovedBuffer
      <4> QED
        BY <4>2, <4>4, <4>5 DEF b
    <3>3. mode' = "filling" /\ msg' = msg \o bytes /\ msg \in Seq(Byte)
      BY <1>10, <2>3 DEF Put, TypeOK
    <3>4. Len(msg) = buf.position /\ \A i \in 1..Len(msg) : buf.data[i - 1] = msg[i]
      BY <2>3 DEF ReadsWhatWasPut, Holds
    <3>5. Len(msg') = buf'.position
      <4>1. Len(msg \o bytes) = Len(msg) + Len(bytes)
        BY <2>1, <3>3
      <4> QED
        BY <3>2, <3>3, <3>4, <4>1
    <3>6. ASSUME NEW i \in 1..Len(msg') PROVE buf'.data[i - 1] = msg'[i]
      <4>1. CASE i <= Len(msg)
        BY <2>1, <3>1, <3>2, <3>3, <3>4, <3>5, <4>1
      <4>2. CASE i > Len(msg)
        <5>1. i - Len(msg) \in 1..Len(bytes)
          BY <2>1, <3>3, <4>2
        <5>2. msg'[i] = bytes[i - Len(msg)]
          BY <2>1, <3>3, <4>2
        <5>3. buf'.data[buf.position + (i - Len(msg)) - 1] = bytes[i - Len(msg)]
          BY <3>1, <3>2, <5>1
        <5>4. buf.position + (i - Len(msg)) - 1 = i - 1
          BY <2>2, <3>3, <3>4, <3>5 DEF Buffers
        <5> QED
          BY <5>2, <5>3, <5>4
      <4> QED
        BY <2>1, <3>3, <4>1, <4>2
    <3> QED
      BY <3>2, <3>3, <3>5, <3>6 DEF ReadsWhatWasPut, Holds
  <2>4. CASE mode # "filling"
    BY <1>10, <2>4 DEF Put, ReadsWhatWasPut
  <2> QED
    BY <2>3, <2>4
<1>11. ASSUME NEW bytes \in Payloads, Receive(bytes) PROVE ReadsWhatWasPut'
  <2>1. bytes \in Seq(Byte) /\ Len(bytes) \in 0..Capacity
    BY PayloadIsSeq
  <2>2. Cleared(buf) \in Buffers /\ Cleared(buf).position = 0
    BY ClearedBuffer DEF TypeOK
  <2>3. /\ Stored(Cleared(buf), bytes) \in Buffers
        /\ \A i \in 1..Len(bytes) :
             Stored(Cleared(buf), bytes).data[0 + i - 1] = bytes[i]
    BY <2>1, <2>2, StoredBuffer
  <2> DEFINE b == Positioned(Stored(Cleared(buf), bytes), Len(bytes))
  <2>4. /\ b \in Buffers
        /\ b.data = Stored(Cleared(buf), bytes).data
        /\ b.position = Len(bytes)
    BY <2>1, <2>3, PositionedBuffer
  <2>5. buf'.data = Stored(Cleared(buf), bytes).data /\ buf'.limit = Len(bytes)
    BY <1>11, <2>4, FlippedBuffer DEF Receive
  <2>6. msg' = bytes /\ mode' = "reading"
    BY <1>11 DEF Receive
  <2>7. \A i \in 1..Len(bytes) : buf'.data[i - 1] = bytes[i]
    BY <2>1, <2>3, <2>5
  <2> QED
    BY <2>5, <2>6, <2>7 DEF ReadsWhatWasPut, Holds
<1>12. CASE UNCHANGED vars
  BY <1>12 DEF vars, ReadsWhatWasPut, Holds
<1> QED
  BY <1>1, <1>2, <1>3, <1>4, <1>5, <1>6, <1>7, <1>8, <1>9, <1>10, <1>11, <1>12 DEF Next

(* The three properties are inductive together, for every capacity and     *)
(* every sequence of calls of ByteBuffer's methods.                        *)
THEOREM BufferInvariant == Spec => [](TypeOK /\ Ordered /\ ReadsWhatWasPut)
<1>1. Init => TypeOK /\ Ordered
  BY CapacityAssumption DEF Init, TypeOK, Ordered, Buffers, NoMark, Junk, Cells
<1>2. Init => ReadsWhatWasPut
  BY DEF Init, ReadsWhatWasPut, Holds
<1> QED
  BY <1>1, <1>2, OrderedStep, RoundTripStep, PTL DEF Spec

(* Type correctness: position_ and limit_ stay within the memory.          *)
THEOREM TypeCorrect == Spec => []TypeOK
BY BufferInvariant, PTL

(* mark <= position <= limit: remaining() is never negative and reset()    *)
(* never moves the position forward.                                       *)
THEOREM MarkPositionLimit == Spec => []Ordered
BY BufferInvariant, PTL

(* The bytes put() or read() stored are the bytes there are to get, for    *)
(* every sequence of calls in between.                                     *)
THEOREM BytesRoundTrip == Spec => []ReadsWhatWasPut
BY BufferInvariant, PTL
==============================================================================
