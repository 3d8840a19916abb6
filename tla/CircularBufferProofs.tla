------------------------- MODULE CircularBufferProofs -------------------------
(* Proofs about CircularBuffer, for every width of its counters and every  *)
(* capacity: the window of the two counters, what resize() allocates, and  *)
(* the stream of bytes the ring implements.                                *)
EXTENDS CircularBuffer, TLAPS, WellFoundedInduction

----------------------------------------------------------------------------
(* Powers of two. *)

LEMMA LeastElement ==
  ASSUME NEW T, T \subseteq Nat, T # {}
  PROVE  \E m \in T : \A j \in T : m <= j
<1> DEFINE less == OpToRel(<, Nat)
<1>1. PICK x \in T : \A y \in T : ~(<<y, x>> \in less)
  BY NatLessThanWellFounded, WFMin
<1>2. ASSUME NEW y \in T PROVE x <= y
  <2>1. ~(y < x)
    BY <1>1 DEF OpToRel
  <2> QED
    BY <2>1
<1> QED
  BY <1>2

(* Induction up to n, for a set. *)
LEMMA UpTo ==
  ASSUME NEW n \in Nat, NEW S, 0 \in S, \A i \in 0..(n - 1) : i \in S => i + 1 \in S
  PROVE  \A i \in 0..n : i \in S
<1> DEFINE T == (0..n) \ S
<1> SUFFICES ASSUME T # {} PROVE FALSE
  OBVIOUS
<1>1. PICK m \in T : \A j \in T : m <= j
  <2>1. T \subseteq Nat
    OBVIOUS
  <2> HIDE DEF T
  <2> QED
    BY <2>1, LeastElement
<1>2. m \in 0..n /\ m \notin S /\ m # 0
  OBVIOUS
<1>3. m - 1 \in 0..(n - 1) /\ m - 1 \in 0..n /\ ~(m <= m - 1) /\ (m - 1) + 1 = m
  BY <1>2
<1>4. m - 1 \in S
  BY <1>1, <1>3
<1> QED
  BY <1>2, <1>3, <1>4

LEMMA TwoToFacts ==
  /\ TwoTo[0] = 1
  /\ \A i \in 0..Width : TwoTo[i] \in Nat \ {0}
  /\ \A i \in 1..Width : TwoTo[i] = 2 * TwoTo[i - 1]
<1> DEFINE Step(f, i) == IF i = 0 THEN 1 ELSE 2 * f[i - 1]
           Defined(n) == \E f \in [0..n -> Nat \ {0}] : \A i \in 0..n : f[i] = Step(f, i)
           S == {n \in 0..Width : Defined(n)}
           t == CHOOSE f : f = [i \in 0..Width |-> Step(f, i)]
<1>0. TwoTo = t
  BY DEF TwoTo
<1>1. Width \in Nat /\ Width > 1
  BY CircularBufferAssumption
<1>2. 0 \in S
  <2> DEFINE f == [i \in 0..0 |-> 1]
  <2>1. f \in [0..0 -> Nat \ {0}] /\ \A i \in 0..0 : f[i] = Step(f, i)
    OBVIOUS
  <2> HIDE DEF f, Step
  <2>2. Defined(0)
    BY <2>1
  <2> HIDE DEF Defined
  <2> QED
    BY <1>1, <2>2
<1>3. ASSUME NEW n \in 0..(Width - 1), n \in S PROVE n + 1 \in S
  <2>1. PICK f \in [0..n -> Nat \ {0}] : \A i \in 0..n : f[i] = Step(f, i)
    BY <1>3
  <2> DEFINE g == [i \in 0..(n + 1) |-> IF i = n + 1 THEN Step(f, n + 1) ELSE f[i]]
  <2>2. Step(f, n + 1) \in Nat \ {0}
    <3>1. f[n] \in Nat \ {0} /\ n + 1 # 0 /\ (n + 1) - 1 = n
      OBVIOUS
    <3> QED
      BY <3>1
  <2>3. g \in [0..(n + 1) -> Nat \ {0}]
    BY <2>2
  <2>4. /\ \A i \in 0..(n + 1) : i # 0 => g[i - 1] = f[i - 1]
        /\ \A i \in 0..(n + 1) : g[i] = IF i = n + 1 THEN Step(f, n + 1) ELSE f[i]
    OBVIOUS
  <2> HIDE DEF g
  <2>5. ASSUME NEW i \in 0..(n + 1) PROVE g[i] = Step(g, i)
    <3>1. Step(g, i) = Step(f, i)
      BY <2>4
    <3>2. i # n + 1 => i \in 0..n
      OBVIOUS
    <3> HIDE DEF Step
    <3> QED
      BY <2>1, <2>4, <3>1, <3>2
  <2> HIDE DEF Step
  <2>6. Defined(n + 1)
    BY <2>3, <2>5
  <2> HIDE DEF Defined
  <2> QED
    BY <1>1, <2>6
<1>4. Width \in S
  <2> HIDE DEF S
  <2> QED
    BY <1>1, <1>2, <1>3, UpTo
<1>5. t = [i \in 0..Width |-> Step(t, i)]
  <2> HIDE DEF Step
  <2>1. PICK f \in [0..Width -> Nat \ {0}] : \A i \in 0..Width : f[i] = Step(f, i)
    BY <1>4
  <2>2. f = [i \in 0..Width |-> Step(f, i)]
    BY <2>1
  <2> QED
    BY <2>2
<1> HIDE DEF t
<1>6. \A i \in 0..Width : t[i] = Step(t, i)
  <2> HIDE DEF Step
  <2> QED
    BY <1>5
<1>7. t[0] = 1 /\ \A i \in 1..Width : t[i] = 2 * t[i - 1]
  BY <1>1, <1>6
<1>8. \A i \in 0..Width : t[i] \in Nat \ {0}
  <2> DEFINE U == {i \in 0..Width : t[i] \in Nat \ {0}}
  <2>1. 0 \in U
    BY <1>1, <1>7
  <2>2. ASSUME NEW i \in 0..(Width - 1), i \in U PROVE i + 1 \in U
    <3>1. i + 1 \in 1..Width /\ (i + 1) - 1 = i
      BY <1>1
    <3>2. t[i + 1] = 2 * t[i]
      BY <1>7, <3>1
    <3> QED
      BY <2>2, <3>1, <3>2
  <2>3. \A i \in 0..Width : i \in U
    <3> HIDE DEF U
    <3> QED
      BY <1>1, <2>1, <2>2, UpTo
  <2> QED
    BY <2>3
<1> QED
  BY <1>0, <1>7, <1>8

(* The capacities: powers of two up to MaxCapacity, half the modulus.  *)
LEMMA Powers ==
  /\ Modulus \in Nat /\ MaxCapacity \in Nat \ {0} /\ Modulus = 2 * MaxCapacity
  /\ MaxCapacity \in PowersOfTwo /\ 2 \in PowersOfTwo
  /\ \A p \in PowersOfTwo : p \in Nat \ {0} /\ p <= MaxCapacity
  /\ \A p \in PowersOfTwo : p = 1 \/ \E h \in PowersOfTwo : p = 2 * h
<1>1. Width \in Nat /\ Width > 1
  BY CircularBufferAssumption
<1>2. /\ Width \in 1..Width /\ Width - 1 \in 0..Width /\ Width - 1 \in 0..(Width - 1)
      /\ 1 \in 0..(Width - 1) /\ 1 \in 1..Width /\ 1 - 1 = 0
      /\ 0..(Width - 1) \subseteq 0..Width
  BY <1>1
<1>3. Modulus \in Nat /\ MaxCapacity \in Nat \ {0} /\ Modulus = 2 * MaxCapacity
  BY <1>2, TwoToFacts DEF Modulus, MaxCapacity
<1>4. TwoTo[1] = 2
  BY <1>2, TwoToFacts
<1>5. MaxCapacity \in PowersOfTwo /\ 2 \in PowersOfTwo
  BY <1>2, <1>4 DEF MaxCapacity, PowersOfTwo
<1>6. \A i \in 0..(Width - 1) : TwoTo[i] <= MaxCapacity
  <2> DEFINE U == {d \in 0..(Width - 1) : TwoTo[(Width - 1) - d] <= MaxCapacity}
  <2>1. 0 \in U
    BY <1>1, <1>3 DEF MaxCapacity
  <2>2. ASSUME NEW d \in 0..((Width - 1) - 1), d \in U PROVE d + 1 \in U
    <3> DEFINE i == (Width - 1) - d
    <3>1. i \in 1..Width /\ i \in 0..Width /\ i - 1 \in 0..Width /\ i - 1 = (Width - 1) - (d + 1)
          /\ d + 1 \in 0..(Width - 1)
      BY <1>1
    <3>2. TwoTo[i] = 2 * TwoTo[i - 1] /\ TwoTo[i] <= MaxCapacity
      BY <2>2, <3>1, TwoToFacts
    <3>3. TwoTo[i - 1] \in Nat
      BY <3>1, TwoToFacts
    <3>4. TwoTo[i - 1] <= MaxCapacity
      BY <1>3, <3>2, <3>3
    <3> QED
      BY <3>1, <3>4
  <2>3. \A d \in 0..(Width - 1) : d \in U
    <3> HIDE DEF U
    <3>1. Width - 1 \in Nat
      BY <1>1
    <3> QED
      BY <2>1, <2>2, <3>1, UpTo
  <2>4. TAKE i \in 0..(Width - 1)
  <2>5. (Width - 1) - i \in 0..(Width - 1) /\ (Width - 1) - ((Width - 1) - i) = i
    BY <1>1
  <2> QED
    BY <2>3, <2>5
<1>7. \A p \in PowersOfTwo : p \in Nat \ {0} /\ p <= MaxCapacity
  BY <1>2, <1>6, TwoToFacts DEF PowersOfTwo
<1>8. \A p \in PowersOfTwo : p = 1 \/ \E h \in PowersOfTwo : p = 2 * h
  <2> SUFFICES ASSUME NEW i \in 0..(Width - 1), i # 0
               PROVE  \E h \in PowersOfTwo : TwoTo[i] = 2 * h
    BY TwoToFacts DEF PowersOfTwo
  <2>1. i \in 1..Width /\ i - 1 \in 0..(Width - 1)
    BY <1>1
  <2> QED
    BY <2>1, TwoToFacts DEF PowersOfTwo
<1> QED
  BY <1>3, <1>5, <1>7, <1>8

(* A capacity divides the modulus, so that masking survives the wrap of a  *)
(* counter.                                                                *)
LEMMA Divides == \A p \in PowersOfTwo : \E k \in Nat : Modulus = k * p
<1>1. Width \in Nat /\ Width > 1
  BY CircularBufferAssumption
<1> DEFINE U == {d \in 0..Width : \E k \in Nat : Modulus = k * TwoTo[Width - d]}
<1>2. 0 \in U
  <2>1. Width - 0 = Width /\ TwoTo[Width] \in Nat /\ TwoTo[Width] = 1 * TwoTo[Width]
    BY <1>1, TwoToFacts
  <2> QED
    BY <1>1, <2>1 DEF Modulus
<1>3. ASSUME NEW d \in 0..(Width - 1), d \in U PROVE d + 1 \in U
  <2> DEFINE i == Width - d
  <2>1. i \in 1..Width /\ i - 1 \in 0..Width /\ i - 1 = Width - (d + 1) /\ d + 1 \in 0..Width
    BY <1>1
  <2>2. PICK k \in Nat : Modulus = k * TwoTo[i]
    BY <1>3
  <2>3. TwoTo[i] = 2 * TwoTo[i - 1] /\ TwoTo[i - 1] \in Nat
    BY <2>1, TwoToFacts
  <2>4. ASSUME NEW a \in Nat, NEW b \in Nat PROVE a * (2 * b) = (2 * a) * b
    OBVIOUS
  <2>5. Modulus = (2 * k) * TwoTo[i - 1] /\ 2 * k \in Nat
    BY <2>2, <2>3, <2>4
  <2> QED
    BY <2>1, <2>5
<1>4. \A d \in 0..Width : d \in U
  <2> HIDE DEF U
  <2> QED
    BY <1>1, <1>2, <1>3, UpTo
<1> SUFFICES ASSUME NEW i \in 0..(Width - 1) PROVE \E k \in Nat : Modulus = k * TwoTo[i]
  BY DEF PowersOfTwo
<1>5. Width - i \in 0..Width /\ Width - (Width - i) = i
  BY <1>1
<1> QED
  BY <1>4, <1>5

LEMMA RoundupFacts ==
  ASSUME NEW v \in Nat
  PROVE  /\ RoundupPowOfTwo(v) \in PowersOfTwo
         /\ v <= MaxCapacity => RoundupPowOfTwo(v) >= v
         /\ v >= 2 => RoundupPowOfTwo(v) < 2 * v
<1> DEFINE r == RoundupPowOfTwo(v)
<1>1. CASE v < 2
  <2>1. r = 2
    BY <1>1 DEF RoundupPowOfTwo
  <2> QED
    BY <1>1, <2>1, Powers
<1>2. CASE v >= 2 /\ v > MaxCapacity
  <2>1. r = MaxCapacity
    BY <1>2 DEF RoundupPowOfTwo
  <2> QED
    BY <1>2, <2>1, Powers
<1>3. CASE v >= 2 /\ v <= MaxCapacity
  <2> DEFINE Fits == {p \in PowersOfTwo : p >= v}
  <2>1. Fits \subseteq Nat /\ Fits # {}
    BY <1>3, Powers
  <2>2. PICK p \in Fits : \A q \in Fits : p <= q
    <3> HIDE DEF Fits
    <3> QED
      BY <2>1, LeastElement
  <2>4. \E x \in PowersOfTwo : x >= v /\ \A q \in PowersOfTwo : q >= v => x <= q
    BY <2>2
  <2>5. r = CHOOSE x \in PowersOfTwo : x >= v /\ \A q \in PowersOfTwo : q >= v => x <= q
    <3>1. ~(v < 2) /\ ~(v > MaxCapacity)
      BY <1>3, Powers
    <3> QED
      BY <3>1 DEF RoundupPowOfTwo
  <2>6. r \in PowersOfTwo /\ r >= v /\ \A q \in PowersOfTwo : q >= v => r <= q
    BY <2>4, <2>5
  <2> HIDE DEF r
  <2>7. r # 1 /\ r \in Nat
    BY <1>3, <2>6, Powers
  <2>8. PICK h \in PowersOfTwo : r = 2 * h
    BY <2>6, <2>7, Powers
  <2>9. h \in Nat \ {0}
    BY Powers
  <2>10. ~(h >= v)
    BY <2>6, <2>8, <2>9
  <2>11. r < 2 * v
    BY <2>8, <2>9, <2>10
  <2> QED
    BY <2>6, <2>11 DEF r
<1> QED
  BY <1>1, <1>2, <1>3, Powers

----------------------------------------------------------------------------
(* The counters. *)

LEMMA CounterFacts ==
  ASSUME NEW i \in 0..(Modulus - 1), NEW o \in 0..(Modulus - 1)
  PROVE  /\ Sub(i, o) \in 0..(Modulus - 1)
         /\ \A n \in 0..(Modulus - 1) : Add(i, n) \in 0..(Modulus - 1)
         /\ \A n \in Nat : Sub(i, o) + n < Modulus => Sub(Add(i, n), o) = Sub(i, o) + n
         /\ \A n \in Nat : n <= Sub(i, o) => Sub(i, Add(o, n)) = Sub(i, o) - n
<1>1. Modulus \in Nat
  BY Powers
<1> QED
  BY <1>1 DEF Add, Sub

LEMMA RemainingFacts ==
  ASSUME NEW i \in 0..(Modulus - 1), NEW o \in 0..(Modulus - 1),
         NEW cap \in PowersOfTwo, Sub(i, o) <= cap
  PROVE  Add(Sub(cap, i), o) = cap - Sub(i, o)
<1>1. Modulus \in Nat /\ cap \in Nat /\ Modulus >= 2 * cap
  BY Powers
<1> QED
  BY <1>1 DEF Add, Sub

LEMMA ModFacts ==
  ASSUME NEW x \in Nat, NEW cap \in Nat \ {0}
  PROVE  x % cap \in 0..(cap - 1)
OBVIOUS

LEMMA ModUnique ==
  ASSUME NEW x \in Nat, NEW cap \in Nat \ {0}, NEW z \in Int, NEW r \in 0..(cap - 1),
         x = cap * z + r
  PROVE  x % cap = r
<1>1. x % cap \in 0..(cap - 1) /\ x \div cap \in Int /\ x = cap * (x \div cap) + (x % cap)
  OBVIOUS
<1> DEFINE q == x \div cap
           s == x % cap
<1>2. q \in Int /\ s \in 0..(cap - 1) /\ cap * q + s = cap * z + r
  BY <1>1
<1> HIDE DEF q, s
<1>3. ASSUME NEW d \in Nat \ {0} PROVE cap * d >= cap
  OBVIOUS
<1>4. cap * (z - q) = cap * z - cap * q /\ cap * (q - z) = cap * q - cap * z
  BY <1>2
<1>5. ~(z > q)
  BY <1>2, <1>3, <1>4
<1>6. ~(q > z)
  BY <1>2, <1>3, <1>4
<1>7. q = z
  BY <1>2, <1>5, <1>6
<1>8. s = r
  BY <1>2, <1>7
<1> QED
  BY <1>8 DEF s

(* The place x of a ring, x less than twice its capacity. *)
Ring(x, cap) == IF x < cap THEN x ELSE x - cap

(* Masking an advanced counter is advancing in the ring, also when the     *)
(* counter wraps.                                                          *)
LEMMA MaskedAdd ==
  ASSUME NEW cap \in PowersOfTwo, NEW a \in 0..(Modulus - 1), NEW n \in 0..cap
  PROVE  /\ a % cap \in 0..(cap - 1)
         /\ Add(a, n) % cap = Ring((a % cap) + n, cap)
<1>1. cap \in Nat \ {0} /\ Modulus \in Nat /\ a \in Nat /\ n \in Nat
      /\ cap <= Modulus
  BY Powers
<1>2. PICK k \in Nat : Modulus = k * cap
  BY Divides
<1> DEFINE q == a \div cap
           r == a % cap
           y == Ring(r + n, cap)
<1>3. q \in Int /\ r \in 0..(cap - 1) /\ a = cap * q + r
  BY <1>1
<1> HIDE DEF q, r
<1>4. y \in 0..(cap - 1) /\ (r + n = y \/ r + n = y + cap)
  BY <1>1, <1>3 DEF Ring
<1> HIDE DEF y
<1>5. Add(a, n) \in Nat /\ (Add(a, n) = a + n \/ Add(a, n) = (a + n) - Modulus)
  BY <1>1 DEF Add
<1>6. /\ cap * (q + 1) = cap * q + cap /\ cap * (q - k) = cap * q - Modulus
      /\ cap * ((q + 1) - k) = (cap * q + cap) - Modulus
  <2>1. cap * k = Modulus
    BY <1>1, <1>2
  <2>2. /\ cap * (q + 1) = cap * q + cap /\ cap * (q - k) = cap * q - cap * k
        /\ cap * ((q + 1) - k) = (cap * q + cap) - cap * k
    BY <1>1, <1>3
  <2> QED
    BY <2>1, <2>2
<1>7. cap * q \in Int
  BY <1>1, <1>3
<1>8. \E z \in Int : Add(a, n) = cap * z + y
  <2>1. CASE Add(a, n) = a + n /\ r + n = y
    BY <1>1, <1>3, <1>4, <1>7, <2>1
  <2>2. CASE Add(a, n) = a + n /\ r + n = y + cap
    <3>1. Add(a, n) = cap * (q + 1) + y /\ q + 1 \in Int
      BY <1>1, <1>3, <1>4, <1>6, <1>7, <2>2
    <3> QED
      BY <3>1
  <2>3. CASE Add(a, n) = (a + n) - Modulus /\ r + n = y
    <3>1. Add(a, n) = cap * (q - k) + y /\ q - k \in Int
      BY <1>1, <1>3, <1>4, <1>6, <1>7, <2>3
    <3> QED
      BY <3>1
  <2>4. CASE Add(a, n) = (a + n) - Modulus /\ r + n = y + cap
    <3>1. Add(a, n) = cap * ((q + 1) - k) + y /\ (q + 1) - k \in Int
      BY <1>1, <1>3, <1>4, <1>6, <1>7, <2>4
    <3> QED
      BY <3>1
  <2> QED
    BY <1>4, <1>5, <2>1, <2>2, <2>3, <2>4
<1>9. Add(a, n) % cap = y
  <2> DEFINE x == Add(a, n)
  <2>1. PICK z \in Int : x = cap * z + y
    BY <1>8
  <2>2. x \in Nat /\ cap \in Nat \ {0} /\ y \in 0..(cap - 1)
    BY <1>1, <1>4, <1>5
  <2> HIDE DEF x
  <2>3. x % cap = y
    BY ONLY <2>1, <2>2, ModUnique
  <2> QED
    BY <2>3 DEF x
<1> QED
  BY <1>3, <1>9 DEF y, r

----------------------------------------------------------------------------
(* Memory. *)

Cell == Byte \cup {Junk}

LEMMA PayloadFacts ==
  ASSUME TypeOK, NEW length \in Nat
  PROVE  /\ Payload(length) \in Seq(Byte) /\ Payload(length) \in Seq(Cell)
         /\ Len(Payload(length)) = length
<1>1. Period \in Nat \ {0} /\ sent \in Nat
  BY CircularBufferAssumption DEF TypeOK, Byte
<1>2. ASSUME NEW i \in 1..length PROVE (sent + i - 1) % Period \in Byte
  <2>1. sent + i - 1 \in Nat
    BY <1>1
  <2> QED
    BY <1>1, <2>1, ModFacts DEF Byte
<1>3. Payload(length) \in [1..length -> Byte] /\ Payload(length) \in [1..length -> Cell]
  BY <1>2 DEF Payload, Cell
<1> HIDE DEF Payload
<1> QED
  BY <1>3

LEMMA CopiedFacts ==
  ASSUME NEW n \in Nat, NEW d \in [0..n -> Cell], NEW at \in Nat, NEW s \in Seq(Cell)
  PROVE  /\ Copied(d, at, s) \in [0..n -> Cell]
         /\ \A i \in 0..n : Copied(d, at, s)[i] =
              IF at <= i /\ i < at + Len(s) THEN s[(i - at) + 1] ELSE d[i]
<1>1. Len(s) \in Nat /\ \A j \in 1..Len(s) : s[j] \in Cell
  OBVIOUS
<1>2. ASSUME NEW i \in 0..n, at <= i, i < at + Len(s) PROVE (i - at) + 1 \in 1..Len(s)
  BY <1>1, <1>2
<1>3. \A i \in 0..n : i \in at..(at + Len(s) - 1) <=> at <= i /\ i < at + Len(s)
  BY <1>1
<1>4. \A i \in 0..n : i - at + 1 = (i - at) + 1
  OBVIOUS
<1> QED
  BY <1>1, <1>2, <1>3, <1>4 DEF Copied

LEMMA SliceFacts ==
  ASSUME NEW S, NEW s \in Seq(S), NEW m \in Nat, NEW n \in Nat, m <= n, n <= Len(s)
  PROVE  /\ SubSeq(s, m + 1, n) \in Seq(S)
         /\ Len(SubSeq(s, m + 1, n)) = n - m
         /\ \A i \in 1..(n - m) : SubSeq(s, m + 1, n)[i] = s[m + i]
<1>1. Len(s) \in Nat /\ n - m \in Nat
  OBVIOUS
<1>2. SubSeq(s, m + 1, n) = [i \in 1..(n - m) |-> s[m + i]]
  <2>1. SubSeq(s, m + 1, n) = [i \in 1..((1 + n) - (m + 1)) |-> s[(i + (m + 1)) - 1]]
    OBVIOUS
  <2>2. (1 + n) - (m + 1) = n - m /\ \A i \in 1..(n - m) : (i + (m + 1)) - 1 = m + i
    BY <1>1
  <2> QED
    BY <2>1, <2>2
<1>3. \A i \in 1..(n - m) : m + i \in 1..Len(s) /\ s[m + i] \in S
  BY <1>1
<1>4. [i \in 1..(n - m) |-> s[m + i]] \in [1..(n - m) -> S]
  BY <1>3
<1> QED
  BY <1>1, <1>2, <1>4

LEMMA ConcatFacts ==
  ASSUME NEW S, NEW p \in Seq(S), NEW q \in Seq(S)
  PROVE  /\ p \o q \in Seq(S) /\ Len(p \o q) = Len(p) + Len(q)
         /\ \A i \in 1..(Len(p) + Len(q)) :
              (p \o q)[i] = IF i <= Len(p) THEN p[i] ELSE q[i - Len(p)]
OBVIOUS

LEMMA SameSequence ==
  ASSUME NEW S, NEW p \in Seq(S), NEW q \in Seq(S), Len(p) = Len(q),
         \A i \in 1..Len(p) : p[i] = q[i]
  PROVE  p = q
OBVIOUS

(* The content of the ring, byte by byte. *)
FrontIs ==
  \A n \in 0..capacity :
    /\ Front(n) \in Seq(Cell) /\ Len(Front(n)) = n
    /\ \A i \in 1..n : Front(n)[i] = data[Ring(OutIndex + (i - 1), capacity)]

LEMMA BytesFacts ==
  ASSUME TypeOK, NEW at \in Nat, NEW n \in Nat, at + n <= capacity
  PROVE  /\ Bytes(at, n) \in Seq(Cell) /\ Len(Bytes(at, n)) = n
         /\ \A i \in 1..n : Bytes(at, n)[i] = data[at + (i - 1)]
<1>1. capacity \in Nat \ {0} /\ data \in [0..(capacity - 1) -> Cell]
  BY Powers DEF TypeOK, Cell
<1>2. \A i \in 1..n : at + i - 1 = at + (i - 1) /\ at + (i - 1) \in 0..(capacity - 1)
  BY <1>1
<1>3. Bytes(at, n) \in [1..n -> Cell] /\ \A i \in 1..n : Bytes(at, n)[i] = data[at + (i - 1)]
  BY <1>1, <1>2 DEF Bytes
<1> HIDE DEF Bytes
<1> QED
  BY <1>3

LEMMA IndexFacts ==
  ASSUME TypeOK
  PROVE  /\ capacity \in Nat \ {0}
         /\ OutIndex \in 0..(capacity - 1) /\ InIndex \in 0..(capacity - 1)
<1>1. capacity \in Nat \ {0} /\ in \in Nat /\ out \in Nat
  BY Powers DEF TypeOK
<1> QED
  BY <1>1, ModFacts DEF OutIndex, InIndex

LEMMA FrontFacts == TypeOK => FrontIs
<1> SUFFICES ASSUME TypeOK, NEW n \in 0..capacity
             PROVE  /\ Front(n) \in Seq(Cell) /\ Len(Front(n)) = n
                    /\ \A i \in 1..n :
                         Front(n)[i] = data[Ring(OutIndex + (i - 1), capacity)]
  BY DEF FrontIs
<1> DEFINE first == Lesser(n, capacity - OutIndex)
           p == Bytes(OutIndex, first)
           q == Bytes(0, n - first)
<1>1. capacity \in Nat \ {0} /\ OutIndex \in 0..(capacity - 1) /\ n \in Nat
  BY IndexFacts
<1>2. /\ first \in Nat /\ first <= n /\ n - first \in Nat /\ OutIndex + first <= capacity
      /\ 0 + (n - first) <= capacity /\ OutIndex \in Nat
      /\ first = n \/ OutIndex + first = capacity
  BY <1>1 DEF Lesser
<1>3. Front(n) = p \o q
  BY DEF Front
<1> HIDE DEF first
<1>4. /\ p \in Seq(Cell) /\ Len(p) = first
      /\ \A i \in 1..first : p[i] = data[OutIndex + (i - 1)]
  BY <1>2, BytesFacts
<1>5. /\ q \in Seq(Cell) /\ Len(q) = n - first
      /\ \A i \in 1..(n - first) : q[i] = data[0 + (i - 1)]
  BY <1>2, BytesFacts
<1> HIDE DEF p, q
<1>6. Front(n) \in Seq(Cell) /\ Len(Front(n)) = n
  <2>1. p \o q \in Seq(Cell) /\ Len(p \o q) = Len(p) + Len(q)
    BY <1>4, <1>5, ConcatFacts
  <2>2. Len(p) + Len(q) = n
    BY <1>1, <1>2, <1>4, <1>5
  <2> QED
    BY <1>3, <2>1, <2>2
<1>7. ASSUME NEW i \in 1..n
      PROVE  Front(n)[i] = data[Ring(OutIndex + (i - 1), capacity)]
  <2>1. CASE i <= first
    <3>1. (p \o q)[i] = p[i] /\ i \in 1..first
      BY <1>2, <1>4, <1>5, <2>1
    <3>2. Ring(OutIndex + (i - 1), capacity) = OutIndex + (i - 1)
      BY <1>1, <1>2, <2>1 DEF Ring
    <3> QED
      BY <1>3, <1>4, <3>1, <3>2
  <2>2. CASE ~(i <= first)
    <3>0. i - first \in 1..(n - first)
      BY <1>2, <2>2
    <3>1. (p \o q)[i] = q[i - first]
      BY <1>2, <1>4, <1>5, <2>2, <3>0
    <3>2. Ring(OutIndex + (i - 1), capacity) = 0 + ((i - first) - 1)
      BY <1>1, <1>2, <2>2 DEF Ring
    <3> QED
      BY <1>3, <1>5, <3>0, <3>1, <3>2
  <2> QED
    BY <2>1, <2>2
<1> QED
  BY <1>6, <1>7

LEMMA FrontFactsNext == TypeOK' => FrontIs'
BY FrontFacts, PTL

----------------------------------------------------------------------------
(* The invariant: types, and the window between the counters. *)

LEMMA StateFacts ==
  ASSUME TypeOK, Window, ~overrun
  PROVE  /\ capacity \in Nat \ {0} /\ capacity \in PowersOfTwo /\ capacity <= MaxCapacity
         /\ Modulus \in Nat /\ Modulus = 2 * MaxCapacity /\ MaxCapacity \in Nat
         /\ in \in 0..(Modulus - 1) /\ out \in 0..(Modulus - 1)
         /\ BufferLen \in 0..capacity
         /\ BufferRemaining = capacity - BufferLen
         /\ data \in [0..(capacity - 1) -> Cell]
<1>1. BufferLen \in 0..(Modulus - 1)
  BY CounterFacts DEF TypeOK, BufferLen
<1> QED
  BY <1>1, Powers DEF TypeOK, Window, Cell

(* Both parts of Window follow from the first. *)
LEMMA WindowIs ==
  ASSUME TypeOK', Sub(in', out') <= capacity'
  PROVE  Window'
<1>1. Add(Sub(capacity', in'), out') = capacity' - Sub(in', out')
  BY RemainingFacts DEF TypeOK
<1> QED
  BY <1>1 DEF Window, BufferLen, BufferRemaining

(* A step that only reads: get(), write_to_fd(). *)
LEMMA TakeStep ==
  ASSUME TypeOK, Window, ~overrun, NEW n \in Nat, n <= BufferLen,
         out' = Add(out, n), UNCHANGED <<data, capacity, in, overrun, sent>>
  PROVE  /\ TypeOK' /\ Window' /\ BufferLen' = BufferLen - n
<1>0. /\ capacity \in Nat \ {0} /\ capacity <= MaxCapacity /\ MaxCapacity \in Nat
      /\ Modulus \in Nat /\ Modulus = 2 * MaxCapacity
      /\ in \in 0..(Modulus - 1) /\ out \in 0..(Modulus - 1)
      /\ BufferLen \in 0..capacity
  BY StateFacts
<1>1. n \in 0..(Modulus - 1)
  BY <1>0
<1>2. out' \in 0..(Modulus - 1)
  BY <1>0, <1>1, CounterFacts
<1>3. TypeOK'
  BY <1>2 DEF TypeOK
<1>4. Sub(in', out') = BufferLen - n
  BY <1>0, CounterFacts DEF BufferLen
<1>5. Sub(in', out') <= capacity'
  BY <1>0, <1>4
<1> QED
  BY <1>3, <1>4, <1>5, WindowIs DEF BufferLen

LEMMA PutFitsStep ==
  ASSUME TypeOK, Window, NEW length \in 0..MaxLen, PutFits(length)
  PROVE  TypeOK' /\ Window' /\ BufferLen' = BufferLen + length
<1> DEFINE first == Lesser(length, capacity - InIndex)
           s == SubSeq(Payload(length), 1, first)
           r == SubSeq(Payload(length), first + 1, length)
<1>0. /\ ~overrun /\ BufferRemaining >= length /\ in' = Add(in, length)
      /\ data' = Copied(Copied(data, InIndex, s), 0, r)
      /\ sent' = (sent + length) % Period
      /\ UNCHANGED <<capacity, out, overrun>>
  BY DEF PutFits, Appended
<1>1. /\ capacity \in Nat \ {0} /\ capacity <= MaxCapacity /\ MaxCapacity \in Nat
      /\ Modulus \in Nat /\ Modulus = 2 * MaxCapacity
      /\ in \in 0..(Modulus - 1) /\ out \in 0..(Modulus - 1)
      /\ BufferLen \in 0..capacity /\ BufferRemaining = capacity - BufferLen
      /\ data \in [0..(capacity - 1) -> Cell]
  BY <1>0, StateFacts
<1>2. length \in Nat
  BY CircularBufferAssumption, <1>1
<1>3. BufferLen + length <= capacity /\ length \in 0..(Modulus - 1)
  BY <1>0, <1>1, <1>2
<1>4. InIndex \in 0..(capacity - 1)
  BY IndexFacts
<1>5. first \in Nat /\ first <= length
  BY <1>1, <1>2, <1>4 DEF Lesser
<1> HIDE DEF first
<1>6. s \in Seq(Cell) /\ r \in Seq(Cell)
  <2>1. Payload(length) \in Seq(Cell) /\ Len(Payload(length)) = length
    BY <1>2, PayloadFacts
  <2>2. 0 \in Nat /\ 0 <= first /\ length <= length /\ 0 + 1 = 1
    BY <1>2, <1>5
  <2>3. SubSeq(Payload(length), 0 + 1, first) \in Seq(Cell)
    BY <1>2, <1>5, <2>1, <2>2, SliceFacts
  <2>4. r \in Seq(Cell)
    BY <1>2, <1>5, <2>1, <2>2, SliceFacts
  <2> QED
    BY <2>2, <2>3, <2>4
<1> HIDE DEF s, r
<1>7. data' \in [0..(capacity - 1) -> Cell]
  <2>1. capacity - 1 \in Nat /\ InIndex \in Nat
    BY <1>1, <1>4
  <2>2. Copied(data, InIndex, s) \in [0..(capacity - 1) -> Cell]
    BY <1>1, <1>6, <2>1, CopiedFacts
  <2> QED
    BY <1>0, <1>6, <2>1, <2>2, CopiedFacts
<1>8. sent' \in Byte
  <2>1. sent + length \in Nat /\ Period \in Nat \ {0}
    BY <1>2, CircularBufferAssumption DEF TypeOK, Byte
  <2> QED
    BY <1>0, <2>1, ModFacts DEF Byte
<1>9. in' \in 0..(Modulus - 1)
  BY <1>0, <1>1, <1>3, CounterFacts
<1>10. TypeOK'
  BY <1>0, <1>7, <1>8, <1>9 DEF TypeOK, Cell
<1>11. Sub(in', out') = BufferLen + length
  <2>1. Sub(in, out) + length < Modulus
    BY <1>1, <1>2, <1>3 DEF BufferLen
  <2>2. Sub(Add(in, length), out) = Sub(in, out) + length
    BY <1>1, <1>2, <2>1, CounterFacts
  <2> QED
    BY <1>0, <2>2 DEF BufferLen
<1>12. Sub(in', out') <= capacity'
  BY <1>0, <1>3, <1>11
<1> QED
  BY <1>10, <1>11, <1>12, WindowIs DEF BufferLen

LEMMA PutResizesStep ==
  ASSUME TypeOK, Window, NEW length \in 0..MaxLen, PutResizes(length)
  PROVE  /\ TypeOK' /\ Window'
         /\ ~overrun' => BufferLen' = BufferLen + length
         /\ overrun' => length + capacity > MaxCapacity
         /\ ~overrun' => capacity' < 4 * BufferLen'
<1> DEFINE v == Add(length, capacity)
           fresh == [i \in 0..(capacity' - 1) |-> Junk]
<1>0. /\ ~overrun /\ BufferRemaining < length /\ in' = Add(length, BufferLen) /\ out' = 0
      /\ capacity' = RoundupPowOfTwo(v)
      /\ data' = Resized(fresh, length)
      /\ overrun' = (BufferLen + length > capacity')
      /\ sent' = (sent + length) % Period
  BY DEF PutResizes, Appended
<1>1. /\ capacity \in Nat \ {0} /\ capacity <= MaxCapacity /\ MaxCapacity \in Nat
      /\ Modulus \in Nat /\ Modulus = 2 * MaxCapacity
      /\ in \in 0..(Modulus - 1) /\ out \in 0..(Modulus - 1)
      /\ BufferLen \in 0..capacity /\ BufferRemaining = capacity - BufferLen
      /\ data \in [0..(capacity - 1) -> Cell]
  BY <1>0, StateFacts
<1>2. length \in Nat /\ length < Modulus /\ length >= 1
      /\ capacity < Modulus
  BY CircularBufferAssumption, <1>0, <1>1
<1>3. v \in Nat /\ (v = length + capacity \/ v = (length + capacity) - Modulus)
      /\ (length + capacity < Modulus => v = length + capacity)
  BY <1>1, <1>2 DEF Add
<1>4. /\ capacity' \in PowersOfTwo
      /\ v <= MaxCapacity => capacity' >= v
      /\ v >= 2 => capacity' < 2 * v
      /\ v < 2 => capacity' = 2
  BY <1>0, <1>3, RoundupFacts DEF RoundupPowOfTwo
<1> HIDE DEF v, fresh
<1>5. capacity' \in Nat \ {0} /\ capacity' <= MaxCapacity
  BY <1>4, Powers
<1>6. data' \in [0..(capacity' - 1) -> Cell]
  <2>1. capacity' - 1 \in Nat
    <3>1. \A n \in Nat \ {0} : n - 1 \in Nat
      OBVIOUS
    <3> QED
      BY <1>5, <3>1
  <2>2. fresh \in [0..(capacity' - 1) -> Cell]
    BY DEF Cell, fresh
  <2>3. Bytes(0, capacity) \in Seq(Cell)
    <3>1. 0 \in Nat /\ capacity \in Nat /\ 0 + capacity <= capacity
      BY <1>1
    <3> QED
      BY <3>1, BytesFacts
  <2>4. Front(BufferLen) \in Seq(Cell)
    BY <1>1, FrontFacts DEF FrontIs
  <2>5. Payload(length) \in Seq(Cell)
    BY <1>2, PayloadFacts
  <2>6. Copied(fresh, 0, Bytes(0, capacity)) \in [0..(capacity' - 1) -> Cell]
    BY <2>1, <2>2, <2>3, CopiedFacts
  <2>7. Copied(fresh, 0, Front(BufferLen)) \in [0..(capacity' - 1) -> Cell]
    BY <2>1, <2>2, <2>4, CopiedFacts
  <2>8. Copied(Copied(fresh, 0, Front(BufferLen)), BufferLen, Payload(length))
          \in [0..(capacity' - 1) -> Cell]
    <3>1. BufferLen \in Nat
      BY <1>1
    <3> QED
      BY <2>1, <2>5, <2>7, <3>1, CopiedFacts
  <2> QED
    BY <1>0, <2>6, <2>8 DEF Resized
<1>7. sent' \in Byte
  <2>1. sent + length \in Nat /\ Period \in Nat \ {0}
    BY <1>2, CircularBufferAssumption DEF TypeOK, Byte
  <2> QED
    BY <1>0, <2>1, ModFacts DEF Byte
<1>8. in' \in 0..(Modulus - 1) /\ out' \in 0..(Modulus - 1)
  BY <1>0, <1>1, <1>2 DEF Add
<1>9. overrun' \in BOOLEAN /\ (overrun' <=> BufferLen + length > capacity')
  <2>1. overrun' = (BufferLen + length > capacity')
    BY <1>0
  <2>2. (BufferLen + length > capacity') \in BOOLEAN
    BY <1>1, <1>2, <1>5
  <2> QED
    BY <2>1, <2>2, Zenon
<1>10. TypeOK'
  BY <1>4, <1>6, <1>7, <1>8, <1>9 DEF TypeOK, Cell
<1>11. ~overrun' => Sub(in', out') = BufferLen + length /\ BufferLen + length <= capacity'
  <2> SUFFICES ASSUME ~overrun' PROVE Sub(in', out') = BufferLen + length
                                      /\ BufferLen + length <= capacity'
    OBVIOUS
  <2>1. BufferLen + length <= capacity' /\ length + BufferLen < Modulus
    BY <1>1, <1>2, <1>5, <1>9
  <2>2. in' = length + BufferLen
    BY <1>0, <2>1 DEF Add
  <2>3. Sub(in', out') = in'
    BY <1>0, <1>8 DEF Sub
  <2> QED
    BY <1>1, <1>2, <2>1, <2>2, <2>3
<1>12. Window'
  <2>1. CASE overrun'
    BY <2>1 DEF Window
  <2>2. CASE ~overrun'
    <3>1. Sub(in', out') <= capacity'
      BY <1>11, <2>2
    <3> QED
      BY <1>10, <3>1, WindowIs
  <2> QED
    BY <2>1, <2>2
<1>13. overrun' => length + capacity > MaxCapacity
  BY <1>1, <1>2, <1>3, <1>4, <1>5, <1>9
<1>14. ASSUME ~overrun' PROVE capacity' < 4 * (BufferLen + length)
  <2>1. capacity < BufferLen + length /\ length <= BufferLen + length
    BY <1>0, <1>1, <1>2
  <2>2. v < 2 * (BufferLen + length)
    BY <1>1, <1>2, <1>3, <2>1
  <2>3. CASE v >= 2
    BY <1>1, <1>2, <1>3, <1>4, <1>5, <2>2, <2>3
  <2>4. CASE v < 2
    BY <1>1, <1>2, <1>4, <2>4
  <2> QED
    BY <1>3, <2>3, <2>4
<1> QED
  BY <1>10, <1>11, <1>12, <1>13, <1>14 DEF BufferLen

LEMMA ClearStep ==
  ASSUME TypeOK, Window, Clear
  PROVE  TypeOK' /\ Window' /\ BufferLen' = 0
<1>1. capacity \in Nat \ {0} /\ Modulus \in Nat /\ Modulus > 0
  BY StateFacts DEF Clear
<1>2. TypeOK'
  BY <1>1 DEF Clear, TypeOK
<1>3. Sub(in', out') = 0 /\ 0 <= capacity'
  BY <1>1 DEF Clear, Sub
<1> QED
  BY <1>2, <1>3, WindowIs DEF BufferLen

LEMMA GetStep ==
  ASSUME TypeOK, Window, NEW length \in 0..MaxLen, Get(length)
  PROVE  /\ TypeOK' /\ Window'
         /\ \E n \in Nat : /\ n <= BufferLen /\ io' = [op |-> "get", bytes |-> Front(n)]
                          /\ out' = Add(out, n) /\ BufferLen' = BufferLen - n
<1> DEFINE n == Lesser(length, BufferLen)
<1>1. BufferLen \in 0..capacity /\ capacity \in Nat /\ Modulus \in Nat
  BY StateFacts DEF Get
<1>2. length \in Nat
  BY CircularBufferAssumption, <1>1
<1>3. n \in Nat /\ n <= BufferLen
  BY <1>1, <1>2 DEF Lesser
<1>4. /\ out' = Add(out, n) /\ io' = [op |-> "get", bytes |-> Front(n)] /\ ~overrun
      /\ UNCHANGED <<data, capacity, in, overrun, sent>>
  BY DEF Get
<1> HIDE DEF n
<1> QED
  BY <1>3, <1>4, TakeStep

LEMMA InitInvariant == Init => TypeOK /\ Window
<1> SUFFICES ASSUME Init PROVE TypeOK /\ Window
  OBVIOUS
<1>1. PICK asked \in 0..(Modulus - 1) :
         capacity = IF IsPowOfTwo(Lesser(asked, MaxCapacity)) THEN Lesser(asked, MaxCapacity)
                    ELSE RoundupPowOfTwo(Lesser(asked, MaxCapacity))
  BY DEF Init
<1>2. Lesser(asked, MaxCapacity) \in Nat
  BY Powers DEF Lesser
<1>3. capacity \in PowersOfTwo
  BY <1>1, <1>2, RoundupFacts DEF IsPowOfTwo
<1>4. /\ data = [i \in 0..(capacity - 1) |-> Junk] /\ in = 0 /\ out = 0
      /\ overrun = FALSE /\ sent = 0
  BY DEF Init
<1>5. capacity \in Nat \ {0} /\ Modulus \in Nat /\ Modulus > 0 /\ 0 \in 0..(Modulus - 1)
  BY <1>3, Powers
<1>6. 0 \in Byte
  BY CircularBufferAssumption DEF Byte
<1>7. TypeOK
  BY <1>3, <1>4, <1>5, <1>6 DEF TypeOK
<1>8. BufferLen = 0
  BY <1>4, <1>5 DEF BufferLen, Sub
<1>9. BufferRemaining = capacity - BufferLen
  <2>1. Sub(in, out) <= capacity
    BY <1>5, <1>8 DEF BufferLen
  <2> QED
    BY <1>3, <1>4, <1>5, <2>1, RemainingFacts DEF BufferRemaining, BufferLen
<1> QED
  BY <1>5, <1>7, <1>8, <1>9 DEF Window

(* The counters stay within their type and the window within the capacity, *)
(* for every width.                                                        *)
THEOREM CircularBufferInvariant == Spec => [](TypeOK /\ Window)
<1>1. Init => TypeOK /\ Window
  BY InitInvariant
<1>2. TypeOK /\ Window /\ [Next]_vars => TypeOK' /\ Window'
  <2> SUFFICES ASSUME TypeOK, Window, [Next]_vars PROVE TypeOK' /\ Window'
    OBVIOUS
  <2>1. ASSUME NEW n \in 1..(Modulus - 1), WriteToFd(n) PROVE TypeOK' /\ Window'
    <3>1. n \in Nat /\ n <= BufferLen
      BY <2>1, StateFacts DEF WriteToFd
    <3> QED
      BY <2>1, <3>1, TakeStep DEF WriteToFd
  <2>2. CASE UNCHANGED vars
    BY <2>2 DEF vars, TypeOK, Window, BufferLen, BufferRemaining
  <2> QED
    BY <2>1, <2>2, PutFitsStep, PutResizesStep, GetStep, ClearStep DEF Next
<1> QED
  BY <1>1, <1>2, PTL DEF Spec

(* Type correctness: the capacity stays a power of two, the counters stay  *)
(* unsigned integers of their width.                                       *)
THEOREM TypeCorrect == Spec => []TypeOK
BY CircularBufferInvariant, PTL

(* The content fits in the memory wherever the counters have wrapped, and  *)
(* buffer_remaining() is what is left.                                     *)
THEOREM WindowFits == Spec => []Window
BY CircularBufferInvariant, PTL

(* resize() writes beyond its allocation only at the limit of 2^31 bytes. *)
THEOREM OverrunAtLimit == Spec => OverrunOnlyAtLimit
<1>1. TypeOK /\ Window /\ [Next]_vars =>
        [overrun' => Len(io'.bytes) + capacity > MaxCapacity]_vars
  <2> SUFFICES ASSUME TypeOK, Window, Next, overrun'
               PROVE  Len(io'.bytes) + capacity > MaxCapacity
    OBVIOUS
  <2>1. PICK length \in 0..MaxLen : PutResizes(length)
    BY DEF Next, PutFits, Get, WriteToFd, Clear
  <2>2. length \in Nat
    BY CircularBufferAssumption, Powers
  <2>3. io'.bytes = Payload(length)
    BY <2>1 DEF PutResizes, Appended
  <2> QED
    BY <2>1, <2>2, <2>3, PutResizesStep, PayloadFacts
<1> QED
  BY <1>1, CircularBufferInvariant, PTL DEF Spec, OverrunOnlyAtLimit

(* resize() allocates less than four times the content. *)
THEOREM ResizeProportional == Spec => CapacityBounded
<1>1. TypeOK /\ Window /\ [Next]_vars =>
        [capacity' # capacity /\ ~overrun' => capacity' < 4 * BufferLen']_vars
  <2> SUFFICES ASSUME TypeOK, Window, Next, capacity' # capacity, ~overrun'
               PROVE  capacity' < 4 * BufferLen'
    OBVIOUS
  <2>1. PICK length \in 0..MaxLen : PutResizes(length)
    BY DEF Next, PutFits, Get, WriteToFd, Clear
  <2> QED
    BY <2>1, PutResizesStep
<1> QED
  BY <1>1, CircularBufferInvariant, PTL DEF Spec, CapacityBounded

----------------------------------------------------------------------------
(* The ring implements the stream of bytes. *)

ContentIs ==
  /\ Content \in Seq(Cell) /\ Len(Content) = BufferLen
  /\ \A i \in 1..BufferLen : Content[i] = data[Ring(OutIndex + (i - 1), capacity)]

LEMMA ContentFacts == TypeOK /\ Window /\ ~overrun => ContentIs
<1> SUFFICES ASSUME TypeOK, Window, ~overrun PROVE ContentIs
  OBVIOUS
<1>1. BufferLen \in 0..capacity
  BY StateFacts
<1> QED
  BY <1>1, FrontFacts DEF FrontIs, ContentIs, Content

LEMMA ContentFactsNext == TypeOK' /\ Window' /\ ~overrun' => ContentIs'
BY ContentFacts, PTL

LEMMA EmptyContent == TypeOK /\ Window /\ ~overrun /\ BufferLen = 0 => Content = <<>>
<1> SUFFICES ASSUME TypeOK, Window, ~overrun, BufferLen = 0 PROVE Content = <<>>
  OBVIOUS
<1>1. Content \in Seq(Cell) /\ Len(Content) = 0
  BY ContentFacts DEF ContentIs
<1> HIDE DEF Content
<1> QED
  BY <1>1

LEMMA EmptyContentNext ==
  TypeOK' /\ Window' /\ ~overrun' /\ BufferLen' = 0 => Content' = <<>>
<1> SUFFICES ASSUME TypeOK', Window', ~overrun', BufferLen' = 0 PROVE Content' = <<>>
  OBVIOUS
<1>1. Content' \in Seq(Cell) /\ Len(Content') = 0
  BY ContentFactsNext DEF ContentIs
<1> DEFINE c == Content'
<1>2. c \in Seq(Cell) /\ Len(c) = 0
  BY <1>1
<1> HIDE DEF c
<1>3. c = <<>>
  BY <1>2
<1> QED
  BY <1>3 DEF c

(* Places in the ring. *)
LEMMA RingFacts ==
  ASSUME NEW cap \in Nat \ {0}, NEW o \in 0..(cap - 1), NEW n \in 0..cap, NEW j \in Nat,
         n + j < cap
  PROVE  Ring(Ring(o + n, cap) + j, cap) = Ring(o + (n + j), cap)
BY DEF Ring

(* get() and write_to_fd() take the front of the content. *)
LEMMA TakeContent ==
  ASSUME TypeOK, Window, ~overrun, NEW n \in Nat, n <= BufferLen,
         out' = Add(out, n), UNCHANGED <<data, capacity, in, overrun, sent>>
  PROVE  Content = Front(n) \o Content'
<1> DEFINE a == Front(n)
           c == Content
           d == Content'
           b == BufferLen
           o == OutIndex
<1>1. /\ capacity \in Nat \ {0} /\ capacity \in PowersOfTwo /\ b \in 0..capacity
      /\ out \in 0..(Modulus - 1) /\ n \in 0..capacity
  BY StateFacts
<1>2. TypeOK' /\ Window' /\ ~overrun' /\ BufferLen' = b - n
  BY TakeStep
<1>3. o \in 0..(capacity - 1) /\ OutIndex' = Ring(o + n, capacity)
  BY <1>1, MaskedAdd DEF OutIndex
<1>4. /\ c \in Seq(Cell) /\ Len(c) = b
      /\ \A i \in 1..b : c[i] = data[Ring(o + (i - 1), capacity)]
  BY ContentFacts DEF ContentIs
<1>5. /\ d \in Seq(Cell) /\ Len(d) = b - n
      /\ \A i \in 1..(b - n) : d[i] = data[Ring(Ring(o + n, capacity) + (i - 1), capacity)]
  BY <1>2, <1>3, ContentFactsNext DEF ContentIs
<1>6. /\ a \in Seq(Cell) /\ Len(a) = n
      /\ \A i \in 1..n : a[i] = data[Ring(o + (i - 1), capacity)]
  BY <1>1, FrontFacts DEF FrontIs
<1> HIDE DEF a, c, d, o, b
<1>7. /\ a \o d \in Seq(Cell) /\ Len(a \o d) = b
      /\ \A i \in 1..b : (a \o d)[i] = IF i <= n THEN a[i] ELSE d[i - n]
  <2>1. n + (b - n) = b /\ b \in Nat
    BY <1>1
  <2> QED
    BY <1>5, <1>6, <2>1, ConcatFacts
<1>8. ASSUME NEW i \in 1..b PROVE c[i] = (a \o d)[i]
  <2>1. CASE i <= n
    <3>1. i \in 1..n
      BY <2>1
    <3> QED
      BY <1>4, <1>6, <1>7, <2>1, <3>1
  <2>2. CASE ~(i <= n)
    <3>1. /\ i - n \in 1..(b - n) /\ (i - n) - 1 \in Nat /\ n + ((i - n) - 1) = i - 1
          /\ n + ((i - n) - 1) < capacity
      BY <1>1, <2>2
    <3>2. Ring(Ring(o + n, capacity) + ((i - n) - 1), capacity)
            = Ring(o + (n + ((i - n) - 1)), capacity)
      <4> DEFINE k == (i - n) - 1
      <4>1. k \in Nat /\ n + k < capacity
        BY <3>1
      <4> HIDE DEF k
      <4>2. Ring(Ring(o + n, capacity) + k, capacity) = Ring(o + (n + k), capacity)
        BY <1>1, <1>3, <4>1, RingFacts
      <4> QED
        BY <4>2 DEF k
    <3>3. (a \o d)[i] = d[i - n]
      BY <1>7, <2>2
    <3>4. d[i - n] = data[Ring(Ring(o + n, capacity) + ((i - n) - 1), capacity)]
      BY <1>5, <3>1
    <3>5. c[i] = data[Ring(o + (i - 1), capacity)]
      BY <1>4
    <3> QED
      BY ONLY <3>1, <3>2, <3>3, <3>4, <3>5
  <2> QED
    BY <2>1, <2>2
<1>9. c = a \o d
  BY <1>1, <1>4, <1>7, <1>8, SameSequence
<1> QED
  BY <1>9 DEF a, c, d

(* put() without resize() appends to the content: the bytes go to the      *)
(* places behind it, and none of its own is overwritten.                   *)
LEMMA PutContent ==
  ASSUME TypeOK, Window, NEW length \in 0..MaxLen, PutFits(length)
  PROVE  Content' = Content \o Payload(length)
<1> DEFINE p == Payload(length)
           c == Content
           d == Content'
           b == BufferLen
           o == OutIndex
           x == InIndex
           first == Lesser(length, capacity - x)
           s == SubSeq(p, 1, first)
           r == SubSeq(p, first + 1, length)
           e == Copied(data, x, s)
<1>0. /\ ~overrun /\ BufferRemaining >= length
      /\ data' = Copied(e, 0, r)
      /\ UNCHANGED <<capacity, out, overrun>>
  BY DEF PutFits
<1>1. /\ capacity \in Nat \ {0} /\ capacity \in PowersOfTwo /\ b \in 0..capacity
      /\ BufferRemaining = capacity - b /\ data \in [0..(capacity - 1) -> Cell]
      /\ in \in 0..(Modulus - 1) /\ out \in 0..(Modulus - 1) /\ Modulus \in Nat
  BY <1>0, StateFacts
<1>2. length \in Nat /\ b + length <= capacity
  BY <1>0, <1>1, CircularBufferAssumption
<1>3. TypeOK' /\ Window' /\ ~overrun' /\ BufferLen' = b + length
  BY <1>0, PutFitsStep
<1>4. o \in 0..(capacity - 1) /\ x = Ring(o + b, capacity) /\ x \in 0..(capacity - 1)
  <2>1. Add(out, b) = in
    BY <1>1 DEF Add, Sub, BufferLen
  <2>2. o \in 0..(capacity - 1) /\ Add(out, b) % capacity = Ring(o + b, capacity)
    BY <1>1, MaskedAdd DEF OutIndex
  <2> QED
    BY <2>1, <2>2, IndexFacts DEF InIndex
<1>5. OutIndex' = o
  BY <1>0 DEF OutIndex
<1>6. /\ c \in Seq(Cell) /\ Len(c) = b
      /\ \A i \in 1..b : c[i] = data[Ring(o + (i - 1), capacity)]
  BY <1>0, ContentFacts DEF ContentIs
<1>7. /\ d \in Seq(Cell) /\ Len(d) = b + length
      /\ \A i \in 1..(b + length) : d[i] = data'[Ring(o + (i - 1), capacity)]
  BY <1>0, <1>3, <1>5, ContentFactsNext DEF ContentIs
<1>8. p \in Seq(Cell) /\ Len(p) = length
  BY <1>2, PayloadFacts
<1>9. /\ first \in Nat /\ first <= length /\ x + first <= capacity
      /\ first = length \/ x + first = capacity
  BY <1>1, <1>2, <1>4 DEF Lesser
<1> HIDE DEF first, p, c, d, b, o, x
<1>10. /\ s \in Seq(Cell) /\ Len(s) = first
       /\ \A i \in 1..first : s[i] = p[i]
  <2>1. 0 \in Nat /\ 0 <= first /\ 0 + 1 = 1 /\ first - 0 = first
        /\ \A i \in 1..first : 0 + i = i
    BY <1>9
  <2>2. /\ SubSeq(p, 0 + 1, first) \in Seq(Cell) /\ Len(SubSeq(p, 0 + 1, first)) = first - 0
        /\ \A i \in 1..(first - 0) : SubSeq(p, 0 + 1, first)[i] = p[0 + i]
    BY <1>8, <1>9, <2>1, SliceFacts
  <2> QED
    BY <2>1, <2>2
<1>11. /\ r \in Seq(Cell) /\ Len(r) = length - first
       /\ \A i \in 1..(length - first) : r[i] = p[first + i]
  BY <1>2, <1>8, <1>9, SliceFacts
<1> HIDE DEF s, r
<1>12. capacity - 1 \in Nat /\ x \in Nat
  BY <1>1, <1>4
<1>13. /\ e \in [0..(capacity - 1) -> Cell]
       /\ \A j \in 0..(capacity - 1) :
            e[j] = IF x <= j /\ j < x + first THEN s[(j - x) + 1] ELSE data[j]
  <2> DEFINE k == capacity - 1
  <2>1. k \in Nat /\ x \in Nat /\ data \in [0..k -> Cell] /\ s \in Seq(Cell)
    BY <1>1, <1>10, <1>12
  <2> HIDE DEF k
  <2>2. /\ Copied(data, x, s) \in [0..k -> Cell]
        /\ \A j \in 0..k : Copied(data, x, s)[j] =
             IF x <= j /\ j < x + Len(s) THEN s[(j - x) + 1] ELSE data[j]
    BY ONLY <2>1, CopiedFacts
  <2> QED
    BY <1>10, <2>2 DEF k
<1> HIDE DEF e
<1>14. \A j \in 0..(capacity - 1) :
         data'[j] = IF 0 <= j /\ j < 0 + (length - first) THEN r[(j - 0) + 1] ELSE e[j]
  <2> DEFINE start == 0
             k == capacity - 1
  <2>1. start = 0 /\ start \in Nat /\ k = capacity - 1 /\ k \in Nat
    BY <1>12
  <2>2. e \in [0..k -> Cell] /\ r \in Seq(Cell)
    BY <1>11, <1>13
  <2> HIDE DEF start, k
  <2>3. \A j \in 0..k : Copied(e, start, r)[j] =
          IF start <= j /\ j < start + Len(r) THEN r[(j - start) + 1] ELSE e[j]
    BY <2>1, <2>2, CopiedFacts
  <2> QED
    BY <1>0, <1>11, <2>1, <2>3
<1>15. /\ c \o p \in Seq(Cell) /\ Len(c \o p) = b + length
       /\ \A i \in 1..(b + length) : (c \o p)[i] = IF i <= b THEN c[i] ELSE p[i - b]
  BY <1>6, <1>8, ConcatFacts
<1>16. ASSUME NEW i \in 1..(b + length) PROVE d[i] = (c \o p)[i]
  <2> DEFINE j == Ring(o + (i - 1), capacity)
  <2>1. j \in 0..(capacity - 1) /\ (j = o + (i - 1) \/ j = (o + (i - 1)) - capacity)
    BY <1>1, <1>2, <1>4 DEF Ring
  <2>2. d[i] = data'[j]
    BY <1>7
  <2>3. CASE i <= b
    <3>1. ~(j < length - first) /\ ~(x <= j /\ j < x + first)
      BY <1>1, <1>2, <1>4, <1>9, <2>3 DEF Ring
    <3>2. data'[j] = data[j]
      <4> HIDE DEF j
      <4> QED
        BY <1>2, <1>9, <1>13, <1>14, <2>1, <3>1
    <3> QED
      BY <1>1, <1>6, <1>15, <2>2, <2>3, <3>2
  <2>4. CASE ~(i <= b) /\ i - b <= first
    <3>1. x <= j /\ j < x + first /\ ~(j < length - first) /\ (j - x) + 1 = i - b
          /\ i - b \in 1..first
      BY <1>1, <1>2, <1>4, <1>9, <2>4 DEF Ring
    <3>2. data'[j] = s[i - b]
      <4> HIDE DEF j
      <4> QED
        BY <1>2, <1>9, <1>13, <1>14, <2>1, <3>1
    <3> QED
      BY <1>10, <1>15, <2>2, <2>4, <3>1, <3>2
  <2>5. CASE ~(i <= b) /\ ~(i - b <= first)
    <3>1. /\ j < 0 + (length - first) /\ (j - 0) + 1 = (i - b) - first
          /\ (i - b) - first \in 1..(length - first) /\ first + ((i - b) - first) = i - b
      BY <1>1, <1>2, <1>4, <1>9, <2>5 DEF Ring
    <3>2. data'[j] = r[(i - b) - first]
      <4> HIDE DEF j
      <4> QED
        BY <1>14, <2>1, <3>1
    <3> QED
      BY <1>11, <1>15, <2>2, <2>5, <3>1, <3>2
  <2> QED
    BY <2>3, <2>4, <2>5
<1>17. d = c \o p
  BY <1>7, <1>15, <1>16, SameSequence
<1> QED
  BY <1>17 DEF d, c, p

(* resize() moves the content to the beginning of the new memory, with the *)
(* new bytes behind it.                                                    *)
LEMMA ResizeContent ==
  ASSUME TypeOK, Window, NEW length \in 0..MaxLen, PutResizes(length),
         ~FullAtBegin, ~(length + capacity > MaxCapacity)
  PROVE  Content' = Content \o Payload(length)
<1> DEFINE p == Payload(length)
           c == Content
           d == Content'
           b == BufferLen
           fresh == [i \in 0..(capacity' - 1) |-> Junk]
           e == Copied(fresh, 0, c)
<1>0. /\ ~overrun /\ out' = 0 /\ data' = Copied(e, b, p)
  BY DEF PutResizes, Resized, Content
<1>1. /\ capacity \in Nat \ {0} /\ b \in 0..capacity /\ MaxCapacity \in Nat /\ Modulus \in Nat
  BY <1>0, StateFacts
<1>2. length \in Nat
  BY <1>1, CircularBufferAssumption
<1>3. /\ TypeOK' /\ Window' /\ ~overrun' /\ BufferLen' = b + length
  BY <1>1, <1>2, PutResizesStep
<1>4. /\ capacity' \in Nat \ {0} /\ b + length <= capacity' /\ capacity' - 1 \in Nat
  <2>1. capacity' \in Nat \ {0}
    BY <1>3, Powers DEF TypeOK
  <2>2. BufferLen' <= capacity'
    BY <1>3 DEF Window
  <2>3. \A n \in Nat \ {0} : n - 1 \in Nat
    OBVIOUS
  <2> QED
    BY <1>3, <2>1, <2>2, <2>3
<1>5. OutIndex' = 0
  <2>1. \A n \in Nat \ {0} : 0 % n = 0
    <3> TAKE n \in Nat \ {0}
    <3>1. 0 = n * 0 + 0 /\ 0 \in 0..(n - 1) /\ 0 \in Int /\ 0 \in Nat
      OBVIOUS
    <3> QED
      BY <3>1, ModUnique
  <2> QED
    BY <1>0, <1>4, <2>1 DEF OutIndex
<1>6. /\ c \in Seq(Cell) /\ Len(c) = b
  BY <1>0, ContentFacts DEF ContentIs
<1>7. /\ d \in Seq(Cell) /\ Len(d) = b + length
      /\ \A i \in 1..(b + length) : d[i] = data'[Ring(0 + (i - 1), capacity')]
  BY <1>3, <1>5, ContentFactsNext DEF ContentIs
<1>8. p \in Seq(Cell) /\ Len(p) = length
  BY <1>2, PayloadFacts
<1>9. fresh \in [0..(capacity' - 1) -> Cell]
  BY DEF Cell
<1> HIDE DEF p, c, d, b, fresh
<1>10. /\ e \in [0..(capacity' - 1) -> Cell]
       /\ \A j \in 0..(capacity' - 1) :
            e[j] = IF 0 <= j /\ j < 0 + b THEN c[(j - 0) + 1] ELSE fresh[j]
  BY <1>4, <1>6, <1>9, CopiedFacts
<1> HIDE DEF e
<1>11. \A j \in 0..(capacity' - 1) :
         data'[j] = IF b <= j /\ j < b + length THEN p[(j - b) + 1] ELSE e[j]
  <2>1. b \in Nat
    BY <1>1
  <2> QED
    BY <1>0, <1>4, <1>8, <1>10, <2>1, CopiedFacts
<1>12. /\ c \o p \in Seq(Cell) /\ Len(c \o p) = b + length
       /\ \A i \in 1..(b + length) : (c \o p)[i] = IF i <= b THEN c[i] ELSE p[i - b]
  BY <1>6, <1>8, ConcatFacts
<1>13. ASSUME NEW i \in 1..(b + length) PROVE d[i] = (c \o p)[i]
  <2>1. i \in Nat /\ i - 1 \in 0..(capacity' - 1) /\ Ring(0 + (i - 1), capacity') = i - 1
        /\ ((i - 1) - 0) + 1 = i /\ ((i - 1) - b) + 1 = i - b /\ 0 <= i - 1 /\ i - 1 < b + length
        /\ (i <= b <=> i - 1 < 0 + b) /\ (i <= b <=> ~(b <= i - 1))
    <3> DEFINE k == capacity'
    <3>1. k \in Nat \ {0} /\ b + length <= k /\ b \in Nat
      BY <1>1, <1>4
    <3> HIDE DEF k
    <3>2. i \in Nat /\ i - 1 \in 0..(k - 1) /\ Ring(0 + (i - 1), k) = i - 1
          /\ ((i - 1) - 0) + 1 = i /\ ((i - 1) - b) + 1 = i - b /\ 0 <= i - 1 /\ i - 1 < b + length
          /\ (i <= b <=> i - 1 < 0 + b) /\ (i <= b <=> ~(b <= i - 1))
      BY <1>2, <3>1 DEF Ring
    <3> QED
      BY <3>2 DEF k
  <2>2. d[i] = data'[i - 1]
    BY <1>7, <2>1
  <2>3. CASE i <= b
    BY <1>10, <1>11, <1>12, <2>1, <2>2, <2>3
  <2>4. CASE ~(i <= b)
    BY <1>11, <1>12, <2>1, <2>2, <2>4
  <2> QED
    BY <2>3, <2>4
<1>14. d = c \o p
  BY <1>7, <1>12, <1>13, SameSequence
<1> QED
  BY <1>14 DEF d, c, p

(* What write_to_fd() hands to the socket is the front of the content. *)
LEMMA WriteToFdContent ==
  ASSUME TypeOK, Window, NEW n \in 1..(Modulus - 1), WriteToFd(n)
  PROVE  io'.op = "write" /\ Content = io'.bytes \o Content'
<1> DEFINE b == BufferLen
           o == OutIndex
           iov == IF FullAtBegin THEN Bytes(0, capacity) ELSE Front(b)
<1>0. /\ ~overrun /\ n \in 1..b /\ out' = Add(out, n)
      /\ io' = [op |-> "write", bytes |-> SubSeq(iov, 1, n)]
      /\ UNCHANGED <<data, capacity, in, overrun, sent>>
  BY DEF WriteToFd
<1>1. /\ capacity \in Nat \ {0} /\ capacity \in PowersOfTwo /\ b \in 0..capacity
      /\ in \in 0..(Modulus - 1) /\ out \in 0..(Modulus - 1) /\ Modulus \in Nat
  BY <1>0, StateFacts
<1>2. n \in Nat /\ n <= b /\ n \in 0..capacity /\ b \in Nat
  BY <1>0, <1>1
<1>3. o \in 0..(capacity - 1) /\ InIndex = Ring(o + b, capacity)
  <2>1. Add(out, b) = in
    BY <1>1 DEF Add, Sub, BufferLen
  <2>2. o \in 0..(capacity - 1) /\ Add(out, b) % capacity = Ring(o + b, capacity)
    BY <1>1, MaskedAdd DEF OutIndex
  <2> QED
    BY <2>1, <2>2 DEF InIndex
<1>4. /\ iov \in Seq(Cell) /\ Len(iov) = b
      /\ \A i \in 1..b : iov[i] = data[Ring(o + (i - 1), capacity)]
  <2>1. CASE FullAtBegin
    <3>1. b = capacity /\ o = 0
      BY <1>1, <1>3, <2>1 DEF FullAtBegin, Full, Ring
    <3>2. /\ Bytes(0, capacity) \in Seq(Cell) /\ Len(Bytes(0, capacity)) = capacity
          /\ \A i \in 1..capacity : Bytes(0, capacity)[i] = data[0 + (i - 1)]
      <4>1. 0 \in Nat /\ capacity \in Nat /\ 0 + capacity <= capacity
        BY <1>1
      <4> QED
        BY <4>1, BytesFacts
    <3>3. \A i \in 1..b : Ring(o + (i - 1), capacity) = 0 + (i - 1)
      BY <1>1, <3>1 DEF Ring
    <3> HIDE DEF o, b
    <3> QED
      BY <2>1, <3>1, <3>2, <3>3
  <2>2. CASE ~FullAtBegin
    <3>1. iov = Front(b)
      BY <2>2
    <3> QED
      BY <1>1, <3>1, FrontFacts DEF FrontIs
  <2> QED
    BY <2>1, <2>2
<1> HIDE DEF iov, b
<1>5. /\ SubSeq(iov, 1, n) \in Seq(Cell) /\ Len(SubSeq(iov, 1, n)) = n
      /\ \A i \in 1..n : SubSeq(iov, 1, n)[i] = iov[i]
  <2>1. 0 \in Nat /\ 0 <= n /\ 0 + 1 = 1 /\ n - 0 = n /\ \A i \in 1..n : 0 + i = i
    BY <1>2
  <2>2. /\ SubSeq(iov, 0 + 1, n) \in Seq(Cell) /\ Len(SubSeq(iov, 0 + 1, n)) = n - 0
        /\ \A i \in 1..(n - 0) : SubSeq(iov, 0 + 1, n)[i] = iov[0 + i]
    BY <1>2, <1>4, <2>1, SliceFacts
  <2> QED
    BY <2>1, <2>2
<1>6. /\ Front(n) \in Seq(Cell) /\ Len(Front(n)) = n
      /\ \A i \in 1..n : Front(n)[i] = data[Ring(o + (i - 1), capacity)]
  BY <1>2, FrontFacts DEF FrontIs
<1>7. \A i \in 1..n : i \in 1..b
  BY <1>2
<1> HIDE DEF o
<1>8. SubSeq(iov, 1, n) = Front(n)
  BY <1>4, <1>5, <1>6, <1>7, SameSequence
<1>9. Content = Front(n) \o Content'
  BY <1>0, <1>2, TakeContent DEF b
<1> QED
  BY <1>0, <1>8, <1>9

(* The ring implements ByteStream for every capacity, width and sequence   *)
(* of calls: the bytes come out once and in order, except after the two    *)
(* failures of resize().                                                   *)
THEOREM BytesInOrder == Spec => ImplementsStream
<1>1. Init => Stream!Init
  <2> SUFFICES ASSUME Init PROVE Stream!Init
    OBVIOUS
  <2>1. TypeOK /\ Window
    BY InitInvariant
  <2>2. ~overrun /\ in = 0 /\ out = 0 /\ io = [op |-> "new", bytes |-> <<>>]
    BY DEF Init
  <2>3. BufferLen = 0
    BY <2>2, Powers DEF BufferLen, Sub
  <2>4. Content = <<>>
    BY <2>1, <2>2, <2>3, EmptyContent
  <2> QED
    BY <2>2, <2>4 DEF Stream!Init
<1>2. TypeOK /\ Window /\ [Next]_vars =>
        [(\E length \in 0..MaxLen : ResizeFails(length)) \/ Stream!Next]_vars
  <2> SUFFICES ASSUME TypeOK, Window, Next
               PROVE  (\E length \in 0..MaxLen : ResizeFails(length)) \/ Stream!Next
    OBVIOUS
  <2>1. ASSUME NEW length \in 0..MaxLen, Content' = Content \o Payload(length),
               io' = [op |-> "put", bytes |-> Payload(length)]
        PROVE  Stream!Next
    <3>1. length \in Nat
      BY CircularBufferAssumption, Powers
    <3>2. Payload(length) \in Seq(Byte)
      BY <3>1, PayloadFacts
    <3> HIDE DEF Content, Payload
    <3> QED
      BY <2>1, <3>2 DEF Stream!Next, Stream!Put
  <2>2. ASSUME NEW length \in 0..MaxLen, PutFits(length) PROVE Stream!Next
    BY <2>1, <2>2, PutContent DEF PutFits, Appended
  <2>3. ASSUME NEW length \in 0..MaxLen, PutResizes(length)
        PROVE  ResizeFails(length) \/ Stream!Next
    <3>1. CASE FullAtBegin \/ length + capacity > MaxCapacity
      BY <2>3, <3>1 DEF ResizeFails
    <3>2. CASE ~(FullAtBegin \/ length + capacity > MaxCapacity)
      BY <2>1, <2>3, <3>2, ResizeContent DEF PutResizes, Appended
    <3> QED
      BY <3>1, <3>2
  <2>4. ASSUME NEW length \in 0..MaxLen, Get(length) PROVE Stream!Next
    <3>1. PICK n \in Nat : /\ n <= BufferLen /\ io' = [op |-> "get", bytes |-> Front(n)]
                          /\ out' = Add(out, n)
      BY <2>4, GetStep
    <3>2. ~overrun /\ UNCHANGED <<data, capacity, in, overrun, sent>>
      BY <2>4 DEF Get
    <3>3. Content = Front(n) \o Content'
      BY <3>1, <3>2, TakeContent
    <3> QED
      BY <3>1, <3>3 DEF Stream!Next, Stream!Take
  <2>5. ASSUME NEW n \in 1..(Modulus - 1), WriteToFd(n) PROVE Stream!Next
    BY <2>5, WriteToFdContent DEF Stream!Next, Stream!Take
  <2>6. CASE Clear
    <3>1. Content' = <<>> /\ io' = [op |-> "clear", bytes |-> <<>>]
      BY <2>6, ClearStep, EmptyContentNext DEF Clear
    <3> QED
      BY <3>1 DEF Stream!Next, Stream!Clear
  <2> QED
    BY <2>2, <2>3, <2>4, <2>5, <2>6 DEF Next
<1> QED
  BY <1>1, <1>2, CircularBufferInvariant, PTL DEF Spec, ImplementsStream
==============================================================================
