----------------------------- MODULE ValueProofs -----------------------------
(* Theorems about the values of the library: Slice and InetAddress. *)
EXTENDS Slice, InetAddress, WellFoundedInduction, TLAPS

(* A set of naturals that is not empty has its Min, below all the others. *)
LEMMA MinIsLeast ==
  ASSUME NEW T, T \subseteq Nat, T # {}
  PROVE  Min(T) \in T /\ \A j \in T : Min(T) <= j
<1> DEFINE less == OpToRel(<, Nat)
<1>1. \A x, y \in Nat : x < y => <<x, y>> \in less
  BY DEF OpToRel
<1>2. PICK x \in T : \A y \in T : ~(<<y, x>> \in less)
  BY NatLessThanWellFounded, WFMin
<1>3. \A y \in T : x <= y
  <2>1. TAKE y \in T
  <2>2. ~(<<y, x>> \in less)
    BY <1>2
  <2>3. x \in Nat /\ y \in Nat /\ ~(y < x)
    BY <1>1, <2>2
  <2>4. QED
    BY <2>3
<1>4. QED
  BY <1>3 DEF Min

(* memcmp() is an integer, zero exactly when the bytes agree. *)
LEMMA MemcmpAgrees ==
  ASSUME NEW a \in Nat, NEW b \in Nat, NEW n \in Nat, Mem \in [Nat -> Bytes]
  PROVE  /\ Memcmp(a, b, n) \in Int
         /\ Memcmp(a, b, n) = 0 <=> \A i \in 0..(n - 1) : Mem[a + i] = Mem[b + i]
<1> DEFINE d == Differing(a, b, n)
<1>1. d \subseteq Nat
  BY DEF Differing
<1>2. CASE d = {}
  <2>1. \A i \in 0..(n - 1) : Mem[a + i] = Mem[b + i]
    BY <1>2 DEF Differing
  <2>2. QED
    BY <1>2, <2>1 DEF Memcmp
<1>3. CASE d # {}
  <2>1. Min(d) \in d
    BY <1>1, <1>3, MinIsLeast
  <2>2. /\ Min(d) \in 0..(n - 1)
        /\ Mem[a + Min(d)] # Mem[b + Min(d)]
    BY <2>1 DEF Differing
  <2>3. Mem[a + Min(d)] \in Int /\ Mem[b + Min(d)] \in Int
    BY <2>2 DEF Bytes
  <2>4. Memcmp(a, b, n) = Mem[a + Min(d)] - Mem[b + Min(d)]
    BY <1>3 DEF Memcmp
  <2>5. QED
    BY <2>2, <2>3, <2>4
<1>4. QED
  BY <1>2, <1>3

----------------------------------------------------------------------------
(* Slice. *)

(* The bytes of two slices agree below n. *)
Agree(x, y, n) == \A i \in 0..(n - 1) : At(x, i) = At(y, i)

(* The lexicographic order of byte strings: a proper prefix, or a smaller  *)
(* byte at the first place where they differ.                              *)
Precedes(x, y) ==
  \/ x.size < y.size /\ Agree(x, y, x.size)
  \/ \E k \in Nat : /\ k < x.size /\ k < y.size
                    /\ Agree(x, y, k)
                    /\ At(x, k) < At(y, k)

(* What a slice views are bytes, hence numbers. *)
LEMMA ByteIsInt ==
  ASSUME NEW x \in Slices, NEW k \in Nat, Mem \in [Nat -> Bytes]
  PROVE  At(x, k) \in Int
<1>1. x.data \in Nat
  BY DEF Slices
<1>2. x.data + k \in Nat
  BY <1>1
<1>3. Mem[x.data + k] \in Bytes
  BY <1>2
<1>4. QED
  BY <1>3 DEF At, Bytes

(* The sign of memcmp() is the order of the first two bytes that differ. *)
LEMMA MemcmpSign ==
  ASSUME NEW x \in Slices, NEW y \in Slices, NEW n \in Nat, Mem \in [Nat -> Bytes]
  PROVE  /\ Memcmp(x.data, y.data, n) \in Int
         /\ Memcmp(x.data, y.data, n) = 0 <=> Agree(x, y, n)
         /\ Memcmp(x.data, y.data, n) < 0 <=>
              \E k \in 0..(n - 1) : Agree(x, y, k) /\ At(x, k) < At(y, k)
<1> DEFINE a == x.data
           b == y.data
           d == Differing(a, b, n)
<1>0. a \in Nat /\ b \in Nat
  BY DEF Slices
<1>1. Memcmp(a, b, n) \in Int /\ (Memcmp(a, b, n) = 0 <=> Agree(x, y, n))
  BY <1>0, MemcmpAgrees DEF Agree, At
<1>2. CASE d = {}
  <2>1. Memcmp(a, b, n) = 0
    BY <1>2 DEF Memcmp
  <2>2. \A k \in 0..(n - 1) : At(x, k) = At(y, k)
    BY <1>1, <2>1 DEF Agree
  <2>3. \A k \in 0..(n - 1) : At(x, k) \in Int
    BY ByteIsInt
  <2>4. QED
    BY <1>1, <2>1, <2>2, <2>3
<1>3. CASE d # {}
  <2>1. Min(d) \in d /\ \A j \in d : Min(d) <= j
    <3>1. d \subseteq Nat
      BY DEF Differing
    <3>2. QED
      BY <1>3, <3>1, MinIsLeast
  <2>2. PICK m \in 0..(n - 1) : m = Min(d) /\ At(x, m) # At(y, m)
    BY <2>1 DEF Differing, At
  <2>3. Memcmp(a, b, n) = At(x, m) - At(y, m)
    BY <1>3, <2>2 DEF Memcmp, At
  <2>4. \A i \in 0..(n - 1) : At(x, i) \in Int /\ At(y, i) \in Int
    BY ByteIsInt
  <2>5. \A i \in 0..(n - 1) : i < m => At(x, i) = At(y, i)
    BY <2>1, <2>2 DEF Differing, At
  <2>6. Agree(x, y, m)
    BY <2>5 DEF Agree
  <2>7. ASSUME NEW k \in 0..(n - 1), Agree(x, y, k), At(x, k) < At(y, k)
        PROVE  k = m
    <3>1. ~(m < k)
      BY <2>2, <2>7 DEF Agree
    <3>2. ~(k < m)
      BY <2>4, <2>5, <2>7
    <3>3. QED
      BY <3>1, <3>2
  <2>8. QED
    BY <1>1, <2>2, <2>3, <2>4, <2>6, <2>7
<1>4. QED
  BY <1>2, <1>3

(* compare() returns a negative number iff this slice precedes the other   *)
(* one, as the comment of its declaration says (Slice.h:79-82).            *)
THEOREM CompareIsOrder ==
  ASSUME NEW x \in Slices, NEW y \in Slices, Mem \in [Nat -> Bytes]
  PROVE  /\ Compare(x, y) \in Int
         /\ Compare(x, y) < 0 <=> Precedes(x, y)
<1> DEFINE n == MinLen(x, y)
           r == Memcmp(x.data, y.data, n)
<1>0. x.size \in Nat /\ y.size \in Nat
  BY DEF Slices
<1>1. n \in Nat /\ n <= x.size /\ n <= y.size /\ (n = x.size \/ n = y.size)
  BY <1>0 DEF MinLen
<1>2. /\ r \in Int
      /\ r = 0 <=> Agree(x, y, n)
      /\ r < 0 <=> \E k \in 0..(n - 1) : Agree(x, y, k) /\ At(x, k) < At(y, k)
  BY <1>1, MemcmpSign
<1>3. \A k \in Nat : k \in 0..(n - 1) <=> k < x.size /\ k < y.size
  BY <1>0, <1>1
<1>4. \A i \in 0..(n - 1) : At(x, i) \in Int /\ At(y, i) \in Int
  BY <1>1, ByteIsInt
<1>5. CASE r = 0
  <2>1. Agree(x, y, n)
    BY <1>2, <1>5
  <2>2. ~ \E k \in Nat : k < x.size /\ k < y.size /\ Agree(x, y, k) /\ At(x, k) < At(y, k)
    BY <1>2, <1>3, <1>5
  <2>3. Precedes(x, y) <=> x.size < y.size
    BY <1>0, <2>1, <2>2 DEF Precedes, MinLen
  <2>4. Compare(x, y) = IF x.size < y.size THEN -1 ELSE IF x.size > y.size THEN 1 ELSE 0
    BY <1>0, <1>5 DEF Compare
  <2>5. QED
    BY <1>0, <2>3, <2>4
<1>6. CASE r # 0
  <2>1. Compare(x, y) = r
    BY <1>6 DEF Compare
  <2>2. ~(x.size < y.size /\ Agree(x, y, x.size))
    BY <1>0, <1>2, <1>6 DEF MinLen
  <2>3. Precedes(x, y) <=> \E k \in 0..(n - 1) : Agree(x, y, k) /\ At(x, k) < At(y, k)
    BY <1>3, <2>2 DEF Precedes
  <2>4. QED
    BY <1>2, <2>1, <2>3
<1>7. QED
  BY <1>5, <1>6

(* compare() is zero iff operator== holds, which it does iff the slices    *)
(* have the same size and the same bytes, wherever they are.               *)
THEOREM CompareZeroIsEqual ==
  ASSUME NEW x \in Slices, NEW y \in Slices, Mem \in [Nat -> Bytes]
  PROVE  /\ Equal(x, y) <=> x.size = y.size /\ Agree(x, y, x.size)
         /\ Compare(x, y) = 0 <=> Equal(x, y)
<1>0. x.size \in Nat /\ y.size \in Nat
  BY DEF Slices
<1>1. Equal(x, y) <=> x.size = y.size /\ Agree(x, y, x.size)
  BY <1>0, MemcmpSign DEF Equal
<1> DEFINE r == Memcmp(x.data, y.data, MinLen(x, y))
<1>2. r \in Int
  BY <1>0, MemcmpSign DEF MinLen
<1>3. Compare(x, y) = 0 <=> r = 0 /\ x.size = y.size
  BY <1>0, <1>2 DEF Compare
<1>4. x.size = y.size => MinLen(x, y) = x.size
  BY <1>0 DEF MinLen
<1>5. QED
  BY <1>1, <1>3, <1>4 DEF Equal

(* The two directions of compare() agree: it is negative one way iff it is *)
(* positive the other way, so a sort by it cannot see x < y and y <= x.    *)
THEOREM CompareAntisymmetric ==
  ASSUME NEW x \in Slices, NEW y \in Slices, Mem \in [Nat -> Bytes]
  PROVE  Compare(x, y) < 0 <=> Compare(y, x) > 0
<1> DEFINE n == MinLen(x, y)
           d == Differing(x.data, y.data, n)
           r == Memcmp(x.data, y.data, n)
<1>0. x.size \in Nat /\ y.size \in Nat /\ x.data \in Nat /\ y.data \in Nat
  BY DEF Slices
<1>1. MinLen(y, x) = n /\ n \in Nat
  BY <1>0 DEF MinLen
<1>2. Differing(y.data, x.data, n) = d
  BY DEF Differing
<1>3. r \in Int /\ Memcmp(y.data, x.data, n) = 0 - r
  <2>1. CASE d = {}
    <3>1. r = 0
      BY <2>1 DEF Memcmp
    <3>2. Memcmp(y.data, x.data, n) = 0
      BY <1>2, <2>1 DEF Memcmp
    <3>3. QED
      BY <3>1, <3>2
  <2>2. CASE d # {}
    <3>1. d \subseteq Nat
      BY DEF Differing
    <3>2. Min(d) \in Nat
      BY <2>2, <3>1, MinIsLeast
    <3>3. Mem[x.data + Min(d)] \in Int /\ Mem[y.data + Min(d)] \in Int
      BY <1>0, <3>2 DEF Bytes
    <3>4. QED
      BY <1>2, <2>2, <3>3 DEF Memcmp
  <2>3. QED
    BY <2>1, <2>2
<1>4. QED
  BY <1>0, <1>1, <1>3 DEF Compare

(* compare() is transitive, whatever the sizes: with the two before, it is *)
(* a total order of byte strings.                                          *)
THEOREM CompareTransitive ==
  ASSUME NEW x \in Slices, NEW y \in Slices, NEW z \in Slices, Mem \in [Nat -> Bytes],
         Compare(x, y) < 0, Compare(y, z) < 0
  PROVE  Compare(x, z) < 0
<1>0. x.size \in Nat /\ y.size \in Nat /\ z.size \in Nat
  BY DEF Slices
<1>1. Precedes(x, y) /\ Precedes(y, z)
  BY CompareIsOrder
<1>2. SUFFICES Precedes(x, z)
  BY CompareIsOrder
<1>3. \A k \in Nat : At(x, k) \in Int /\ At(y, k) \in Int /\ At(z, k) \in Int
  BY ByteIsInt
<1>4. CASE x.size < y.size /\ Agree(x, y, x.size)
  <2>1. CASE y.size < z.size /\ Agree(y, z, y.size)
    <3>1. x.size < z.size /\ Agree(x, z, x.size)
      BY <1>0, <1>4, <2>1 DEF Agree
    <3>2. QED
      BY <3>1 DEF Precedes
  <2>2. ASSUME NEW k \in Nat, k < y.size, k < z.size, Agree(y, z, k), At(y, k) < At(z, k)
        PROVE  Precedes(x, z)
    <3>1. CASE k < x.size
      <4>1. Agree(x, z, k)
        BY <1>0, <1>4, <2>2, <3>1 DEF Agree
      <4>2. At(x, k) = At(y, k)
        BY <1>0, <1>4, <3>1 DEF Agree
      <4>3. QED
        BY <2>2, <3>1, <4>1, <4>2 DEF Precedes
    <3>2. CASE x.size <= k
      <4>1. x.size < z.size /\ Agree(x, z, x.size)
        BY <1>0, <1>4, <2>2, <3>2 DEF Agree
      <4>2. QED
        BY <4>1 DEF Precedes
    <3>3. QED
      BY <1>0, <3>1, <3>2
  <2>3. QED
    BY <1>1, <2>1, <2>2 DEF Precedes
<1>5. ASSUME NEW k \in Nat, k < x.size, k < y.size, Agree(x, y, k), At(x, k) < At(y, k)
      PROVE  Precedes(x, z)
  <2>1. CASE y.size < z.size /\ Agree(y, z, y.size)
    <3>1. k < z.size /\ Agree(x, z, k) /\ At(x, k) < At(z, k)
      BY <1>0, <1>5, <2>1 DEF Agree
    <3>2. QED
      BY <1>5, <3>1 DEF Precedes
  <2>2. ASSUME NEW m \in Nat, m < y.size, m < z.size, Agree(y, z, m), At(y, m) < At(z, m)
        PROVE  Precedes(x, z)
    <3>1. CASE k < m
      <4>1. k < z.size /\ Agree(x, z, k) /\ At(x, k) < At(z, k)
        BY <1>0, <1>5, <2>2, <3>1 DEF Agree
      <4>2. QED
        BY <1>5, <4>1 DEF Precedes
    <3>2. CASE k = m
      <4>1. Agree(x, z, k) /\ At(x, k) < At(z, k)
        BY <1>3, <1>5, <2>2, <3>2 DEF Agree
      <4>2. QED
        BY <1>5, <2>2, <3>2, <4>1 DEF Precedes
    <3>3. CASE m < k
      <4>1. m < x.size /\ Agree(x, z, m) /\ At(x, m) < At(z, m)
        BY <1>0, <1>5, <2>2, <3>3 DEF Agree
      <4>2. QED
        BY <2>2, <4>1 DEF Precedes
    <3>4. QED
      BY <3>1, <3>2, <3>3
  <2>3. QED
    BY <1>1, <2>1, <2>2 DEF Precedes
<1>6. QED
  BY <1>1, <1>4, <1>5 DEF Precedes

(* starts_with() holds iff the bytes of the prefix are the first of the    *)
(* slice; then the prefix does not come after the slice, and after         *)
(* remove_prefix() the slice is the rest of its bytes.                     *)
THEOREM PrefixTakenOff ==
  ASSUME NEW x \in Slices, NEW p \in Slices, Mem \in [Nat -> Bytes]
  PROVE  /\ StartsWith(x, p) <=> p.size <= x.size /\ Agree(x, p, p.size)
         /\ StartsWith(x, p) =>
              /\ Compare(p, x) <= 0
              /\ RemovePrefix(x, p.size) \in Slices
              /\ \A i \in 0..(x.size - p.size - 1) :
                   At(RemovePrefix(x, p.size), i) = At(x, p.size + i)
<1>0. x.size \in Nat /\ p.size \in Nat /\ x.data \in Nat
  BY DEF Slices
<1>1. StartsWith(x, p) <=> p.size <= x.size /\ Agree(x, p, p.size)
  BY <1>0, MemcmpSign DEF StartsWith
<1>2. ASSUME StartsWith(x, p)
      PROVE  Compare(p, x) <= 0
  <2>1. MinLen(p, x) = p.size /\ Agree(p, x, p.size)
    BY <1>0, <1>1, <1>2 DEF MinLen, Agree
  <2>2. Memcmp(p.data, x.data, p.size) = 0
    BY <1>0, <2>1, MemcmpSign
  <2>3. QED
    BY <1>0, <1>1, <1>2, <2>1, <2>2 DEF Compare
<1>3. ASSUME StartsWith(x, p)
      PROVE  RemovePrefix(x, p.size) \in Slices
  BY <1>0, <1>1, <1>3 DEF RemovePrefix, Slices
<1>4. \A i \in 0..(x.size - p.size - 1) : At(RemovePrefix(x, p.size), i) = At(x, p.size + i)
  BY <1>0 DEF At, RemovePrefix
<1>5. QED
  BY <1>1, <1>2, <1>3, <1>4

----------------------------------------------------------------------------
(* InetAddress. *)

(* The numbers below a bound, which the provers need not know the digits of. *)
LEMMA Below ==
  ASSUME NEW p \in Nat
  PROVE  /\ \A n \in 0..(p - 1) : n \in Int
         /\ \A n \in Int : n \in 0..(p - 1) <=> n \in Nat /\ n < p
OBVIOUS

LEMMA PortCountNat == PortCount \in Nat
BY DEF PortCount

(* Ports are numbers ... *)
LEMMA PortIsInt == \A n \in Ports : n \in Int
BY PortCountNat, Below DEF Ports

(* ... of this range. *)
LEMMA PortRange == \A n \in Int : n \in Ports <=> n \in Nat /\ n < PortCount
BY PortCountNat, Below DEF Ports

(* The bytes of a port, and the port of two bytes. *)
High(n) == n \div 256
Low(n) == n % 256
Join(hi, lo) == 256 * hi + lo

(* A port is the number of its two bytes. *)
LEMMA SplitPort ==
  ASSUME NEW n \in Ports
  PROVE  High(n) \in Bytes /\ Low(n) \in Bytes /\ n = Join(High(n), Low(n))
<1>0. n \in Nat /\ n < PortCount
  BY PortIsInt, PortRange
<1>1. n \in Nat /\ n < 65536
  BY <1>0 DEF PortCount
<1>2. n % 256 \in 0..255
  BY <1>1
<1>3. n = 256 * (n \div 256) + (n % 256)
  BY <1>1
<1>4. n \div 256 \in Nat
  BY <1>1
<1>5. n \div 256 < 256
  BY <1>1
<1>6. n \div 256 \in 0..255
  BY <1>4, <1>5
<1>7. QED
  BY <1>2, <1>3, <1>6 DEF High, Low, Join, Bytes

(* Two bytes make a port, of which they are the bytes. *)
LEMMA JoinPort ==
  ASSUME NEW hi \in Bytes, NEW lo \in Bytes
  PROVE  Join(hi, lo) \in Ports /\ High(Join(hi, lo)) = hi /\ Low(Join(hi, lo)) = lo
<1>0. hi \in 0..255 /\ lo \in 0..255
  BY DEF Bytes
<1>1. Join(hi, lo) \in Nat /\ Join(hi, lo) < PortCount
  BY <1>0 DEF Join, PortCount
<1>2. (256 * hi + lo) % 256 = lo
  BY <1>0
<1>3. (256 * hi + lo) \div 256 = hi
  BY <1>0
<1>4. Join(hi, lo) \in Ports
  BY <1>1, PortRange
<1>5. High(Join(hi, lo)) = hi
  BY <1>3 DEF Join, High
<1>6. Low(Join(hi, lo)) = lo
  BY <1>2 DEF Join, Low
<1>7. QED
  BY <1>4, <1>5, <1>6

(* htons() exchanges the bytes. *)
LEMMA HtonsSwaps == \A n \in Ports : Htons(n) = Join(Low(n), High(n))
BY DEF Htons, Join, Low, High

(* Swapping the bytes of a port twice gives it back. *)
LEMMA SwapTwice ==
  ASSUME NEW n \in Ports
  PROVE  Htons(n) \in Ports /\ Htons(Htons(n)) = n
<1>1. High(n) \in Bytes /\ Low(n) \in Bytes /\ n = Join(High(n), Low(n))
  BY SplitPort
<1>2. Htons(n) = Join(Low(n), High(n))
  BY HtonsSwaps
<1>3. Htons(n) \in Ports /\ High(Htons(n)) = Low(n) /\ Low(Htons(n)) = High(n)
  BY <1>1, <1>2, JoinPort
<1>4. Htons(Htons(n)) = Join(Low(Htons(n)), High(Htons(n)))
  BY <1>3, HtonsSwaps
<1>5. QED
  BY <1>1, <1>3, <1>4

(* The cast to uint16_t gives a port, and keeps one that is one. *)
LEMMA LowerBits ==
  ASSUME NEW n \in Int
  PROVE  n % PortCount \in Ports /\ (n \in Ports => n % PortCount = n)
<1>1. n % PortCount \in Ports
  <2>1. n % PortCount \in Nat /\ n % PortCount \in Int
    BY DEF PortCount
  <2>2. n % PortCount < PortCount
    BY DEF PortCount
  <2>3. QED
    BY <2>1, <2>2, PortRange, Zenon
<1>2. ASSUME n \in Nat, n < PortCount
      PROVE  n % PortCount = n
  <2>1. n = PortCount * (n \div PortCount) + (n % PortCount)
    BY <1>2 DEF PortCount
  <2>2. n \div PortCount = 0
    BY <1>2 DEF PortCount
  <2>3. n % PortCount \in Int
    BY DEF PortCount
  <2>4. QED
    BY <2>1, <2>2, <2>3 DEF PortCount
<1>3. QED
  BY <1>1, <1>2, PortRange, Zenon

(* Every address, also one accept4() filled in, is what its text is parsed *)
(* to: to_string() and the constructor agree on the order of the bytes.    *)
THEOREM AddressRoundTrip ==
  ASSUME NEW addr \in Addresses, Malformed \notin Ip
  PROVE  Parse(ToString(addr)) = addr
<1>1. addr.ip \in Ip /\ addr.port \in Ports /\ addr = [ip |-> addr.ip, port |-> addr.port]
  BY DEF Addresses
<1>2. Ntohs(addr.port) \in Ports /\ Htons(Ntohs(addr.port)) = addr.port
  BY <1>1, SwapTwice DEF Ntohs
<1>3. Ntohs(addr.port) % PortCount = Ntohs(addr.port)
  <2>1. Ntohs(addr.port) \in Int
    BY <1>2, PortIsInt
  <2>2. QED
    BY <1>2, <2>1, LowerBits, Zenon
<1>4. QED
  BY <1>1, <1>2, <1>3 DEF Parse, ToString, HostPort

(* A text that is accepted gives an address whose host_port() is the       *)
(* number of the text when that fits, and its lower 16 bits otherwise:     *)
(* the constructor does not refuse port 70000, it listens on 4464.         *)
THEOREM PortWraps ==
  ASSUME NEW text \in Texts, text.colon, text.ip # Malformed
  PROVE  /\ Parse(text) \in Addresses
         /\ HostPort(Parse(text)) = text.port % PortCount
<1>1. text.ip \in Ip /\ text.port \in Int
  BY DEF Texts
<1>2. text.port % PortCount \in Ports
  BY <1>1, LowerBits
<1>3. Htons(text.port % PortCount) \in Ports
  BY <1>2, SwapTwice
<1>4. Parse(text) = [ip |-> text.ip, port |-> Htons(text.port % PortCount)]
  BY DEF Parse
<1>5. QED
  BY <1>1, <1>2, <1>3, <1>4, SwapTwice DEF HostPort, Ntohs, Addresses

(* The results whose connect() succeeded. *)
Connected(results) == {i \in 1..Len(results) : Connects(results[i])}

(* The loop of resolve() ends at the first result that connects, past all  *)
(* of them when none does.  It is recursive: that rp exists is shown with  *)
(* its explicit form, that it is unique by induction from the last result. *)
LEMMA LoopFindsFirst ==
  ASSUME NEW results \in Results
  PROVE  /\ LoopEnd(results) \in 1..(Len(results) + 1)
         /\ LoopEnd(results) <= Len(results) => LoopEnd(results) \in Connected(results)
         /\ \A j \in 1..(LoopEnd(results) - 1) : j \notin Connected(results)
<1> DEFINE n == Len(results)
           C == Connected(results)
           From(i) == {j \in C : i <= j}
           Step(f, i) == IF i > n \/ Connects(results[i]) THEN i ELSE f[i + 1]
           rp == CHOOSE f : f = [i \in 1..(n + 1) |-> Step(f, i)]
           h == [i \in 1..(n + 1) |-> IF From(i) = {} THEN n + 1 ELSE Min(From(i))]
<1>1. LoopEnd(results) = rp[1]
  BY DEF LoopEnd
<1>2. n \in Nat /\ C \subseteq 1..n /\ \A i \in 1..n : i \in C <=> Connects(results[i])
  BY DEF Results, Connected
<1> HIDE DEF n, C
<1>a. \A j \in C : j \in Nat /\ j <= n
  BY <1>2
<1>3. ASSUME NEW i \in 1..(n + 1) PROVE h[i] = Step(h, i)
  <2>0. i \in Nat
    BY <1>2
  <2>1. From(i) \subseteq Nat
    <3> SUFFICES ASSUME NEW j \in C, i <= j PROVE j \in Nat
      OBVIOUS
    <3> QED
      BY <1>a
  <2>2. h[i] = IF From(i) = {} THEN n + 1 ELSE Min(From(i))
    OBVIOUS
  <2>3. CASE i = n + 1
    <3>1. From(i) = {}
      <4> SUFFICES ASSUME NEW j \in C, i <= j PROVE FALSE
        OBVIOUS
      <4>1. j \in Nat /\ j <= n
        BY <1>a
      <4> QED
        BY <1>2, <2>3, <4>1
    <3>2. Step(h, i) = i
      BY <1>2, <2>3
    <3> QED
      BY <2>2, <2>3, <3>1, <3>2
  <2>4. CASE i # n + 1 /\ i \in C
    <3>1. i \in From(i) /\ \A j \in From(i) : i <= j
      BY <2>1, <2>4
    <3>2. Min(From(i)) \in From(i) /\ \A j \in From(i) : Min(From(i)) <= j
      <4> HIDE DEF From
      <4> QED
        BY <2>1, <3>1, MinIsLeast
    <3>3. Min(From(i)) = i
      <4> HIDE DEF From
      <4> QED
        BY <2>1, <3>1, <3>2
    <3>4. i \in 1..n
      BY <1>2, <2>4
    <3> HIDE DEF From
    <3> QED
      BY <1>2, <2>2, <2>4, <3>1, <3>3, <3>4
  <2>5. CASE i # n + 1 /\ i \notin C
    <3>1. i \in 1..n /\ i + 1 \in 1..(n + 1) /\ ~(i > n)
      BY <1>2, <2>5
    <3>2. From(i) = From(i + 1)
      <4>1. ASSUME NEW j \in C PROVE i <= j <=> i + 1 <= j
        <5>1. j \in Nat /\ j # i
          BY <1>a, <2>5
        <5> QED
          BY <2>0, <5>1
      <4> QED
        BY <4>1, Zenon
    <3>3. h[i + 1] = IF From(i + 1) = {} THEN n + 1 ELSE Min(From(i + 1))
      BY <3>1
    <3>4. Step(h, i) = h[i + 1]
      BY <1>2, <2>5, <3>1
    <3> HIDE DEF h, From, Step
    <3> QED
      BY <2>2, <3>2, <3>3, <3>4
  <2> QED
    BY <2>3, <2>4, <2>5
<1>4. h = [i \in 1..(n + 1) |-> Step(h, i)]
  <2> HIDE DEF Step
  <2>1. \A i \in 1..(n + 1) : h[i] = Step(h, i)
    BY <1>3
  <2>2. h = [i \in 1..(n + 1) |-> h[i]]
    OBVIOUS
  <2> HIDE DEF h
  <2> QED
    BY <2>1, <2>2
<1>5. rp = [i \in 1..(n + 1) |-> Step(rp, i)]
  <2> HIDE DEF Step, h
  <2> QED
    BY <1>4
<1> HIDE DEF rp
<1>6. \A i \in 1..(n + 1) : rp[i] = Step(rp, i)
  <2> HIDE DEF Step
  <2> QED
    BY <1>5
<1> DEFINE First(i) == /\ rp[i] \in i..(n + 1)
                       /\ rp[i] <= n => rp[i] \in C
                       /\ \A j \in i..(rp[i] - 1) : j \notin C
           Wrong == {k \in 0..n : ~First(n + 1 - k)}
<1>7. Wrong = {}
  <2> SUFFICES ASSUME Wrong # {} PROVE FALSE
    OBVIOUS
  <2> DEFINE k == Min(Wrong)
             i == n + 1 - k
  <2>1. k \in Wrong /\ \A j \in Wrong : k <= j
    <3>1. Wrong \subseteq Nat
      BY <1>2
    <3> HIDE DEF Wrong
    <3> QED
      BY <3>1, MinIsLeast
  <2> HIDE DEF k
  <2>2. k \in 0..n /\ ~First(i)
    BY <2>1
  <2>3. i \in 1..(n + 1) /\ (i > n <=> k = 0)
    BY <1>2, <2>2
  <2>4. rp[i] = Step(rp, i)
    BY <1>6, <2>3
  <2>5. CASE i > n \/ i \in C
    <3>1. rp[i] = i
      BY <1>2, <2>3, <2>4, <2>5
    <3>2. First(i)
      BY <1>2, <2>3, <2>5, <3>1
    <3> HIDE DEF First
    <3> QED
      BY <2>2, <3>2
  <2>6. CASE ~(i > n) /\ i \notin C
    <3>1. k - 1 \in 0..n /\ n + 1 - (k - 1) = i + 1 /\ ~(k <= k - 1)
      BY <1>2, <2>2, <2>3, <2>6
    <3>2. First(i + 1)
      <4>1. k - 1 \notin Wrong
        BY <2>1, <3>1
      <4> HIDE DEF First
      <4> QED
        BY <3>1, <4>1
    <3>3. rp[i] = rp[i + 1]
      BY <1>2, <2>3, <2>4, <2>6
    <3>4. First(i)
      <4> HIDE DEF i
      <4>1. rp[i] \in i..(n + 1) /\ (rp[i] <= n => rp[i] \in C)
        BY <1>2, <2>3, <3>2, <3>3
      <4>2. ASSUME NEW j \in i..(rp[i] - 1) PROVE j \notin C
        <5>1. CASE j = i
          BY <2>6, <5>1
        <5>2. CASE j # i
          <6>1. j \in (i + 1)..(rp[i + 1] - 1)
            BY <1>2, <2>3, <3>3, <4>1, <5>2
          <6> QED
            BY <3>2, <6>1
        <5> QED
          BY <5>1, <5>2
      <4> QED
        BY <4>1, <4>2
    <3> HIDE DEF First
    <3> QED
      BY <2>2, <3>4
  <2> QED
    BY <2>5, <2>6
<1>8. First(1)
  <2>1. n \in 0..n /\ n + 1 - n = 1
    BY <1>2
  <2> HIDE DEF First
  <2>2. n \notin Wrong
    BY <1>7
  <2> QED
    BY <2>1, <2>2
<1> QED
  BY <1>1, <1>8 DEF n, C

(* resolve() gives the address of the first result of getaddrinfo() that   *)
(* connects, whatever comes before and after it; when none connects, or    *)
(* that one is not AF_INET, it fails and leaves addr alone.                *)
THEOREM ResolveFirstReachable ==
  ASSUME NEW results \in Results, NEW addr
  PROVE  /\ Connected(results) = {} =>
              Resolve(results, addr) = [success |-> FALSE, addr |-> addr]
         /\ \A i \in Connected(results) :
              (\A j \in 1..(i - 1) : j \notin Connected(results)) =>
                Resolve(results, addr) =
                  IF results[i].inet THEN [success |-> TRUE, addr |-> results[i].addr]
                                     ELSE [success |-> FALSE, addr |-> addr]
<1> DEFINE end == LoopEnd(results)
<1>1. /\ end \in 1..(Len(results) + 1)
      /\ end <= Len(results) => end \in Connected(results)
      /\ \A j \in 1..(end - 1) : j \notin Connected(results)
  BY LoopFindsFirst
<1>2. Resolve(results, addr) =
        IF end <= Len(results) /\ results[end].inet
        THEN [success |-> TRUE, addr |-> results[end].addr]
        ELSE [success |-> FALSE, addr |-> addr]
  BY DEF Resolve
<1>3. Len(results) \in Nat /\ Connected(results) \subseteq 1..Len(results)
  BY DEF Results, Connected
<1> HIDE DEF end
<1>4. ASSUME Connected(results) = {}
      PROVE  Resolve(results, addr) = [success |-> FALSE, addr |-> addr]
  BY <1>1, <1>2, <1>4
<1>5. ASSUME NEW i \in Connected(results), \A j \in 1..(i - 1) : j \notin Connected(results)
      PROVE  Resolve(results, addr) =
               IF results[i].inet THEN [success |-> TRUE, addr |-> results[i].addr]
                                  ELSE [success |-> FALSE, addr |-> addr]
  <2>1. i \in 1..Len(results) /\ ~(i < end)
    BY <1>1, <1>3
  <2>2. ~(end < i)
    <3>1. end < i => end \in 1..(i - 1) /\ end <= Len(results)
      BY <1>1, <1>3, <2>1
    <3> QED
      BY <1>1, <1>5, <3>1
  <2>3. end = i /\ end <= Len(results)
    BY <1>1, <1>3, <2>1, <2>2
  <2> QED
    BY <1>2, <2>3
<1> QED
  BY <1>4, <1>5
==============================================================================
