-------------------------------- MODULE Slice --------------------------------
(***************************************************************************)
(* muti::Slice: a pointer and a size, into memory that the slice does not  *)
(* own.  Several slices may refer to overlapping parts of it.              *)
(***************************************************************************)
EXTENDS Integers, FiniteSetsExt

CONSTANT Mem     \* the memory, from addresses to bytes

Bytes == 0..255
Slices == [data : Nat, size : Nat]

(* Slice(d, n); the other constructors find n by themselves. *)
New(d, n) == [data |-> d, size |-> n]

(* memcmp(): the difference of the first two bytes that differ. *)
Differing(a, b, n) == {i \in 0..(n - 1) : Mem[a + i] # Mem[b + i]}
Memcmp(a, b, n) ==
  LET d == Differing(a, b, n)
  IN  IF d = {} THEN 0 ELSE Mem[a + Min(d)] - Mem[b + Min(d)]

(* operator== *)
Equal(x, y) == x.size = y.size /\ Memcmp(x.data, y.data, x.size) = 0

(* compare() *)
MinLen(x, y) == IF x.size < y.size THEN x.size ELSE y.size
Compare(x, y) ==
  LET r == Memcmp(x.data, y.data, MinLen(x, y))
  IN  CASE r # 0 -> r
        [] r = 0 /\ x.size < y.size -> -1
        [] r = 0 /\ x.size > y.size -> 1
        [] r = 0 /\ x.size = y.size -> 0

(* starts_with() *)
StartsWith(x, p) == x.size >= p.size /\ Memcmp(x.data, p.data, p.size) = 0

(* remove_prefix(), which asserts n <= size(), and clear(), which refers   *)
(* to the empty string at the address empty.                               *)
RemovePrefix(x, n) == [data |-> x.data + n, size |-> x.size - n]
Clear(empty) == New(empty, 0)

(* operator[], which asserts n < size(). *)
At(x, n) == Mem[x.data + n]
==============================================================================
