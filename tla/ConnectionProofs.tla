--------------------------- MODULE ConnectionProofs ---------------------------
(* Invariance proofs about Connection, for every user: whatever calls its  *)
(* callbacks and another thread make and whichever ConnectionPtrs they     *)
(* keep.                                                                   *)
EXTENDS Connection, TLAPS, FiniteSetTheorems, WellFoundedInduction

----------------------------------------------------------------------------
(* Event sources. *)

(* The event source and the epoll set agree. *)
Agrees(e) ==
  /\ e.armed = e.interest
  /\ e.watched <=> e.interest # {}
  /\ e.watched <=> e.state = "Registered"

LEMMA EnableOpsFacts ==
  ASSUME NEW e \in EventSources, NEW op \in Ops
  PROVE  /\ EnableOps(e, op) \in EventSources
         /\ EnableOps(e, op).interest = e.interest \cup {op}
         /\ Agrees(e) => Agrees(EnableOps(e, op))
<1> USE DEF EventSources, EnableOps, RegisterEvent, ModifyEvent, Ops
<1>1. EnableOps(e, op) \in EventSources
  OBVIOUS
<1>2. EnableOps(e, op).interest = e.interest \cup {op}
  OBVIOUS
<1>3. Agrees(e) => Agrees(EnableOps(e, op))
  BY DEF Agrees
<1> QED
  BY <1>1, <1>2, <1>3

LEMMA DisableOpsFacts ==
  ASSUME NEW e \in EventSources, NEW op \in Ops
  PROVE  /\ DisableOps(e, op) \in EventSources
         /\ DisableOps(e, op).interest = e.interest \ {op}
         /\ Agrees(e) => Agrees(DisableOps(e, op))
<1> USE DEF EventSources, DisableOps, UnregisterEvent, ModifyEvent, Ops
<1>1. DisableOps(e, op) \in EventSources
  OBVIOUS
<1>2. DisableOps(e, op).interest = e.interest \ {op}
  OBVIOUS
<1>3. Agrees(e) => Agrees(DisableOps(e, op))
  BY DEF Agrees
<1> QED
  BY <1>1, <1>2, <1>3

LEMMA DisableAllFacts ==
  ASSUME NEW e \in EventSources
  PROVE  /\ DisableAll(e) \in EventSources
         /\ DisableAll(e).interest = {}
         /\ Agrees(e) => Agrees(DisableAll(e))
<1> USE DEF EventSources, DisableAll, UnregisterEvent, Ops
<1>1. DisableAll(e) \in EventSources
  OBVIOUS
<1>2. DisableAll(e).interest = {}
  OBVIOUS
<1>3. Agrees(e) => Agrees(DisableAll(e))
  BY DEF Agrees
<1> QED
  BY <1>1, <1>2, <1>3

LEMMA NewEventSourceFacts ==
  /\ NewEventSource \in EventSources
  /\ NewEventSource.interest = {}
  /\ Agrees(NewEventSource)
BY DEF NewEventSource, EventSources, Agrees

LEMMA InterestOpsFacts ==
  ASSUME NEW e \in EventSources
  PROVE  InterestOps(e, {}) \in EventSources
BY DEF InterestOps, EventSources

----------------------------------------------------------------------------
(* Queues of closures. *)

HasForce(q) == \E i \in DOMAIN q : q[i].op = "force_close"

LEMMA CallFacts ==
  /\ CloseTask \in Calls /\ ForceCloseTask \in Calls
  /\ ForceCloseTask.op = "force_close"
  /\ \A c \in Calls : /\ c.len \in Nat
                      /\ c.op \in {"close", "force_close", "write"}
                      /\ c.op = "write" => c.len > 0
BY DEF Calls, CloseTask, ForceCloseTask

LEMMA AppendForce ==
  ASSUME NEW q \in Seq(Calls), NEW c \in Calls
  PROVE  /\ Append(q, c) \in Seq(Calls)
         /\ HasForce(q) => HasForce(Append(q, c))
         /\ c.op = "force_close" => HasForce(Append(q, c))
<1>1. /\ Append(q, c) \in Seq(Calls)
      /\ DOMAIN Append(q, c) = 1..(Len(q) + 1) /\ DOMAIN q = 1..Len(q) /\ Len(q) \in Nat
      /\ Append(q, c)[Len(q) + 1] = c
      /\ \A i \in 1..Len(q) : Append(q, c)[i] = q[i]
  OBVIOUS
<1>2. Len(q) + 1 \in 1..(Len(q) + 1) /\ 1..Len(q) \subseteq 1..(Len(q) + 1)
  BY <1>1
<1> QED
  BY <1>1, <1>2 DEF HasForce

LEMMA ConcatForce ==
  ASSUME NEW p \in Seq(Calls), NEW q \in Seq(Calls)
  PROVE  /\ p \o q \in Seq(Calls)
         /\ HasForce(p) => HasForce(p \o q)
<1>1. /\ p \o q \in Seq(Calls)
      /\ DOMAIN (p \o q) = 1..(Len(p) + Len(q)) /\ DOMAIN p = 1..Len(p)
      /\ Len(p) \in Nat /\ Len(q) \in Nat
      /\ \A i \in 1..Len(p) : (p \o q)[i] = p[i]
  OBVIOUS
<1>2. 1..Len(p) \subseteq 1..(Len(p) + Len(q))
  BY <1>1
<1> QED
  BY <1>1, <1>2 DEF HasForce

LEMMA TailForce ==
  ASSUME NEW q \in Seq(Calls), q # <<>>
  PROVE  /\ Head(q) \in Calls /\ Tail(q) \in Seq(Calls)
         /\ HasForce(q) /\ Head(q).op # "force_close" => HasForce(Tail(q))
<1>1. /\ Head(q) \in Calls /\ Tail(q) \in Seq(Calls) /\ Head(q) = q[1]
      /\ DOMAIN q = 1..Len(q) /\ DOMAIN Tail(q) = 1..(Len(q) - 1) /\ Len(q) \in Nat
      /\ \A i \in 1..(Len(q) - 1) : Tail(q)[i] = q[i + 1]
  OBVIOUS
<1>2. ASSUME NEW i \in 1..Len(q), q[i].op = "force_close", Head(q).op # "force_close"
      PROVE  HasForce(Tail(q))
  <2>1. i # 1
    BY <1>1, <1>2
  <2>2. i - 1 \in 1..(Len(q) - 1) /\ (i - 1) + 1 = i
    BY <1>1, <2>1
  <2>3. Tail(q)[i - 1] = q[i]
    BY <1>1, <2>2
  <2> QED
    BY <1>1, <1>2, <2>2, <2>3 DEF HasForce
<1> QED
  BY <1>1, <1>2 DEF HasForce

----------------------------------------------------------------------------
(* The calls of a user callback. *)

LEMMA LeastElement ==
  ASSUME NEW T, T \subseteq Nat, T # {}
  PROVE  \E m \in T : \A j \in T : m <= j
<1> DEFINE less == OpToRel(<, Nat)
<1>1. PICK x \in T : \A y \in T : ~(<<y, x>> \in less)
  BY NatLessThanWellFounded, WFMin
<1>2. ASSUME NEW y \in T PROVE x <= y
  <2>1. ~(y < x)
    BY <1>1 DEF OpToRel
  <2> QED
    BY <2>1
<1> QED
  BY <1>2

(* The calls that are not refused make a queue.  Accepted is recursive:    *)
(* that the function it takes its value from exists, and has its type,     *)
(* follow from the absence of a least index at which they fail.            *)
LEMMA AcceptedUnfold ==
  ASSUME NEW C, NEW script \in Seq(C), NEW s
  PROVE  \E f \in [0..Len(script) -> Seq({c \in C : ~Refused(c, s)})] :
           /\ f[0] = <<>>
           /\ \A n \in 1..Len(script) :
                f[n] = IF Refused(script[n], s) THEN f[n - 1]
                       ELSE Append(f[n - 1], script[n])
           /\ Accepted(script, s) = f[Len(script)]
<1> DEFINE A == {c \in C : ~Refused(c, s)}
           Step(f, n) == IF n = 0 THEN <<>>
                         ELSE IF Refused(script[n], s) THEN f[n - 1]
                         ELSE Append(f[n - 1], script[n])
           Defined(n) == \E f \in [0..n -> Seq(A)] : \A i \in 0..n : f[i] = Step(f, i)
           upTo == CHOOSE f : f = [n \in 0..Len(script) |-> Step(f, n)]
<1>1. /\ Len(script) \in Nat
      /\ \A n \in 1..Len(script) : ~Refused(script[n], s) => script[n] \in A
  OBVIOUS
<1>0. Accepted(script, s) = upTo[Len(script)]
  BY DEF Accepted
<1> HIDE DEF A
<1>2. \A n \in 0..Len(script) : Defined(n)
  <2> DEFINE Undefined == {n \in 0..Len(script) : ~Defined(n)}
  <2> SUFFICES ASSUME Undefined # {} PROVE FALSE
    OBVIOUS
  <2>1. PICK m \in Undefined : \A j \in Undefined : m <= j
    <3>1. Undefined \subseteq Nat
      BY <1>1
    <3> HIDE DEF Undefined
    <3> QED
      BY <3>1, LeastElement
  <2>2. m \in 0..Len(script) /\ ~Defined(m)
    BY <2>1
  <2>3. m # 0
    <3> DEFINE f == [i \in 0..0 |-> <<>>]
    <3>1. f \in [0..0 -> Seq(A)] /\ \A i \in 0..0 : f[i] = Step(f, i)
      OBVIOUS
    <3> HIDE DEF f, Step
    <3>2. Defined(0)
      BY <3>1
    <3> QED
      BY <2>2, <3>2
  <2>4. m - 1 \in 0..Len(script) /\ m - 1 \notin Undefined
    <3> HIDE DEF Undefined
    <3> QED
      BY <1>1, <2>1, <2>2, <2>3
  <2>5. PICK f \in [0..(m - 1) -> Seq(A)] : \A i \in 0..(m - 1) : f[i] = Step(f, i)
    BY <2>4
  <2> DEFINE g == [i \in 0..m |-> IF i = m THEN Step(f, m) ELSE f[i]]
  <2>6. Step(f, m) \in Seq(A)
    BY <1>1, <2>2, <2>3, <2>5
  <2>7. g \in [0..m -> Seq(A)]
    BY <2>2, <2>3, <2>5, <2>6
  <2>8. /\ \A i \in 0..m : i # 0 => g[i - 1] = f[i - 1]
        /\ \A i \in 0..m : g[i] = IF i = m THEN Step(f, m) ELSE f[i]
    BY <2>2, <2>3
  <2> HIDE DEF g
  <2>9. ASSUME NEW i \in 0..m PROVE g[i] = Step(g, i)
    <3>1. Step(g, i) = Step(f, i)
      BY <2>8
    <3> HIDE DEF Step
    <3>2. CASE i = m
      BY <2>8, <3>1, <3>2
    <3>3. CASE i # m
      <4>1. i \in 0..(m - 1)
        BY <2>2, <3>3
      <4> QED
        BY <2>5, <2>8, <3>1, <3>3, <4>1
    <3> QED
      BY <3>2, <3>3
  <2> HIDE DEF Step
  <2> QED
    BY <2>2, <2>7, <2>9
<1>3. upTo = [n \in 0..Len(script) |-> Step(upTo, n)]
  <2> HIDE DEF Step
  <2>0. Defined(Len(script))
    <3> HIDE DEF Defined
    <3> QED
      BY <1>1, <1>2
  <2>1. PICK f \in [0..Len(script) -> Seq(A)] :
               \A i \in 0..Len(script) : f[i] = Step(f, i)
    BY <2>0
  <2>2. f = [n \in 0..Len(script) |-> Step(f, n)]
    BY <2>1
  <2> QED
    BY <2>2
<1> HIDE DEF upTo
<1>4. \A n \in 0..Len(script) : upTo[n] = Step(upTo, n)
  <2> HIDE DEF Step
  <2> QED
    BY <1>3
<1>5. \A n \in 0..Len(script) : upTo[n] \in Seq(A)
  <2> DEFINE Wrong == {n \in 0..Len(script) : upTo[n] \notin Seq(A)}
  <2> SUFFICES ASSUME Wrong # {} PROVE FALSE
    OBVIOUS
  <2>1. PICK m \in Wrong : \A j \in Wrong : m <= j
    <3>1. Wrong \subseteq Nat
      BY <1>1
    <3> HIDE DEF Wrong
    <3> QED
      BY <3>1, LeastElement
  <2>2. upTo[m] = Step(upTo, m) /\ upTo[m] \notin Seq(A) /\ m \in 0..Len(script)
    <3> HIDE DEF Step
    <3> QED
      BY <1>4
  <2>3. m # 0
    BY <2>2
  <2>4. upTo[m - 1] \in Seq(A)
    BY <1>1, <2>1, <2>2, <2>3
  <2> QED
    BY <1>1, <2>2, <2>3, <2>4
<1>6. upTo \in [0..Len(script) -> Seq(A)]
  <2>1. upTo = [n \in 0..Len(script) |-> upTo[n]]
    <3> HIDE DEF Step
    <3> QED
      BY <1>3, <1>4
  <2> QED
    BY <1>5, <2>1
<1>7. /\ upTo[0] = <<>>
      /\ \A n \in 1..Len(script) :
           upTo[n] = IF Refused(script[n], s) THEN upTo[n - 1]
                     ELSE Append(upTo[n - 1], script[n])
  BY <1>1, <1>4
<1> QED
  BY <1>0, <1>6, <1>7 DEF A

(* What is accepted is a queue of calls that are not refused ... *)
LEMMA AcceptedType ==
  ASSUME NEW C, NEW script \in Seq(C), NEW s
  PROVE  /\ Accepted(script, s) \in Seq(C)
         /\ \A i \in DOMAIN Accepted(script, s) :
              /\ Accepted(script, s)[i] \in C
              /\ ~Refused(Accepted(script, s)[i], s)
<1> DEFINE A == {c \in C : ~Refused(c, s)}
           q == Accepted(script, s)
<1>1. q \in Seq(A)
  <2>1. PICK f \in [0..Len(script) -> Seq({c \in C : ~Refused(c, s)})] :
               /\ f[0] = <<>>
               /\ \A n \in 1..Len(script) :
                    f[n] = IF Refused(script[n], s) THEN f[n - 1]
                           ELSE Append(f[n - 1], script[n])
               /\ Accepted(script, s) = f[Len(script)]
    BY AcceptedUnfold
  <2>2. Len(script) \in 0..Len(script)
    OBVIOUS
  <2> QED
    BY <2>1, <2>2
<1> HIDE DEF q
<1>2. Len(q) \in Nat /\ q \in [1..Len(q) -> A]
  BY <1>1
<1>3. q \in [1..Len(q) -> C]
  BY <1>2
<1>4. q \in Seq(C)
  BY <1>2, <1>3
<1> QED
  BY <1>2, <1>4 DEF q

(* ... and all of them, while the connection is open. *)
LEMMA AcceptedAll ==
  ASSUME NEW script \in Seq(Calls), NEW s, ~IsClosed(s)
  PROVE  Accepted(script, s) = script
<1>1. PICK f \in [0..Len(script) -> Seq({c \in Calls : ~Refused(c, s)})] :
             /\ f[0] = <<>>
             /\ \A n \in 1..Len(script) :
                  f[n] = IF Refused(script[n], s) THEN f[n - 1]
                         ELSE Append(f[n - 1], script[n])
             /\ Accepted(script, s) = f[Len(script)]
  BY AcceptedUnfold
<1> DEFINE A == {c \in Calls : ~Refused(c, s)}
           Same(n) == Len(f[n]) = n /\ \A i \in 1..n : f[n][i] = script[i]
           Wrong == {n \in 0..Len(script) : ~Same(n)}
<1>2. /\ Len(script) \in Nat /\ \A n \in 1..Len(script) : script[n] \in A
      /\ \A n \in 1..Len(script) : ~Refused(script[n], s)
      /\ f \in [0..Len(script) -> Seq(A)]
  BY <1>1 DEF Refused
<1> HIDE DEF A
<1>3. Wrong = {}
  <2> SUFFICES ASSUME Wrong # {} PROVE FALSE
    OBVIOUS
  <2>1. PICK m \in Wrong : \A j \in Wrong : m <= j
    <3>1. Wrong \subseteq Nat
      BY <1>2
    <3> HIDE DEF Wrong
    <3> QED
      BY <3>1, LeastElement
  <2>2. m \in 0..Len(script) /\ ~Same(m)
    BY <2>1
  <2>3. m # 0
    BY <1>1, <2>2
  <2>4. m - 1 \in 0..Len(script) /\ Same(m - 1)
    <3>1. m - 1 \in 0..Len(script) /\ m - 1 \notin Wrong
      <4> HIDE DEF Wrong
      <4> QED
        BY <1>2, <2>1, <2>2, <2>3
    <3> HIDE DEF Same
    <3> QED
      BY <3>1
  <2>5. f[m] = Append(f[m - 1], script[m]) /\ f[m - 1] \in Seq(A) /\ script[m] \in A
    <3>1. m \in 1..Len(script)
      BY <2>2, <2>3
    <3>2. f[m] = Append(f[m - 1], script[m])
      BY <1>1, <1>2, <3>1
    <3> HIDE DEF Same
    <3> QED
      BY <1>2, <2>4, <3>1, <3>2
  <2>6. Same(m)
    <3>1. Len(f[m]) = m
      BY <2>2, <2>4, <2>5
    <3>2. ASSUME NEW i \in 1..m PROVE f[m][i] = script[i]
      <4>1. CASE i = m
        BY <2>2, <2>4, <2>5, <4>1
      <4>2. CASE i # m
        <5>1. i \in 1..(m - 1)
          BY <2>2, <4>2
        <5> QED
          BY <2>4, <2>5, <5>1
      <4> QED
        BY <4>1, <4>2
    <3> QED
      BY <3>1, <3>2
  <2> QED
    BY <2>2, <2>6
<1>4. Same(Len(script))
  <2> HIDE DEF Same
  <2> QED
    BY <1>2, <1>3
<1>5. f[Len(script)] \in Seq(A)
  BY <1>2
<1> QED
  BY <1>1, <1>2, <1>4, <1>5

(* Induction up to n, for a set. *)
LEMMA UpTo ==
  ASSUME NEW n \in Nat, NEW T, 0 \in T, \A i \in 0..(n - 1) : i \in T => i + 1 \in T
  PROVE  \A i \in 0..n : i \in T
<1> DEFINE U == (0..n) \ T
<1> SUFFICES ASSUME U # {} PROVE FALSE
  OBVIOUS
<1>1. PICK m \in U : \A j \in U : m <= j
  <2>1. U \subseteq Nat
    OBVIOUS
  <2> HIDE DEF U
  <2> QED
    BY <2>1, LeastElement
<1>2. m \in 0..n /\ m \notin T /\ m # 0
  OBVIOUS
<1>3. m - 1 \in 0..(n - 1) /\ m - 1 \in 0..n /\ ~(m <= m - 1) /\ (m - 1) + 1 = m
  BY <1>2
<1>4. m - 1 \in T
  BY <1>1, <1>3
<1> QED
  BY <1>2, <1>3, <1>4

(* The bytes in a queue of closures are a number: again the function that  *)
(* LenIn takes its value from has to be shown to exist.                    *)
LEMMA LenInType ==
  ASSUME NEW q \in Seq(Calls)
  PROVE  LenIn(q) \in Nat
<1> DEFINE Step(f, n) == IF n = 0 THEN 0 ELSE f[n - 1] + q[n].len
           Defined(n) == \E f \in [0..n -> Nat] : \A i \in 0..n : f[i] = Step(f, i)
           D == {n \in 0..Len(q) : Defined(n)}
           upTo == CHOOSE f : f = [n \in 0..Len(q) |-> Step(f, n)]
<1>0. LenIn(q) = upTo[Len(q)]
  BY DEF LenIn
<1>1. Len(q) \in Nat /\ \A n \in 1..Len(q) : q[n].len \in Nat
  BY CallFacts
<1>2. 0 \in D
  <2> DEFINE f == [i \in 0..0 |-> 0]
  <2>1. f \in [0..0 -> Nat] /\ \A i \in 0..0 : f[i] = Step(f, i)
    OBVIOUS
  <2> HIDE DEF f, Step
  <2>2. Defined(0)
    BY <2>1
  <2> QED
    BY <1>1, <2>2
<1>3. ASSUME NEW k \in 0..(Len(q) - 1), k \in D PROVE k + 1 \in D
  <2>1. k + 1 \in 1..Len(q) /\ k \in Nat /\ k + 1 \in 0..Len(q)
    BY <1>1
  <2>2. PICK f \in [0..k -> Nat] : \A i \in 0..k : f[i] = Step(f, i)
    BY <1>3
  <2> DEFINE g == [i \in 0..(k + 1) |-> IF i = k + 1 THEN f[k] + q[k + 1].len ELSE f[i]]
  <2>3. f[k] + q[k + 1].len \in Nat
    BY <1>1, <2>1, <2>2
  <2>4. g \in [0..(k + 1) -> Nat]
    <3>1. ASSUME NEW i \in 0..(k + 1), i # k + 1 PROVE i \in 0..k
      BY <2>1, <3>1
    <3> QED
      BY <2>2, <2>3, <3>1
  <2>5. /\ \A i \in 0..(k + 1) : i # 0 => g[i - 1] = f[i - 1]
        /\ \A i \in 0..k : g[i] = f[i]
        /\ g[k + 1] = f[k] + q[k + 1].len
    BY <2>1
  <2> HIDE DEF g
  <2>6. ASSUME NEW i \in 0..(k + 1) PROVE g[i] = Step(g, i)
    <3>1. CASE i = k + 1
      BY <2>1, <2>5, <3>1
    <3>2. CASE i # k + 1
      <4>1. i \in 0..k
        BY <2>1, <3>2
      <4>2. Step(g, i) = Step(f, i)
        BY <2>5
      <4> HIDE DEF Step
      <4> QED
        BY <2>2, <2>5, <4>1, <4>2
    <3> QED
      BY <3>1, <3>2
  <2> HIDE DEF Step
  <2>7. Defined(k + 1)
    BY <2>4, <2>6
  <2> HIDE DEF Defined
  <2> QED
    BY <2>1, <2>7
<1>4. Len(q) \in D
  <2> HIDE DEF D
  <2>1. \A i \in 0..Len(q) : i \in D
    BY <1>1, <1>2, <1>3, UpTo
  <2>2. Len(q) \in 0..Len(q)
    BY <1>1
  <2> QED
    BY <2>1, <2>2
<1>5. upTo = [n \in 0..Len(q) |-> Step(upTo, n)]
  <2> HIDE DEF Step
  <2>1. PICK f \in [0..Len(q) -> Nat] : \A i \in 0..Len(q) : f[i] = Step(f, i)
    BY <1>4
  <2>2. f = [n \in 0..Len(q) |-> Step(f, n)]
    BY <2>1
  <2> QED
    BY <2>2
<1> HIDE DEF upTo
<1>6. \A n \in 0..Len(q) : upTo[n] = Step(upTo, n)
  <2> HIDE DEF Step
  <2> QED
    BY <1>5
<1> DEFINE N == {n \in 0..Len(q) : upTo[n] \in Nat}
<1>7. 0 \in N
  BY <1>1, <1>6
<1>8. ASSUME NEW k \in 0..(Len(q) - 1), k \in N PROVE k + 1 \in N
  <2>1. k + 1 \in 1..Len(q) /\ k + 1 \in 0..Len(q) /\ k + 1 # 0 /\ (k + 1) - 1 = k
    BY <1>1
  <2>2. upTo[k + 1] = upTo[k] + q[k + 1].len
    BY <1>6, <2>1
  <2> QED
    BY <1>1, <1>8, <2>1, <2>2
<1>9. Len(q) \in N
  <2> HIDE DEF N
  <2>1. \A i \in 0..Len(q) : i \in N
    BY <1>1, <1>7, <1>8, UpTo
  <2>2. Len(q) \in 0..Len(q)
    BY <1>1
  <2> QED
    BY <2>1, <2>2
<1> QED
  BY <1>0, <1>9

LEMMA UserCallbackFacts ==
  ASSUME TypeOK, NEW hook \in Hooks, NEW s,
         NEW before \in Seq(Calls), NEW after \in Seq(Calls),
         UserCallback(hook, s, before, after)
  PROVE  /\ tasks' \in Seq(Calls)
         /\ held' \subseteq Holders
         /\ accepted' \in 0..MaxBytes
         /\ HasForce(before) => HasForce(tasks')
<1>1. PICK script \in Scripts[hook] :
             /\ tasks' = before \o Accepted(script, s) \o after
             /\ accepted' = accepted + LenIn(Accepted(script, s))
             /\ accepted' <= MaxBytes
             /\ held' \in SUBSET Holders
  BY DEF UserCallback
<1>2. Accepted(script, s) \in Seq(Calls)
  BY AcceptedType, ConnectionAssumption
<1>3. tasks' \in Seq(Calls) /\ (HasForce(before) => HasForce(tasks'))
  BY <1>1, <1>2, ConcatForce
<1>4. accepted' \in 0..MaxBytes
  <2>1. LenIn(Accepted(script, s)) \in Nat
    BY <1>2, LenInType
  <2>2. accepted \in Nat /\ MaxBytes \in Nat
    BY ConnectionAssumption DEF TypeOK
  <2> QED
    BY <1>1, <2>1, <2>2
<1> QED
  BY <1>1, <1>3, <1>4

LEMMA ReleaseType ==
  ASSUME TypeOK, NEW e \in EventSources, Release(e)
  PROVE  es' \in EventSources /\ alive' \in BOOLEAN
BY DisableAllFacts DEF Release

(* What an invoked closure leaves has its type. *)
LEMMA InvokeType ==
  ASSUME TypeOK, NEW c \in Calls, NEW q \in Seq(Calls), Invoke(c, q)
  PROVE  /\ state' \in {"Disconnecting", "Closed", state}
         /\ es' \in EventSources /\ alive' \in BOOLEAN
         /\ bufOut' \in {Null} \cup Nat
         /\ inMap' \in BOOLEAN
         /\ tasks' \in Seq(Calls)
         /\ held' \subseteq Holders
         /\ closedCalls' \in 0..2
         /\ accepted' \in 0..MaxBytes
<1> DEFINE Typed == /\ state' \in {"Disconnecting", "Closed", state}
                    /\ es' \in EventSources /\ alive' \in BOOLEAN
                    /\ bufOut' \in {Null} \cup Nat
                    /\ inMap' \in BOOLEAN
                    /\ tasks' \in Seq(Calls)
                    /\ held' \subseteq Holders
                    /\ closedCalls' \in 0..2
                    /\ accepted' \in 0..MaxBytes
<1>0. /\ es \in EventSources /\ bufOut \in {Null} \cup Nat /\ inMap \in BOOLEAN
      /\ held \subseteq Holders /\ closedCalls \in 0..2 /\ accepted \in 0..MaxBytes
  BY DEF TypeOK
<1>1. "closed" \in Hooks /\ <<>> \in Seq(Calls)
  BY DEF Hooks
<1>2. CountClosed => closedCalls' \in 0..2
  BY <1>0 DEF CountClosed
<1>3. CASE RunClose(q)
  BY <1>0, <1>1, <1>2, <1>3, UserCallbackFacts, ReleaseType DEF RunClose, Removed
<1>4. CASE RunCloseLater(q)
  BY <1>0, <1>4, ReleaseType DEF RunCloseLater, NoUserCallback
<1>5. CASE RunForceClose(q)
  <2>1. es' \in EventSources /\ alive' \in BOOLEAN
    BY <1>0, <1>5, InterestOpsFacts, ReleaseType DEF RunForceClose
  <2>2. CASE StillInMap
    BY <1>0, <1>1, <1>2, <1>5, <2>1, <2>2, UserCallbackFacts DEF RunForceClose, Removed
  <2>3. CASE ~StillInMap
    BY <1>0, <1>5, <2>1, <2>3 DEF RunForceClose, NoUserCallback
  <2> QED
    BY <2>2, <2>3
<1>6. CASE RunWrite(q, c.len)
  <2>1. CASE WriteRefused
    BY <1>0, <1>6, <2>1, CallFacts, AppendForce, ReleaseType DEF RunWrite, NoUserCallback
  <2>2. CASE ~WriteRefused
    <3>1. bufOut' \in Nat
      BY <1>0, <1>6, <2>2, CallFacts DEF RunWrite, Null
    <3>2. EnableWriting \in EventSources
      BY <1>0, EnableOpsFacts DEF EnableWriting, Ops
    <3> QED
      BY <1>0, <1>6, <2>2, <3>1, <3>2, ReleaseType DEF RunWrite, NoUserCallback
  <2> QED
    BY <2>1, <2>2
<1> QED
  BY <1>3, <1>4, <1>5, <1>6 DEF Invoke

(* Type correctness, for every user: every queue is a queue of closures,   *)
(* buffer_out_ never has a negative number of bytes.                       *)
THEOREM TypeCorrect == Spec => []TypeOK
<1>1. Init => TypeOK
  <2>1. NewEventSource \in EventSources /\ <<>> \in Seq(Calls)
    BY NewEventSourceFacts
  <2>2. 1 \in Nat \ {0} /\ 0 \in 0..2 /\ 0 \in 0..MaxBytes /\ 0 \in Nat
    BY ConnectionAssumption
  <2> QED
    BY <2>1, <2>2 DEF Init, TypeOK
<1>2. TypeOK /\ [Next]_vars => TypeOK'
  <2> SUFFICES ASSUME TypeOK, [Next]_vars PROVE TypeOK'
    OBVIOUS
  <2> USE DEF queues
  <2>0. /\ "established" \in Hooks /\ "read" \in Hooks /\ "error" \in Hooks
        /\ <<>> \in Seq(Calls) /\ <<ForceCloseTask>> \in Seq(Calls)
        /\ tasks \in Seq(Calls) /\ es \in EventSources
    BY CallFacts DEF Hooks, TypeOK
  <2>1. CASE OnNewConnection
    <3>1. EnableOps(NewEventSource, "IN") \in EventSources
      BY NewEventSourceFacts, EnableOpsFacts DEF Ops
    <3> QED
      BY <2>0, <2>1, <3>1, UserCallbackFacts, ReleaseType DEF OnNewConnection, TypeOK
  <2>2. CASE PeerShut \/ PeerReset
    BY <2>2 DEF PeerShut, PeerReset, TypeOK
  <2>3. ASSUME NEW r \in SUBSET {"IN", "OUT", "ERR"}, Poll(r) PROVE TypeOK'
    BY <2>3 DEF Poll, TypeOK, Ops
  <2>4. ASSUME NEW kind \in {"uaf", "null", "assert"}, Fault(kind) PROVE TypeOK'
    BY <2>4 DEF Fault, TypeOK
  <2>5. CASE StaleEventSource \/ ReadErrorDropped \/ HandleWriteAssert
    BY <2>4, <2>5 DEF StaleEventSource, ReadErrorDropped, HandleWriteAssert
  <2>6. CASE NothingReady \/ NoReading \/ NoWriting
    BY <2>6 DEF NothingReady, NoReading, NoWriting, TypeOK
  <2>7. CASE HandleError
    BY <2>0, <2>7, CallFacts, AppendForce, DisableAllFacts, ReleaseType
    DEF HandleError, TypeOK
  <2>8. CASE ReadError
    BY <2>0, <2>8, UserCallbackFacts, ReleaseType DEF ReadError, Reading, TypeOK
  <2>9. CASE ReadEof
    <3>1. DisableOps(es, "IN") \in EventSources
      BY <2>0, DisableOpsFacts DEF Ops
    <3> QED
      BY <2>0, <2>9, <3>1, CallFacts, AppendForce, ReleaseType
      DEF ReadEof, Reading, NoUserCallback, TypeOK
  <2>10. CASE ReadData
    <3>1. tasks' \in Seq(Calls) /\ held' \subseteq Holders /\ accepted' \in 0..MaxBytes
      BY <2>0, <2>10, UserCallbackFacts DEF ReadData
    <3>2. es' \in EventSources /\ alive' \in BOOLEAN
      BY <2>0, <2>10, ReleaseType DEF ReadData
    <3> QED
      BY <2>10, <3>1, <3>2 DEF ReadData, Reading, TypeOK
  <2>11. CASE WriteError
    <3>1. Append(tasks, ForceCloseTask) \in Seq(Calls)
      BY <2>0, CallFacts, AppendForce
    <3> QED
      BY <2>0, <2>11, <3>1, UserCallbackFacts, ReleaseType DEF WriteError, Writing, TypeOK
  <2>12. CASE WriteNothing
    BY <2>0, <2>12, CallFacts, AppendForce, ReleaseType
    DEF WriteNothing, Writing, NoUserCallback, TypeOK
  <2>13. ASSUME NEW total \in 1..bufOut, WriteBytes(total) PROVE TypeOK'
    <3>1. bufOut' \in Nat
      BY <2>13 DEF WriteBytes, Written, TypeOK, Null
    <3>2. tasks' \in Seq(Calls)
      BY <2>0, <2>13, CallFacts, AppendForce DEF WriteBytes, NoUserCallback
    <3>3. es' \in EventSources /\ alive' \in BOOLEAN
      <4>1. DisableOps(es, "OUT") \in EventSources
        BY <2>0, DisableOpsFacts DEF Ops
      <4> QED
        BY <2>0, <2>13, <4>1, ReleaseType DEF WriteBytes
    <3>4. taken' \in Nat
      BY <2>13 DEF WriteBytes, TypeOK, Null
    <3> QED
      BY <2>13, <3>1, <3>2, <3>3, <3>4 DEF WriteBytes, Writing, NoUserCallback, TypeOK
  <2>14. CASE Swap
    BY <2>0, <2>14 DEF Swap, TypeOK
  <2>15. CASE RunCallback
    <3>1. batch[next] \in Calls
      BY <2>15 DEF RunCallback, TypeOK
    <3>2. CASE InvokeFault(batch[next])
      BY <2>4, <3>2 DEF InvokeFault
    <3>3. CASE Invoke(batch[next], tasks) /\ next' = next + 1
               /\ UNCHANGED <<pending, batch, phase, ready, remote, peer, fault, taken>>
      <4>1. next' \in Nat \ {0}
        BY <3>3 DEF TypeOK
      <4> QED
        BY <2>0, <3>1, <3>3, <4>1, InvokeType DEF TypeOK
    <3> QED
      BY <2>15, <3>2, <3>3 DEF RunCallback
  <2>16. CASE CallbacksDone
    BY <2>16 DEF CallbacksDone, TypeOK
  <2>17. CASE RunTask
    <3>1. Head(tasks) \in Calls /\ Tail(tasks) \in Seq(Calls)
      BY <2>0, <2>17, TailForce DEF RunTask
    <3>2. CASE InvokeFault(Head(tasks))
      BY <2>4, <3>2 DEF InvokeFault
    <3>3. CASE Invoke(Head(tasks), Tail(tasks))
               /\ UNCHANGED <<queues, phase, ready, remote, peer, fault, taken>>
      <4>1. /\ state' \in {"Disconnecting", "Closed", state}
            /\ es' \in EventSources /\ alive' \in BOOLEAN
            /\ bufOut' \in {Null} \cup Nat
            /\ inMap' \in BOOLEAN
            /\ tasks' \in Seq(Calls)
            /\ held' \subseteq Holders
            /\ closedCalls' \in 0..2
            /\ accepted' \in 0..MaxBytes
        BY <3>1, <3>3, InvokeType
      <4> QED
        BY <3>3, <4>1 DEF TypeOK, queues
    <3> QED
      BY <2>17, <3>2, <3>3 DEF RunTask
  <2>18. CASE TasksDone
    BY <2>0, <2>18, ReleaseType DEF TasksDone, TypeOK
  <2>19. CASE RemoteCheck
    BY <2>19 DEF RemoteCheck, TypeOK
  <2>20. ASSUME NEW c \in RemoteCalls, RemotePost(c) PROVE TypeOK'
    <3>1. c \in Calls
      BY ConnectionAssumption
    <3>2. pending' \in Seq(Calls)
      BY <2>20, <3>1, AppendForce DEF RemotePost, TypeOK
    <3>3. accepted' \in 0..MaxBytes
      BY <2>20, <3>1, CallFacts, ConnectionAssumption DEF RemotePost, TypeOK
    <3> QED
      BY <2>20, <3>2, <3>3 DEF RemotePost, TypeOK
  <2>21. CASE RemoteDrop
    BY <2>0, <2>21, ReleaseType DEF RemoteDrop, TypeOK
  <2>22. CASE UNCHANGED vars
    BY <2>22 DEF vars, TypeOK
  <2> QED
    BY <2>1, <2>2, <2>3, <2>5, <2>6, <2>7, <2>8, <2>9, <2>10, <2>11, <2>12, <2>13,
       <2>14, <2>15, <2>16, <2>17, <2>18, <2>19, <2>20, <2>21, <2>22
    DEF Next, LoopNext, PollNext, RemoteNext
<1> QED
  BY <1>1, <1>2, PTL DEF Spec
----------------------------------------------------------------------------
(* The invariant of an open connection. *)

IInv == TypeOK /\ OpenInv

(* The parts of OpenInv, in the words of the lemmas above. *)
OpenFacts ==
  /\ state = "New" <=> phase = "new"
  /\ state = "New" => es = NewEventSource /\ bufOut = Null /\ alive /\ held = {}
  /\ state \in {"Receiving", "Disconnecting"} => inMap /\ alive /\ Agrees(es)
  /\ state = "Closed" => ~HasBytesToWrite
  /\ state # "Closed" /\ "OUT" \in es.interest => HasBytesToWrite
  /\ state = "Receiving" /\ HasBytesToWrite => "OUT" \in es.armed \/ HasForce(tasks)

LEMMA OpenParts == TypeOK => (OpenInv <=> OpenFacts)
<1> SUFFICES ASSUME TypeOK PROVE OpenInv <=> OpenFacts
  OBVIOUS
<1>1. es.watched \in BOOLEAN
  BY DEF TypeOK, EventSources
<1>2. EpollAgrees <=> (state \in {"Receiving", "Disconnecting"} => Agrees(es))
  BY <1>1 DEF EpollAgrees, Agrees
<1>3. WritingHasBytes <=> (state # "Closed" /\ "OUT" \in es.interest => HasBytesToWrite)
  BY DEF WritingHasBytes
<1>4. BytesHaveWriter <=> (state = "Receiving" /\ HasBytesToWrite =>
                             "OUT" \in es.armed \/ HasForce(tasks))
  BY DEF BytesHaveWriter, ForceQueued, HasForce
<1> QED
  BY <1>2, <1>3, <1>4 DEF OpenInv, OpenFacts

LEMMA OpenPartsNext == TypeOK' => (OpenInv' <=> OpenFacts')
BY OpenParts, PTL

(* A step that leaves the connection's own state alone. *)
LEMMA QuietStep ==
  ASSUME IInv, TypeOK', UNCHANGED <<state, es, bufOut, inMap, alive, tasks>>,
         phase' = "new" <=> phase = "new",
         phase = "new" => held' = held
  PROVE  OpenInv'
<1>1. HasBytesToWrite' <=> HasBytesToWrite
  BY DEF HasBytesToWrite
<1> QED
  BY <1>1, OpenParts, OpenPartsNext DEF IInv, OpenFacts

(* A step that closes it, or finds it closed, with nothing to write. *)
LEMMA ClosedStep ==
  ASSUME TypeOK', state' = "Closed", phase' # "new", ~HasBytesToWrite'
  PROVE  OpenInv'
BY OpenPartsNext DEF OpenFacts

(* A step of an established connection that closes nothing and leaves the  *)
(* event source e.                                                         *)
LEMMA OpenStep ==
  ASSUME IInv, TypeOK', phase # "new", phase' # "new", inMap' = inMap,
         state' \in {state, "Disconnecting"}, state # "Closed",
         NEW e \in EventSources, Release(e),
         Agrees(es) => Agrees(e),
         "OUT" \in e.interest => HasBytesToWrite',
         state' = "Receiving" /\ HasBytesToWrite' =>
           "OUT" \in e.armed \/ HasForce(tasks)'
  PROVE  OpenInv'
<1>1. state \in {"Receiving", "Disconnecting"}
  BY OpenParts DEF OpenFacts, IInv, TypeOK
<1>2. inMap /\ alive /\ Agrees(es)
  BY <1>1, OpenParts DEF OpenFacts, IInv
<1>3. inMap' /\ alive' /\ es' = e
  BY <1>2 DEF Release, HasReference
<1> QED
  BY <1>1, <1>2, <1>3, OpenPartsNext DEF OpenFacts

(* The same, whatever the state, for the steps of the event handlers. *)
LEMMA HandlerStep ==
  ASSUME IInv, TypeOK', phase # "new", phase' # "new", UNCHANGED <<state, inMap>>,
         NEW e \in EventSources, Release(e),
         Agrees(es) => Agrees(e),
         HasBytesToWrite' => HasBytesToWrite,
         state # "Closed" /\ "OUT" \in e.interest => HasBytesToWrite',
         state = "Receiving" /\ HasBytesToWrite' =>
           "OUT" \in e.armed \/ HasForce(tasks)'
  PROVE  OpenInv'
<1>1. CASE state = "Closed"
  <2>1. ~HasBytesToWrite
    BY <1>1, OpenParts DEF OpenFacts, IInv
  <2> QED
    BY <1>1, <2>1, ClosedStep
<1>2. CASE state # "Closed"
  BY <1>2, OpenStep
<1> QED
  BY <1>1, <1>2

(* An invoked closure: close() and force_close() leave nothing to write,   *)
(* or keep a disconnecting connection open; write() arms what it adds.     *)
LEMMA InvokeOpen ==
  ASSUME IInv, TypeOK', phase # "new", phase' # "new",
         NEW c \in Calls, NEW q \in Seq(Calls), Invoke(c, q),
         HasForce(tasks) /\ c.op # "force_close" => HasForce(q)
  PROVE  OpenInv' /\ (state = "Closed" => state' = "Closed")
<1> DEFINE Goal == OpenInv' /\ (state = "Closed" => state' = "Closed")
<1>0. /\ es \in EventSources /\ bufOut \in {Null} \cup Nat
      /\ state = "Closed" => ~HasBytesToWrite
      /\ state # "New"
      /\ state # "Closed" /\ "OUT" \in es.interest => HasBytesToWrite
      /\ state = "Receiving" /\ HasBytesToWrite => "OUT" \in es.armed \/ HasForce(tasks)
      /\ state \in {"Receiving", "Disconnecting"} => Agrees(es)
  BY OpenParts DEF OpenFacts, IInv, TypeOK
<1>1. CASE c.op = "close" /\ RunClose(q)
  <2>1. state' = "Closed" /\ ~HasBytesToWrite'
    BY <1>1 DEF RunClose, HasBytesToWrite
  <2> QED
    BY <2>1, ClosedStep
<1>2. CASE c.op = "close" /\ RunCloseLater(q)
  <2>1. /\ HasBytesToWrite /\ HasBytesToWrite' /\ state' = "Disconnecting"
        /\ inMap' = inMap /\ Release(es)
    BY <1>2 DEF RunCloseLater, HasBytesToWrite
  <2>2. state # "Closed"
    BY <1>0, <2>1
  <2> QED
    BY <1>0, <2>1, <2>2, OpenStep
<1>3. CASE c.op = "force_close" /\ RunForceClose(q)
  <2>1. state' = "Closed" /\ ~HasBytesToWrite'
    BY <1>3 DEF RunForceClose, HasBytesToWrite
  <2> QED
    BY <2>1, ClosedStep
<1>4. CASE c.op = "write" /\ RunWrite(q, c.len)
  <2>1. CASE state = "Closed"
    <3>1. state' = "Closed" /\ ~HasBytesToWrite'
      BY <1>0, <1>4, <2>1 DEF RunWrite, WriteRefused, HasBytesToWrite
    <3> QED
      BY <3>1, ClosedStep
  <2>2. CASE state # "Closed"
    <3>1. HasBytesToWrite'
      BY <1>0, <1>4, <2>2, CallFacts DEF RunWrite, WriteRefused, HasBytesToWrite, Null
    <3>2. /\ EnableWriting \in EventSources
          /\ EnableWriting.interest = es.interest \cup {"OUT"}
          /\ Agrees(es) => Agrees(EnableWriting)
      BY <1>0, EnableOpsFacts DEF EnableWriting, Ops
    <3>3. "OUT" \in EnableWriting.armed
      BY <1>0, <2>2, <3>2 DEF IInv, TypeOK, Agrees
    <3>4. UNCHANGED <<state, inMap>> /\ Release(EnableWriting)
      BY <1>4, <2>2 DEF RunWrite, WriteRefused
    <3> QED
      BY <2>2, <3>1, <3>2, <3>3, <3>4, OpenStep
  <2> QED
    BY <2>1, <2>2
<1> QED
  BY <1>1, <1>2, <1>3, <1>4 DEF Invoke

(* Every step keeps an open connection consistent, and a closed one        *)
(* closed.                                                                 *)
LEMMA OpenPreserved ==
  ASSUME IInv, TypeOK', [Next]_vars
  PROVE  OpenInv' /\ (state = "Closed" => state' = "Closed")
<1> USE DEF queues
<1> DEFINE Goal == OpenInv' /\ (state = "Closed" => state' = "Closed")
<1>0. /\ "established" \in Hooks /\ "read" \in Hooks /\ "error" \in Hooks
      /\ <<>> \in Seq(Calls) /\ <<ForceCloseTask>> \in Seq(Calls)
      /\ tasks \in Seq(Calls) /\ es \in EventSources /\ TypeOK
  BY CallFacts DEF Hooks, TypeOK, IInv
<1>00. /\ state = "New" <=> phase = "new"
       /\ state = "New" => es = NewEventSource /\ bufOut = Null /\ held = {}
       /\ state # "Closed" /\ "OUT" \in es.interest => HasBytesToWrite
       /\ state = "Receiving" /\ HasBytesToWrite => "OUT" \in es.armed \/ HasForce(tasks)
       /\ state \in {"Receiving", "Disconnecting"} => Agrees(es)
  BY OpenParts DEF OpenFacts, IInv
<1>1. CASE OnNewConnection
  <2> DEFINE e == EnableOps(NewEventSource, "IN")
  <2>1. e \in EventSources /\ e.interest = {"IN"} /\ Agrees(e)
    BY NewEventSourceFacts, EnableOpsFacts DEF Ops
  <2>2. bufOut' = Null /\ inMap' /\ state' = "Receiving" /\ phase' = "swap" /\ alive /\ state = "New"
    BY <1>1, <1>00, OpenParts DEF OpenFacts, OnNewConnection, IInv
  <2>3. ~HasBytesToWrite'
    BY <2>2 DEF HasBytesToWrite, Null
  <2>4. alive' /\ es' = e
    BY <1>1, <2>2 DEF OnNewConnection, Release, HasReference
  <2> HIDE DEF e
  <2> QED
    BY <2>1, <2>2, <2>3, <2>4, OpenPartsNext DEF OpenFacts
<1>2. CASE PeerShut \/ PeerReset \/ PollNext
  BY <1>2, QuietStep DEF PeerShut, PeerReset, PollNext, Poll
<1>3. CASE StaleEventSource \/ ReadErrorDropped \/ HandleWriteAssert
  BY <1>3, QuietStep DEF StaleEventSource, ReadErrorDropped, HandleWriteAssert, Fault
<1>4. CASE NothingReady \/ NoReading \/ NoWriting \/ CallbacksDone \/ Swap
  BY <1>4, QuietStep DEF NothingReady, NoReading, NoWriting, CallbacksDone, Swap
<1>5. CASE HandleError
  <2>1. /\ phase # "new" /\ phase' # "new" /\ UNCHANGED <<state, inMap, bufOut>>
        /\ tasks' = Append(tasks, ForceCloseTask) /\ Release(DisableAll(es))
    BY <1>5 DEF HandleError
  <2>2. /\ DisableAll(es) \in EventSources /\ DisableAll(es).interest = {}
        /\ Agrees(es) => Agrees(DisableAll(es))
    BY <1>0, DisableAllFacts
  <2>3. HasForce(tasks)'
    BY <1>0, <2>1, CallFacts, AppendForce
  <2>4. HasBytesToWrite' <=> HasBytesToWrite
    BY <2>1 DEF HasBytesToWrite
  <2> QED
    BY <2>1, <2>2, <2>3, <2>4, HandlerStep
<1>6. ASSUME phase # "new", phase' # "new", UNCHANGED <<state, inMap, bufOut>>, Release(es),
             HasForce(tasks) => HasForce(tasks)'
      PROVE  Goal
  <2>1. HasBytesToWrite' <=> HasBytesToWrite
    BY <1>6 DEF HasBytesToWrite
  <2> QED
    BY <1>0, <1>00, <1>6, <2>1, HandlerStep
<1>7. CASE ReadError \/ ReadData
  BY <1>0, <1>6, <1>7, UserCallbackFacts DEF ReadError, ReadData, Reading
<1>8. CASE WriteError
  <2>1. Append(tasks, ForceCloseTask) \in Seq(Calls) /\ HasForce(Append(tasks, ForceCloseTask))
    BY <1>0, CallFacts, AppendForce
  <2> QED
    BY <1>0, <1>6, <1>8, <2>1, UserCallbackFacts DEF WriteError, Writing
<1>9. CASE WriteNothing
  BY <1>0, <1>6, <1>9, CallFacts, AppendForce DEF WriteNothing, Writing, NoUserCallback
<1>10. CASE ReadEof
  <2> DEFINE e == DisableOps(es, "IN")
  <2>1. /\ phase # "new" /\ phase' # "new" /\ UNCHANGED <<state, inMap, bufOut>>
        /\ tasks' = Append(tasks, CloseTask) /\ Release(e)
    BY <1>10 DEF ReadEof, Reading, NoUserCallback
  <2>2. /\ e \in EventSources /\ e.interest = es.interest \ {"IN"}
        /\ Agrees(es) => Agrees(e)
    BY <1>0, DisableOpsFacts DEF Ops
  <2>3. HasForce(tasks) => HasForce(tasks)'
    BY <1>0, <2>1, CallFacts, AppendForce
  <2>4. HasBytesToWrite' <=> HasBytesToWrite
    BY <2>1 DEF HasBytesToWrite
  <2>5. state = "Receiving" /\ "OUT" \in es.armed => "OUT" \in e.armed
    BY <1>00, <2>2 DEF Agrees
  <2> HIDE DEF e
  <2> QED
    BY <1>00, <2>1, <2>2, <2>3, <2>4, <2>5, HandlerStep
<1>11. ASSUME NEW total \in 1..bufOut, WriteBytes(total) PROVE Goal
  <2>1. /\ phase # "new" /\ phase' # "new" /\ UNCHANGED <<state, inMap>>
        /\ HasBytesToWrite /\ bufOut' = bufOut - total
        /\ tasks' \in {tasks, Append(tasks, CloseTask)}
    BY <1>11 DEF WriteBytes, Writing, Written, NoUserCallback
  <2>2. HasForce(tasks) => HasForce(tasks)'
    BY <1>0, <2>1, CallFacts, AppendForce
  <2>3. CASE WriteDone(total)
    <3> DEFINE e == DisableOps(es, "OUT")
    <3>1. /\ e \in EventSources /\ e.interest = es.interest \ {"OUT"}
          /\ Agrees(es) => Agrees(e)
      BY <1>0, DisableOpsFacts DEF Ops
    <3>2. Release(e)
      BY <1>11, <2>3 DEF WriteBytes
    <3>3. ~(state = "Receiving" /\ HasBytesToWrite')
      BY <2>1, <2>3 DEF WriteDone, Written, HasBytesToWrite
    <3> HIDE DEF e
    <3> QED
      BY <2>1, <3>1, <3>2, <3>3, HandlerStep
  <2>4. CASE ~WriteDone(total)
    <3>1. Release(es)
      BY <1>11, <2>4 DEF WriteBytes
    <3>2. HasBytesToWrite'
      BY <1>0, <1>11, <2>1, <2>4 DEF WriteDone, Written, HasBytesToWrite, TypeOK, Null
    <3> QED
      BY <1>0, <1>00, <2>1, <2>2, <3>1, <3>2, HandlerStep
  <2> QED
    BY <2>3, <2>4
<1>12. CASE RunCallback
  <2>1. batch[next] \in Calls
    BY <1>0, <1>12 DEF RunCallback, TypeOK
  <2>2. CASE InvokeFault(batch[next])
    BY <1>12, <2>2, QuietStep DEF RunCallback, InvokeFault, Fault
  <2>3. CASE Invoke(batch[next], tasks) /\ UNCHANGED phase
    BY <1>0, <1>12, <2>1, <2>3, InvokeOpen DEF RunCallback
  <2> QED
    BY <1>12, <2>2, <2>3 DEF RunCallback
<1>13. CASE RunTask
  <2>1. /\ Head(tasks) \in Calls /\ Tail(tasks) \in Seq(Calls)
        /\ HasForce(tasks) /\ Head(tasks).op # "force_close" => HasForce(Tail(tasks))
    BY <1>0, <1>13, TailForce DEF RunTask
  <2>2. CASE InvokeFault(Head(tasks))
    BY <1>13, <2>2, QuietStep DEF RunTask, InvokeFault, Fault
  <2>3. CASE Invoke(Head(tasks), Tail(tasks)) /\ UNCHANGED phase
    BY <1>13, <2>1, <2>3, InvokeOpen DEF RunTask
  <2> QED
    BY <1>13, <2>2, <2>3 DEF RunTask
<1>14. CASE TasksDone
  BY <1>6, <1>14 DEF TasksDone
<1>15. CASE RemoteCheck \/ (\E c \in RemoteCalls : RemotePost(c))
  BY <1>15, QuietStep DEF RemoteCheck, RemotePost
<1>16. CASE RemoteDrop
  BY <1>00, <1>6, <1>16 DEF RemoteDrop, RemoteHolds
<1>17. CASE UNCHANGED vars
  BY <1>17, QuietStep DEF vars
<1> QED
  BY <1>1, <1>2, <1>3, <1>4, <1>5, <1>7, <1>8, <1>9, <1>10, <1>11, <1>12, <1>13, <1>14,
     <1>15, <1>16, <1>17
  DEF Next, LoopNext, RemoteNext

----------------------------------------------------------------------------
(* The theorems. *)

(* The inductive invariant of the connection.  *)
THEOREM ConnectionInvariant == Spec => []OpenInv
<1>1. Init => OpenInv
  <2> SUFFICES ASSUME Init PROVE OpenInv
    OBVIOUS
  <2>1. state = "New" /\ phase = "new" /\ es = NewEventSource /\ bufOut = Null /\ alive /\ held = {}
    BY DEF Init
  <2>2. "OUT" \notin es.interest
    BY <2>1, NewEventSourceFacts
  <2> QED
    BY <2>1, <2>2 DEF OpenInv, EpollAgrees, WritingHasBytes, BytesHaveWriter
<1>2. TypeOK /\ TypeOK' /\ OpenInv /\ [Next]_vars => OpenInv'
  BY OpenPreserved DEF IInv
<1> QED
  BY <1>1, <1>2, TypeCorrect, PTL DEF Spec

(* What epoll watches for an open connection is what its event source is   *)
(* interested in, for every user.                                          *)
THEOREM EpollInSync == Spec => []EpollAgrees
<1>1. OpenInv => EpollAgrees
  BY DEF OpenInv
<1> QED
  BY <1>1, ConnectionInvariant, PTL

(* An open connection that waits to write has bytes to write. *)
THEOREM WaitsWithBytes == Spec => []WritingHasBytes
<1>1. OpenInv => WritingHasBytes
  BY DEF OpenInv
<1> QED
  BY <1>1, ConnectionInvariant, PTL

(* While the connection receives, every byte in buffer_out_ has a write    *)
(* armed for it or the closure that discards it queued.                    *)
THEOREM BytesNotStranded == Spec => []BytesHaveWriter
<1>1. OpenInv => BytesHaveWriter
  BY DEF OpenInv
<1> QED
  BY <1>1, ConnectionInvariant, PTL

(* No closure that was queued before it was closed, and no write() that    *)
(* raced with it, reopens a connection.                                    *)
THEOREM StaysClosed == Spec => ClosedIsFinal
<1>1. TypeOK /\ TypeOK' /\ OpenInv /\ [Next]_vars =>
        [state = "Closed" => state' = "Closed"]_vars
  BY OpenPreserved DEF IInv
<1> QED
  BY <1>1, TypeCorrect, ConnectionInvariant, PTL DEF Spec, ClosedIsFinal

----------------------------------------------------------------------------
(* The lifetime of the connection of a careful user. *)

(* Epoll knows the descriptor exactly while the event source is registered. *)
Tracked(e) ==
  /\ e.watched <=> e.state = "Registered"
  /\ ~e.watched => e.armed = {}

LEMMA TrackedOps ==
  ASSUME NEW e \in EventSources, NEW op \in Ops, Tracked(e)
  PROVE  /\ Tracked(EnableOps(e, op)) /\ Tracked(DisableOps(e, op))
         /\ Tracked(DisableAll(e)) /\ ~DisableAll(e).watched
         /\ Tracked(InterestOps(e, {}))
<1> USE DEF EventSources, Tracked, Ops
<1>1. Tracked(EnableOps(e, op))
  BY DEF EnableOps, RegisterEvent, ModifyEvent
<1>2. Tracked(DisableOps(e, op))
  BY DEF DisableOps, UnregisterEvent, ModifyEvent
<1>3. Tracked(DisableAll(e)) /\ ~DisableAll(e).watched
  BY DEF DisableAll, UnregisterEvent
<1>4. Tracked(InterestOps(e, {}))
  BY DEF InterestOps
<1> QED
  BY <1>1, <1>2, <1>3, <1>4

LEMMA SelfConcat ==
  ASSUME NEW p \in Seq(Calls), NEW q \in Seq(Calls), AllSelf(q)
  PROVE  /\ AllSelf(p) => AllSelf(p \o q)
         /\ ClosesSafely(p) => ClosesSafely(p \o q)
<1>1. /\ DOMAIN (p \o q) = 1..(Len(p) + Len(q)) /\ DOMAIN p = 1..Len(p)
      /\ DOMAIN q = 1..Len(q) /\ Len(p) \in Nat /\ Len(q) \in Nat
      /\ \A i \in 1..(Len(p) + Len(q)) :
           (p \o q)[i] = IF i <= Len(p) THEN p[i] ELSE q[i - Len(p)]
  OBVIOUS
<1>2. \A i \in 1..(Len(p) + Len(q)) : i > Len(p) => (p \o q)[i].ref = "self"
  BY <1>1 DEF AllSelf
<1>3. \A i \in 1..(Len(p) + Len(q)) : i <= Len(p) => i \in 1..Len(p) /\ (p \o q)[i] = p[i]
  BY <1>1
<1>4. AllSelf(p) => AllSelf(p \o q)
  BY <1>1, <1>2, <1>3 DEF AllSelf
<1>5. ASSUME ClosesSafely(p), NEW i \in 1..(Len(p) + Len(q)), NEW j \in 1..(Len(p) + Len(q)),
             i < j, (p \o q)[i].op # "write"
      PROVE  (p \o q)[j].ref = "self"
  <2>1. CASE j <= Len(p)
    <3>1. i <= Len(p)
      BY <1>1, <1>5, <2>1
    <3> QED
      BY <1>1, <1>3, <1>5, <2>1, <3>1 DEF ClosesSafely
  <2>2. CASE ~(j <= Len(p))
    BY <1>1, <1>2, <2>2
  <2> QED
    BY <2>1, <2>2
<1> QED
  BY <1>1, <1>4, <1>5 DEF ClosesSafely

LEMMA SelfAppend ==
  ASSUME NEW q \in Seq(Calls), NEW c \in Calls, c.ref = "self"
  PROVE  /\ AllSelf(q) => AllSelf(Append(q, c))
         /\ ClosesSafely(q) => ClosesSafely(Append(q, c))
<1>1. <<c>> \in Seq(Calls) /\ AllSelf(<<c>>)
  BY DEF AllSelf
<1>2. Append(q, c) = q \o <<c>>
  OBVIOUS
<1> QED
  BY <1>1, <1>2, SelfConcat

LEMMA SelfTail ==
  ASSUME NEW q \in Seq(Calls), q # <<>>
  PROVE  /\ AllSelf(q) => AllSelf(Tail(q))
         /\ ClosesSafely(q) => ClosesSafely(Tail(q))
         /\ ClosesSafely(q) /\ Head(q).op # "write" => AllSelf(Tail(q))
<1>1. /\ Head(q) = q[1] /\ DOMAIN q = 1..Len(q) /\ DOMAIN Tail(q) = 1..(Len(q) - 1)
      /\ Len(q) \in Nat /\ Len(q) > 0
      /\ \A i \in 1..(Len(q) - 1) : Tail(q)[i] = q[i + 1]
  OBVIOUS
<1>2. /\ \A i \in 1..(Len(q) - 1) : i + 1 \in 1..Len(q) /\ 1 < i + 1
      /\ \A i, j \in 1..(Len(q) - 1) : i < j => i + 1 < j + 1
      /\ 1 \in 1..Len(q)
  BY <1>1
<1>3. AllSelf(q) => AllSelf(Tail(q))
  BY <1>1, <1>2 DEF AllSelf
<1>4. ClosesSafely(q) => ClosesSafely(Tail(q))
  BY <1>1, <1>2 DEF ClosesSafely
<1>5. ClosesSafely(q) /\ Head(q).op # "write" => AllSelf(Tail(q))
  BY <1>1, <1>2 DEF ClosesSafely, AllSelf
<1> QED
  BY <1>3, <1>4, <1>5

LEMMA SelfCaptures ==
  ASSUME NEW q \in Seq(Calls), AllSelf(q)
  PROVE  /\ Captures(q) <=> q # <<>>
         /\ ClosesSafely(q)
<1>1. q # <<>> => 1 \in DOMAIN q
  OBVIOUS
<1> QED
  BY <1>1 DEF AllSelf, Captures, ClosesSafely

(* What the callbacks of a careful user leave in task_queue_. *)
LEMMA CarefulCallback ==
  ASSUME TypeOK, CarefulUser, NEW hook \in Hooks, NEW s,
         NEW before \in Seq(Calls), NEW after \in Seq(Calls), AllSelf(after),
         UserCallback(hook, s, before, after)
  PROVE  /\ held' = {}
         /\ before = <<>> => ClosesSafely(tasks')
         /\ hook = "error" /\ ClosesSafely(before) => ClosesSafely(tasks')
         /\ IsClosed(s) /\ AllSelf(before) => AllSelf(tasks')
<1>1. PICK script \in Scripts[hook] :
             /\ tasks' = before \o Accepted(script, s) \o after
             /\ held' \in SUBSET Holders
  BY DEF UserCallback
<1> DEFINE q == Accepted(script, s)
<1>2. script \in Seq(Calls)
  BY ConnectionAssumption
<1>3. DOMAIN script = 1..Len(script) /\ Len(script) \in Nat /\ script \in [1..Len(script) -> Calls]
  BY <1>2
<1>4. \A j \in 1..Len(script) :
        \/ script[j].ref = "self"
        \/ /\ script[j].op = "write" /\ hook # "error"
           /\ \A i \in 1..(j - 1) : script[i].op = "write"
  BY <1>3 DEF CarefulUser
<1>5. q \in Seq(Calls)
  BY <1>2, AcceptedType
<1>6. hook = "error" => AllSelf(q)
  <2> SUFFICES ASSUME hook = "error" PROVE AllSelf(q)
    OBVIOUS
  <2> DEFINE C == {c \in Calls : c.ref = "self"}
  <2>1. script \in [1..Len(script) -> C]
    BY <1>3, <1>4
  <2>2. script \in Seq(C)
    BY <1>3, <2>1
  <2> HIDE DEF C
  <2>3. \A i \in DOMAIN q : q[i] \in C
    BY <2>2, AcceptedType
  <2> QED
    BY <2>3 DEF AllSelf, C
<1>7. IsClosed(s) => AllSelf(q)
  <2> SUFFICES ASSUME IsClosed(s) PROVE AllSelf(q)
    OBVIOUS
  <2> DEFINE C == {c \in Calls : c.ref = "self" \/ c.op = "write"}
  <2>1. script \in [1..Len(script) -> C]
    BY <1>3, <1>4
  <2>2. script \in Seq(C)
    BY <1>3, <2>1
  <2> HIDE DEF C
  <2>3. \A i \in DOMAIN q : q[i] \in C /\ ~Refused(q[i], s)
    BY <2>2, AcceptedType
  <2> QED
    BY <2>3 DEF AllSelf, C, Refused
<1>8. ClosesSafely(q)
  <2>1. CASE IsClosed(s)
    BY <1>5, <1>7, <2>1, SelfCaptures
  <2>2. CASE ~IsClosed(s)
    <3>1. q = script
      BY <1>2, <2>2, AcceptedAll
    <3>2. ASSUME NEW i \in 1..Len(script), NEW j \in 1..Len(script), i < j,
                 script[i].op # "write"
          PROVE  script[j].ref = "self"
      <4>1. i \in 1..(j - 1)
        BY <1>3, <3>2
      <4> QED
        BY <1>4, <3>2, <4>1
    <3> HIDE DEF q
    <3> QED
      BY <1>3, <3>1, <3>2 DEF ClosesSafely
  <2> QED
    BY <2>1, <2>2
<1> HIDE DEF q
<1>9. tasks' = (before \o q) \o after /\ before \o q \in Seq(Calls)
  BY <1>1, <1>5 DEF q
<1>10. before = <<>> => before \o q = q
  BY <1>5
<1>11. before = <<>> => ClosesSafely(tasks')
  BY <1>8, <1>9, <1>10, SelfConcat
<1>12. hook = "error" /\ ClosesSafely(before) => ClosesSafely(tasks')
  BY <1>5, <1>6, <1>9, SelfConcat
<1>13. IsClosed(s) /\ AllSelf(before) => AllSelf(tasks')
  BY <1>5, <1>7, <1>9, SelfConcat
<1>14. held' = {}
  BY <1>1 DEF CarefulUser
<1> QED
  BY <1>11, <1>12, <1>13, <1>14

(* A step after which the connection is open. *)
LEMMA LiveStep ==
  ASSUME TypeOK', OpenInv', LifeInv, state' # "Closed",
         phase' \in {"poll", "out", "swap", "callbacks", "tasks"},
         phase' = "poll" => tasks' = <<>>,
         held' = {}, pending' = <<>>, batch' = <<>>, UNCHANGED fault,
         NEW e \in EventSources, Tracked(e), Release(e), ClosesSafely(tasks')
  PROVE  LifeInv'
<1>1. state' # "New" /\ state' \in {"Receiving", "Disconnecting"} => inMap' /\ alive'
  BY DEF OpenInv
<1>2. state' # "New"
  BY DEF OpenInv
<1>3. alive' /\ es' = e
  BY <1>1, <1>2 DEF Release, TypeOK
<1> QED
  BY <1>3 DEF LifeInv, Tracked

(* A closure after which it is closed. *)
LEMMA ClosedLife ==
  ASSUME TypeOK', LifeInv, state' = "Closed", phase' = "tasks", ~inMap', alive,
         held' = {}, UNCHANGED <<pending, batch, fault>>,
         NEW e \in EventSources, Tracked(e), Release(e), AllSelf(tasks')
  PROVE  LifeInv'
<1>1. pending' = <<>> /\ batch' = <<>>
  BY DEF LifeInv
<1>2. ~Captures(pending)' /\ ~Captures(batch)'
  BY <1>1 DEF Captures
<1>3. tasks' \in Seq(Calls)
  BY DEF TypeOK
<1>4. (Captures(tasks') <=> tasks' # <<>>) /\ ClosesSafely(tasks')
  BY <1>3, SelfCaptures
<1>5. HasReference' <=> tasks' # <<>>
  BY <1>2, <1>4 DEF HasReference
<1>6. alive' <=> tasks' # <<>>
  BY <1>5 DEF Release
<1>7. Tracked(es') /\ (~alive' => ~es'.watched)
  BY TrackedOps DEF Release, Ops
<1> QED
  BY <1>1, <1>4, <1>6, <1>7 DEF LifeInv, Tracked

LEMMA LifePreserved ==
  ASSUME CarefulUser, IInv, TypeOK', OpenInv', LifeInv, [Next]_vars
  PROVE  LifeInv'
<1> USE DEF queues
<1>0. /\ "established" \in Hooks /\ "read" \in Hooks /\ "error" \in Hooks
      /\ "closed" \in Hooks /\ "IN" \in Ops /\ "OUT" \in Ops
      /\ <<>> \in Seq(Calls) /\ <<ForceCloseTask>> \in Seq(Calls)
      /\ AllSelf(<<>>) /\ AllSelf(<<ForceCloseTask>>)
      /\ CloseTask \in Calls /\ CloseTask.ref = "self"
      /\ ForceCloseTask \in Calls /\ ForceCloseTask.ref = "self"
  BY CallFacts DEF Hooks, AllSelf, CloseTask, ForceCloseTask, Ops
<1>1. /\ TypeOK /\ tasks \in Seq(Calls) /\ es \in EventSources
      /\ held = {} /\ pending = <<>> /\ batch = <<>> /\ ClosesSafely(tasks) /\ Tracked(es)
      /\ phase \in {"new", "poll", "events"} => tasks = <<>>
      /\ phase = "out" => alive /\ state # "Closed"
  BY DEF IInv, TypeOK, LifeInv, Tracked
<1>2. /\ phase = "events" /\ alive => state # "Closed"
      /\ state = "New" <=> phase = "new"
      /\ state \in {"Receiving", "Disconnecting"} => inMap /\ alive
  BY DEF LifeInv, IInv, OpenInv
<1>3. CASE OnNewConnection
  <2>1. EnableOps(NewEventSource, "IN") \in EventSources /\ Tracked(EnableOps(NewEventSource, "IN"))
    <3>1. NewEventSource \in EventSources /\ Tracked(NewEventSource)
      BY NewEventSourceFacts DEF Tracked, NewEventSource
    <3> QED
      BY <1>0, <3>1, EnableOpsFacts, TrackedOps
  <2>2. held' = {} /\ ClosesSafely(tasks')
    BY <1>0, <1>1, <1>3, CarefulCallback DEF OnNewConnection
  <2> QED
    BY <1>1, <1>3, <2>1, <2>2, LiveStep DEF OnNewConnection
<1>4. CASE PeerShut \/ PeerReset
  BY <1>4 DEF PeerShut, PeerReset, LifeInv
<1>5. ASSUME NEW r \in SUBSET {"IN", "OUT", "ERR"}, Poll(r) PROVE LifeInv'
  <2>1. ~alive => r = {}
    BY <1>5 DEF Poll, Reported, LifeInv
  <2> QED
    BY <1>5, <2>1 DEF Poll, LifeInv
<1>6. ASSUME NEW kind, kind # "uaf", Fault(kind) PROVE LifeInv'
  BY <1>6 DEF Fault, LifeInv
<1>7. CASE StaleEventSource \/ ReadErrorDropped
  <2>1. ~StaleEventSource
    BY DEF StaleEventSource, LifeInv
  <2>2. ~ReadErrorDropped
    BY <1>2 DEF ReadErrorDropped, IInv, TypeOK
  <2> QED
    BY <1>7, <2>1, <2>2
<1>8. CASE HandleWriteAssert
  BY <1>6, <1>8 DEF HandleWriteAssert
<1>9. CASE NothingReady \/ NoReading \/ NoWriting \/ CallbacksDone \/ Swap
  BY <1>2, <1>9 DEF NothingReady, NoReading, NoWriting, CallbacksDone, Swap, LifeInv
<1>10. CASE HandleError
  <2>1. DisableAll(es) \in EventSources /\ Tracked(DisableAll(es))
    BY <1>0, <1>1, DisableAllFacts, TrackedOps
  <2>2. ClosesSafely(tasks')
    BY <1>0, <1>1, <1>10, SelfAppend DEF HandleError
  <2> QED
    BY <1>1, <1>2, <1>10, <2>1, <2>2, LiveStep DEF HandleError
<1>11. CASE ReadError
  <2>1. held' = {} /\ ClosesSafely(tasks')
    BY <1>0, <1>1, <1>11, CarefulCallback DEF ReadError, Reading
  <2> QED
    BY <1>1, <1>2, <1>11, <2>1, LiveStep DEF ReadError, Reading
<1>12. CASE ReadEof
  <2>1. DisableOps(es, "IN") \in EventSources /\ Tracked(DisableOps(es, "IN"))
    BY <1>0, <1>1, DisableOpsFacts, TrackedOps
  <2>2. ClosesSafely(tasks') /\ held' = {}
    BY <1>0, <1>1, <1>12, SelfAppend DEF ReadEof, NoUserCallback
  <2> QED
    BY <1>1, <1>2, <1>12, <2>1, <2>2, LiveStep DEF ReadEof, Reading
<1>13. CASE ReadData
  <2>1. held' = {} /\ ClosesSafely(tasks')
    BY <1>0, <1>1, <1>13, CarefulCallback DEF ReadData, Reading
  <2> QED
    BY <1>1, <1>2, <1>13, <2>1, LiveStep DEF ReadData, Reading
<1>14. CASE WriteError
  <2>1. /\ Append(tasks, ForceCloseTask) \in Seq(Calls)
        /\ ClosesSafely(Append(tasks, ForceCloseTask))
    BY <1>0, <1>1, AppendForce, SelfAppend
  <2>2. held' = {} /\ ClosesSafely(tasks')
    BY <1>0, <1>1, <1>14, <2>1, CarefulCallback DEF WriteError
  <2> QED
    BY <1>1, <1>2, <1>14, <2>2, LiveStep DEF WriteError, Writing
<1>15. CASE WriteNothing
  <2>1. ClosesSafely(tasks') /\ held' = {}
    BY <1>0, <1>1, <1>15, SelfAppend DEF WriteNothing, NoUserCallback
  <2> QED
    BY <1>1, <1>2, <1>15, <2>1, LiveStep DEF WriteNothing, Writing
<1>16. ASSUME NEW total \in 1..bufOut, WriteBytes(total) PROVE LifeInv'
  <2> DEFINE e == IF WriteDone(total) THEN DisableOps(es, "OUT") ELSE es
  <2>1. e \in EventSources /\ Tracked(e)
    BY <1>0, <1>1, DisableOpsFacts, TrackedOps
  <2>2. ClosesSafely(tasks') /\ held' = {}
    BY <1>0, <1>1, <1>16, SelfAppend DEF WriteBytes, NoUserCallback
  <2>3. Release(e)
    BY <1>16 DEF WriteBytes
  <2> HIDE DEF e
  <2> QED
    BY <1>1, <1>2, <1>16, <2>1, <2>2, <2>3, LiveStep DEF WriteBytes, Writing
<1>17. CASE RunCallback
  <2>1. Len(batch) = 0 /\ next \in Nat \ {0}
    BY <1>1 DEF TypeOK
  <2>2. ~(next <= Len(batch))
    BY <2>1
  <2> QED
    BY <1>17, <2>2 DEF RunCallback
<1>18. CASE RunTask
  <2> DEFINE c == Head(tasks)
             q == Tail(tasks)
  <2>1. /\ tasks # <<>> /\ phase = "tasks" /\ c \in Calls /\ q \in Seq(Calls)
        /\ ClosesSafely(q) /\ (c.op # "write" => AllSelf(q))
        /\ AllSelf(tasks) => AllSelf(q)
    BY <1>1, <1>18, TailForce, SelfTail DEF RunTask
  <2>2. alive /\ (state = "Closed" => ~inMap /\ AllSelf(tasks)) /\ (state # "Closed" => inMap)
    BY <1>2, <2>1 DEF LifeInv, IInv, TypeOK
  <2> HIDE DEF c, q
  <2>3. CASE InvokeFault(c)
    BY <1>6, <2>2, <2>3 DEF InvokeFault
  <2>4. ASSUME UNCHANGED <<queues, phase, ready, remote, peer, fault, taken>>, RunClose(q), c.op = "close"
        PROVE  LifeInv'
    <3>1. AllSelf(tasks') /\ held' = {}
      BY <1>0, <1>1, <2>1, <2>4, CarefulCallback DEF RunClose, IsClosed
    <3> QED
      BY <1>1, <2>1, <2>2, <2>4, <3>1, ClosedLife DEF RunClose, Removed
  <2>5. ASSUME UNCHANGED <<queues, phase, ready, remote, peer, fault, taken>>, RunCloseLater(q)
        PROVE  LifeInv'
    BY <1>1, <2>1, <2>2, <2>5, LiveStep DEF RunCloseLater, NoUserCallback
  <2>6. ASSUME UNCHANGED <<queues, phase, ready, remote, peer, fault, taken>>, RunForceClose(q),
               c.op = "force_close"
        PROVE  LifeInv'
    <3>1. AllSelf(tasks') /\ held' = {} /\ ~inMap'
      <4>1. CASE StillInMap
        BY <1>0, <1>1, <2>1, <2>6, <4>1, CarefulCallback DEF RunForceClose, IsClosed, Removed
      <4>2. CASE ~StillInMap
        BY <1>1, <2>1, <2>6, <4>2 DEF RunForceClose, NoUserCallback, StillInMap
      <4> QED
        BY <4>1, <4>2
    <3>2. InterestOps(es, {}) \in EventSources /\ Tracked(InterestOps(es, {}))
      BY <1>0, <1>1, InterestOpsFacts, TrackedOps
    <3> QED
      BY <1>1, <2>1, <2>2, <2>6, <3>1, <3>2, ClosedLife DEF RunForceClose
  <2>7. ASSUME UNCHANGED <<queues, phase, ready, remote, peer, fault, taken>>, RunWrite(q, c.len)
        PROVE  LifeInv'
    <3>1. CASE WriteRefused
      <4>1. AllSelf(Append(q, ForceCloseTask))
        BY <1>0, <2>1, <2>2, <3>1, SelfAppend DEF WriteRefused
      <4> QED
        BY <1>1, <2>1, <2>2, <2>7, <3>1, <4>1, ClosedLife
        DEF RunWrite, NoUserCallback, WriteRefused
    <3>2. CASE ~WriteRefused
      <4>1. EnableWriting \in EventSources /\ Tracked(EnableWriting)
        BY <1>0, <1>1, EnableOpsFacts, TrackedOps DEF EnableWriting
      <4> QED
        BY <1>1, <2>1, <2>7, <3>2, <4>1, LiveStep
        DEF RunWrite, NoUserCallback, WriteRefused
    <3> QED
      BY <3>1, <3>2
  <2> QED
    BY <1>18, <2>3, <2>4, <2>5, <2>6, <2>7 DEF RunTask, Invoke, c, q
<1>19. CASE TasksDone
  <2>1. CASE state = "Closed"
    <3>1. ~alive /\ ~alive' /\ es' = DisableAll(es)
      BY <1>19, <2>1 DEF TasksDone, LifeInv, Release
    <3>2. Tracked(DisableAll(es)) /\ ~DisableAll(es).watched
      BY <1>0, <1>1, TrackedOps
    <3> QED
      BY <1>19, <2>1, <3>1, <3>2 DEF TasksDone, LifeInv, Tracked
  <2>2. CASE state # "Closed"
    BY <1>1, <1>19, <2>2, LiveStep DEF TasksDone
  <2> QED
    BY <2>1, <2>2
<1>20. ~RemoteNext
  BY <1>1 DEF RemoteNext, RemoteCheck, RemotePost, RemoteDrop, RemoteHolds
<1>21. CASE UNCHANGED vars
  BY <1>21 DEF vars, LifeInv
<1> QED
  BY <1>3, <1>4, <1>5, <1>7, <1>8, <1>9, <1>10, <1>11, <1>12, <1>13, <1>14, <1>15, <1>16,
     <1>17, <1>18, <1>19, <1>20, <1>21
  DEF Next, LoopNext, PollNext

(* The invariant of the lifetime, for every careful user. *)
THEOREM LifetimeInvariant == CarefulUser /\ Spec => []LifeInv
<1>1. Init => LifeInv
  <2> SUFFICES ASSUME Init PROVE LifeInv
    OBVIOUS
  <2>1. ClosesSafely(<<>>)
    BY DEF ClosesSafely
  <2> QED
    BY <2>1 DEF Init, LifeInv, NewEventSource
<1>2. CarefulUser /\ TypeOK /\ TypeOK' /\ OpenInv /\ OpenInv' /\ LifeInv /\ [Next]_vars
        => LifeInv'
  BY LifePreserved DEF IInv
<1>3. CASE CarefulUser
  BY <1>1, <1>2, <1>3, TypeCorrect, ConnectionInvariant, PTL DEF Spec
<1> QED
  BY <1>3

(* No closure, no event and no callback reaches the object of a careful    *)
(* user after its deletion, whatever the peer does and in whatever order   *)
(* closures that close the connection are queued.                          *)
THEOREM CarefulNeverFreedInUse == CarefulUser /\ Spec => []NoUseAfterFree
<1>1. LifeInv => NoUseAfterFree
  BY DEF LifeInv, NoUseAfterFree
<1> QED
  BY <1>1, LifetimeInvariant, PTL

(* For such a user, no event callback follows closed_callback_: the loop   *)
(* dispatches only to connections that are open and in the map.            *)
THEOREM CarefulDispatchedWhileOpen == CarefulUser /\ Spec => []DispatchedWhileOpen
<1>1. TypeOK /\ OpenInv /\ LifeInv => DispatchedWhileOpen
  <2> SUFFICES ASSUME TypeOK, OpenInv, LifeInv, phase \in {"poll", "events", "out"}, alive
               PROVE  inMap /\ state # "Closed"
    BY DEF DispatchedWhileOpen
  <2>1. state # "Closed" /\ state # "New"
    BY DEF LifeInv, OpenInv
  <2> QED
    BY <2>1 DEF OpenInv, TypeOK
<1> QED
  BY <1>1, TypeCorrect, ConnectionInvariant, LifetimeInvariant, PTL
==============================================================================
