--------------------------- MODULE AcceptorProofs ---------------------------
(* Invariance proofs about Acceptor, for every finite set of descriptors   *)
(* and every bound.                                                        *)
EXTENDS Acceptor, TLAPS, FiniteSetTheorems, WellFoundedInduction

IInv == TypeOK /\ RefInv /\ FdInv /\ MapHoldsTheOpen /\ BatchInv

----------------------------------------------------------------------------
(* Closures of a queue. *)

TaskConns(q) == {q[i].conn : i \in DOMAIN q}

LEMMA QueueConns ==
  ASSUME NEW q \in Seq(Closures)
  PROVE  /\ \A i \in DOMAIN q : q[i].conn \in Conns
         /\ TaskConns(q) \subseteq Conns
<1>1. \A i \in DOMAIN q : q[i] \in Closures
  OBVIOUS
<1>2. \A e \in Closures : e.conn \in Conns
  BY DEF Closures
<1> QED
  BY <1>1, <1>2 DEF TaskConns

LEMMA AppendConns ==
  ASSUME NEW q \in Seq(Closures), NEW e \in Closures
  PROVE  /\ Append(q, e) \in Seq(Closures)
         /\ TaskConns(Append(q, e)) = TaskConns(q) \cup {e.conn}
<1> DEFINE r == Append(q, e)
<1>1. r \in Seq(Closures) /\ Len(r) = Len(q) + 1 /\ Len(q) \in Nat
  OBVIOUS
<1>2. DOMAIN q = 1..Len(q) /\ DOMAIN r = 1..(Len(q) + 1)
  BY <1>1
<1>3. \A i \in 1..Len(q) : r[i] = q[i]
  OBVIOUS
<1>4. r[Len(q) + 1] = e
  OBVIOUS
<1>5. TaskConns(r) \subseteq TaskConns(q) \cup {e.conn}
  <2>1. ASSUME NEW i \in DOMAIN r PROVE r[i].conn \in TaskConns(q) \cup {e.conn}
    <3>1. CASE i = Len(q) + 1
      BY <1>4, <3>1
    <3>2. CASE i # Len(q) + 1
      <4>1. i \in 1..Len(q)
        BY <1>1, <1>2, <3>2
      <4> QED
        BY <1>2, <1>3, <4>1 DEF TaskConns
    <3> QED
      BY <3>1, <3>2
  <2> QED
    BY <2>1 DEF TaskConns
<1>6. TaskConns(q) \cup {e.conn} \subseteq TaskConns(r)
  <2>1. Len(q) + 1 \in DOMAIN r /\ \A i \in DOMAIN q : i \in DOMAIN r
    BY <1>1, <1>2
  <2> QED
    BY <1>2, <1>3, <1>4, <2>1 DEF TaskConns
<1> QED
  BY <1>1, <1>5, <1>6

LEMMA TailConns ==
  ASSUME NEW q \in Seq(Closures), q # <<>>
  PROVE  /\ Tail(q) \in Seq(Closures) /\ Head(q) \in Closures
         /\ TaskConns(Tail(q)) \subseteq TaskConns(q)
         /\ Head(q).conn \in TaskConns(q)
<1>1. Tail(q) \in Seq(Closures) /\ Head(q) = q[1] /\ 1 \in DOMAIN q
  OBVIOUS
<1>2. ASSUME NEW i \in DOMAIN Tail(q) PROVE i + 1 \in DOMAIN q /\ Tail(q)[i] = q[i + 1]
  BY <1>2
<1> QED
  BY <1>1, <1>2 DEF TaskConns

(* What a user's callback leaves in the queue. *)
LEMMA UserCodeConns ==
  ASSUME NEW q \in Seq(Closures), NEW ptrs, ptrs \subseteq Conns, UserCode(ptrs, q)
  PROVE  /\ tasks' \in Seq(Closures)
         /\ TaskConns(q) \subseteq TaskConns(tasks')
         /\ TaskConns(tasks') \subseteq TaskConns(q) \cup ptrs
<1>1. CASE tasks' = q
  BY <1>1
<1>2. ASSUME NEW call \in [op : {"close", "force_close", "write"}, conn : ptrs],
             tasks' = Append(q, call)
      PROVE  /\ tasks' \in Seq(Closures)
             /\ TaskConns(q) \subseteq TaskConns(tasks')
             /\ TaskConns(tasks') \subseteq TaskConns(q) \cup ptrs
  <2>1. call \in Closures /\ call.conn \in ptrs
    BY DEF Closures
  <2> QED
    BY <1>2, <2>1, AppendConns
<1> QED
  BY <1>1, <1>2 DEF UserCode

LEMMA ReferencedBy ==
  /\ \A c \in Conns : Referenced(c) <=> Kept(c) \/ c \in TaskConns(tasks)
  /\ \A c \in Conns : Referenced(c)' <=> Kept(c)' \/ c \in TaskConns(tasks')
BY DEF Referenced, InMap, Kept, TaskConns

----------------------------------------------------------------------------
(* ~Connection() of what has no ConnectionPtr left. *)

(* A step that ends with Release keeps the invariants on references and    *)
(* descriptors, provided that what it makes of open, fd, state and watched *)
(* fits together and everything it leaves referenced exists.               *)
LEMMA ReleaseStep ==
  ASSUME IInv,
         NEW op \in [Fds -> Conns \cup {None}],
         NEW d \in [Conns -> Fds \cup {NoFd}],
         NEW st \in [Conns -> {"none", "Open", "Closed"}],
         NEW w, w \subseteq Conns \cup {Listener},
         Release(op, d, st, w),
         \A c \in Conns : Referenced(c)' => st[c] # "none",
         \A c \in Conns : st[c] = "none" => d[c] = NoFd,
         \A f \in Fds, c \in Conns : op[f] = c <=> d[c] = f,
         \A f \in Fds : op[f] = open[f] \/ (open[f] = None /\ Referenced(op[f])'),
         \A f \in Fds \cup {NoFd}, c \in Conns : connections'[f] = c => d[c] = f,
         \A c \in w \ {Listener} : d[c] # NoFd,
         connections' \in [Fds \cup {NoFd} -> Conns \cup {None}],
         phase' # "gone" => \A c \in Conns : st[c] = "Open" /\ d[c] # NoFd =>
                                               connections'[d[c]] = c
  PROVE  /\ open' \in [Fds -> Conns \cup {None}]
         /\ fd' \in [Conns -> Fds \cup {NoFd}]
         /\ state' \in [Conns -> {"none", "Open", "Closed"}]
         /\ watched' \subseteq Conns \cup {Listener}
         /\ RefInv' /\ FdInv' /\ MapHoldsTheOpen'
         /\ \A c \in watched' \ {Listener} : fd'[c] # NoFd
         /\ \A c \in Conns : Referenced(c)' => fd'[c] = d[c]
<1> DEFINE dead == {c \in Conns : st[c] # "none" /\ ~Referenced(c)'}
<1>1. /\ open' = [f \in Fds |-> IF open[f] \in dead THEN None ELSE op[f]]
      /\ fd' = [c \in Conns |-> IF c \in dead THEN NoFd ELSE d[c]]
      /\ state' = [c \in Conns |-> IF c \in dead THEN "none" ELSE st[c]]
      /\ watched' = w \ dead
  BY DEF Release, ClosedFds
<1>2. None \notin Conns /\ Listener \notin Conns /\ NoFd \notin Fds
  BY AcceptorAssumption DEF NoFd
<1>3. /\ open' \in [Fds -> Conns \cup {None}]
      /\ fd' \in [Conns -> Fds \cup {NoFd}]
      /\ state' \in [Conns -> {"none", "Open", "Closed"}]
      /\ watched' \subseteq Conns \cup {Listener}
  BY <1>1
<1>4. ASSUME NEW c \in Conns, Referenced(c)'
      PROVE  c \notin dead /\ fd'[c] = d[c] /\ state'[c] = st[c] /\ st[c] # "none"
  BY <1>1, <1>4
<1>5. ASSUME NEW c \in Conns, ~Referenced(c)'
      PROVE  fd'[c] = NoFd /\ state'[c] = "none"
  BY <1>1, <1>5
<1>6. RefInv'
  BY <1>4, <1>5 DEF RefInv
<1>7. ASSUME NEW f \in Fds, NEW c \in Conns PROVE open'[f] = c <=> fd'[c] = f
  <2>1. open[f] \in dead => op[f] = open[f]
    BY <1>2
  <2>2. op[f] \in dead => open[f] = op[f]
    OBVIOUS
  <2>3. open'[f] = IF op[f] \in dead THEN None ELSE op[f]
    BY <1>1, <2>1, <2>2
  <2>4. CASE Referenced(c)'
    BY <1>2, <1>4, <2>3, <2>4
  <2>5. CASE ~Referenced(c)'
    <3>1. fd'[c] = NoFd
      BY <1>5, <2>5
    <3>2. op[f] = c => c \in dead
      BY <1>2, <2>5
    <3> QED
      BY <1>2, <2>3, <3>1, <3>2
  <2> QED
    BY <2>4, <2>5
<1>8. ASSUME NEW f \in Fds \cup {NoFd}, NEW c \in Conns, connections'[f] = c
      PROVE  Referenced(c)' /\ fd'[c] = f
  <2>1. Referenced(c)'
    BY <1>8 DEF Referenced, InMap
  <2> QED
    BY <1>4, <1>8, <2>1
<1>9. FdInv'
  <2>1. \A c \in Conns : state'[c] = "none" => fd'[c] = NoFd
    BY <1>4, <1>5
  <2> QED
    BY <1>7, <1>8, <2>1 DEF FdInv
<1>10. MapHoldsTheOpen'
  <2> SUFFICES ASSUME phase' # "gone", NEW c \in Conns, state'[c] = "Open", fd'[c] # NoFd
               PROVE  connections'[fd'[c]] = c /\ open'[fd'[c]] = c
    BY DEF MapHoldsTheOpen
  <2>1. Referenced(c)'
    BY <1>5
  <2>2. fd'[c] = d[c] /\ st[c] = "Open" /\ fd'[c] \in Fds
    BY <1>3, <1>4, <2>1
  <2> QED
    BY <1>7, <2>2
<1>11. ASSUME NEW c \in watched' \ {Listener} PROVE fd'[c] # NoFd
  <2>1. c \in Conns /\ c \in w /\ c \notin dead
    BY <1>1
  <2> QED
    BY <1>1, <2>1
<1> QED
  BY <1>3, <1>4, <1>6, <1>9, <1>10, <1>11

----------------------------------------------------------------------------
(* The accept. *)

LEMMA MinInSet ==
  ASSUME NEW T, T \subseteq Nat, T # {}
  PROVE  Min(T) \in T
<1> DEFINE less == OpToRel(<, Nat)
<1>1. PICK x \in T : \A y \in T : ~(<<y, x>> \in less)
  BY NatLessThanWellFounded, WFMin
<1>2. ASSUME NEW y \in T PROVE x <= y
  <2>1. ~(y < x)
    BY <1>1 DEF OpToRel
  <2> QED
    BY <2>1
<1> QED
  BY <1>2 DEF Min

(* While the listening socket waits in the batch, the map and the user     *)
(* keep all connections, or the user has let go of them in this batch: the *)
(* bound on the objects leaves a fresh one.                                *)
LEMMA FreshExists ==
  ASSUME IInv, Listener \in active
  PROVE  Fresh \in Conns /\ state[Fresh] = "none" /\ Fresh \notin active
<1> DEFINE Keys == Fds \cup {NoFd}
           Values == {connections[f] : f \in Keys}
           Had == held \cup dropped
           Live == {c \in Conns : state[c] # "none" \/ c \in active}
<1>1. IsFiniteSet(Conns) /\ IsFiniteSet(Fds) /\ MaxHeld \in Nat
      /\ Cardinality(Conns) >= Cardinality(Fds) + MaxHeld + 2
  BY AcceptorAssumption
<1>2. IsFiniteSet(Keys) /\ Cardinality(Keys) = Cardinality(Fds) + 1
  <2>1. NoFd \notin Fds
    BY AcceptorAssumption DEF NoFd
  <2> QED
    BY <1>1, <2>1, FS_AddElement
<1>3. IsFiniteSet(Values) /\ Cardinality(Values) <= Cardinality(Keys)
  <2>1. connections \in Surjection(Keys, Values)
    BY DEF IInv, TypeOK, Surjection
  <2> QED
    BY <1>2, <2>1, FS_Surjection
<1>4. IsFiniteSet(Had) /\ Cardinality(Had) <= MaxHeld
  <2>1. Had \subseteq Conns
    BY DEF IInv, TypeOK
  <2> QED
    BY <1>1, <2>1, FS_Subset DEF IInv, BatchInv
<1> HIDE DEF Had
<1>5. IsFiniteSet(Had \cup Values)
      /\ Cardinality(Had \cup Values)
           = Cardinality(Had) + Cardinality(Values) - Cardinality(Had \cap Values)
  BY <1>3, <1>4, FS_Union
<1>6. IsFiniteSet(Had \cap Values)
  BY <1>3, FS_Intersection
<1>7. Live \subseteq Had \cup Values
  <2> SUFFICES ASSUME NEW c \in Live PROVE c \in Had \cup Values
    OBVIOUS
  <2>1. Kept(c) \/ c \in dropped
    BY AcceptorAssumption DEF IInv, BatchInv
  <2> QED
    BY <2>1 DEF Had, Kept, InMap, IInv, TypeOK
<1>8. IsFiniteSet(Live) /\ Cardinality(Live) <= Cardinality(Had \cup Values)
  BY <1>5, <1>7, FS_Subset
<1>9. /\ Cardinality(Live) \in Nat /\ Cardinality(Had \cup Values) \in Nat
      /\ Cardinality(Had) \in Nat /\ Cardinality(Values) \in Nat
      /\ Cardinality(Had \cap Values) \in Nat
      /\ Cardinality(Fds) \in Nat /\ Cardinality(Conns) \in Nat
      /\ Cardinality(Keys) \in Nat
  BY <1>1, <1>2, <1>3, <1>4, <1>5, <1>6, <1>8, FS_CardinalityType
<1>10. Cardinality(Live) < Cardinality(Conns)
  BY <1>1, <1>2, <1>3, <1>4, <1>5, <1>8, <1>9
<1>11. \E c \in Conns : state[c] = "none" /\ c \notin active
  <2>1. Live # Conns
    BY <1>9, <1>10
  <2> QED
    BY <2>1
<1> QED
  BY <1>11 DEF Fresh

(* on_new_connection(), with a descriptor that nobody has or with -1. *)
LEMMA OnNewConnectionStep ==
  ASSUME IInv, phase = "events", Listener \in active,
         NEW c \in Conns, state[c] = "none", c \notin active,
         NEW f, NEW op,
         \/ f \in Fds /\ open[f] = None /\ op = [open EXCEPT ![f] = c]
         \/ f = NoFd /\ op = open,
         backlog' \in 0..MaxBacklog,
         OnNewConnection(c, f, op)
  PROVE  IInv'
<1> DEFINE d == [fd EXCEPT ![c] = f]
           st == [state EXCEPT ![c] = "Open"]
           w == Watched(c, f)
<1>1. /\ active' = active \ {Listener}
      /\ connections' = [connections EXCEPT ![f] = c]
      /\ held' \subseteq held \cup {c}
      /\ Cardinality(held') <= MaxHeld
      /\ dropped' = dropped \cup LetGo
      /\ UserCode(held \cup {c}, tasks)
      /\ UNCHANGED <<aborts, phase>>
      /\ Release(op, d, st, w)
  BY DEF OnNewConnection
<1>2. None \notin Conns /\ Listener \notin Conns /\ NoFd \notin Fds
  BY AcceptorAssumption DEF NoFd
<1>3. f \in Fds \cup {NoFd}
  OBVIOUS
<1>4. TypeOK /\ RefInv /\ FdInv /\ MapHoldsTheOpen /\ BatchInv
  BY DEF IInv
<1>5. /\ tasks' \in Seq(Closures)
      /\ TaskConns(tasks) \subseteq TaskConns(tasks')
      /\ TaskConns(tasks') \subseteq TaskConns(tasks) \cup held \cup {c}
  BY <1>1, <1>4, UserCodeConns DEF TypeOK
<1>6. /\ op \in [Fds -> Conns \cup {None}]
      /\ d \in [Conns -> Fds \cup {NoFd}]
      /\ st \in [Conns -> {"none", "Open", "Closed"}]
      /\ w \subseteq Conns \cup {Listener}
      /\ connections' \in [Fds \cup {NoFd} -> Conns \cup {None}]
      /\ held' \subseteq Conns /\ dropped' \subseteq Conns
      /\ active' \subseteq Conns \cup {Listener}
  BY <1>1, <1>3, <1>4 DEF TypeOK, Watched, LetGo
<1>7. fd[c] = NoFd /\ ~Referenced(c)
  BY <1>4 DEF RefInv, FdInv
<1>8. connections'[f] = c /\ Referenced(c)'
  <2>1. connections'[f] = c
    BY <1>1, <1>3, <1>4 DEF TypeOK
  <2> QED
    BY <1>3, <1>6, <2>1 DEF Referenced, InMap
<1>9. \A x \in Conns : Referenced(x)' => Referenced(x) \/ x = c
  <2> SUFFICES ASSUME NEW x \in Conns, Referenced(x)', x # c PROVE Referenced(x)
    OBVIOUS
  <2>1. CASE x \in held'
    BY <1>1, <2>1 DEF Referenced, InMap
  <2>2. CASE x \in TaskConns(tasks')
    BY <1>5, <2>2, ReferencedBy DEF Kept, InMap
  <2>3. ASSUME NEW g \in Fds \cup {NoFd}, connections'[g] = x PROVE Referenced(x)
    BY <1>1, <1>4, <2>3 DEF Referenced, InMap, TypeOK
  <2> QED
    BY <1>6, <2>1, <2>2, <2>3, ReferencedBy DEF Kept, InMap
<1>10. \A x \in Conns : Referenced(x)' => st[x] # "none"
  BY <1>4, <1>9 DEF RefInv, TypeOK
<1>11. \A x \in Conns : st[x] = "none" => d[x] = NoFd
  BY <1>4 DEF FdInv, TypeOK
<1>12. ASSUME NEW g \in Fds, NEW x \in Conns PROVE op[g] = x <=> d[x] = g
  <2>1. CASE x = c
    <3>1. d[x] = f /\ open[g] # x
      BY <1>2, <1>4, <1>7, <2>1 DEF FdInv, TypeOK
    <3> QED
      BY <1>2, <1>4, <2>1, <3>1 DEF TypeOK
  <2>2. CASE x # c
    <3>1. d[x] = fd[x] /\ (open[g] = x <=> fd[x] = g)
      BY <1>4, <2>2 DEF FdInv, TypeOK
    <3>2. g = f => open[g] = None
      BY <1>2
    <3> QED
      BY <1>2, <1>4, <2>2, <3>1, <3>2 DEF TypeOK
  <2> QED
    BY <2>1, <2>2
<1>13. \A g \in Fds : op[g] = open[g] \/ (open[g] = None /\ Referenced(op[g])')
  BY <1>4, <1>8 DEF TypeOK
<1>14. ASSUME NEW x \in Conns \ {c} PROVE d[x] = fd[x] /\ (fd[x] = f => f = NoFd)
  <2>1. d[x] = fd[x]
    BY <1>4 DEF TypeOK
  <2> QED
    BY <1>2, <1>4, <2>1 DEF FdInv
<1>15. ASSUME NEW g \in Fds \cup {NoFd}, NEW x \in Conns, connections'[g] = x
       PROVE  d[x] = g
  <2>1. CASE g = f
    BY <1>4, <1>8, <1>15, <2>1 DEF TypeOK
  <2>2. CASE g # f
    <3>1. connections[g] = x
      BY <1>1, <1>4, <1>15, <2>2 DEF TypeOK
    <3>2. x # c
      BY <1>4, <1>7, <3>1 DEF Referenced, InMap, TypeOK
    <3> QED
      BY <1>4, <1>14, <3>1, <3>2 DEF FdInv
  <2> QED
    BY <2>1, <2>2
<1>16. ASSUME NEW x \in w \ {Listener} PROVE d[x] # NoFd
  <2>1. CASE f = NoFd
    <3>1. x \in watched
      BY <2>1 DEF Watched
    <3>2. fd[x] # NoFd /\ x \in Conns
      BY <1>4, <3>1 DEF BatchInv, TypeOK
    <3> QED
      BY <1>7, <1>14, <3>2
  <2>2. CASE f # NoFd
    <3>1. x = c \/ (x \in watched /\ x \in Conns)
      BY <1>4, <2>2 DEF Watched, TypeOK
    <3>2. CASE x = c
      BY <1>4, <2>2, <3>2 DEF TypeOK
    <3>3. CASE x # c
      BY <1>4, <1>14, <3>1, <3>3 DEF BatchInv
    <3> QED
      BY <3>2, <3>3
  <2> QED
    BY <2>1, <2>2
<1>17. ASSUME NEW x \in Conns, st[x] = "Open", d[x] # NoFd
       PROVE  connections'[d[x]] = x
  <2>1. CASE x = c
    BY <1>4, <1>8, <2>1 DEF TypeOK
  <2>2. CASE x # c
    <3>1. fd[x] # f /\ fd[x] # NoFd /\ d[x] = fd[x] /\ state[x] = "Open"
      BY <1>4, <1>14, <1>17, <2>2 DEF TypeOK
    <3>2. connections[fd[x]] = x /\ fd[x] \in Fds \cup {NoFd}
      BY <1>4, <3>1 DEF MapHoldsTheOpen, TypeOK
    <3> QED
      BY <1>1, <1>4, <3>1, <3>2 DEF TypeOK
  <2> QED
    BY <2>1, <2>2
<1>18. /\ open' \in [Fds -> Conns \cup {None}]
       /\ fd' \in [Conns -> Fds \cup {NoFd}]
       /\ state' \in [Conns -> {"none", "Open", "Closed"}]
       /\ watched' \subseteq Conns \cup {Listener}
       /\ RefInv' /\ FdInv' /\ MapHoldsTheOpen'
       /\ \A x \in watched' \ {Listener} : fd'[x] # NoFd
       /\ \A x \in Conns : Referenced(x)' => fd'[x] = d[x]
  <2> HIDE DEF d, st, w
  <2> QED
    BY <1>1, <1>6, <1>10, <1>11, <1>12, <1>13, <1>15, <1>16, <1>17, ReleaseStep
<1>19. TypeOK'
  BY <1>1, <1>4, <1>5, <1>6, <1>18 DEF TypeOK
<1>20. ASSUME NEW x \in active' \ {Listener}, x \notin dropped'
       PROVE  fd'[x] # NoFd /\ Kept(x)'
  <2>1. x \in Conns /\ fd[x] # NoFd /\ Kept(x) /\ x \in active
    BY <1>1, <1>4, <1>20 DEF BatchInv, TypeOK
  <2>2. x # c /\ fd[x] # f /\ d[x] = fd[x]
    BY <1>7, <1>14, <2>1
  <2>3. ASSUME x \in held PROVE Kept(x)'
    BY <1>1, <1>20, <2>3 DEF Kept, LetGo
  <2>4. ASSUME NEW g \in Fds \cup {NoFd}, connections[g] = x PROVE Kept(x)'
    <3>1. g # f
      BY <1>4, <2>1, <2>2, <2>4 DEF FdInv
    <3>2. connections'[g] = x
      BY <1>1, <1>4, <2>4, <3>1 DEF TypeOK
    <3> QED
      BY <1>6, <3>2 DEF Kept, InMap
  <2>5. Kept(x)'
    BY <1>4, <2>1, <2>3, <2>4 DEF Kept, InMap, TypeOK
  <2>6. Referenced(x)'
    BY <2>1, <2>5, ReferencedBy
  <2>7. fd'[x] = d[x]
    BY <1>18, <2>1, <2>6
  <2> QED
    BY <2>1, <2>2, <2>5, <2>7
<1>21. BatchInv'
  BY <1>1, <1>18, <1>20 DEF BatchInv
<1> QED
  BY <1>18, <1>19, <1>21 DEF IInv

LEMMA AcceptStep ==
  ASSUME IInv, Accept \/ AcceptFails
  PROVE  IInv'
<1>1. phase = "events" /\ Listener \in active
  BY DEF Accept, AcceptFails
<1>2. Fresh \in Conns /\ state[Fresh] = "none" /\ Fresh \notin active
  BY <1>1, FreshExists
<1>3. CASE Accept
  <2>1. Min(FreeFds) \in FreeFds
    BY <1>3, MinInSet, AcceptorAssumption DEF Accept, FreeFds
  <2>2. Min(FreeFds) \in Fds /\ open[Min(FreeFds)] = None
    BY <2>1 DEF FreeFds
  <2>3. backlog' \in 0..MaxBacklog
    BY <1>3, AcceptorAssumption DEF Accept, Accepted, IInv, TypeOK
  <2>4. OnNewConnection(Fresh, Min(FreeFds), [open EXCEPT ![Min(FreeFds)] = Fresh])
    BY <1>3 DEF Accept
  <2> QED
    BY <1>1, <1>2, <2>2, <2>3, <2>4, OnNewConnectionStep
<1>4. CASE AcceptFails
  <2>1. backlog' \in 0..MaxBacklog /\ OnNewConnection(Fresh, NoFd, open)
    BY <1>4 DEF AcceptFails, IInv, TypeOK
  <2> QED
    BY <1>1, <1>2, <2>1, OnNewConnectionStep
<1> QED
  BY <1>3, <1>4

----------------------------------------------------------------------------
(* The loop. *)

(* When the loop sleeps every connection is kept by the map or the user. *)
LEMMA IdleKept ==
  ASSUME IInv, tasks = <<>>
  PROVE  \A c \in Conns : state[c] # "none" => Kept(c)
<1>1. TaskConns(tasks) = {}
  BY DEF TaskConns
<1> QED
  BY <1>1, ReferencedBy DEF IInv, RefInv

LEMMA PollStep ==
  ASSUME IInv, NEW batch \in SUBSET watched, Poll(batch)
  PROVE  IInv'
<1>1. phase = "tasks" /\ tasks = <<>> /\ active' = batch /\ phase' = "events"
      /\ UNCHANGED <<backlog, aborts, open, connections, fd, state, held, watched, tasks,
                      dropped>>
  BY DEF Poll, Idle
<1>2. TypeOK' /\ RefInv' /\ FdInv' /\ MapHoldsTheOpen'
  BY <1>1 DEF IInv, TypeOK, RefInv, FdInv, MapHoldsTheOpen, Referenced, InMap
<1>3. \A c \in Conns : state[c] # "none" => Kept(c)
  BY <1>1, IdleKept
<1>4. \A c \in Conns : Kept(c)' <=> Kept(c)
  BY <1>1 DEF Kept, InMap
<1>5. \A c \in batch \ {Listener} : c \in Conns /\ fd[c] # NoFd /\ state[c] # "none"
  BY DEF IInv, TypeOK, BatchInv, FdInv
<1>6. Cardinality(held' \cup dropped') <= MaxHeld
  <2>1. dropped = {}
    BY <1>1 DEF IInv, BatchInv
  <2>2. held' \cup dropped' = held
    BY <1>1, <2>1
  <2> QED
    BY <2>2 DEF IInv, BatchInv
<1>7. BatchInv'
  BY <1>1, <1>3, <1>4, <1>5, <1>6 DEF IInv, BatchInv
<1> QED
  BY <1>2, <1>7 DEF IInv

LEMMA FewerElements ==
  ASSUME NEW T, T \subseteq Conns, Cardinality(T) <= MaxHeld, NEW U, U \subseteq T
  PROVE  Cardinality(U) <= MaxHeld
<1>1. IsFiniteSet(T)
  BY FS_Subset, AcceptorAssumption
<1>2. IsFiniteSet(U) /\ Cardinality(U) <= Cardinality(T)
  BY <1>1, FS_Subset
<1>3. Cardinality(T) \in Nat /\ Cardinality(U) \in Nat /\ MaxHeld \in Nat
  BY <1>1, <1>2, FS_CardinalityType, AcceptorAssumption
<1> QED
  BY <1>2, <1>3

LEMMA FewerHeld ==
  ASSUME IInv, held' \subseteq held
  PROVE  Cardinality(held') <= MaxHeld
<1>1. held \subseteq Conns /\ Cardinality(held) <= MaxHeld
  BY DEF IInv, TypeOK, BatchInv
<1> QED
  BY <1>1, FewerElements

(* handle_events(), with a callback of the user that lets go of what it    *)
(* likes or with a call of the library.                                    *)
LEMMA HandleEventsStep ==
  ASSUME IInv, NEW c \in Conns, HandleEvents(c)
  PROVE  IInv'
<1>1. TypeOK /\ RefInv /\ FdInv /\ MapHoldsTheOpen /\ BatchInv
  BY DEF IInv
<1>2. /\ phase = "events" /\ c \in active \ {Listener} /\ active' \subseteq active
      /\ state[c] # "none" /\ c # Listener
      /\ UNCHANGED <<backlog, aborts, connections, phase>>
  BY AcceptorAssumption DEF HandleEvents
<1>3. \A x \in Conns : x \in TaskConns(tasks) \cup held \cup {c} => state[x] # "none"
  BY <1>1, <1>2, ReferencedBy DEF RefInv, Kept
<1>4. ASSUME /\ held' \subseteq held /\ dropped' = dropped \cup LetGo
             /\ UserCode(held \cup {c}, tasks)
             /\ Release(open, fd, state, watched)
      PROVE  IInv'
  <2>1. /\ tasks' \in Seq(Closures)
        /\ TaskConns(tasks') \subseteq TaskConns(tasks) \cup held \cup {c}
    <3>1. tasks \in Seq(Closures) /\ held \cup {c} \subseteq Conns
      BY <1>1 DEF TypeOK
    <3> QED
      BY <1>4, <3>1, UserCodeConns
  <2>2. \A x \in Conns : Referenced(x)' => state[x] # "none"
    <3> SUFFICES ASSUME NEW x \in Conns, Referenced(x)' PROVE state[x] # "none"
      OBVIOUS
    <3>1. CASE x \in TaskConns(tasks')
      BY <1>3, <2>1, <3>1
    <3>2. CASE Kept(x)'
      <4>1. Kept(x)
        BY <1>2, <1>4, <3>2 DEF Kept, InMap
      <4> QED
        BY <1>1, <4>1, ReferencedBy DEF RefInv
    <3> QED
      BY <3>1, <3>2, ReferencedBy
  <2>3. /\ open' \in [Fds -> Conns \cup {None}]
        /\ fd' \in [Conns -> Fds \cup {NoFd}]
        /\ state' \in [Conns -> {"none", "Open", "Closed"}]
        /\ watched' \subseteq Conns \cup {Listener}
        /\ RefInv' /\ FdInv' /\ MapHoldsTheOpen'
        /\ \A x \in watched' \ {Listener} : fd'[x] # NoFd
        /\ \A x \in Conns : Referenced(x)' => fd'[x] = fd[x]
    <3>1. /\ open \in [Fds -> Conns \cup {None}]
          /\ fd \in [Conns -> Fds \cup {NoFd}]
          /\ state \in [Conns -> {"none", "Open", "Closed"}]
          /\ watched \subseteq Conns \cup {Listener}
          /\ connections' \in [Fds \cup {NoFd} -> Conns \cup {None}]
      BY <1>1, <1>2 DEF TypeOK
    <3>2. /\ \A x \in Conns : state[x] = "none" => fd[x] = NoFd
          /\ \A f \in Fds, x \in Conns : open[f] = x <=> fd[x] = f
          /\ \A f \in Fds \cup {NoFd}, x \in Conns : connections'[f] = x => fd[x] = f
      BY <1>1, <1>2 DEF FdInv
    <3>3. \A x \in watched \ {Listener} : fd[x] # NoFd
      BY <1>1 DEF BatchInv
    <3>4. \A x \in Conns : state[x] = "Open" /\ fd[x] # NoFd => connections'[fd[x]] = x
      BY <1>1, <1>2 DEF MapHoldsTheOpen
    <3> QED
      BY <1>4, <2>2, <3>1, <3>2, <3>3, <3>4, ReleaseStep
  <2>4. TypeOK'
    BY <1>1, <1>2, <1>4, <2>1, <2>3 DEF TypeOK, LetGo
  <2>5. ASSUME NEW x \in Conns, Kept(x) \/ x \in dropped
        PROVE  Kept(x)' \/ x \in dropped'
    BY <1>2, <1>4, <2>5 DEF Kept, InMap, LetGo
  <2>6. ASSUME NEW x \in active' \ {Listener}
        PROVE  (fd'[x] # NoFd /\ Kept(x)') \/ x \in dropped'
    <3>1. x \in Conns
      BY <1>1, <1>2 DEF TypeOK
    <3>2. (fd[x] # NoFd /\ Kept(x)) \/ x \in dropped
      BY <1>1, <1>2 DEF BatchInv
    <3>3. Kept(x)' => fd'[x] = fd[x]
      BY <2>3, <3>1, ReferencedBy
    <3> QED
      BY <1>4, <2>5, <3>1, <3>2, <3>3
  <2>7. ASSUME Listener \in active'
        PROVE  /\ \A x \in Conns : state'[x] # "none" => Kept(x)' \/ x \in dropped'
               /\ Cardinality(held' \cup dropped') <= MaxHeld
    <3>1. Listener \in active
      BY <1>2, <2>7
    <3>2. ASSUME NEW x \in Conns, state'[x] # "none" PROVE Kept(x)' \/ x \in dropped'
      <4>1. state[x] # "none"
        BY <2>2, <2>3, <3>2 DEF RefInv
      <4> QED
        BY <1>1, <2>5, <3>1, <4>1 DEF BatchInv
    <3>3. held' \cup dropped' \subseteq held \cup dropped
          /\ held \cup dropped \subseteq Conns
      BY <1>1, <1>4 DEF LetGo, TypeOK
    <3>4. Cardinality(held \cup dropped) <= MaxHeld
      BY <1>1, <3>1 DEF BatchInv
    <3> QED
      BY <3>2, <3>3, <3>4, FewerElements
  <2>8. Cardinality(held') <= MaxHeld
    BY <1>4, FewerHeld
  <2>9. BatchInv'
    BY <1>1, <1>2, <2>3, <2>6, <2>7, <2>8 DEF BatchInv
  <2> QED
    BY <2>3, <2>4, <2>9 DEF IInv
<1>5. ASSUME NEW op \in {"close", "force_close"},
             tasks' = Append(tasks, [op |-> op, conn |-> c]),
             watched' = watched \ {c},
             UNCHANGED <<open, fd, state, held, dropped>>
      PROVE  IInv'
  <2>1. [op |-> op, conn |-> c] \in Closures
    BY DEF Closures
  <2>2. tasks' \in Seq(Closures) /\ TaskConns(tasks') = TaskConns(tasks) \cup {c}
    BY <1>1, <1>5, <2>1, AppendConns DEF TypeOK
  <2>3. TypeOK'
    BY <1>1, <1>2, <1>5, <2>2 DEF TypeOK
  <2>4. \A x \in Conns : Kept(x)' <=> Kept(x)
    BY <1>2, <1>5 DEF Kept, InMap
  <2>5. RefInv'
    BY <1>1, <1>2, <1>5, <2>2, <2>4, ReferencedBy DEF RefInv
  <2>6. FdInv' /\ MapHoldsTheOpen'
    BY <1>1, <1>2, <1>5 DEF FdInv, MapHoldsTheOpen
  <2>7. ASSUME NEW x \in active' \ {Listener}
        PROVE  (fd'[x] # NoFd /\ Kept(x)') \/ x \in dropped'
    BY <1>1, <1>2, <1>5, <2>4 DEF BatchInv, TypeOK
  <2>8. BatchInv'
    BY <1>1, <1>2, <1>5, <2>4, <2>7 DEF BatchInv
  <2> QED
    BY <2>3, <2>5, <2>6, <2>8 DEF IInv
<1> QED
  BY <1>4, <1>5 DEF HandleEvents

(* Nothing is left of a process that has crashed. *)
LEMMA HandleStaleStep ==
  ASSUME IInv, NEW c, HandleStale(c)
  PROVE  IInv'
<1>1. Crash
  BY DEF HandleStale
<1>2. None \notin Conns /\ NoFd \notin Fds
  BY AcceptorAssumption DEF NoFd
<1>3. TypeOK'
  <2>1. 0 \in 0..MaxBacklog
    BY AcceptorAssumption
  <2> QED
    BY <1>1, <2>1 DEF Crash, IInv, TypeOK
<1>4. RefInv'
  BY <1>1, <1>2 DEF Crash, RefInv, Referenced, InMap
<1>5. FdInv' /\ MapHoldsTheOpen'
  BY <1>1, <1>2 DEF Crash, FdInv, MapHoldsTheOpen
<1>6. BatchInv'
  <2>1. Cardinality(held') <= MaxHeld
    BY <1>1, FS_EmptySet, AcceptorAssumption DEF Crash
  <2> QED
    BY <1>1, <2>1 DEF Crash, BatchInv
<1> QED
  BY <1>3, <1>4, <1>5, <1>6 DEF IInv

(* A step outside of a batch that drops ConnectionPtrs, closes some        *)
(* connections, or posts closures for connections that exist: it keeps the *)
(* invariant if the connections it leaves open keep their map entries.     *)
LEMMA DropStep ==
  ASSUME IInv, active = {}, dropped' = {}, UNCHANGED <<active, backlog, aborts>>,
         phase' \in {"tasks", "gone"},
         phase' = "gone" => tasks' = <<>>,
         held' \subseteq held,
         tasks' \in Seq(Closures),
         \A x \in TaskConns(tasks') : state[x] # "none",
         NEW st \in [Conns -> {"none", "Open", "Closed"}],
         \A x \in Conns : st[x] = "none" <=> state[x] = "none",
         connections' \in [Fds \cup {NoFd} -> Conns \cup {None}],
         \A f \in Fds \cup {NoFd}, x \in Conns : connections'[f] = x => connections[f] = x,
         phase' # "gone" => \A x \in Conns : st[x] = "Open" /\ fd[x] # NoFd =>
                                               connections'[fd[x]] = x,
         Release(open, fd, st, watched)
  PROVE  IInv'
<1>1. TypeOK /\ RefInv /\ FdInv /\ MapHoldsTheOpen /\ BatchInv
  BY DEF IInv
<1>2. \A x \in Conns : Referenced(x)' => st[x] # "none"
  <2> SUFFICES ASSUME NEW x \in Conns, Referenced(x)' PROVE state[x] # "none"
    OBVIOUS
  <2>1. CASE x \in TaskConns(tasks')
    BY <2>1
  <2>2. CASE Kept(x)'
    <3>1. Kept(x)
      BY <1>1, <2>2 DEF Kept, InMap, TypeOK
    <3> QED
      BY <1>1, <3>1, ReferencedBy DEF RefInv
  <2> QED
    BY <2>1, <2>2, ReferencedBy
<1>3. /\ open' \in [Fds -> Conns \cup {None}]
      /\ fd' \in [Conns -> Fds \cup {NoFd}]
      /\ state' \in [Conns -> {"none", "Open", "Closed"}]
      /\ watched' \subseteq Conns \cup {Listener}
      /\ RefInv' /\ FdInv' /\ MapHoldsTheOpen'
      /\ \A x \in watched' \ {Listener} : fd'[x] # NoFd
  <2>1. /\ open \in [Fds -> Conns \cup {None}]
        /\ fd \in [Conns -> Fds \cup {NoFd}]
        /\ watched \subseteq Conns \cup {Listener}
    BY <1>1 DEF TypeOK
  <2>2. \A x \in Conns : st[x] = "none" => fd[x] = NoFd
    BY <1>1 DEF FdInv
  <2>3. \A f \in Fds, x \in Conns : open[f] = x <=> fd[x] = f
    BY <1>1 DEF FdInv
  <2>4. \A f \in Fds \cup {NoFd}, x \in Conns : connections'[f] = x => fd[x] = f
    BY <1>1 DEF FdInv
  <2>5. \A x \in watched \ {Listener} : fd[x] # NoFd
    BY <1>1 DEF BatchInv
  <2> QED
    BY <1>2, <2>1, <2>2, <2>3, <2>4, <2>5, ReleaseStep
<1>4. TypeOK'
  BY <1>1, <1>3 DEF TypeOK
<1>5. BatchInv'
  BY <1>3, FewerHeld DEF BatchInv
<1> QED
  BY <1>3, <1>4, <1>5 DEF IInv

LEMMA UserCallbacksStep ==
  ASSUME IInv, UserCallbacks
  PROVE  IInv'
<1>1. TypeOK /\ RefInv /\ FdInv /\ MapHoldsTheOpen /\ BatchInv
  BY DEF IInv
<1>2. /\ active = {} /\ held' \subseteq held /\ phase = "events" /\ phase' = "tasks"
      /\ UserCode(held, tasks)
      /\ dropped' = {}
      /\ UNCHANGED <<backlog, aborts, connections, active>>
      /\ Release(open, fd, state, watched)
  BY DEF UserCallbacks
<1>3. tasks' \in Seq(Closures) /\ TaskConns(tasks') \subseteq TaskConns(tasks) \cup held
  BY <1>1, <1>2, UserCodeConns DEF TypeOK
<1>4. \A x \in Conns : x \in TaskConns(tasks) \cup held => state[x] # "none"
  BY <1>1, ReferencedBy DEF RefInv, Kept, InMap
<1>5. TaskConns(tasks) \cup held \subseteq Conns
  BY <1>1, QueueConns DEF TypeOK
<1>6. \A x \in Conns : state[x] = "Open" /\ fd[x] # NoFd => connections'[fd[x]] = x
  BY <1>1, <1>2 DEF MapHoldsTheOpen
<1>7. /\ state \in [Conns -> {"none", "Open", "Closed"}]
      /\ connections' \in [Fds \cup {NoFd} -> Conns \cup {None}]
  BY <1>1, <1>2 DEF TypeOK
<1> QED
  BY <1>2, <1>3, <1>4, <1>5, <1>6, <1>7, DropStep

(* A closure of task_queue_. *)
LEMMA ClosureRuns ==
  ASSUME IInv, NEW op, NEW c \in Conns, Running(op, c)
  PROVE  /\ active = {} /\ phase = "tasks" /\ dropped' = {}
         /\ UNCHANGED <<backlog, aborts, active, phase>>
         /\ state[c] # "none"
         /\ Tail(tasks) \in Seq(Closures)
         /\ TaskConns(Tail(tasks)) \subseteq Conns
         /\ \A x \in TaskConns(Tail(tasks)) \cup held : state[x] # "none"
<1>1. TypeOK /\ RefInv /\ BatchInv
  BY DEF IInv
<1>2. /\ active = {} /\ phase = "tasks" /\ dropped' = {}
      /\ UNCHANGED <<backlog, aborts, active, phase>>
      /\ tasks # <<>> /\ Head(tasks) = [op |-> op, conn |-> c]
  BY <1>1 DEF Running, BatchInv
<1>3. /\ Tail(tasks) \in Seq(Closures)
      /\ TaskConns(Tail(tasks)) \subseteq TaskConns(tasks)
      /\ c \in TaskConns(tasks)
  BY <1>1, <1>2, TailConns DEF TypeOK
<1>4. TaskConns(tasks) \cup held \subseteq Conns
  BY <1>1, QueueConns DEF TypeOK
<1>5. \A x \in TaskConns(tasks) \cup held : state[x] # "none"
  BY <1>1, <1>4, ReferencedBy DEF RefInv, Kept, InMap
<1> QED
  BY <1>2, <1>3, <1>4, <1>5

(* A closure that erases a number from the map erases the entry of the     *)
(* connection it closes or of one whose accept4() failed: no other         *)
(* connection has that descriptor while this one exists.                   *)
LEMMA ClosingStep ==
  ASSUME IInv, NEW op, NEW c \in Conns, Running(op, c), Closing(c)
  PROVE  IInv'
<1> DEFINE st == [state EXCEPT ![c] = "Closed"]
           ptrs == {x \in held \ {c} : state[x] = "Open"}
<1>1. TypeOK /\ RefInv /\ FdInv /\ MapHoldsTheOpen /\ BatchInv
  BY DEF IInv
<1>2. /\ active = {} /\ phase = "tasks" /\ dropped' = {}
      /\ UNCHANGED <<backlog, aborts, active, phase>>
      /\ state[c] # "none"
      /\ Tail(tasks) \in Seq(Closures)
      /\ \A x \in TaskConns(Tail(tasks)) \cup held : state[x] # "none"
  BY ClosureRuns
<1>3. /\ held' \subseteq held
      /\ UserCode(ptrs, Tail(tasks))
      /\ connections' = [connections EXCEPT ![fd[c]] = None]
      /\ Release(open, fd, st, watched)
  BY DEF Closing, RemoveConnection
<1>4. tasks' \in Seq(Closures)
      /\ TaskConns(tasks') \subseteq TaskConns(Tail(tasks)) \cup held
  <2>1. ptrs \subseteq Conns
    BY <1>1 DEF TypeOK
  <2> QED
    BY <1>2, <1>3, <2>1, UserCodeConns
<1>5. st \in [Conns -> {"none", "Open", "Closed"}]
      /\ \A x \in Conns : st[x] = "none" <=> state[x] = "none"
  BY <1>1, <1>2 DEF TypeOK
<1>6. connections' \in [Fds \cup {NoFd} -> Conns \cup {None}]
  BY <1>1, <1>3 DEF TypeOK
<1>7. \A f \in Fds \cup {NoFd}, x \in Conns : connections'[f] = x => connections[f] = x
  BY <1>1, <1>3, AcceptorAssumption DEF TypeOK
<1>8. ASSUME NEW x \in Conns, st[x] = "Open", fd[x] # NoFd PROVE connections'[fd[x]] = x
  <2>1. x # c /\ state[x] = "Open"
    BY <1>1, <1>8 DEF TypeOK
  <2>2. connections[fd[x]] = x /\ open[fd[x]] = x /\ fd[x] \in Fds
    BY <1>1, <1>2, <1>8, <2>1 DEF MapHoldsTheOpen, TypeOK
  <2>3. fd[c] # fd[x]
    BY <1>1, <2>1, <2>2 DEF FdInv
  <2> QED
    BY <1>1, <1>3, <2>2, <2>3 DEF TypeOK
<1> HIDE DEF st
<1> QED
  BY <1>2, <1>3, <1>4, <1>5, <1>6, <1>7, <1>8, DropStep

(* The closures that leave map and user alone. *)
LEMMA QuietClosureStep ==
  ASSUME IInv, NEW op, NEW c \in Conns, Running(op, c),
         \/ tasks' = Tail(tasks)
         \/ tasks' = Append(Tail(tasks), [op |-> "force_close", conn |-> c]),
         UNCHANGED <<connections, held>>,
         NEW st, st \in {state, [state EXCEPT ![c] = "Closed"]},
         Release(open, fd, st, watched)
  PROVE  IInv'
<1>1. TypeOK /\ RefInv /\ FdInv /\ MapHoldsTheOpen /\ BatchInv
  BY DEF IInv
<1>2. /\ active = {} /\ phase = "tasks" /\ dropped' = {}
      /\ UNCHANGED <<backlog, aborts, active, phase>>
      /\ state[c] # "none"
      /\ Tail(tasks) \in Seq(Closures)
      /\ \A x \in TaskConns(Tail(tasks)) \cup held : state[x] # "none"
  BY ClosureRuns
<1>3. tasks' \in Seq(Closures)
      /\ TaskConns(tasks') \subseteq TaskConns(Tail(tasks)) \cup {c}
  <2>1. CASE tasks' = Tail(tasks)
    BY <1>2, <2>1
  <2>2. CASE tasks' = Append(Tail(tasks), [op |-> "force_close", conn |-> c])
    <3>1. [op |-> "force_close", conn |-> c] \in Closures
      BY DEF Closures
    <3> QED
      BY <1>2, <2>2, <3>1, AppendConns
  <2> QED
    BY <2>1, <2>2
<1>4. st \in [Conns -> {"none", "Open", "Closed"}]
      /\ \A x \in Conns : st[x] = "none" <=> state[x] = "none"
  BY <1>1, <1>2 DEF TypeOK
<1>5. connections' \in [Fds \cup {NoFd} -> Conns \cup {None}]
  BY <1>1 DEF TypeOK
<1>6. \A x \in Conns : st[x] = "Open" /\ fd[x] # NoFd => connections'[fd[x]] = x
  BY <1>1, <1>2 DEF MapHoldsTheOpen, TypeOK
<1> QED
  BY <1>2, <1>3, <1>4, <1>5, <1>6, DropStep

LEMMA TaskStep ==
  ASSUME IInv, NEW c \in Conns,
         \/ RunClose(c) \/ RunCloseLater(c)
         \/ RunForceClose(c) \/ RunForceCloseAgain(c)
         \/ RunWrite(c)
  PROVE  IInv'
<1>1. CASE RunClose(c) \/ RunForceClose(c)
  BY <1>1, ClosingStep DEF RunClose, RunForceClose
<1>2. CASE RunCloseLater(c)
  BY <1>2, QuietClosureStep DEF RunCloseLater
<1>3. CASE RunForceCloseAgain(c)
  BY <1>3, QuietClosureStep DEF RunForceCloseAgain
<1>4. CASE RunWrite(c)
  <2>1. Tail(tasks) \in Seq(Closures)
    BY <1>4, ClosureRuns DEF RunWrite
  <2>2. [op |-> "force_close", conn |-> c] \in Closures
    BY DEF Closures
  <2>3. /\ Tail(tasks) \o <<>> = Tail(tasks)
        /\ Tail(tasks) \o <<[op |-> "force_close", conn |-> c]>>
             = Append(Tail(tasks), [op |-> "force_close", conn |-> c])
    BY <2>1, <2>2
  <2> QED
    BY <1>4, <2>3, QuietClosureStep DEF RunWrite
<1> QED
  BY <1>1, <1>2, <1>3, <1>4

(* ~EventLoop() clears connections_. *)
LEMMA DestroyLoopStep ==
  ASSUME IInv, DestroyLoop
  PROVE  IInv'
<1>1. TypeOK /\ RefInv /\ FdInv /\ MapHoldsTheOpen /\ BatchInv
  BY DEF IInv
<1>2. /\ phase = "destroy" /\ phase' = "gone" /\ tasks = <<>> /\ active = {}
      /\ dropped' = {}
      /\ UNCHANGED <<backlog, aborts, held, active, tasks>>
      /\ Release(open, fd, state, watched)
  BY <1>1 DEF DestroyLoop, BatchInv
<1>3. connections' = [f \in Fds \cup {NoFd} |-> None]
  BY <1>1 DEF DestroyLoop, TypeOK
<1>4. TaskConns(tasks') = {} /\ tasks' \in Seq(Closures)
  BY <1>1, <1>2 DEF TypeOK, TaskConns
<1>5. /\ connections' \in [Fds \cup {NoFd} -> Conns \cup {None}]
      /\ \A f \in Fds \cup {NoFd}, x \in Conns : connections'[f] # x
      /\ state \in [Conns -> {"none", "Open", "Closed"}]
  BY <1>1, <1>3, AcceptorAssumption DEF TypeOK
<1> QED
  BY <1>2, <1>4, <1>5, DropStep

(* The steps that leave connections and descriptors alone. *)
LEMMA OtherStep ==
  ASSUME IInv, Arrive \/ Abort \/ RunReturns \/ DestroyAcceptor \/ UNCHANGED vars
  PROVE  IInv'
<1>1. TypeOK /\ RefInv /\ FdInv /\ MapHoldsTheOpen /\ BatchInv
  BY DEF IInv
<1>2. UNCHANGED <<open, connections, fd, state, held, active, tasks, dropped>>
      /\ watched' \subseteq watched
  BY DEF Arrive, Abort, RunReturns, DestroyAcceptor, vars
<1>3. backlog' \in 0..MaxBacklog /\ aborts' \in 0..MaxAborts
  BY <1>1, AcceptorAssumption DEF TypeOK, Arrive, Abort, RunReturns, DestroyAcceptor, vars
<1>4. \/ UNCHANGED phase
      \/ /\ phase \notin {"events", "gone"} /\ phase' \in {"unwind", "destroy"}
         /\ tasks = <<>> /\ active = {}
  BY <1>1
  DEF Arrive, Abort, RunReturns, DestroyAcceptor, vars, Idle, BatchInv
<1>5. TypeOK'
  BY <1>1, <1>2, <1>3, <1>4 DEF TypeOK
<1>6. RefInv' /\ FdInv' /\ MapHoldsTheOpen'
  BY <1>1, <1>2, <1>4 DEF RefInv, Referenced, InMap, FdInv, MapHoldsTheOpen
<1>7. BatchInv'
  <2>1. /\ \A x : Kept(x)' <=> Kept(x)
        /\ \A x \in watched' \ {Listener} : x \in watched \ {Listener}
    BY <1>2 DEF Kept, InMap
  <2>2. Cardinality(held \cup dropped)' = Cardinality(held \cup dropped)
        /\ Cardinality(held)' = Cardinality(held)
    BY <1>2
  <2> QED
    BY <1>1, <1>2, <1>4, <2>1, <2>2 DEF BatchInv
<1> QED
  BY <1>5, <1>6, <1>7 DEF IInv

----------------------------------------------------------------------------

(* References, descriptors, map, epoll set and batch fit together in every *)
(* reachable state.                                                        *)
THEOREM AcceptorInvariant == Spec => []IInv
<1>1. Init => IInv
  <2> SUFFICES ASSUME Init PROVE IInv
    OBVIOUS
  <2>1. None \notin Conns /\ NoFd \notin Fds
    BY AcceptorAssumption DEF NoFd
  <2>2. TypeOK
    <3>1. 0 \in 0..MaxBacklog /\ 0 \in 0..MaxAborts
      BY AcceptorAssumption
    <3> QED
      BY <3>1 DEF Init, TypeOK
  <2>3. RefInv
    BY <2>1 DEF Init, RefInv, Referenced, InMap
  <2>4. FdInv /\ MapHoldsTheOpen
    BY <2>1 DEF Init, FdInv, MapHoldsTheOpen
  <2>5. BatchInv
    <3>1. Cardinality(held) <= MaxHeld
      BY FS_EmptySet, AcceptorAssumption DEF Init
    <3> QED
      BY <3>1 DEF Init, BatchInv
  <2> QED
    BY <2>2, <2>3, <2>4, <2>5 DEF IInv
<1>2. IInv /\ [Next]_vars => IInv'
  <2> SUFFICES ASSUME IInv, [Next]_vars PROVE IInv'
    OBVIOUS
  <2>1. active \ {Listener} \subseteq Conns
    BY DEF IInv, TypeOK
  <2> QED
    BY <2>1, PollStep, AcceptStep, HandleEventsStep, HandleStaleStep, TaskStep, UserCallbacksStep,
       DestroyLoopStep, OtherStep
    DEF Next, LoopNext, Gone
<1> QED
  BY <1>1, <1>2, PTL DEF Spec

(* Type correctness. *)
THEOREM TypeCorrect == Spec => []TypeOK
<1>1. IInv => TypeOK
  BY DEF IInv
<1> QED
  BY <1>1, AcceptorInvariant, PTL

(* A raw pointer left in active_events reaches a deleted connection only   *)
(* when the user let go of it in the same batch, a queued closure never.   *)
THEOREM PointersLive == Spec => []NoStalePointer
<1>1. IInv => NoStalePointer
  <2> SUFFICES ASSUME IInv PROVE NoStalePointer
    OBVIOUS
  <2>1. \A c \in active \ {Listener} : state[c] # "none" \/ c \in dropped
    BY DEF IInv, TypeOK, BatchInv, FdInv
  <2>2. ASSUME NEW i \in DOMAIN tasks PROVE state[tasks[i].conn] # "none"
    <3>1. tasks[i].conn \in Conns
      BY QueueConns DEF IInv, TypeOK
    <3> QED
      BY <3>1 DEF IInv, RefInv, Referenced, InMap
  <2> QED
    BY <2>1, <2>2 DEF NoStalePointer
<1> QED
  BY <1>1, AcceptorInvariant, PTL

(* Every open connection that was really accepted is in connections_ under *)
(* its own descriptor, and has it.                                         *)
THEOREM OpenConnectionsInMap == Spec => []MapHoldsTheOpen
<1>1. IInv => MapHoldsTheOpen
  BY DEF IInv
<1> QED
  BY <1>1, AcceptorInvariant, PTL

(* Whenever the loop sleeps, and after it is deleted, every open           *)
(* descriptor belongs to a connection that the map or the user holds.      *)
THEOREM DescriptorsKept == Spec => []NoDescriptorLeak
<1>1. IInv => NoDescriptorLeak
  <2> SUFFICES ASSUME IInv, Idle \/ phase = "gone", NEW f \in Fds, open[f] # None
               PROVE  open[f] \in held \/ connections[f] = open[f]
    BY DEF NoDescriptorLeak
  <2>1. tasks = <<>>
    BY DEF Idle, IInv, BatchInv
  <2>2. open[f] \in Conns /\ fd[open[f]] = f /\ f # NoFd
    BY AcceptorAssumption DEF IInv, TypeOK, FdInv, NoFd
  <2>3. Kept(open[f])
    BY <2>1, <2>2, IdleKept DEF IInv, FdInv
  <2> QED
    BY <2>2, <2>3 DEF Kept, InMap, IInv, FdInv, TypeOK
<1> QED
  BY <1>1, AcceptorInvariant, PTL
==============================================================================
