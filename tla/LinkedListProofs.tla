--------------------------- MODULE LinkedListProofs ---------------------------
(***************************************************************************)
(* Proofs about LinkedList, for any number of nodes, lists and items.      *)
(***************************************************************************)
EXTENDS LinkedList, SequenceTheorems, FiniteSetTheorems, WellFoundedInduction, TLAPS

-------------------------------------------------------------------------------
(* Rings, apart from the lists that point into them: the nodes A, linked by  *)
(* s and p, fall into rings, and own tells to which ring a node belongs.     *)

LinkedBy(A, s, p) ==
  \A n \in A : s[n] \in A /\ p[n] \in A /\ p[s[n]] = n /\ s[p[n]] = n

(* a set that is closed under s has all nodes of a ring or none *)
Whole(A, s, own) ==
  \A S \in SUBSET A :
    (\A n \in S : s[n] \in S) => \A n \in S, m \in A : own[m] = own[n] => m \in S

Ringed(A, s, p, own) ==
  /\ A \subseteq Node
  /\ s \in [Node -> Node] /\ p \in [Node -> Node]
  /\ LinkedBy(A, s, p)
  /\ \A n \in A : own[s[n]] = own[n]
  /\ Whole(A, s, own)

(* A node of its own is a ring. *)
LEMMA RingAlone ==
  ASSUME NEW A, NEW s, NEW p, NEW own, Ringed(A, s, p, own),
         NEW n \in Node \ A, NEW x, \A m \in A : own[m] # x
  PROVE  Ringed(A \cup {n}, Alone(s, n), Alone(p, n),
                [m \in A \cup {n} |-> IF m = n THEN x ELSE own[m]])
<1> DEFINE B == A \cup {n}  t == Alone(s, n)  q == Alone(p, n)
           new == [m \in B |-> IF m = n THEN x ELSE own[m]]
<1>1. A \subseteq Node /\ s \in [Node -> Node] /\ p \in [Node -> Node] /\ LinkedBy(A, s, p)
  BY DEF Ringed
<1>2. t[n] = n /\ q[n] = n /\ \A m \in A : t[m] = s[m] /\ q[m] = p[m]
  BY <1>1 DEF Alone
<1>3. t \in [Node -> Node] /\ q \in [Node -> Node]
  BY <1>1 DEF Alone
<1>4. LinkedBy(B, t, q)
  BY <1>1, <1>2 DEF LinkedBy
<1>5. \A m \in B : new[t[m]] = new[m]
  BY <1>1, <1>2 DEF LinkedBy, Ringed
<1>6. ASSUME NEW S \in SUBSET B, \A m \in S : t[m] \in S,
             NEW m \in S, NEW k \in B, new[k] = new[m]
      PROVE  k \in S
  <2>1. CASE m = n
    BY <1>6, <2>1
  <2>2. CASE m # n
    <3>1. S \ {n} \in SUBSET A /\ \A j \in S \ {n} : s[j] \in S \ {n}
      BY <1>1, <1>2, <1>6 DEF LinkedBy
    <3>2. k \in A /\ own[k] = own[m] /\ m \in S \ {n}
      BY <1>6, <2>2
    <3>3. QED
      BY <3>1, <3>2 DEF Ringed, Whole
  <2>3. QED
    BY <2>1, <2>2
<1> HIDE DEF B, t, q, new
<1>7. Whole(B, t, new)
  BY <1>6 DEF Whole
<1>8. B \subseteq Node
  BY <1>1 DEF B
<1>9. Ringed(B, t, q, new)
  BY <1>3, <1>4, <1>5, <1>7, <1>8 DEF Ringed
<1>10. QED
  BY <1>9 DEF B, t, q, new

(* Joining two rings makes one of them (append, list.c:33-45). *)
LEMMA RingJoin ==
  ASSUME NEW A, NEW s, NEW p, NEW own, Ringed(A, s, p, own),
         NEW a \in A, NEW b \in A, own[a] # own[b]
  PROVE  Ringed(A, JoinedSucc(s, p, a, b), JoinedPred(s, p, a, b),
                [m \in A |-> IF own[m] = own[b] THEN own[a] ELSE own[m]])
<1> DEFINE t == JoinedSucc(s, p, a, b)  q == JoinedPred(s, p, a, b)
           new == [m \in A |-> IF own[m] = own[b] THEN own[a] ELSE own[m]]
<1>1. A \subseteq Node /\ s \in [Node -> Node] /\ p \in [Node -> Node] /\ LinkedBy(A, s, p)
  BY DEF Ringed
<1>2. /\ p[a] \in A /\ s[p[a]] = a /\ own[p[a]] = own[a]
      /\ p[b] \in A /\ s[p[b]] = b /\ own[p[b]] = own[b]
  BY DEF Ringed, LinkedBy
<1>3. \A n \in A : t[n] = IF n = p[a] THEN b ELSE IF n = p[b] THEN a ELSE s[n]
  BY <1>1, <1>2 DEF JoinedSucc
<1>4. \A n \in A : q[n] = IF n = a THEN p[b] ELSE IF n = b THEN p[a] ELSE p[n]
  BY <1>1, <1>2 DEF JoinedPred
<1>5. t \in [Node -> Node] /\ q \in [Node -> Node]
  BY <1>1, <1>2 DEF JoinedSucc, JoinedPred
<1> HIDE DEF t, q
<1>6. LinkedBy(A, t, q)
  BY <1>1, <1>2, <1>3, <1>4 DEF LinkedBy
<1>7. \A n \in A : new[t[n]] = new[n]
  BY <1>1, <1>2, <1>3 DEF Ringed, LinkedBy
<1>8. ASSUME NEW S \in SUBSET A, \A n \in S : t[n] \in S,
             NEW n \in S, NEW m \in A, new[m] = new[n]
      PROVE  m \in S
  <2>1. ASSUME NEW x \in S, own[x] # own[a], own[x] # own[b], NEW y \in A, own[y] = own[x]
        PROVE  y \in S
    <3> DEFINE T == {z \in S : own[z] = own[x]}
    <3>1. \A z \in T : s[z] \in T
      BY <1>2, <1>3, <1>8, <2>1 DEF Ringed
    <3>2. T \in SUBSET A /\ x \in T
      OBVIOUS
    <3> HIDE DEF T
    <3>3. y \in T
      BY <2>1, <3>1, <3>2 DEF Ringed, Whole
    <3>4. QED
      BY <3>3 DEF T
  <2>2. ASSUME p[a] \in S, NEW y \in A, own[y] = own[b]
        PROVE  y \in S
    <3> DEFINE T == {z \in S : own[z] = own[b]}
    <3>1. b \in S
      BY <1>2, <1>3, <1>8, <2>2
    <3>2. \A z \in T : s[z] \in T
      BY <1>2, <1>3, <1>8, <3>1 DEF Ringed
    <3>3. T \in SUBSET A /\ b \in T
      BY <3>1
    <3> HIDE DEF T
    <3>4. y \in T
      BY <2>2, <3>2, <3>3 DEF Ringed, Whole
    <3>5. QED
      BY <3>4 DEF T
  <2>3. ASSUME p[b] \in S, NEW y \in A, own[y] = own[a]
        PROVE  y \in S
    <3> DEFINE T == {z \in S : own[z] = own[a]}
    <3>1. a \in S
      BY <1>2, <1>3, <1>8, <2>3
    <3>2. \A z \in T : s[z] \in T
      BY <1>2, <1>3, <1>8, <3>1 DEF Ringed
    <3>3. T \in SUBSET A /\ a \in T
      BY <3>1
    <3> HIDE DEF T
    <3>4. y \in T
      BY <2>3, <3>2, <3>3 DEF Ringed, Whole
    <3>5. QED
      BY <3>4 DEF T
  <2>4. ASSUME NEW x \in S, own[x] = own[a]
        PROVE  p[a] \in S
    <3> SUFFICES ASSUME p[a] \notin S
                 PROVE  FALSE
      OBVIOUS
    <3> DEFINE T == {z \in S : own[z] = own[a]}
    <3>1. \A z \in T : s[z] \in T
      BY <1>2, <1>3, <1>8 DEF Ringed
    <3>2. T \in SUBSET A /\ x \in T
      BY <2>4
    <3>3. p[a] \notin T
      OBVIOUS
    <3> HIDE DEF T
    <3>4. QED
      BY <1>2, <2>4, <3>1, <3>2, <3>3 DEF Ringed, Whole
  <2>5. ASSUME NEW x \in S, own[x] = own[b]
        PROVE  p[b] \in S
    <3> SUFFICES ASSUME p[b] \notin S
                 PROVE  FALSE
      OBVIOUS
    <3> DEFINE T == {z \in S : own[z] = own[b]}
    <3>1. \A z \in T : s[z] \in T
      BY <1>2, <1>3, <1>8 DEF Ringed
    <3>2. T \in SUBSET A /\ x \in T
      BY <2>5
    <3>3. p[b] \notin T
      OBVIOUS
    <3> HIDE DEF T
    <3>4. QED
      BY <1>2, <2>5, <3>1, <3>2, <3>3 DEF Ringed, Whole
  <2>6. n \in A
    OBVIOUS
  <2>7. CASE own[n] = own[a] \/ own[n] = own[b]
    <3>1. p[a] \in S /\ p[b] \in S
      BY <1>2, <2>2, <2>3, <2>4, <2>5, <2>7
    <3>2. own[m] = own[a] \/ own[m] = own[b]
      BY <1>8, <2>6, <2>7
    <3>3. QED
      BY <2>2, <2>3, <3>1, <3>2
  <2>8. CASE own[n] # own[a] /\ own[n] # own[b]
    <3>1. own[m] = own[n]
      BY <1>8, <2>6, <2>8
    <3>2. QED
      BY <2>1, <2>8, <3>1
  <2>9. QED
    BY <2>7, <2>8
<1> HIDE DEF new
<1>9. Whole(A, t, new)
  BY <1>8 DEF Whole
<1>10. Ringed(A, t, q, new)
  BY <1>1, <1>5, <1>6, <1>7, <1>9 DEF Ringed
<1>11. QED
  BY <1>10 DEF t, q, new

(* Taking a node out leaves the rest of its ring (delete_list, list.c:47-51). *)
LEMMA RingWithout ==
  ASSUME NEW A, NEW s, NEW p, NEW own, Ringed(A, s, p, own), NEW n \in A
  PROVE  Ringed(A \ {n}, [s EXCEPT ![p[n]] = s[n]], [p EXCEPT ![s[n]] = p[n]],
                [m \in A \ {n} |-> own[m]])
<1> DEFINE B == A \ {n}  t == [s EXCEPT ![p[n]] = s[n]]  q == [p EXCEPT ![s[n]] = p[n]]
           new == [m \in B |-> own[m]]
<1>1. A \subseteq Node /\ s \in [Node -> Node] /\ p \in [Node -> Node] /\ LinkedBy(A, s, p)
  BY DEF Ringed
<1>2. p[n] \in A /\ s[n] \in A /\ s[p[n]] = n /\ p[s[n]] = n
  BY <1>1 DEF LinkedBy
<1>3. \A m \in A : /\ t[m] = IF m = p[n] THEN s[n] ELSE s[m]
                   /\ q[m] = IF m = s[n] THEN p[n] ELSE p[m]
  BY <1>1, <1>2
<1>4. t \in [Node -> Node] /\ q \in [Node -> Node]
  BY <1>1, <1>2
<1> HIDE DEF t, q
<1>5. LinkedBy(B, t, q)
  BY <1>1, <1>2, <1>3 DEF LinkedBy
<1>6. \A m \in B : new[t[m]] = new[m]
  <2>1. \A m \in B : t[m] \in B
    BY <1>5 DEF LinkedBy
  <2>2. \A m \in B : own[t[m]] = own[m]
    BY <1>2, <1>3 DEF Ringed
  <2>3. QED
    BY <2>1, <2>2
<1>7. ASSUME NEW S \in SUBSET B, \A m \in S : t[m] \in S,
             NEW m \in S, NEW k \in B, new[k] = new[m]
      PROVE  k \in S
  <2>1. own[k] = own[m]
    BY <1>7
  <2>2. CASE p[n] \in S
    <3>1. \A j \in S \cup {n} : s[j] \in S \cup {n}
      BY <1>2, <1>3, <1>7, <2>2
    <3>2. S \cup {n} \in SUBSET A
      OBVIOUS
    <3>3. k \in S \cup {n}
      BY <2>1, <3>1, <3>2 DEF Ringed, Whole
    <3>4. QED
      BY <3>3
  <2>3. CASE p[n] \notin S
    <3>1. \A j \in S : s[j] \in S
      BY <1>3, <1>7, <2>3
    <3>2. QED
      BY <2>1, <3>1 DEF Ringed, Whole
  <2>4. QED
    BY <2>2, <2>3
<1> HIDE DEF new
<1>8. Whole(B, t, new)
  BY <1>7 DEF Whole
<1>9. Ringed(B, t, q, new)
  BY <1>1, <1>4, <1>5, <1>6, <1>8 DEF Ringed
<1>10. QED
  BY <1>9 DEF B, t, q, new

-------------------------------------------------------------------------------
(* The inductive invariant: every list points into a ring of its own, and    *)
(* there are no other rings.                                                 *)

Pointed(A, f, own) ==
  /\ own \in [A -> List]
  /\ \A l \in List : f[l] # NULL => f[l] \in A /\ own[f[l]] = l
  /\ \A n \in A : f[own[n]] # NULL

Owned(own) == Ringed(allocated, succ, pred, own) /\ Pointed(allocated, first, own)

HasRings == \E own : Owned(own)

IInv ==
  /\ TypeOK
  /\ freeing # NULL => first[freeing] # NULL
  /\ HasRings

(* What can be reached from a list is the ring of the list. *)
LEMMA RingIsOwned ==
  ASSUME NEW own, Owned(own), NEW l \in List
  PROVE  Ring(l) = {n \in allocated : own[n] = l}
<1> DEFINE Own == {n \in allocated : own[n] = l}
<1>1. /\ \A k \in List : first[k] # NULL => first[k] \in allocated /\ own[first[k]] = k
      /\ \A n \in allocated : first[own[n]] # NULL
  BY DEF Owned, Pointed
<1>2. Closed(Own)
  BY DEF Owned, Ringed, LinkedBy, Closed
<1>3. ASSUME NEW n \in Ring(l)
      PROVE  n \in Own
  <2>1. first[l] # NULL
    BY DEF Ring
  <2>2. first[l] \in Own /\ Own \in SUBSET allocated
    BY <1>1, <2>1
  <2> HIDE DEF Own
  <2>3. QED
    BY <1>2, <2>2 DEF Ring
<1>4. ASSUME NEW n \in Own
      PROVE  n \in Ring(l)
  <2>1. n \in allocated /\ first[l] # NULL /\ own[first[l]] = own[n]
    BY <1>1
  <2>2. ASSUME NEW S \in SUBSET allocated, first[l] \in S, Closed(S)
        PROVE  n \in S
    BY <2>1, <2>2 DEF Owned, Ringed, Whole, Closed
  <2>3. QED
    BY <2>1, <2>2 DEF Ring
<1>5. QED
  BY <1>3, <1>4

LEMMA RingsInvariant == IInv => Linked /\ RingsApart
<1> SUFFICES ASSUME IInv
             PROVE  Linked /\ RingsApart
  OBVIOUS
<1>1. PICK own : Owned(own)
  BY DEF IInv, HasRings
<1>2. Linked
  BY <1>1 DEF Owned, Ringed, LinkedBy, Linked
<1>3. \A l \in List : Ring(l) = {n \in allocated : own[n] = l}
  BY <1>1, RingIsOwned
<1>4. \A n \in allocated : own[n] \in List
  BY <1>1 DEF Owned, Pointed
<1>5. \A l, m \in List : l # m => Ring(l) \cap Ring(m) = {}
  BY <1>3
<1>6. UNION {Ring(l) : l \in List} = allocated
  BY <1>3, <1>4
<1>7. QED
  BY <1>2, <1>5, <1>6 DEF RingsApart

-------------------------------------------------------------------------------
(* The steps. *)

LEMMA InitOwned == Init => IInv
<1> SUFFICES ASSUME Init
             PROVE  IInv
  OBVIOUS
<1>1. succ \in [Node -> Node] /\ pred \in [Node -> Node] /\ data \in [Node -> Datum]
  BY DatumAssumption DEF Init
<1>2. TypeOK
  BY <1>1 DEF Init, TypeOK
<1> DEFINE own == [n \in allocated |-> CHOOSE l \in List : TRUE]
<1>3. Ringed(allocated, succ, pred, own)
  BY <1>1 DEF Init, Ringed, LinkedBy, Whole
<1>4. Pointed(allocated, first, own)
  BY DEF Init, Pointed
<1>5. QED
  BY <1>2, <1>3, <1>4 DEF Init, IInv, HasRings, Owned

(* The caller's pointers after a node n has been taken out of the ring of l. *)
LEMMA UnlinkOwned ==
  ASSUME TypeOK, NEW own, Owned(own), NEW n \in allocated, Unlink(n),
         \/ first[own[n]] # n /\ first' = first
         \/ /\ first[own[n]] = n
            /\ first' = [first EXCEPT ![own[n]] = IF succ[n] = n THEN NULL ELSE succ[n]]
  PROVE  HasRings'
<1> DEFINE e == [m \in allocated \ {n} |-> own[m]]
<1>1. PICK new : new = e
  OBVIOUS
<1>2. Ringed(allocated', succ', pred', new)
  <2>1. Ringed(allocated, succ, pred, own)
    BY DEF Owned
  <2>2. Ringed(allocated \ {n}, [succ EXCEPT ![pred[n]] = succ[n]],
               [pred EXCEPT ![succ[n]] = pred[n]], e)
    BY <2>1, RingWithout
  <2> HIDE DEF e
  <2>3. QED
    BY <1>1, <2>2 DEF Unlink
<1>3. /\ own \in [allocated -> List]
      /\ \A l \in List : first[l] # NULL => first[l] \in allocated /\ own[first[l]] = l
      /\ \A m \in allocated : first[own[m]] # NULL
      /\ \A m \in allocated : succ[m] \in allocated /\ own[succ[m]] = own[m]
  BY DEF Owned, Pointed, Ringed, LinkedBy
<1>4. allocated' = allocated \ {n} /\ first \in [List -> Node \cup {NULL}] /\ own[n] \in List
  BY <1>3 DEF Unlink, TypeOK
<1>5. new \in [allocated' -> List] /\ \A m \in allocated' : new[m] = own[m]
  BY <1>1, <1>3, <1>4
<1>6. CASE first[own[n]] # n /\ first' = first
  <2>1. \A l \in List : first[l] # n
    <3>1. n # NULL
      BY NullAssumption DEF TypeOK
    <3>2. QED
      BY <1>3, <1>6, <3>1
  <2>2. QED
    BY <1>2, <1>3, <1>4, <1>5, <1>6, <2>1 DEF HasRings, Owned, Pointed
<1>7. CASE /\ first[own[n]] = n
           /\ first' = [first EXCEPT ![own[n]] = IF succ[n] = n THEN NULL ELSE succ[n]]
  <2>1. \A l \in List \ {own[n]} : first'[l] = first[l] /\ first[l] # n
    BY <1>3, <1>4, <1>7
  <2>2. first'[own[n]] = IF succ[n] = n THEN NULL ELSE succ[n]
    BY <1>4, <1>7
  <2>3. \A l \in List : first'[l] # NULL => first'[l] \in allocated' /\ new[first'[l]] = l
    BY <1>3, <1>4, <1>5, <2>1, <2>2
  <2>4. ASSUME NEW m \in allocated'
        PROVE  first'[new[m]] # NULL
    <3>1. CASE own[m] # own[n]
      BY <1>3, <1>4, <1>5, <2>1, <3>1
    <3>2. CASE own[m] = own[n]
      <4>1. succ[n] # n
        <5> SUFFICES ASSUME succ[n] = n
                     PROVE  FALSE
          OBVIOUS
        <5>1. {n} \in SUBSET allocated /\ \A k \in {n} : succ[k] \in {n}
          OBVIOUS
        <5>2. m \in {n}
          BY <1>4, <3>2, <5>1 DEF Owned, Ringed, Whole
        <5>3. QED
          BY <1>4, <5>2
      <4>2. succ[n] # NULL
        BY <1>3, NullAssumption DEF TypeOK
      <4>3. QED
        BY <1>4, <1>5, <2>2, <3>2, <4>1, <4>2
    <3>3. QED
      BY <3>1, <3>2
  <2>5. QED
    BY <1>2, <1>5, <2>3, <2>4 DEF HasRings, Owned, Pointed
<1>8. QED
  BY <1>6, <1>7

(* The caller's pointers after a new node has been joined to the ring of l. *)
LEMMA JoinNewOwned ==
  ASSUME TypeOK, NEW own, Owned(own), NEW l \in List, first[l] # NULL,
         NEW a \in allocated, own[a] = l, NEW n, NEW d, NewNode(n, d), JoinNew(n, a),
         first' = first
  PROVE  HasRings'
<1> DEFINE A == allocated \cup {n}
           e == [m \in A |-> IF m = n THEN NULL ELSE own[m]]
           f == [m \in A |-> IF e[m] = e[n] THEN e[a] ELSE e[m]]
<1>1. n \in Node \ allocated /\ allocated' = A
  BY DEF NewNode
<1>2. /\ own \in [allocated -> List]
      /\ \A k \in List : first[k] # NULL => first[k] \in allocated /\ own[first[k]] = k
      /\ \A m \in allocated : first[own[m]] # NULL
  BY DEF Owned, Pointed
<1>3. Ringed(A, Alone(succ, n), Alone(pred, n), e)
  BY <1>1, <1>2, NullAssumption, RingAlone DEF Owned
<1>4. e[a] = l /\ e[n] = NULL /\ l # NULL /\ a \in A /\ n \in A
  BY <1>1, NullAssumption
<1>5. \A m \in A : f[m] = IF m = n THEN l ELSE own[m]
  BY <1>1, <1>2, <1>4, NullAssumption
<1> HIDE DEF e
<1>6. Ringed(A, succ', pred', f)
  BY <1>3, <1>4, RingJoin DEF JoinNew
<1>7. PICK new : new = f
  OBVIOUS
<1>8. new \in [A -> List] /\ \A m \in A : new[m] = IF m = n THEN l ELSE own[m]
  BY <1>2, <1>5, <1>7
<1> HIDE DEF f
<1>9. Ringed(allocated', succ', pred', new)
  BY <1>1, <1>6, <1>7
<1>10. Pointed(allocated', first', new)
  BY <1>1, <1>2, <1>8 DEF Pointed
<1>11. QED
  BY <1>9, <1>10 DEF HasRings, Owned

LEMMA InsertFirstOwned ==
  ASSUME TypeOK, NEW own, Owned(own), NEW l \in List, NEW n, NEW d, InsertFirst(l, n, d)
  PROVE  HasRings'
<1> DEFINE A == allocated \cup {n}
           e == [m \in A |-> IF m = n THEN l ELSE own[m]]
<1>1. /\ n \in Node \ allocated /\ allocated' = A
      /\ first[l] = NULL /\ first' = [first EXCEPT ![l] = n]
      /\ succ' = Alone(succ, n) /\ pred' = Alone(pred, n)
  BY DEF InsertFirst, NewNode
<1>2. /\ own \in [allocated -> List]
      /\ \A k \in List : first[k] # NULL => first[k] \in allocated /\ own[first[k]] = k
      /\ \A m \in allocated : first[own[m]] # NULL
  BY DEF Owned, Pointed
<1>3. \A m \in allocated : own[m] # l
  BY <1>1, <1>2
<1>4. PICK new : new = e
  OBVIOUS
<1>5. Ringed(allocated', succ', pred', new)
  BY <1>1, <1>3, <1>4, RingAlone DEF Owned
<1>6. new \in [A -> List] /\ new[n] = l /\ \A m \in allocated : new[m] = own[m]
  BY <1>1, <1>2, <1>4
<1>7. first'[l] = n /\ \A k \in List \ {l} : first'[k] = first[k]
  BY <1>1 DEF TypeOK
<1>8. n # NULL
  BY <1>1, NullAssumption
<1> HIDE DEF e
<1>9. Pointed(allocated', first', new)
  BY <1>1, <1>2, <1>6, <1>7, <1>8 DEF Pointed
<1>10. QED
  BY <1>5, <1>9 DEF HasRings, Owned

(* Appending list m gives its nodes to list l. *)
LEMMA AppendOwned ==
  ASSUME TypeOK, NEW own, Owned(own), NEW l \in List, NEW m \in List, AppendList(l, m)
  PROVE  HasRings'
<1> DEFINE e == [n \in allocated |-> IF own[n] = m THEN l ELSE own[n]]
<1>1. /\ l # m /\ first[m] # NULL /\ allocated' = allocated
      /\ first' = [first EXCEPT ![l] = IF first[l] = NULL THEN first[m] ELSE first[l],
                                ![m] = NULL]
  BY DEF AppendList
<1>2. /\ own \in [allocated -> List]
      /\ \A k \in List : first[k] # NULL => first[k] \in allocated /\ own[first[k]] = k
      /\ \A n \in allocated : first[own[n]] # NULL
  BY DEF Owned, Pointed
<1>3. PICK new : new = e
  OBVIOUS
<1>4. /\ new \in [allocated -> List]
      /\ \A n \in allocated : new[n] = IF own[n] = m THEN l ELSE own[n]
  BY <1>2, <1>3
<1>5. /\ first'[l] = IF first[l] = NULL THEN first[m] ELSE first[l]
      /\ first'[m] = NULL
      /\ \A k \in List \ {l, m} : first'[k] = first[k]
  BY <1>1 DEF TypeOK
<1>6. Pointed(allocated', first', new)
  <2>1. ASSUME NEW k \in List, first'[k] # NULL
        PROVE  first'[k] \in allocated /\ new[first'[k]] = k
    <3>1. CASE k = l /\ first[l] = NULL
      BY <1>1, <1>2, <1>4, <1>5, <3>1
    <3>2. CASE k = l /\ first[l] # NULL
      <4>1. first'[k] = first[l] /\ first[l] \in allocated /\ own[first[l]] = l
        BY <1>2, <1>5, <3>2
      <4>2. l # m
        BY <1>1
      <4>3. QED
        BY <1>4, <3>2, <4>1, <4>2
    <3>3. CASE k \in List \ {l, m}
      BY <1>2, <1>4, <1>5, <2>1, <3>3
    <3>4. QED
      BY <1>5, <2>1, <3>1, <3>2, <3>3
  <2>2. ASSUME NEW n \in allocated
        PROVE  first'[new[n]] # NULL
    <3>1. own[n] \in List /\ first[own[n]] # NULL
      BY <1>2
    <3>2. CASE own[n] = m \/ own[n] = l
      BY <1>1, <1>4, <1>5, <3>1, <3>2
    <3>3. CASE own[n] \in List \ {l, m}
      BY <1>4, <1>5, <3>1, <3>3
    <3>4. QED
      BY <3>1, <3>2, <3>3
  <2>3. QED
    BY <1>1, <1>4, <2>1, <2>2 DEF Pointed
<1>7. CASE first[l] = NULL
  <2>1. succ' = succ /\ pred' = pred
    BY <1>7 DEF AppendList
  <2>2. \A n \in allocated : own[n] # l
    BY <1>2, <1>7
  <2>3. \A n, k \in allocated : new[n] = new[k] <=> own[n] = own[k]
    BY <1>4, <2>2
  <2>4. Ringed(allocated, succ, pred, new)
    BY <1>4, <2>3 DEF Owned, Ringed, LinkedBy, Whole
  <2>5. QED
    BY <1>1, <1>6, <2>1, <2>4 DEF HasRings, Owned
<1>8. CASE first[l] # NULL
  <2> DEFINE a == first[l]  b == first[m]
             j == [n \in allocated |-> IF own[n] = own[b] THEN own[a] ELSE own[n]]
  <2>1. a \in allocated /\ b \in allocated /\ own[a] = l /\ own[b] = m
    BY <1>1, <1>2, <1>8
  <2>2. succ' = JoinedSucc(succ, pred, a, b) /\ pred' = JoinedPred(succ, pred, a, b)
    BY <1>8 DEF AppendList
  <2>3. Ringed(allocated, JoinedSucc(succ, pred, a, b), JoinedPred(succ, pred, a, b), j)
    BY <1>1, <2>1, RingJoin DEF Owned
  <2>4. j = new
    BY <1>3, <2>1
  <2>5. QED
    BY <1>1, <1>6, <2>2, <2>3, <2>4 DEF HasRings, Owned
<1>9. QED
  BY <1>7, <1>8

-------------------------------------------------------------------------------
(* The invariant is inductive. *)

LEMMA StepTyped ==
  ASSUME TypeOK, Linked, RingsApart, freeing # NULL => first[freeing] # NULL,
         NEW l \in List, \A k \in List : first[k] # NULL => first[k] \in allocated,
         \/ \E n \in Node, d \in Datum : InsertFirst(l, n, d) \/ InsertLast(l, n, d) \/ InsertAfter(l, n, d)
         \/ \E m \in List : AppendList(l, m)
         \/ \E n \in allocated \ {first[l]} : DeleteNode(l, n)
         \/ RemoveFirst(l)
         \/ Free(l)
  PROVE  TypeOK' /\ (freeing' # NULL => first'[freeing'] # NULL)
<1>1. /\ \A s, p \in [Node -> Node], a, b \in Node :
           /\ JoinedSucc(s, p, a, b) \in [Node -> Node]
           /\ JoinedPred(s, p, a, b) \in [Node -> Node]
      /\ \A s \in [Node -> Node], n \in Node : Alone(s, n) \in [Node -> Node]
  BY DEF JoinedSucc, JoinedPred, Alone
<1>2. first[l] # NULL => first[l] \in Node
  BY DEF TypeOK
<1>3. ASSUME NEW n \in Node, NEW d \in Datum, InsertFirst(l, n, d)
      PROVE  TypeOK' /\ freeing' = NULL
  BY <1>1, <1>3 DEF TypeOK, InsertFirst, NewNode
<1>4. ASSUME NEW n \in Node, NEW d \in Datum, NewNode(n, d), NEW a \in Node, JoinNew(n, a),
             first' = first
      PROVE  TypeOK' /\ freeing' = NULL
  <2>1. succ' \in [Node -> Node] /\ pred' \in [Node -> Node]
    BY <1>1, <1>4 DEF TypeOK, JoinNew
  <2>2. QED
    BY <1>4, <2>1 DEF TypeOK, NewNode
<1>5. ASSUME NEW n \in Node, NEW d \in Datum, InsertLast(l, n, d) \/ InsertAfter(l, n, d)
      PROVE  TypeOK' /\ freeing' = NULL
  <2>1. first[l] \in Node /\ succ[first[l]] \in Node
    BY <1>2, <1>5 DEF TypeOK, InsertLast, InsertAfter
  <2>2. QED
    BY <1>4, <1>5, <2>1 DEF InsertLast, InsertAfter
<1>6. ASSUME NEW m \in List, AppendList(l, m)
      PROVE  TypeOK' /\ freeing' = NULL
  <2>1. succ' \in [Node -> Node] /\ pred' \in [Node -> Node]
    <3>1. first[m] \in Node
      BY <1>6 DEF TypeOK, AppendList
    <3>2. CASE first[l] = NULL
      BY <1>6, <3>2 DEF TypeOK, AppendList
    <3>3. CASE first[l] # NULL
      <4>1. first[l] \in Node
        BY <1>2, <3>3
      <4>2. /\ succ' = JoinedSucc(succ, pred, first[l], first[m])
            /\ pred' = JoinedPred(succ, pred, first[l], first[m])
        BY <1>6, <3>3 DEF AppendList
      <4>3. QED
        BY <1>1, <3>1, <4>1, <4>2 DEF TypeOK
    <3>4. QED
      BY <3>2, <3>3
  <2>2. first' \in [List -> Node \cup {NULL}]
    BY <1>6 DEF TypeOK, AppendList
  <2>3. QED
    BY <1>6, <2>1, <2>2 DEF TypeOK, AppendList
<1>7. ASSUME NEW n \in Node, Unlink(n)
      PROVE  /\ succ' \in [Node -> Node] /\ pred' \in [Node -> Node]
             /\ allocated' \in SUBSET Node /\ data' = data
  BY <1>7 DEF TypeOK, Unlink
<1>8. ASSUME NEW n \in allocated, DeleteNode(l, n)
      PROVE  TypeOK' /\ freeing' = NULL
  BY <1>7, <1>8 DEF TypeOK, DeleteNode
<1>9. ASSUME RemoveFirst(l)
      PROVE  TypeOK' /\ freeing' = NULL
  <2>1. FirstAfter(l) \in Node \cup {NULL}
    BY <1>2, <1>9 DEF TypeOK, RemoveFirst, FirstAfter
  <2>2. first' \in [List -> Node \cup {NULL}]
    BY <1>9, <2>1 DEF TypeOK, RemoveFirst
  <2>3. QED
    BY <1>2, <1>7, <1>9, <2>2 DEF TypeOK, RemoveFirst
<1>10. ASSUME FreeList(l)
       PROVE  TypeOK' /\ freeing' = l /\ first'[l] # NULL
  BY <1>10 DEF TypeOK, FreeList
<1>11. ASSUME FreeNext(l)
       PROVE  TypeOK' /\ freeing' = l /\ first'[l] # NULL
  <2>1. l # NULL /\ first[l] \in Node /\ succ[first[l]] \in Node
    BY <1>2, <1>11, NullAssumption DEF TypeOK, FreeNext
  <2>2. QED
    BY <1>7, <1>11, <2>1, NullAssumption DEF TypeOK, FreeNext
<1>12. ASSUME FreeLast(l)
       PROVE  TypeOK' /\ freeing' = NULL
  <2>1. l # NULL /\ first[l] \in Node
    BY <1>2, <1>12, NullAssumption DEF TypeOK, FreeLast
  <2>2. QED
    BY <1>7, <1>12, <2>1 DEF TypeOK, FreeLast
<1>13. QED
  BY <1>3, <1>5, <1>6, <1>8, <1>9, <1>10, <1>11, <1>12 DEF Free

LEMMA StepInvariant == IInv /\ [Next]_vars => IInv'
<1> SUFFICES ASSUME IInv, [Next]_vars
             PROVE  IInv'
  OBVIOUS
<1>1. PICK own : Owned(own)
  BY DEF IInv, HasRings
<1>2. /\ own \in [allocated -> List]
      /\ \A k \in List : first[k] # NULL => first[k] \in allocated /\ own[first[k]] = k
      /\ \A n \in allocated : succ[n] \in allocated /\ own[succ[n]] = own[n]
  BY <1>1 DEF Owned, Pointed, Ringed, LinkedBy
<1>3. TypeOK /\ Linked /\ RingsApart /\ (freeing # NULL => first[freeing] # NULL)
  BY RingsInvariant DEF IInv
<1>4. CASE UNCHANGED vars
  BY <1>1, <1>3, <1>4 DEF vars, IInv, TypeOK, HasRings, Owned
<1>5. CASE Next
  <2>1. PICK l \in List :
          \/ Insert(l)
          \/ \E m \in List : AppendList(l, m)
          \/ \E n \in Ring(l) \ {first[l]} : DeleteNode(l, n)
          \/ RemoveFirst(l)
          \/ Free(l)
    BY <1>5 DEF Next
  <2>2. Ring(l) = {n \in allocated : own[n] = l}
    BY <1>1, RingIsOwned
  <2>3. TypeOK' /\ (freeing' # NULL => first'[freeing'] # NULL)
    BY <1>2, <1>3, <2>1, <2>2, StepTyped DEF Insert
  <2>4. ASSUME NEW n \in Node, NEW d \in Datum, InsertFirst(l, n, d)
        PROVE  HasRings'
    BY <1>1, <1>3, <2>4, InsertFirstOwned
  <2>5. ASSUME NEW n \in Node, NEW d \in Datum, InsertLast(l, n, d)
        PROVE  HasRings'
    BY <1>1, <1>2, <1>3, <2>5, JoinNewOwned DEF InsertLast
  <2>6. ASSUME NEW n \in Node, NEW d \in Datum, InsertAfter(l, n, d)
        PROVE  HasRings'
    BY <1>1, <1>2, <1>3, <2>6, JoinNewOwned DEF InsertAfter
  <2>7. ASSUME NEW m \in List, AppendList(l, m)
        PROVE  HasRings'
    BY <1>1, <1>3, <2>7, AppendOwned
  <2>8. ASSUME NEW n \in Ring(l) \ {first[l]}, DeleteNode(l, n)
        PROVE  HasRings'
    BY <1>1, <1>3, <2>2, <2>8, UnlinkOwned DEF DeleteNode
  <2>9. ASSUME RemoveFirst(l)
        PROVE  HasRings'
    <3> DEFINE n == first[l]
    <3>1. n \in allocated /\ own[n] = l /\ Unlink(n)
      BY <1>2, <2>9 DEF RemoveFirst
    <3>2. /\ first[own[n]] = n
          /\ first' = [first EXCEPT ![own[n]] = IF succ[n] = n THEN NULL ELSE succ[n]]
      BY <1>2, <2>9, <3>1 DEF RemoveFirst, FirstAfter
    <3> HIDE DEF n
    <3>3. QED
      BY <1>1, <1>3, <3>1, <3>2, UnlinkOwned
  <2>10. ASSUME FreeList(l)
        PROVE  HasRings'
    BY <1>1, <2>10 DEF FreeList, HasRings, Owned
  <2>11. ASSUME FreeNext(l)
        PROVE  HasRings'
    <3>1. first[l] # NULL
      BY <1>3, <2>11, NullAssumption DEF FreeNext
    <3> DEFINE n == succ[first[l]]
    <3>2. n \in allocated /\ own[n] = l /\ Unlink(n) /\ first[l] # n /\ first' = first
      BY <1>2, <2>11, <3>1 DEF FreeNext
    <3> HIDE DEF n
    <3>3. QED
      BY <1>1, <1>3, <3>2, UnlinkOwned
  <2>12. ASSUME FreeLast(l)
        PROVE  HasRings'
    <3>1. first[l] # NULL
      BY <1>3, <2>12, NullAssumption DEF FreeLast
    <3> DEFINE n == first[l]
    <3>2. n \in allocated /\ own[n] = l /\ Unlink(n)
      BY <1>2, <2>12, <3>1 DEF FreeLast
    <3>3. /\ first[own[n]] = n
          /\ first' = [first EXCEPT ![own[n]] = IF succ[n] = n THEN NULL ELSE succ[n]]
      BY <2>12, <3>2 DEF FreeLast
    <3> HIDE DEF n
    <3>4. QED
      BY <1>1, <1>3, <3>2, <3>3, UnlinkOwned
  <2>13. HasRings'
    <3>1. CASE Insert(l)
      BY <2>4, <2>5, <2>6, <3>1 DEF Insert
    <3>2. CASE Free(l)
      BY <2>10, <2>11, <2>12, <3>2 DEF Free
    <3>3. QED
      BY <2>1, <2>7, <2>8, <2>9, <3>1, <3>2
  <2>14. QED
    BY <2>3, <2>13 DEF IInv
<1>6. QED
  BY <1>4, <1>5

THEOREM ListInvariant == Spec => []IInv
  BY InitOwned, StepInvariant, PTL DEF Spec

(* Types of the list's fields. *)
THEOREM ListTyped == Spec => []TypeOK
<1>1. IInv => TypeOK
  BY DEF IInv
<1>2. QED
  BY <1>1, ListInvariant, PTL

(* The forward and the backward pointers of every list agree. *)
THEOREM AlwaysLinked == Spec => []Linked
  BY ListInvariant, RingsInvariant, PTL

(* No node is on two lists and none is lost. *)
THEOREM RingsStayApart == Spec => []RingsApart
  BY ListInvariant, RingsInvariant, PTL

-------------------------------------------------------------------------------
(* The refinement.  A walk along the pointers, from a node x. *)

LEMMA LeastNat ==
  ASSUME NEW S \in SUBSET Nat, S # {}
  PROVE  \E k \in S : \A j \in S : k <= j
<1>1. PICK k \in S : \A j \in S : <<j, k>> \notin OpToRel(<, Nat)
  BY NatLessThanWellFounded, WFMin
<1>2. \A j \in S : ~(j < k)
  BY <1>1 DEF OpToRel
<1>3. QED
  BY <1>2

Farthest == Cardinality(Node)

LEMMA FarthestTyped == Farthest \in Nat
  BY FiniteAssumption, FS_CardinalityType DEF Farthest

WalkStep(x, s, at) == [i \in 0 .. Farthest |-> IF i = 0 THEN x ELSE s[at[i - 1]]]
WalkFrom(x, s) == CHOOSE at : at = WalkStep(x, s, at)

LEMMA WalkIsFrom ==
  ASSUME NEW l
  PROVE  Walk(l) = WalkFrom(first[l], succ) /\ Walk(l)' = WalkFrom(first[l], succ)'
BY Zenon DEF Walk, WalkFrom, WalkStep, Farthest

(* A walk of any length exists, so Walk is one. *)
LEMMA WalkFollows ==
  ASSUME NEW x, NEW s
  PROVE  /\ WalkFrom(x, s)[0] = x
         /\ \A i \in 1 .. Farthest : WalkFrom(x, s)[i] = s[WalkFrom(x, s)[i - 1]]
<1> DEFINE Along(v, n) == v[0] = x /\ \A i \in 1 .. n : v[i] = s[v[i - 1]]
           Missing == {n \in Nat : ~\E v : Along(v, n)}
<1>1. Missing = {}
  <2> SUFFICES ASSUME Missing # {} PROVE FALSE
    OBVIOUS
  <2>1. Missing \in SUBSET Nat
    OBVIOUS
  <2>2. PICK n \in Missing : \A j \in Missing : n <= j
    <3> HIDE DEF Missing
    <3> QED BY <2>1, LeastNat
  <2>3. n \in Nat /\ ~\E v : Along(v, n)
    BY <2>2
  <2>4. n # 0
    <3>1. PICK v : v = [i \in {0} |-> x]
      OBVIOUS
    <3>2. v[0] = x
      BY <3>1
    <3> QED BY <2>3, <3>2
  <2>5. n - 1 \in Nat /\ n - 1 \notin Missing
    <3> HIDE DEF Missing, Along
    <3> QED BY <2>2, <2>3, <2>4
  <2>6. PICK v : Along(v, n - 1)
    BY <2>5
  <2>7. PICK w : w = [i \in 0 .. n |-> IF i = n THEN s[v[n - 1]] ELSE v[i]]
    OBVIOUS
  <2>8. w[0] = x
    BY <2>3, <2>4, <2>6, <2>7
  <2>9. ASSUME NEW i \in 1 .. n
        PROVE  w[i] = s[w[i - 1]]
    <3>1. w[i - 1] = v[i - 1]
      BY <2>3, <2>7
    <3>2. CASE i = n
      BY <2>3, <2>7, <3>1, <3>2
    <3>3. CASE i # n
      <4>1. i \in 1 .. n - 1 /\ w[i] = v[i]
        BY <2>3, <2>7, <3>3
      <4> QED BY <2>6, <3>1, <4>1
    <3> QED BY <3>2, <3>3
  <2> QED BY <2>3, <2>8, <2>9
<1>2. PICK v : Along(v, Farthest)
  BY <1>1, FarthestTyped
<1>3. PICK w : w = [i \in 0 .. Farthest |-> v[i]]
  OBVIOUS
<1>4. w = WalkStep(x, s, w)
  <2>1. \A i \in 0 .. Farthest : v[i] = (IF i = 0 THEN x ELSE s[w[i - 1]])
    BY <1>2, <1>3, FarthestTyped
  <2> HIDE DEF Along, Missing
  <2>2. w = [i \in 0 .. Farthest |-> IF i = 0 THEN x ELSE s[w[i - 1]]]
    BY <1>3, <2>1, Zenon
  <2> QED BY <2>2, Zenon DEF WalkStep
<1>5. PICK at : at = WalkFrom(x, s)
  OBVIOUS
<1>6. at = WalkStep(x, s, at)
  BY <1>4, <1>5, Zenon DEF WalkFrom
<1>7. at[0] = x /\ \A i \in 1 .. Farthest : at[i] = s[at[i - 1]]
  BY <1>6, FarthestTyped DEF WalkStep
<1>8. QED
  BY <1>5, <1>7

(* The nodes of a list as a sequence: q starts at x and follows s around. *)
Circle(q, x, s) ==
  /\ q \in Seq(Node)
  /\ q = <<>> <=> x = NULL
  /\ q # <<>> => x = q[1]
  /\ \A i \in 1 .. Len(q) : s[q[i]] = IF i = Len(q) THEN q[1] ELSE q[i + 1]

Once(q) == \A i, j \in 1 .. Len(q) : q[i] = q[j] => i = j

(* what they hold *)
Image(q, d) == [i \in 1 .. Len(q) |-> d[q[i]]]

LengthOn(x, at) ==
  IF x = NULL THEN 0
  ELSE CHOOSE n \in 1 .. Farthest : at[n] = x /\ \A m \in 1 .. n - 1 : at[m] # x
LengthFrom(x, s) == LengthOn(x, WalkFrom(x, s))

ShownOn(n, at, d) == [i \in 1 .. n |-> d[at[i - 1]]]
ShownFrom(x, s, d) == ShownOn(LengthFrom(x, s), WalkFrom(x, s), d)

LEMMA LengthIsFrom ==
  ASSUME NEW l
  PROVE  length(l) = LengthFrom(first[l], succ) /\ length(l)' = LengthFrom(first[l], succ)'
<1>1. length(l) = LengthOn(first[l], Walk(l)) /\ length(l)' = LengthOn(first[l], Walk(l))'
  BY Zenon DEF length, LengthOn, Farthest
<1>2. QED
  BY <1>1, WalkIsFrom DEF LengthFrom

(* A node is on the way once, so the way is no longer than there are nodes. *)
LEMMA OnceIsShort ==
  ASSUME NEW q \in Seq(Node), Once(q)
  PROVE  Len(q) \in 0 .. Farthest
<1>1. Len(q) \in Nat /\ q \in [1 .. Len(q) -> Node]
  OBVIOUS
<1>2. q \in Injection(1 .. Len(q), Node)
  BY <1>1 DEF Once, Injection, IsInjective
<1>3. Cardinality(1 .. Len(q)) = Len(q)
  BY <1>1, FS_Interval
<1>4. Cardinality(1 .. Len(q)) <= Cardinality(Node)
  BY <1>2, FS_Injection, FiniteAssumption
<1>5. QED
  BY <1>1, <1>3, <1>4, FarthestTyped DEF Farthest

(* length and the walk find the nodes of the circle in their order. *)
LEMMA CircleWalked ==
  ASSUME NEW q, NEW x, NEW s, Circle(q, x, s), Once(q), x # NULL
  PROVE  /\ \A i \in 1 .. Len(q) : WalkFrom(x, s)[i - 1] = q[i]
         /\ WalkFrom(x, s)[Len(q)] = x
<1>1. PICK at : at = WalkFrom(x, s)
  OBVIOUS
<1>2. PICK k : k = Len(q)
  OBVIOUS
<1>3. k \in Nat /\ k >= 1 /\ k <= Farthest /\ Farthest \in Nat /\ q[1] = x
  BY <1>2, OnceIsShort, FarthestTyped DEF Circle
<1>4. at[0] = x /\ \A i \in 1 .. Farthest : at[i] = s[at[i - 1]]
  BY <1>1, WalkFollows
<1>5. \A i \in 1 .. k : s[q[i]] = IF i = k THEN q[1] ELSE q[i + 1]
  BY <1>2 DEF Circle
<1> DEFINE Wrong == {i \in Nat : i \in 1 .. k /\ at[i - 1] # q[i]}
<1>6. Wrong = {}
  <2> SUFFICES ASSUME Wrong # {} PROVE FALSE
    OBVIOUS
  <2>1. Wrong \in SUBSET Nat
    OBVIOUS
  <2>2. PICK n \in Wrong : \A j \in Wrong : n <= j
    <3> HIDE DEF Wrong
    <3> QED BY <2>1, LeastNat
  <2>3. n \in 1 .. k /\ at[n - 1] # q[n]
    BY <2>2
  <2>4. n # 1
    BY <1>3, <1>4, <2>3
  <2>5. n - 1 \in 1 .. k /\ n - 1 \notin Wrong
    <3> HIDE DEF Wrong
    <3> QED BY <1>3, <2>2, <2>3, <2>4
  <2>6. at[n - 2] = q[n - 1]
    BY <1>3, <2>3, <2>5
  <2>7. at[n - 1] = s[at[n - 2]]
    BY <1>3, <1>4, <2>3, <2>5
  <2> QED BY <1>3, <1>5, <2>3, <2>5, <2>6, <2>7
<1>7. \A i \in 1 .. k : at[i - 1] = q[i]
  BY <1>3, <1>6
<1>8. at[k] = x
  <2>1. at[k] = s[at[k - 1]] /\ at[k - 1] = q[k]
    BY <1>3, <1>4, <1>7
  <2> QED BY <1>3, <1>5, <2>1
<1>9. QED
  BY <1>1, <1>2, <1>7, <1>8

LEMMA CircleShown ==
  ASSUME NEW q, NEW x, NEW s, NEW d, Circle(q, x, s), Once(q)
  PROVE  ShownFrom(x, s, d) = Image(q, d)
<1>1. PICK k : k = Len(q)
  OBVIOUS
<1>2. k \in Nat /\ k <= Farthest /\ Farthest \in Nat
  BY <1>1, OnceIsShort, FarthestTyped DEF Circle
<1>3. CASE x = NULL
  <2>1. q = <<>> /\ LengthFrom(x, s) = 0
    BY <1>3 DEF Circle, LengthFrom, LengthOn
  <2> QED BY <2>1 DEF ShownFrom, ShownOn, Image
<1>4. CASE x # NULL
  <2>1. PICK at : at = WalkFrom(x, s)
    OBVIOUS
  <2>2. k >= 1 /\ q[1] = x /\ (\A i \in 1 .. k : at[i - 1] = q[i]) /\ at[k] = x
    BY <1>1, <1>2, <1>4, <2>1, CircleWalked DEF Circle
  <2>3. \A i, j \in 1 .. k : q[i] = q[j] => i = j
    BY <1>1 DEF Once
  <2>4. \A m \in 1 .. k - 1 : at[m] # x
    <3> SUFFICES ASSUME NEW m \in 1 .. k - 1
                 PROVE  at[m] # x
      OBVIOUS
    <3>1. m + 1 \in 1 .. k /\ 1 \in 1 .. k /\ (m + 1) - 1 = m /\ m + 1 # 1
      BY <1>2
    <3> QED BY <2>2, <2>3, <3>1
  <2> DEFINE Back(n) == at[n] = x /\ \A m \in 1 .. n - 1 : at[m] # x
  <2>5. LengthFrom(x, s) = CHOOSE n \in 1 .. Farthest : Back(n)
    BY <1>4, <2>1, Zenon DEF LengthFrom, LengthOn
  <2>6. k \in 1 .. Farthest /\ Back(k)
    BY <1>2, <2>2, <2>4
  <2>7. ASSUME NEW n \in 1 .. Farthest, Back(n)
        PROVE  n = k
    <3>1. ~(n < k)
      BY <1>2, <2>4, <2>7
    <3>2. ~(k < n)
      BY <1>2, <2>2, <2>7
    <3> QED BY <1>2, <3>1, <3>2
  <2> HIDE DEF Back
  <2>8. LengthFrom(x, s) = k
    BY <2>5, <2>6, <2>7
  <2>9. \A i \in 1 .. k : d[WalkFrom(x, s)[i - 1]] = d[q[i]]
    BY <2>1, <2>2
  <2>10. ShownFrom(x, s, d) = [i \in 1 .. k |-> d[WalkFrom(x, s)[i - 1]]]
    BY <2>8, Zenon DEF ShownFrom, ShownOn
  <2> QED BY <1>1, <2>9, <2>10 DEF Image
<1>5. QED
  BY <1>3, <1>4

(* The sequences that the mapping makes of the pointers, before and after a
   step. *)
Shown == [l \in List |-> [i \in 1 .. length(l) |-> data[Walk(l)[i - 1]]]]

LEMMA ShownIsFrom ==
  /\ Shown = [l \in List |-> ShownFrom(first[l], succ, data)]
  /\ Shown' = [l \in List |-> ShownFrom(first'[l], succ', data')]
<1>1. ASSUME NEW l
      PROVE  /\ [i \in 1 .. length(l) |-> data[Walk(l)[i - 1]]] = ShownFrom(first[l], succ, data)
             /\ [i \in 1 .. length(l)' |-> data'[Walk(l)'[i - 1]]] = ShownFrom(first'[l], succ', data')
  BY WalkIsFrom, LengthIsFrom, Zenon DEF ShownFrom, ShownOn
<1>2. QED
  BY <1>1 DEF Shown

-------------------------------------------------------------------------------
(* What the three kinds of pointer change do to one circle.  A node n is put *)
(* behind the j-th, or the j-th is cut out.                                  *)

Put(r, q, j, n) ==
  /\ Len(r) = Len(q) + 1
  /\ \A i \in 1 .. Len(q) + 1 :
       r[i] = IF i <= j THEN q[i] ELSE IF i = j + 1 THEN n ELSE q[i - 1]

Cut(r, q, j) ==
  /\ Len(r) = Len(q) - 1
  /\ \A i \in 1 .. Len(q) - 1 : r[i] = IF i < j THEN q[i] ELSE q[i + 1]

LEMMA AppendPuts ==
  ASSUME NEW S, NEW q \in Seq(S), NEW n \in S
  PROVE  Append(q, n) \in Seq(S) /\ Put(Append(q, n), q, Len(q), n)
<1>1. Len(q) \in Nat
  OBVIOUS
<1>2. QED
  BY <1>1, AppendProperties DEF Put

LEMMA InsertSecondPuts ==
  ASSUME NEW S, NEW q \in Seq(S), NEW n \in S, Len(q) >= 1
  PROVE  Seqs!InsertAt(q, 2, n) \in Seq(S) /\ Put(Seqs!InsertAt(q, 2, n), q, 1, n)
<1>1. PICK k : k = Len(q)
  OBVIOUS
<1>2. k \in Nat /\ k >= 1 /\ \A i \in 1 .. k : q[i] \in S
  BY <1>1
<1>3. PICK a : a = SubSeq(q, 1, 1)
  OBVIOUS
<1>4. PICK b : b = SubSeq(q, 2, k)
  OBVIOUS
<1>5. a \in Seq(S) /\ Len(a) = 1 /\ a[1] = q[1]
  BY <1>2, <1>3, SubSeqProperties
<1>6. b \in Seq(S) /\ Len(b) = k - 1 /\ \A i \in 1 .. k - 1 : b[i] = q[i + 1]
  BY <1>2, <1>4, SubSeqProperties
<1>7. PICK u : u = a \o <<n>>
  OBVIOUS
<1>8. u \in Seq(S) /\ Len(u) = 2 /\ u[1] = q[1] /\ u[2] = n
  <2>1. <<n>> \in Seq(S) /\ Len(<<n>>) = 1 /\ <<n>>[1] = n
    OBVIOUS
  <2>2. PICK v : v = <<n>>
    OBVIOUS
  <2>3. v \in Seq(S) /\ Len(v) = 1 /\ v[1] = n /\ u = a \o v
    BY <1>7, <2>1, <2>2
  <2>4. u \in Seq(S) /\ Len(u) = Len(a) + Len(v)
        /\ \A i \in 1 .. Len(a) + Len(v) : u[i] = IF i <= Len(a) THEN a[i] ELSE v[i - Len(a)]
    BY <1>5, <2>3, ConcatProperties
  <2>5. Len(a) + Len(v) = 2
    BY <1>5, <2>3
  <2>6. \A i \in 1 .. 2 : u[i] = IF i <= 1 THEN a[i] ELSE v[i - 1]
    BY <1>5, <2>4, <2>5
  <2>7. u[1] = a[1] /\ u[2] = v[1]
    BY <2>6
  <2> QED BY <1>5, <2>3, <2>4, <2>5, <2>7
<1>9. PICK r : r = u \o b
  OBVIOUS
<1>10. r \in Seq(S) /\ Len(r) = k + 1
       /\ \A i \in 1 .. k + 1 : r[i] = IF i <= 2 THEN u[i] ELSE b[i - 2]
  <2>1. /\ r \in Seq(S) /\ Len(r) = Len(u) + Len(b)
        /\ \A i \in 1 .. Len(u) + Len(b) : r[i] = IF i <= Len(u) THEN u[i] ELSE b[i - Len(u)]
    BY <1>6, <1>8, <1>9, ConcatProperties
  <2>2. Len(u) + Len(b) = k + 1
    BY <1>2, <1>6, <1>8
  <2> QED BY <1>8, <2>1, <2>2
<1>11. \A i \in 1 .. k + 1 : r[i] = IF i <= 1 THEN q[i] ELSE IF i = 2 THEN n ELSE q[i - 1]
  <2> SUFFICES ASSUME NEW i \in 1 .. k + 1
               PROVE  r[i] = IF i <= 1 THEN q[i] ELSE IF i = 2 THEN n ELSE q[i - 1]
    OBVIOUS
  <2>1. CASE i > 2
    <3>1. i - 2 \in 1 .. k - 1 /\ (i - 2) + 1 = i - 1 /\ ~(i <= 2)
      BY <1>2, <2>1
    <3>2. b[i - 2] = q[i - 1]
      BY <1>6, <3>1
    <3> QED BY <1>2, <1>10, <2>1, <3>1, <3>2
  <2>2. CASE i <= 2
    <3>1. i = 1 \/ i = 2
      BY <1>2, <2>2
    <3> QED BY <1>2, <1>8, <1>10, <2>2, <3>1
  <2> QED BY <1>2, <2>1, <2>2
<1>12. r = Seqs!InsertAt(q, 2, n)
  BY <1>1, <1>3, <1>4, <1>7, <1>9 DEF Seqs!InsertAt
<1>13. QED
  BY <1>1, <1>10, <1>11, <1>12 DEF Put

LEMMA RemoveCuts ==
  ASSUME NEW S, NEW q \in Seq(S), NEW j \in 1 .. Len(q)
  PROVE  Seqs!RemoveAt(q, j) \in Seq(S) /\ Cut(Seqs!RemoveAt(q, j), q, j)
<1>1. PICK k : k = Len(q)
  OBVIOUS
<1>2. k \in Nat /\ j \in 1 .. k /\ \A i \in 1 .. k : q[i] \in S
  BY <1>1
<1>3. PICK a : a = SubSeq(q, 1, j - 1)
  OBVIOUS
<1>4. PICK b : b = SubSeq(q, j + 1, k)
  OBVIOUS
<1>5. a \in Seq(S) /\ Len(a) = j - 1 /\ \A i \in 1 .. j - 1 : a[i] = q[i]
  BY <1>2, <1>3, SubSeqProperties
<1>6. b \in Seq(S) /\ Len(b) = k - j /\ \A i \in 1 .. k - j : b[i] = q[j + i]
  <2>1. \A i \in j + 1 .. k : q[i] \in S
    BY <1>2
  <2> QED BY <1>2, <1>4, <2>1, SubSeqProperties
<1>7. PICK r : r = a \o b
  OBVIOUS
<1>8. r \in Seq(S) /\ Len(r) = k - 1
      /\ \A i \in 1 .. k - 1 : r[i] = IF i <= j - 1 THEN a[i] ELSE b[i - (j - 1)]
  <2>1. /\ r \in Seq(S) /\ Len(r) = Len(a) + Len(b)
        /\ \A i \in 1 .. Len(a) + Len(b) : r[i] = IF i <= Len(a) THEN a[i] ELSE b[i - Len(a)]
    BY <1>5, <1>6, <1>7, ConcatProperties
  <2>2. Len(a) + Len(b) = k - 1
    BY <1>2, <1>5, <1>6
  <2> QED BY <1>5, <2>1, <2>2
<1>9. \A i \in 1 .. k - 1 : r[i] = IF i < j THEN q[i] ELSE q[i + 1]
  BY <1>2, <1>5, <1>6, <1>8
<1>10. r = Seqs!RemoveAt(q, j)
  BY <1>1, <1>3, <1>4, <1>7 DEF Seqs!RemoveAt
<1>11. QED
  BY <1>1, <1>8, <1>9, <1>10 DEF Cut

PutPointers(q, j, n, s, t) ==
  /\ \A i \in 1 .. Len(q) : q[i] # n
  /\ t[q[j]] = n /\ t[n] = s[q[j]]
  /\ \A i \in 1 .. Len(q) : i # j => t[q[i]] = s[q[i]]

LEMMA PutCircle ==
  ASSUME NEW q, NEW x, NEW s, Circle(q, x, s), Once(q), x # NULL, NEW j \in 1 .. Len(q),
         NEW n \in Node, NEW t, PutPointers(q, j, n, s, t),
         NEW r \in Seq(Node), Put(r, q, j, n)
  PROVE  Circle(r, x, t) /\ Once(r)
<1>1. PICK k : k = Len(q)
  OBVIOUS
<1>2. k \in Nat /\ j \in 1 .. k /\ q[1] = x /\ \A i \in 1 .. k : q[i] # n
  BY <1>1 DEF Circle, PutPointers
<1>3. \A i \in 1 .. k : s[q[i]] = IF i = k THEN q[1] ELSE q[i + 1]
  BY <1>1 DEF Circle
<1>4. Len(r) = k + 1 /\ \A i \in 1 .. k + 1 :
        r[i] = IF i <= j THEN q[i] ELSE IF i = j + 1 THEN n ELSE q[i - 1]
  BY <1>1 DEF Put
<1>5. t[q[j]] = n /\ t[n] = s[q[j]] /\ \A i \in 1 .. k : i # j => t[q[i]] = s[q[i]]
  BY <1>1 DEF PutPointers
<1>6. r # <<>> /\ r[1] = x
  BY <1>2, <1>4
<1>7. ASSUME NEW i \in 1 .. k + 1
      PROVE  t[r[i]] = IF i = k + 1 THEN r[1] ELSE r[i + 1]
  <2>1. CASE i < j
    <3>1. r[i] = q[i] /\ r[i + 1] = q[i + 1] /\ i \in 1 .. k /\ i # k /\ i # j
      BY <1>2, <1>4, <2>1
    <3> QED BY <1>2, <1>3, <1>5, <2>1, <3>1
  <2>2. CASE i = j
    <3>1. r[i] = q[j] /\ r[i + 1] = n /\ i # k + 1
      BY <1>2, <1>4, <2>2
    <3> QED BY <1>5, <3>1
  <2>3. CASE i = j + 1
    <3>1. r[i] = n
      BY <1>2, <1>4, <2>3
    <3>2. t[n] = IF j = k THEN q[1] ELSE q[j + 1]
      BY <1>2, <1>3, <1>5
    <3>3. j # k => r[i + 1] = q[j + 1] /\ i # k + 1
      <4> SUFFICES ASSUME j # k
                   PROVE  r[i + 1] = q[j + 1] /\ i # k + 1
        OBVIOUS
      <4>1. i + 1 \in 1 .. k + 1 /\ ~(i + 1 <= j) /\ i + 1 # j + 1 /\ (i + 1) - 1 = j + 1
        BY <1>2, <2>3
      <4> QED BY <1>2, <1>4, <2>3, <4>1
    <3> QED BY <1>2, <1>6, <2>3, <3>1, <3>2, <3>3
  <2>4. CASE i > j + 1
    <3>1. r[i] = q[i - 1] /\ i - 1 \in 1 .. k /\ i - 1 # j /\ (i - 1) + 1 = i
      BY <1>2, <1>4, <2>4
    <3>2. t[r[i]] = IF i - 1 = k THEN q[1] ELSE q[i]
      BY <1>3, <1>5, <3>1
    <3>3. i # k + 1 => r[i + 1] = q[i]
      <4> SUFFICES ASSUME i # k + 1
                   PROVE  r[i + 1] = q[i]
        OBVIOUS
      <4>1. i + 1 \in 1 .. k + 1 /\ ~(i + 1 <= j) /\ i + 1 # j + 1 /\ (i + 1) - 1 = i
        <5>1. k \in Nat /\ j \in Nat /\ i \in Nat /\ 1 <= i /\ i <= k + 1
          BY <1>2
        <5>2. i <= k
          BY <5>1
        <5>3. i + 1 \in 1 .. k + 1
          BY <5>1, <5>2
        <5> QED BY <2>4, <5>1, <5>3
      <4>2. r[i + 1] = q[(i + 1) - 1]
        BY <1>2, <1>4, <4>1
      <4> QED BY <4>1, <4>2
    <3>4. i - 1 = k <=> i = k + 1
      BY <1>2
    <3> QED BY <1>2, <1>6, <3>2, <3>3, <3>4
  <2> QED BY <1>2, <2>1, <2>2, <2>3, <2>4
<1>8. \A i, m \in 1 .. k : q[i] = q[m] => i = m
  BY <1>1 DEF Once
<1>9. ASSUME NEW i \in 1 .. k + 1, NEW m \in 1 .. k + 1, r[i] = r[m]
      PROVE  i = m
  <2> DEFINE Old(a) == IF a <= j THEN a ELSE a - 1
  <2>1. \A a \in 1 .. k + 1 : a # j + 1 => Old(a) \in 1 .. k /\ r[a] = q[Old(a)]
    BY <1>2, <1>4
  <2>2. r[j + 1] = n
    BY <1>2, <1>4
  <2>3. CASE i = j + 1 \/ m = j + 1
    BY <1>2, <1>9, <2>1, <2>2, <2>3
  <2>4. CASE i # j + 1 /\ m # j + 1
    <3>1. Old(i) = Old(m)
      BY <1>8, <1>9, <2>1, <2>4
    <3> QED BY <1>2, <2>4, <3>1
  <2> QED BY <2>3, <2>4
<1>10. Once(r)
  BY <1>4, <1>9 DEF Once
<1>11. Circle(r, x, t)
  BY <1>4, <1>6, <1>7 DEF Circle
<1>12. QED
  BY <1>10, <1>11

CutPointers(q, j, s, t) ==
  \A i \in 1 .. Len(q) : i # j =>
    t[q[i]] = IF i = (IF j = 1 THEN Len(q) ELSE j - 1) THEN s[q[j]] ELSE s[q[i]]

FirstLeft(q, j, x) == IF j # 1 THEN x ELSE IF Len(q) = 1 THEN NULL ELSE q[2]

LEMMA CutCircle ==
  ASSUME NEW q, NEW x, NEW s, Circle(q, x, s), Once(q), x # NULL, NEW j \in 1 .. Len(q),
         NEW t, CutPointers(q, j, s, t), NEW r \in Seq(Node), Cut(r, q, j),
         NEW y, y = FirstLeft(q, j, x)
  PROVE  Circle(r, y, t) /\ Once(r)
<1>1. PICK k : k = Len(q)
  OBVIOUS
<1>2. k \in Nat /\ j \in 1 .. k /\ q[1] = x /\ \A i \in 1 .. k : q[i] \in Node
  BY <1>1 DEF Circle
<1>3. \A i \in 1 .. k : s[q[i]] = IF i = k THEN q[1] ELSE q[i + 1]
  BY <1>1 DEF Circle
<1>4. Len(r) = k - 1 /\ \A i \in 1 .. k - 1 : r[i] = IF i < j THEN q[i] ELSE q[i + 1]
  BY <1>1 DEF Cut
<1>5. \A i \in 1 .. k : i # j =>
        t[q[i]] = IF i = (IF j = 1 THEN k ELSE j - 1) THEN s[q[j]] ELSE s[q[i]]
  BY <1>1 DEF CutPointers
<1>6. (r = <<>> <=> y = NULL) /\ (r # <<>> => y = r[1])
  <2>1. r = <<>> <=> k = 1
    BY <1>2, <1>4
  <2>2. y = IF j # 1 THEN x ELSE IF k = 1 THEN NULL ELSE q[2]
    BY <1>1 DEF FirstLeft
  <2>3. k # 1 => r[1] = IF j # 1 THEN x ELSE q[2]
    BY <1>2, <1>4
  <2>4. k # 1 => q[2] # NULL
    BY <1>2, NullAssumption
  <2> QED BY <1>2, <2>1, <2>2, <2>3, <2>4
<1>7. ASSUME NEW i \in 1 .. k - 1
      PROVE  t[r[i]] = IF i = k - 1 THEN r[1] ELSE r[i + 1]
  <2>1. CASE i < j - 1
    <3>1. r[i] = q[i] /\ r[i + 1] = q[i + 1] /\ i \in 1 .. k /\ i # k /\ i # j /\ i # k - 1 /\ j # 1
          /\ i # j - 1
      BY <1>2, <1>4, <2>1
    <3>2. t[q[i]] = s[q[i]]
      BY <1>5, <3>1
    <3> QED BY <1>3, <3>1, <3>2
  <2>2. CASE i = j - 1
    <3>1. r[i] = q[i] /\ i \in 1 .. k /\ i # j /\ j # 1 /\ r[1] = q[1]
      BY <1>2, <1>4, <2>2
    <3>2. t[q[i]] = IF j = k THEN q[1] ELSE q[j + 1]
      BY <1>2, <1>3, <1>5, <2>2, <3>1
    <3>3. i # k - 1 => j # k /\ r[i + 1] = q[j + 1]
      BY <1>2, <1>4, <2>2
    <3> QED BY <1>2, <2>2, <3>1, <3>2, <3>3
  <2>3. CASE i >= j
    <3>1. r[i] = q[i + 1] /\ i + 1 \in 1 .. k /\ i + 1 # j /\ i + 1 # j - 1
      BY <1>2, <1>4, <2>3
    <3>2. CASE j = 1 /\ i + 1 = k
      <4>1. t[q[i + 1]] = s[q[1]] /\ s[q[1]] = q[2] /\ r[1] = q[2]
        BY <1>2, <1>3, <1>4, <1>5, <3>1, <3>2
      <4> QED BY <1>2, <3>1, <3>2, <4>1
    <3>3. CASE ~(j = 1 /\ i + 1 = k)
      <4>1. t[q[i + 1]] = s[q[i + 1]]
        BY <1>2, <1>5, <3>1, <3>3
      <4>2. s[q[i + 1]] = IF i + 1 = k THEN q[1] ELSE q[(i + 1) + 1]
        BY <1>3, <3>1
      <4>3. i + 1 = k => r[1] = q[1]
        BY <1>2, <1>4, <3>3
      <4>4. i + 1 # k => r[i + 1] = q[(i + 1) + 1]
        BY <1>2, <1>4, <2>3
      <4> QED BY <1>2, <3>1, <4>1, <4>2, <4>3, <4>4
    <3> QED BY <3>2, <3>3
  <2> QED BY <1>2, <2>1, <2>2, <2>3
<1>8. \A i, m \in 1 .. k : q[i] = q[m] => i = m
  BY <1>1 DEF Once
<1>9. Once(r)
  <2> DEFINE Old(a) == IF a < j THEN a ELSE a + 1
  <2>1. \A a \in 1 .. k - 1 : Old(a) \in 1 .. k /\ r[a] = q[Old(a)]
    BY <1>2, <1>4
  <2>2. \A a, b \in 1 .. k - 1 : Old(a) = Old(b) => a = b
    BY <1>2
  <2> HIDE DEF Old
  <2>3. ASSUME NEW a \in 1 .. k - 1, NEW b \in 1 .. k - 1, r[a] = r[b]
        PROVE  a = b
    <3>1. q[Old(a)] = q[Old(b)] /\ Old(a) \in 1 .. k /\ Old(b) \in 1 .. k
      BY <2>1, <2>3
    <3>2. Old(a) = Old(b)
      BY <1>8, <3>1
    <3> QED BY <2>2, <3>2
  <2> QED BY <1>4, <2>3 DEF Once
<1>10. QED
  BY <1>4, <1>6, <1>7, <1>9 DEF Circle

JoinPointers(q, x, e, y, s, t) ==
  /\ \A i \in 1 .. Len(q), m \in 1 .. Len(e) : q[i] # e[m]
  /\ t[q[Len(q)]] = y /\ t[e[Len(e)]] = x
  /\ \A i \in 1 .. Len(q) : i # Len(q) => t[q[i]] = s[q[i]]
  /\ \A i \in 1 .. Len(e) : i # Len(e) => t[e[i]] = s[e[i]]

LEMMA JoinCircle ==
  ASSUME NEW q, NEW x, NEW e, NEW y, NEW s, Circle(q, x, s), Once(q), x # NULL,
         Circle(e, y, s), Once(e), y # NULL,
         NEW t, JoinPointers(q, x, e, y, s, t)
  PROVE  Circle(q \o e, x, t) /\ Once(q \o e)
<1>1. PICK k, h : k = Len(q) /\ h = Len(e)
  OBVIOUS
<1>2. k \in Nat /\ h \in Nat /\ k >= 1 /\ h >= 1 /\ q[1] = x /\ e[1] = y
  BY <1>1 DEF Circle
<1>3. /\ \A i \in 1 .. k : s[q[i]] = IF i = k THEN q[1] ELSE q[i + 1]
      /\ \A i \in 1 .. h : s[e[i]] = IF i = h THEN e[1] ELSE e[i + 1]
  BY <1>1 DEF Circle
<1>4. PICK r : r = q \o e
  OBVIOUS
<1>5. r \in Seq(Node) /\ Len(r) = k + h
      /\ \A i \in 1 .. k + h : r[i] = IF i <= k THEN q[i] ELSE e[i - k]
  BY <1>1, <1>4, ConcatProperties DEF Circle
<1>6. r # <<>> /\ r[1] = x
  BY <1>2, <1>5
<1>7. /\ t[q[k]] = y /\ t[e[h]] = x
      /\ \A i \in 1 .. k : i # k => t[q[i]] = s[q[i]]
      /\ \A i \in 1 .. h : i # h => t[e[i]] = s[e[i]]
  BY <1>1 DEF JoinPointers
<1>8. ASSUME NEW i \in 1 .. k + h
      PROVE  t[r[i]] = IF i = k + h THEN r[1] ELSE r[i + 1]
  <2>1. CASE i < k
    <3>1. r[i] = q[i] /\ r[i + 1] = q[i + 1] /\ i \in 1 .. k /\ i # k /\ i # k + h
      BY <1>2, <1>5, <2>1
    <3> QED BY <1>3, <1>7, <3>1
  <2>2. CASE i = k
    <3>1. r[i] = q[k] /\ r[i + 1] = e[1] /\ i # k + h
      BY <1>2, <1>5, <2>2
    <3> QED BY <1>2, <1>7, <3>1
  <2>3. CASE i > k
    <3>1. r[i] = e[i - k] /\ i - k \in 1 .. h /\ (i - k = h <=> i = k + h) /\ (i - k) + 1 = (i + 1) - k
      BY <1>2, <1>5, <2>3
    <3>2. i # k + h => r[i + 1] = e[(i - k) + 1]
      BY <1>2, <1>5, <2>3, <3>1
    <3> QED BY <1>3, <1>6, <1>7, <3>1, <3>2
  <2> QED BY <1>2, <2>1, <2>2, <2>3
<1>9. /\ \A i, m \in 1 .. k : q[i] = q[m] => i = m
      /\ \A i, m \in 1 .. h : e[i] = e[m] => i = m
      /\ \A i \in 1 .. k, m \in 1 .. h : q[i] # e[m]
  BY <1>1 DEF Once, JoinPointers
<1>10. ASSUME NEW i \in 1 .. k + h, NEW m \in 1 .. k + h, r[i] = r[m]
       PROVE  i = m
  <2>1. \A a \in 1 .. k + h : /\ a <= k => a \in 1 .. k /\ r[a] = q[a]
                              /\ ~(a <= k) => a - k \in 1 .. h /\ r[a] = e[a - k]
    BY <1>2, <1>5
  <2>2. CASE i <= k /\ m <= k
    BY <1>9, <1>10, <2>1, <2>2
  <2>3. CASE ~(i <= k) /\ ~(m <= k)
    <3>1. i - k = m - k
      BY <1>9, <1>10, <2>1, <2>3
    <3> QED BY <1>2, <3>1
  <2>4. CASE i <= k /\ ~(m <= k)
    BY <1>9, <1>10, <2>1, <2>4
  <2>5. CASE ~(i <= k) /\ m <= k
    BY <1>9, <1>10, <2>1, <2>5
  <2> QED BY <2>2, <2>3, <2>4, <2>5
<1>11. Once(r)
  BY <1>5, <1>10 DEF Once
<1>12. Circle(r, x, t)
  BY <1>5, <1>6, <1>8 DEF Circle
<1>13. QED
  BY <1>4, <1>11, <1>12

(* What a sequence of nodes holds changes as the sequence does. *)
LEMMA ImageTyped ==
  ASSUME NEW q \in Seq(Node), NEW d \in [Node -> Datum]
  PROVE  /\ Image(q, d) \in Seq(Datum) /\ Len(Image(q, d)) = Len(q)
         /\ \A i \in 1 .. Len(q) : Image(q, d)[i] = d[q[i]]
<1>1. PICK k : k = Len(q)
  OBVIOUS
<1>2. k \in Nat /\ \A i \in 1 .. k : d[q[i]] \in Datum
  BY <1>1
<1>3. Image(q, d) = [i \in 1 .. k |-> d[q[i]]]
  BY <1>1 DEF Image
<1>4. QED
  BY <1>1, <1>2, <1>3

LEMMA PutUnique ==
  ASSUME NEW S, NEW q \in Seq(S), NEW r \in Seq(S), NEW u \in Seq(S), NEW j, NEW n,
         Put(r, q, j, n), Put(u, q, j, n)
  PROVE  r = u
BY SeqEqual DEF Put

LEMMA CutUnique ==
  ASSUME NEW S, NEW q \in Seq(S), NEW r \in Seq(S), NEW u \in Seq(S), NEW j,
         Cut(r, q, j), Cut(u, q, j)
  PROVE  r = u
BY SeqEqual DEF Cut

LEMMA ImagePut ==
  ASSUME NEW q \in Seq(Node), NEW r \in Seq(Node), NEW j \in 1 .. Len(q), NEW n \in Node,
         Put(r, q, j, n), NEW d \in [Node -> Datum], NEW f \in [Node -> Datum],
         \A i \in 1 .. Len(q) : f[q[i]] = d[q[i]]
  PROVE  Put(Image(r, f), Image(q, d), j, f[n])
<1>1. PICK k : k = Len(q)
  OBVIOUS
<1>2. k \in Nat /\ j \in Nat /\ 1 <= j /\ j <= k
  BY <1>1
<1>3. Len(r) = k + 1 /\ \A i \in 1 .. k + 1 :
        r[i] = IF i <= j THEN q[i] ELSE IF i = j + 1 THEN n ELSE q[i - 1]
  BY <1>1 DEF Put
<1>4. PICK a, b : a = Image(q, d) /\ b = Image(r, f)
  OBVIOUS
<1>5. /\ Len(a) = k /\ \A i \in 1 .. k : a[i] = d[q[i]]
      /\ Len(b) = k + 1 /\ \A i \in 1 .. k + 1 : b[i] = f[r[i]]
  BY <1>1, <1>3, <1>4, ImageTyped
<1>6. \A i \in 1 .. k : f[q[i]] = d[q[i]]
  BY <1>1
<1>7. ASSUME NEW i \in 1 .. k + 1
      PROVE  b[i] = IF i <= j THEN a[i] ELSE IF i = j + 1 THEN f[n] ELSE a[i - 1]
  <2>0. i \in Nat /\ 1 <= i /\ i <= k + 1
    BY <1>2
  <2>1. CASE i <= j
    <3>1. i \in 1 .. k /\ r[i] = q[i]
      BY <1>2, <1>3, <2>0, <2>1
    <3> QED BY <1>5, <1>6, <2>1, <3>1
  <2>2. CASE ~(i <= j) /\ i = j + 1
    BY <1>3, <1>5, <2>2
  <2>3. CASE ~(i <= j) /\ i # j + 1
    <3>1. i - 1 \in 1 .. k
      BY <1>2, <2>0, <2>3
    <3>2. r[i] = q[i - 1]
      BY <1>3, <2>3
    <3> QED BY <1>5, <1>6, <2>3, <3>1, <3>2
  <2> QED BY <2>1, <2>2, <2>3
<1>8. Put(b, a, j, f[n])
  BY <1>5, <1>7 DEF Put
<1>9. QED
  BY <1>4, <1>8

LEMMA ImageCut ==
  ASSUME NEW q \in Seq(Node), NEW r \in Seq(Node), NEW j \in 1 .. Len(q), Cut(r, q, j),
         NEW d \in [Node -> Datum]
  PROVE  Cut(Image(r, d), Image(q, d), j)
<1>1. PICK k : k = Len(q)
  OBVIOUS
<1>2. k \in Nat /\ j \in Nat /\ 1 <= j /\ j <= k
  BY <1>1
<1>3. Len(r) = k - 1 /\ \A i \in 1 .. k - 1 : r[i] = IF i < j THEN q[i] ELSE q[i + 1]
  BY <1>1 DEF Cut
<1>4. PICK a, b : a = Image(q, d) /\ b = Image(r, d)
  OBVIOUS
<1>5. /\ Len(a) = k /\ \A i \in 1 .. k : a[i] = d[q[i]]
      /\ Len(b) = k - 1 /\ \A i \in 1 .. k - 1 : b[i] = d[r[i]]
  BY <1>1, <1>3, <1>4, ImageTyped
<1>6. ASSUME NEW i \in 1 .. k - 1
      PROVE  b[i] = IF i < j THEN a[i] ELSE a[i + 1]
  <2>1. i \in 1 .. k /\ i + 1 \in 1 .. k
    BY <1>2
  <2> QED BY <1>3, <1>5, <2>1
<1>7. Cut(b, a, j)
  BY <1>5, <1>6 DEF Cut
<1>8. QED
  BY <1>4, <1>7

LEMMA ImageJoin ==
  ASSUME NEW q \in Seq(Node), NEW e \in Seq(Node), NEW d \in [Node -> Datum]
  PROVE  Image(q \o e, d) = Image(q, d) \o Image(e, d)
<1>1. PICK k, h : k = Len(q) /\ h = Len(e)
  OBVIOUS
<1>2. k \in Nat /\ h \in Nat
  BY <1>1
<1>3. PICK r : r = q \o e
  OBVIOUS
<1>4. r \in Seq(Node) /\ Len(r) = k + h
      /\ \A i \in 1 .. k + h : r[i] = IF i <= k THEN q[i] ELSE e[i - k]
  BY <1>1, <1>3, ConcatProperties
<1>5. PICK a, b, c : a = Image(q, d) /\ b = Image(e, d) /\ c = Image(r, d)
  OBVIOUS
<1>6. /\ a \in Seq(Datum) /\ Len(a) = k /\ \A i \in 1 .. k : a[i] = d[q[i]]
      /\ b \in Seq(Datum) /\ Len(b) = h /\ \A i \in 1 .. h : b[i] = d[e[i]]
      /\ c \in Seq(Datum) /\ Len(c) = k + h /\ \A i \in 1 .. k + h : c[i] = d[r[i]]
  BY <1>1, <1>4, <1>5, ImageTyped
<1>7. PICK u : u = a \o b
  OBVIOUS
<1>8. u \in Seq(Datum) /\ Len(u) = k + h
      /\ \A i \in 1 .. k + h : u[i] = IF i <= k THEN a[i] ELSE b[i - k]
  BY <1>6, <1>7, ConcatProperties
<1>9. ASSUME NEW i \in 1 .. k + h
      PROVE  c[i] = u[i]
  <2>1. CASE i <= k
    <3>1. i \in 1 .. k
      BY <1>2, <2>1
    <3>2. r[i] = q[i] /\ u[i] = a[i]
      BY <1>4, <1>8, <2>1
    <3>3. a[i] = d[q[i]] /\ c[i] = d[r[i]]
      BY <1>6, <3>1
    <3> QED BY <3>2, <3>3
  <2>2. CASE ~(i <= k)
    <3>1. i - k \in 1 .. h
      BY <1>2, <2>2
    <3>2. r[i] = e[i - k] /\ u[i] = b[i - k]
      BY <1>4, <1>8, <2>2
    <3>3. b[i - k] = d[e[i - k]] /\ c[i] = d[r[i]]
      BY <1>6, <3>1
    <3> QED BY <3>2, <3>3
  <2> QED BY <2>1, <2>2
<1>10. c = u
  BY <1>6, <1>8, <1>9, SeqEqual
<1>11. QED
  BY <1>3, <1>5, <1>7, <1>10

-------------------------------------------------------------------------------
(* All lists: c has the sequence of nodes of each, and no node is in it twice. *)

Ordered(f, s, A, c) ==
  /\ c \in [List -> Seq(Node)]
  /\ \A l \in List : Circle(c[l], f[l], s)
  /\ \A l \in List : \A i \in 1 .. Len(c[l]) : c[l][i] \in A
  /\ \A l, m \in List : \A i \in 1 .. Len(c[l]), j \in 1 .. Len(c[m]) :
       c[l][i] = c[m][j] => l = m /\ i = j

HasOrder == \E c : Ordered(first, succ, allocated, c)

ItemsOf(c, d) == [l \in List |-> Image(c[l], d)]

LEMMA OrderedOnce ==
  ASSUME NEW f, NEW s, NEW A, NEW c, Ordered(f, s, A, c), NEW l \in List
  PROVE  Once(c[l]) /\ Circle(c[l], f[l], s) /\ c[l] \in Seq(Node)
BY DEF Ordered, Once

LEMMA OrderedShown ==
  ASSUME NEW f, NEW s, NEW A, NEW c, NEW d, Ordered(f, s, A, c)
  PROVE  [l \in List |-> ShownFrom(f[l], s, d)] = ItemsOf(c, d)
<1>1. \A l \in List : ShownFrom(f[l], s, d) = Image(c[l], d)
  BY OrderedOnce, CircleShown
<1>2. QED
  BY <1>1 DEF ItemsOf

(* A step that changes one list and the successors of its nodes only. *)
NewOrFrom(q, p, A, B) ==
  \A i \in 1 .. Len(q) :
    q[i] \in B /\ (q[i] \notin A \/ \E j \in 1 .. Len(p) : q[i] = p[j])

Untouched(e, s, t, B) == \A i \in 1 .. Len(e) : t[e[i]] = s[e[i]] /\ e[i] \in B

Elsewhere(c, l, f, s, g, t, B) ==
  \A m \in List \ {l} : g[m] = f[m] /\ Untouched(c[m], s, t, B)

LEMMA OrderedChange ==
  ASSUME NEW f, NEW s, NEW A, NEW c, Ordered(f, s, A, c), NEW l \in List,
         NEW g, NEW t, NEW B, NEW q, Circle(q, g[l], t), Once(q),
         NewOrFrom(q, c[l], A, B), Elsewhere(c, l, f, s, g, t, B)
  PROVE  Ordered(g, t, B, [c EXCEPT ![l] = q])
<1>1. PICK e : e = [c EXCEPT ![l] = q]
  OBVIOUS
<1>2. c \in [List -> Seq(Node)] /\ q \in Seq(Node)
  BY DEF Ordered, Circle
<1>3. e \in [List -> Seq(Node)] /\ e[l] = q /\ \A m \in List \ {l} : e[m] = c[m]
  BY <1>1, <1>2
<1>4. ASSUME NEW m \in List
      PROVE  Circle(e[m], g[m], t) /\ \A i \in 1 .. Len(e[m]) : e[m][i] \in B
  <2>1. CASE m = l
    BY <1>3, <2>1 DEF NewOrFrom
  <2>2. CASE m # l
    <3>1. Circle(c[m], f[m], s) /\ g[m] = f[m]
      BY <2>2 DEF Ordered, Elsewhere
    <3>2. \A i \in 1 .. Len(c[m]) : t[c[m][i]] = s[c[m][i]] /\ c[m][i] \in B
      BY <2>2 DEF Elsewhere, Untouched
    <3>3. Circle(c[m], g[m], t)
      BY <3>1, <3>2 DEF Circle
    <3> QED BY <1>3, <2>2, <3>2, <3>3
  <2> QED BY <2>1, <2>2
<1>5. ASSUME NEW m \in List, NEW h \in List, NEW i \in 1 .. Len(e[m]), NEW j \in 1 .. Len(e[h]),
             e[m][i] = e[h][j]
      PROVE  m = h /\ i = j
  <2>1. CASE m = l /\ h = l
    <3>1. \A a, b \in 1 .. Len(q) : q[a] = q[b] => a = b
      BY DEF Once
    <3> QED BY <1>3, <1>5, <2>1, <3>1
  <2>2. CASE m # l /\ h # l
    <3>1. e[m] = c[m] /\ e[h] = c[h]
      BY <1>3, <2>2
    <3>2. i \in 1 .. Len(c[m]) /\ j \in 1 .. Len(c[h]) /\ c[m][i] = c[h][j]
      BY <1>5, <3>1
    <3> QED BY <3>2 DEF Ordered
  <2>3. \A x \in List \ {l} : \A a \in 1 .. Len(c[x]), b \in 1 .. Len(q) : c[x][a] # q[b]
    <3> SUFFICES ASSUME NEW x \in List \ {l}, NEW a \in 1 .. Len(c[x]), NEW b \in 1 .. Len(q),
                        c[x][a] = q[b]
                 PROVE  FALSE
      OBVIOUS
    <3>1. c[x][a] \in A
      BY DEF Ordered
    <3>2. PICK k \in 1 .. Len(c[l]) : q[b] = c[l][k]
      BY <3>1 DEF NewOrFrom
    <3>3. c[x][a] = c[l][k]
      BY <3>2
    <3> QED BY <3>3 DEF Ordered
  <2>4. CASE m = l /\ h # l
    <3>1. e[m] = q /\ e[h] = c[h] /\ h \in List \ {l}
      BY <1>3, <2>4
    <3>2. i \in 1 .. Len(q) /\ j \in 1 .. Len(c[h]) /\ c[h][j] = q[i]
      BY <1>5, <3>1
    <3> QED BY <2>3, <3>1, <3>2
  <2>5. CASE m # l /\ h = l
    <3>1. e[m] = c[m] /\ e[h] = q /\ m \in List \ {l}
      BY <1>3, <2>5
    <3>2. i \in 1 .. Len(c[m]) /\ j \in 1 .. Len(q) /\ c[m][i] = q[j]
      BY <1>5, <3>1
    <3> QED BY <2>3, <3>1, <3>2
  <2> QED BY <2>1, <2>2, <2>4, <2>5
<1>6. Ordered(g, t, B, e)
  BY <1>3, <1>4, <1>5 DEF Ordered
<1>7. QED
  BY <1>1, <1>6

(* In a list the predecessor of a node is the one before it in the sequence. *)
LEMMA PredIsBefore ==
  ASSUME Linked, NEW c, Ordered(first, succ, allocated, c), NEW l \in List,
         NEW i \in 1 .. Len(c[l])
  PROVE  /\ c[l][i] \in allocated
         /\ succ[c[l][i]] = c[l][IF i = Len(c[l]) THEN 1 ELSE i + 1]
         /\ pred[c[l][i]] = c[l][IF i = 1 THEN Len(c[l]) ELSE i - 1]
<1>1. PICK q : q = c[l]
  OBVIOUS
<1>2. PICK k : k = Len(q)
  OBVIOUS
<1>3. k \in Nat /\ i \in 1 .. k
  BY <1>1, <1>2, OrderedOnce
<1>4. \A j \in 1 .. k : succ[q[j]] = IF j = k THEN q[1] ELSE q[j + 1]
  BY <1>1, <1>2, OrderedOnce DEF Circle
<1>5. \A j \in 1 .. k : q[j] \in allocated /\ pred[succ[q[j]]] = q[j]
  BY <1>1, <1>2 DEF Ordered, Linked
<1>6. CASE i = 1
  <2>1. k \in 1 .. k /\ succ[q[k]] = q[1]
    BY <1>3, <1>4
  <2>2. pred[q[1]] = q[k]
    BY <1>5, <2>1
  <2> QED BY <1>1, <1>2, <1>3, <1>4, <1>5, <1>6, <2>2
<1>7. CASE i # 1
  <2>1. i - 1 \in 1 .. k /\ i - 1 # k /\ (i - 1) + 1 = i
    BY <1>3, <1>7
  <2>2. succ[q[i - 1]] = q[i]
    BY <1>4, <2>1
  <2>3. pred[q[i]] = q[i - 1]
    BY <1>5, <2>1, <2>2
  <2> QED BY <1>1, <1>2, <1>3, <1>4, <1>5, <1>7, <2>3
<1>8. QED
  BY <1>6, <1>7

(* A node the caller reaches from a list is in its sequence. *)
LEMMA ReachedIsIn ==
  ASSUME Linked, NEW c, Ordered(first, succ, allocated, c), NEW l \in List, NEW n \in Ring(l)
  PROVE  \E i \in 1 .. Len(c[l]) : n = c[l][i]
<1> DEFINE S == {c[l][i] : i \in 1 .. Len(c[l])}
<1>1. c[l] \in Seq(Node) /\ Circle(c[l], first[l], succ) /\ first[l] # NULL
  BY OrderedOnce DEF Ring
<1>2. Len(c[l]) \in Nat /\ Len(c[l]) >= 1 /\ first[l] = c[l][1]
  BY <1>1 DEF Circle
<1>3. S \in SUBSET allocated /\ first[l] \in S
  BY <1>2 DEF Ordered
<1>4. Closed(S)
  <2> SUFFICES ASSUME NEW i \in 1 .. Len(c[l])
               PROVE  succ[c[l][i]] \in S
    BY DEF Closed
  <2>1. (IF i = Len(c[l]) THEN 1 ELSE i + 1) \in 1 .. Len(c[l])
    BY <1>2
  <2> QED BY <2>1, PredIsBefore
<1> HIDE DEF S
<1>5. n \in S
  BY <1>3, <1>4 DEF Ring
<1>6. QED
  BY <1>5 DEF S

Alike(c, l, d, f) == \A m \in List \ {l} : Image(c[m], f) = Image(c[m], d)

With(c, l, q) == [c EXCEPT ![l] = q]

LEMMA ItemsChanged ==
  ASSUME NEW c, NEW l \in List, DOMAIN c = List, NEW q, NEW d, NEW f, Alike(c, l, d, f)
  PROVE  ItemsOf(With(c, l, q), f) = With(ItemsOf(c, d), l, Image(q, f))
<1>0. PICK e : e = With(c, l, q)
  OBVIOUS
<1>1. \A m \in List : Image(e[m], f) = IF m = l THEN Image(q, f) ELSE Image(c[m], d)
  BY <1>0 DEF Alike, With
<1>2. ItemsOf(e, f) = [m \in List |-> Image(e[m], f)]
      /\ ItemsOf(c, d) = [m \in List |-> Image(c[m], d)]
  BY DEF ItemsOf
<1>3. QED
  BY <1>0, <1>1, <1>2 DEF With

(* A new node is joined behind the j-th node of a list. *)
LEMMA JoinNewOrdered ==
  ASSUME TypeOK, Linked, NEW c, Ordered(first, succ, allocated, c), NEW l \in List,
         first[l] # NULL, NEW n, NEW d \in Datum, NewNode(n, d), NEW j \in 1 .. Len(c[l]),
         NEW a, a = succ[c[l][j]], JoinNew(n, a), first' = first,
         NEW q \in Seq(Node), Put(q, c[l], j, n)
  PROVE  /\ Ordered(first', succ', allocated', [c EXCEPT ![l] = q])
         /\ Put(Image(q, data'), Image(c[l], data), j, d)
         /\ \A m \in List : Image(c[m], data') = Image(c[m], data)
<1>1. /\ n \in Node /\ n \notin allocated /\ allocated' = allocated \cup {n}
      /\ data' = [data EXCEPT ![n] = d] /\ data \in [Node -> Datum]
      /\ succ \in [Node -> Node] /\ pred \in [Node -> Node]
  BY DEF NewNode, TypeOK
<1>2. \A m \in List : \A i \in 1 .. Len(c[m]) : c[m][i] \in allocated /\ c[m][i] \in Node /\ c[m][i] # n
  BY <1>1 DEF Ordered, TypeOK
<1>3. a \in allocated /\ a \in Node /\ a # n /\ pred[a] = c[l][j]
  BY <1>1, <1>2 DEF Linked, TypeOK
<1>4. PICK b : b = c[l][j]
  OBVIOUS
<1>5. b \in Node /\ b # n /\ pred[a] = b /\ a = succ[b]
  BY <1>2, <1>3, <1>4
<1>6. succ' = [Alone(succ, n) EXCEPT ![b] = n, ![n] = a]
  <2>1. Alone(pred, n)[a] = b /\ Alone(pred, n)[n] = n
    BY <1>1, <1>3, <1>5 DEF Alone
  <2> QED BY <2>1 DEF JoinNew, JoinedSucc
<1>7. succ'[b] = n /\ succ'[n] = a /\ \A m \in Node : m # n /\ m # b => succ'[m] = succ[m]
  BY <1>1, <1>5, <1>6 DEF Alone
<1>8. \A m \in List : \A i \in 1 .. Len(c[m]) : c[m][i] = b => m = l /\ i = j
  BY <1>4 DEF Ordered
<1>9. \A m \in List \ {l} : \A i \in 1 .. Len(c[m]) : succ'[c[m][i]] = succ[c[m][i]]
  BY <1>2, <1>7, <1>8
<1>10. \A i \in 1 .. Len(c[l]) : i # j => succ'[c[l][i]] = succ[c[l][i]]
  BY <1>2, <1>7, <1>8
<1>11. Circle(q, first[l], succ') /\ Once(q)
  <2>1. Circle(c[l], first[l], succ) /\ Once(c[l])
    BY OrderedOnce
  <2>2. \A i \in 1 .. Len(c[l]) : c[l][i] # n
    BY <1>2
  <2>3. succ'[c[l][j]] = n /\ succ'[n] = succ[c[l][j]]
    BY <1>4, <1>5, <1>7
  <2>4. PICK p, s, t, x : p = c[l] /\ s = succ /\ t = succ' /\ x = first[l]
    OBVIOUS
  <2>5. /\ Circle(p, x, s) /\ Once(p) /\ x # NULL /\ j \in 1 .. Len(p)
        /\ Put(q, p, j, n)
    BY <2>1, <2>4
  <2>6. PutPointers(p, j, n, s, t)
    BY <1>10, <2>2, <2>3, <2>4 DEF PutPointers
  <2>7. Circle(q, x, t) /\ Once(q)
    BY <1>1, <2>5, <2>6, PutCircle
  <2> QED BY <2>4, <2>7
<1>12. Len(c[l]) \in Nat
  BY OrderedOnce
<1>13. \A i \in 1 .. Len(q) : q[i] = n \/ \E h \in 1 .. Len(c[l]) : q[i] = c[l][h]
  <2> SUFFICES ASSUME NEW i \in 1 .. Len(q), q[i] # n
               PROVE  \E h \in 1 .. Len(c[l]) : q[i] = c[l][h]
    OBVIOUS
  <2>1. i \in 1 .. Len(c[l]) + 1
    BY DEF Put
  <2>2. CASE i <= j
    BY <1>12, <2>1, <2>2 DEF Put
  <2>3. CASE ~(i <= j)
    <3>1. i - 1 \in 1 .. Len(c[l])
      BY <1>12, <2>1, <2>3
    <3>2. q[i] = c[l][i - 1]
      BY <2>1, <2>3 DEF Put
    <3> QED BY <3>1, <3>2
  <2> QED BY <2>2, <2>3
<1>14. Ordered(first', succ', allocated', [c EXCEPT ![l] = q])
  <2>1. NewOrFrom(q, c[l], allocated, allocated')
    BY <1>1, <1>2, <1>13 DEF NewOrFrom
  <2>2. Elsewhere(c, l, first, succ, first', succ', allocated')
    BY <1>1, <1>2, <1>9 DEF Elsewhere, Untouched
  <2>3. Circle(q, first'[l], succ')
    BY <1>11
  <2> QED BY <1>11, <2>1, <2>2, <2>3, OrderedChange
<1>15. data'[n] = d /\ data' \in [Node -> Datum]
       /\ \A m \in List : \A i \in 1 .. Len(c[m]) : data'[c[m][i]] = data[c[m][i]]
  BY <1>1, <1>2
<1>16. Put(Image(q, data'), Image(c[l], data), j, d)
  <2>1. Put(Image(q, data'), Image(c[l], data), j, data'[n])
    <3>1. PICK p, g, f : p = c[l] /\ g = data /\ f = data'
      OBVIOUS
    <3>2. /\ p \in Seq(Node) /\ Put(q, p, j, n) /\ j \in 1 .. Len(p) /\ n \in Node
          /\ g \in [Node -> Datum] /\ f \in [Node -> Datum]
      BY <1>1, <1>15, <3>1, OrderedOnce
    <3>3. \A i \in 1 .. Len(p) : f[p[i]] = g[p[i]]
      BY <1>15, <3>1
    <3>4. Put(Image(q, f), Image(p, g), j, f[n])
      BY <3>2, <3>3, ImagePut
    <3> QED BY <3>1, <3>4
  <2> QED BY <1>15, <2>1
<1>17. \A m \in List : Image(c[m], data') = Image(c[m], data)
  BY <1>15 DEF Image
<1>18. QED
  BY <1>14, <1>16, <1>17

(* The j-th node of a list is taken out. *)
LEMMA UnlinkOrdered ==
  ASSUME TypeOK, Linked, NEW c, Ordered(first, succ, allocated, c), NEW l \in List,
         first[l] # NULL, NEW j \in 1 .. Len(c[l]), Unlink(c[l][j]),
         first' = IF j # 1 THEN first ELSE [first EXCEPT ![l] = FirstAfter(l)],
         NEW q \in Seq(Node), Cut(q, c[l], j)
  PROVE  /\ Ordered(first', succ', allocated', [c EXCEPT ![l] = q])
         /\ Cut(Image(q, data'), Image(c[l], data), j)
         /\ \A m \in List : Image(c[m], data') = Image(c[m], data)
<1>1. PICK n : n = c[l][j]
  OBVIOUS
<1>2. PICK k : k = Len(c[l])
  OBVIOUS
<1>3. /\ allocated' = allocated \ {n} /\ data' = data /\ data \in [Node -> Datum]
      /\ succ \in [Node -> Node] /\ pred \in [Node -> Node]
      /\ succ' = [succ EXCEPT ![pred[n]] = succ[n]]
  BY <1>1 DEF Unlink, TypeOK
<1>4. \A m \in List : \A i \in 1 .. Len(c[m]) : c[m][i] \in allocated /\ c[m][i] \in Node
  BY DEF Ordered, TypeOK
<1>5. /\ k \in Nat /\ j \in 1 .. k /\ 1 \in 1 .. k
      /\ c[l] \in Seq(Node) /\ Circle(c[l], first[l], succ) /\ Once(c[l])
  BY <1>2, OrderedOnce
<1> DEFINE i0 == IF j = 1 THEN k ELSE j - 1
<1>6. i0 \in 1 .. k /\ pred[n] = c[l][i0]
  BY <1>1, <1>2, <1>5, PredIsBefore
<1>7. succ'[c[l][i0]] = succ[n] /\ \A m \in Node : m # c[l][i0] => succ'[m] = succ[m]
  BY <1>2, <1>3, <1>4, <1>6
<1>8. \A m \in List : \A i \in 1 .. Len(c[m]), h \in 1 .. k : c[m][i] = c[l][h] => m = l /\ i = h
  BY <1>2 DEF Ordered
<1> HIDE DEF i0
<1>9. \A m \in List \ {l} : \A i \in 1 .. Len(c[m]) :
        /\ succ'[c[m][i]] = succ[c[m][i]] /\ c[m][i] # n
  BY <1>1, <1>4, <1>5, <1>6, <1>7, <1>8
<1>10. \A i \in 1 .. k : succ'[c[l][i]] = IF i = i0 THEN succ[n] ELSE succ[c[l][i]]
  <2> SUFFICES ASSUME NEW i \in 1 .. k, i # i0
               PROVE  succ'[c[l][i]] = succ[c[l][i]]
    BY <1>7
  <2>1. c[l][i] # c[l][i0]
    BY <1>2, <1>6, <1>8
  <2> QED BY <1>2, <1>4, <1>7, <2>1
<1>11. first'[l] = IF j # 1 THEN first[l] ELSE IF k = 1 THEN NULL ELSE c[l][2]
  <2>1. CASE j # 1
    BY <2>1
  <2>2. CASE j = 1
    <3>1. first'[l] = FirstAfter(l)
      BY <2>2 DEF TypeOK
    <3>2. first[l] = c[l][1]
      BY <1>5 DEF Circle
    <3>3. succ[c[l][1]] = IF k = 1 THEN c[l][1] ELSE c[l][2]
      <4>1. \A i \in 1 .. k : succ[c[l][i]] = IF i = k THEN c[l][1] ELSE c[l][i + 1]
        BY <1>2, <1>5 DEF Circle
      <4> QED BY <1>5, <4>1
    <3>4. k # 1 => c[l][2] # c[l][1]
      <4>1. \A i, m \in 1 .. k : c[l][i] = c[l][m] => i = m
        BY <1>2, <1>5 DEF Once
      <4>2. k # 1 => 2 \in 1 .. k
        BY <1>5
      <4> QED BY <1>5, <4>1, <4>2
    <3> QED BY <2>2, <3>1, <3>2, <3>3, <3>4 DEF FirstAfter
  <2> QED BY <2>1, <2>2
<1>12. Circle(q, first'[l], succ') /\ Once(q)
  <2>1. \A i \in 1 .. Len(c[l]) : i # j =>
          succ'[c[l][i]] = IF i = (IF j = 1 THEN Len(c[l]) ELSE j - 1) THEN succ[c[l][j]]
                           ELSE succ[c[l][i]]
    BY <1>1, <1>2, <1>10 DEF i0
  <2>2. first'[l] = IF j # 1 THEN first[l] ELSE IF Len(c[l]) = 1 THEN NULL ELSE c[l][2]
    BY <1>2, <1>11
  <2>3. PICK p, s, t, x, y : /\ p = c[l] /\ s = succ /\ t = succ'
                             /\ x = first[l] /\ y = first'[l]
    OBVIOUS
  <2>4. /\ Circle(p, x, s) /\ Once(p) /\ x # NULL /\ j \in 1 .. Len(p)
        /\ Cut(q, p, j)
    BY <1>5, <2>3
  <2>5. CutPointers(p, j, s, t)
    BY <2>1, <2>3 DEF CutPointers
  <2>6. y = FirstLeft(p, j, x)
    BY <2>2, <2>3 DEF FirstLeft
  <2>7. Circle(q, y, t) /\ Once(q)
    BY <2>4, <2>5, <2>6, CutCircle
  <2> QED BY <2>3, <2>7
<1>13. \A i \in 1 .. Len(q) : \E h \in 1 .. Len(c[l]) : h # j /\ q[i] = c[l][h]
  <2> SUFFICES ASSUME NEW i \in 1 .. Len(q)
               PROVE  \E h \in 1 .. k : h # j /\ q[i] = c[l][h]
    BY <1>2
  <2>1. i \in 1 .. k - 1 /\ q[i] = IF i < j THEN c[l][i] ELSE c[l][i + 1]
    BY <1>2 DEF Cut
  <2>2. CASE i < j
    <3>1. i \in 1 .. k /\ i # j
      BY <1>5, <2>1, <2>2
    <3> QED BY <2>1, <2>2, <3>1
  <2>3. CASE ~(i < j)
    <3>1. i + 1 \in 1 .. k /\ i + 1 # j
      BY <1>5, <2>1, <2>3
    <3> QED BY <2>1, <2>3, <3>1
  <2> QED BY <2>2, <2>3
<1>14. Ordered(first', succ', allocated', [c EXCEPT ![l] = q])
  <2>1. NewOrFrom(q, c[l], allocated, allocated')
    <3> SUFFICES ASSUME NEW i \in 1 .. Len(q)
                 PROVE  q[i] \in allocated' /\ \E h \in 1 .. Len(c[l]) : q[i] = c[l][h]
      BY DEF NewOrFrom
    <3>1. PICK h \in 1 .. Len(c[l]) : h # j /\ q[i] = c[l][h]
      BY <1>13
    <3>2. c[l][h] # n
      BY <1>1, <1>2, <1>5, <1>8, <3>1
    <3> QED BY <1>3, <1>4, <3>1, <3>2
  <2>2. Elsewhere(c, l, first, succ, first', succ', allocated')
    BY <1>3, <1>4, <1>9 DEF TypeOK, Elsewhere, Untouched
  <2> QED BY <1>12, <2>1, <2>2, OrderedChange
<1>15. Cut(Image(q, data'), Image(c[l], data), j)
  BY <1>3, <1>5, ImageCut
<1>16. QED
  BY <1>3, <1>14, <1>15

-------------------------------------------------------------------------------
(* Each function changes the sequences as the abstract list does. *)

Followed == HasOrder' /\ (Seqs!Next \/ Shown' = Shown)

ShownOrder(c, e) ==
  /\ Shown = ItemsOf(c, data) /\ Shown' = ItemsOf(e, data') /\ HasOrder'
  /\ \A l \in List : Shown[l] = Image(c[l], data) /\ Shown[l] \in Seq(Datum)
                     /\ Len(Shown[l]) = Len(c[l])
  /\ \A l \in List : Image(e[l], data') \in Seq(Datum)

LEMMA OrderOfStep ==
  ASSUME TypeOK, TypeOK', NEW c, Ordered(first, succ, allocated, c),
         NEW e, Ordered(first', succ', allocated', e)
  PROVE  ShownOrder(c, e)
<1>1. Shown = ItemsOf(c, data)
  BY OrderedShown, ShownIsFrom
<1>2. Shown' = ItemsOf(e, data')
  BY OrderedShown, ShownIsFrom
<1>3. HasOrder'
  BY DEF HasOrder
<1>4. ASSUME NEW l \in List
      PROVE  /\ Shown[l] = Image(c[l], data) /\ Shown[l] \in Seq(Datum)
             /\ Len(Shown[l]) = Len(c[l]) /\ Image(e[l], data') \in Seq(Datum)
  <2>1. c[l] \in Seq(Node) /\ e[l] \in Seq(Node) /\ data \in [Node -> Datum] /\ data' \in [Node -> Datum]
    BY OrderedOnce DEF TypeOK
  <2>2. Image(c[l], data) \in Seq(Datum) /\ Len(Image(c[l], data)) = Len(c[l])
        /\ Image(e[l], data') \in Seq(Datum)
    BY <2>1, ImageTyped
  <2>3. Shown[l] = Image(c[l], data)
    BY <1>1 DEF ItemsOf
  <2> QED BY <2>2, <2>3
<1>5. QED
  BY <1>1, <1>2, <1>3, <1>4 DEF ShownOrder

LEMMA PutFollows ==
  ASSUME TypeOK, TypeOK', NEW c, Ordered(first, succ, allocated, c), NEW l \in List,
         NEW q, Ordered(first', succ', allocated', [c EXCEPT ![l] = q]),
         NEW d \in Datum, NEW j, Put(Image(q, data'), Image(c[l], data), j, d),
         j = Len(c[l]) \/ (j = 1 /\ Len(c[l]) >= 1), Alike(c, l, data, data')
  PROVE  Followed
<1>1. PICK e : e = [c EXCEPT ![l] = q]
  OBVIOUS
<1>2. DOMAIN c = List /\ e[l] = q
  BY <1>1 DEF Ordered
<1>3. /\ Shown = ItemsOf(c, data) /\ Shown' = ItemsOf(e, data') /\ HasOrder'
      /\ Shown[l] = Image(c[l], data) /\ Shown[l] \in Seq(Datum) /\ Len(Shown[l]) = Len(c[l])
      /\ Image(q, data') \in Seq(Datum)
  BY <1>1, <1>2, OrderOfStep DEF ShownOrder
<1>4. \A y : y = Image(q, data') => Shown' = [Shown EXCEPT ![l] = y]
  <2> SUFFICES ASSUME NEW y, y = Image(q, data')
               PROVE  Shown' = [Shown EXCEPT ![l] = y]
    OBVIOUS
  <2>1. ItemsOf(With(c, l, q), data') = With(ItemsOf(c, data), l, Image(q, data'))
    BY <1>2, ItemsChanged
  <2> QED BY <1>1, <1>3, <2>1 DEF With
<1>5. CASE j = Len(c[l])
  <2>1. Append(Shown[l], d) \in Seq(Datum) /\ Put(Append(Shown[l], d), Shown[l], j, d)
    BY <1>3, <1>5, AppendPuts
  <2>2. Image(q, data') = Append(Shown[l], d)
    <3>1. PICK x, a, b : x = Shown[l] /\ a = Image(q, data') /\ b = Append(Shown[l], d)
      OBVIOUS
    <3>2. x \in Seq(Datum) /\ a \in Seq(Datum) /\ b \in Seq(Datum) /\ Put(a, x, j, d) /\ Put(b, x, j, d)
      BY <1>3, <2>1, <3>1
    <3>3. a = b
      BY <3>2, PutUnique
    <3> QED BY <3>1, <3>3
  <2>3. Shown' = [Shown EXCEPT ![l] = Append(Shown[l], d)]
    BY <1>4, <2>2
  <2>4. Seqs!InsertLast(l, d)
    BY <2>3 DEF Seqs!InsertLast, Seqs!Change, Shown
  <2> QED BY <1>3, <2>4 DEF Followed, Seqs!Next
<1>6. CASE j = 1 /\ Len(c[l]) >= 1
  <2>1. Len(Shown[l]) >= 1
    BY <1>3, <1>6
  <2>2. Seqs!InsertAt(Shown[l], 2, d) \in Seq(Datum) /\ Put(Seqs!InsertAt(Shown[l], 2, d), Shown[l], j, d)
    BY <1>3, <1>6, <2>1, InsertSecondPuts
  <2>3. Image(q, data') = Seqs!InsertAt(Shown[l], 2, d)
    BY <1>3, <2>2, PutUnique
  <2>4. Shown[l] # <<>>
    BY <2>1
  <2>5. Shown' = [Shown EXCEPT ![l] = Seqs!InsertAt(Shown[l], IF Shown[l] = <<>> THEN 1 ELSE 2, d)]
    BY <1>4, <2>3, <2>4
  <2>6. Seqs!InsertSecond(l, d)
    BY <2>5 DEF Seqs!InsertSecond, Seqs!Change, Shown
  <2> QED BY <1>3, <2>6 DEF Followed, Seqs!Next
<1>7. QED
  BY <1>5, <1>6

LEMMA CutFollows ==
  ASSUME TypeOK, TypeOK', NEW c, Ordered(first, succ, allocated, c), NEW l \in List,
         NEW q, Ordered(first', succ', allocated', [c EXCEPT ![l] = q]),
         NEW j \in 1 .. Len(c[l]), Cut(Image(q, data'), Image(c[l], data), j), Alike(c, l, data, data')
  PROVE  Followed
<1>1. PICK e : e = [c EXCEPT ![l] = q]
  OBVIOUS
<1>2. DOMAIN c = List /\ e[l] = q
  BY <1>1 DEF Ordered
<1>3. /\ Shown = ItemsOf(c, data) /\ Shown' = ItemsOf(e, data') /\ HasOrder'
      /\ Shown[l] = Image(c[l], data) /\ Shown[l] \in Seq(Datum) /\ Len(Shown[l]) = Len(c[l])
      /\ Image(q, data') \in Seq(Datum)
  BY <1>1, <1>2, OrderOfStep DEF ShownOrder
<1>5. j \in 1 .. Len(Shown[l]) /\ j \in DOMAIN Shown[l]
  BY <1>3
<1>6. Seqs!RemoveAt(Shown[l], j) \in Seq(Datum) /\ Cut(Seqs!RemoveAt(Shown[l], j), Shown[l], j)
  BY <1>3, <1>5, RemoveCuts
<1>7. Image(q, data') = Seqs!RemoveAt(Shown[l], j)
  <2>1. PICK x, a, b : x = Shown[l] /\ a = Image(q, data') /\ b = Seqs!RemoveAt(Shown[l], j)
    OBVIOUS
  <2>2. x \in Seq(Datum) /\ a \in Seq(Datum) /\ b \in Seq(Datum) /\ Cut(a, x, j) /\ Cut(b, x, j)
    BY <1>3, <1>6, <2>1
  <2>3. a = b
    BY <2>2, CutUnique
  <2> QED BY <2>1, <2>3
<1>8. ItemsOf(With(c, l, q), data') = With(ItemsOf(c, data), l, Image(q, data'))
  BY <1>2, ItemsChanged
<1>9. Shown' = [Shown EXCEPT ![l] = Seqs!RemoveAt(Shown[l], j)]
  BY <1>1, <1>3, <1>7, <1>8 DEF With
<1>10. Seqs!RemoveItem(l, j)
  BY <1>9 DEF Seqs!RemoveItem, Seqs!Change, Shown
<1>11. \E i \in DOMAIN Shown[l] : Seqs!RemoveItem(l, i)
  BY <1>5, <1>10
<1>12. Seqs!Next
  BY <1>11 DEF Seqs!Next, Shown
<1>13. QED
  BY <1>3, <1>12 DEF Followed

(* The first, and the last, of a list's nodes. *)
LEMMA FirstOfOrder ==
  ASSUME Linked, NEW c, Ordered(first, succ, allocated, c), NEW l \in List
  PROVE  /\ c[l] \in Seq(Node) /\ (first[l] = NULL <=> c[l] = <<>>)
         /\ first[l] # NULL =>
              /\ Len(c[l]) >= 1 /\ Len(c[l]) \in 1 .. Len(c[l]) /\ first[l] = c[l][1]
              /\ succ[c[l][Len(c[l])]] = first[l] /\ pred[first[l]] = c[l][Len(c[l])]
<1>1. c[l] \in Seq(Node) /\ Circle(c[l], first[l], succ)
  BY OrderedOnce
<1>2. (first[l] = NULL <=> c[l] = <<>>) /\ (first[l] # NULL => first[l] = c[l][1])
  BY <1>1 DEF Circle
<1>3. ASSUME first[l] # NULL
      PROVE  /\ Len(c[l]) >= 1 /\ Len(c[l]) \in 1 .. Len(c[l])
             /\ succ[c[l][Len(c[l])]] = first[l] /\ pred[first[l]] = c[l][Len(c[l])]
  <2>1. c[l] # <<>>
    BY <1>2, <1>3
  <2>2. Len(c[l]) \in 1 .. Len(c[l]) /\ 1 \in 1 .. Len(c[l]) /\ Len(c[l]) >= 1
    BY <1>1, <2>1
  <2>3. succ[c[l][Len(c[l])]] = c[l][1] /\ pred[c[l][1]] = c[l][Len(c[l])]
    BY <2>2, PredIsBefore
  <2> QED BY <1>2, <1>3, <2>2, <2>3
<1>4. QED
  BY <1>1, <1>2, <1>3

LEMMA JoinNewFollows ==
  ASSUME TypeOK, TypeOK', Linked, NEW c, Ordered(first, succ, allocated, c), NEW l \in List,
         first[l] # NULL, NEW n, NEW d \in Datum, NewNode(n, d), NEW j \in 1 .. Len(c[l]),
         j = Len(c[l]) \/ j = 1, JoinNew(n, succ[c[l][j]]), first' = first
  PROVE  Followed
<1>1. c[l] \in Seq(Node) /\ Len(c[l]) >= 1 /\ n \in Node
  BY FirstOfOrder DEF NewNode
<1>2. PICK q : q \in Seq(Node) /\ Put(q, c[l], j, n)
  <2>1. CASE j = Len(c[l])
    BY <1>1, <2>1, AppendPuts
  <2>2. CASE j = 1
    BY <1>1, <2>2, InsertSecondPuts
  <2> QED BY <2>1, <2>2
<1>3. PICK a : a = succ[c[l][j]]
  OBVIOUS
<1>4. /\ Ordered(first', succ', allocated', [c EXCEPT ![l] = q])
      /\ Put(Image(q, data'), Image(c[l], data), j, d)
      /\ \A m \in List : Image(c[m], data') = Image(c[m], data)
  BY <1>2, <1>3, JoinNewOrdered
<1>5. Alike(c, l, data, data')
  BY <1>4 DEF Alike
<1>6. QED
  BY <1>1, <1>4, <1>5, PutFollows

LEMMA InsertFirstFollows ==
  ASSUME TypeOK, TypeOK', Linked, NEW c, Ordered(first, succ, allocated, c), NEW l \in List,
         NEW n, NEW d \in Datum, InsertFirst(l, n, d)
  PROVE  Followed
<1>1. /\ n \in Node /\ n \notin allocated /\ allocated' = allocated \cup {n}
      /\ data' = [data EXCEPT ![n] = d] /\ first[l] = NULL /\ first' = [first EXCEPT ![l] = n]
      /\ succ' = Alone(succ, n)
  BY DEF InsertFirst, NewNode
<1>2. succ \in [Node -> Node] /\ data \in [Node -> Datum] /\ data' \in [Node -> Datum]
      /\ first \in [List -> Node \cup {NULL}]
  BY DEF TypeOK
<1>3. c[l] = <<>> /\ c[l] \in Seq(Node) /\ Len(c[l]) = 0
  BY <1>1, FirstOfOrder
<1>4. PICK q : q = Append(c[l], n)
  OBVIOUS
<1>5. q \in Seq(Node) /\ Len(q) = 1 /\ q[1] = n
  BY <1>1, <1>3, <1>4
<1>6. \A i \in 1 .. Len(q) : i = 1
  BY <1>5
<1>7. succ'[n] = n /\ first'[l] = n /\ n # NULL
  BY <1>1, <1>2, NullAssumption DEF Alone
<1>8. Circle(q, first'[l], succ') /\ Once(q)
  <2>1. q # <<>>
    BY <1>5
  <2> QED BY <1>5, <1>6, <1>7, <2>1 DEF Circle, Once
<1>9. \A m \in List : \A i \in 1 .. Len(c[m]) : c[m][i] \in allocated /\ c[m][i] \in Node
  BY DEF Ordered, TypeOK
<1>10. NewOrFrom(q, c[l], allocated, allocated')
  BY <1>1, <1>5, <1>6 DEF NewOrFrom
<1>11. Elsewhere(c, l, first, succ, first', succ', allocated')
  BY <1>1, <1>2, <1>9 DEF Elsewhere, Untouched, Alone
<1>12. Ordered(first', succ', allocated', [c EXCEPT ![l] = q])
  BY <1>8, <1>10, <1>11, OrderedChange
<1>13. \A m \in List : \A i \in 1 .. Len(c[m]) : data'[c[m][i]] = data[c[m][i]]
  BY <1>1, <1>2, <1>9
<1>14. Alike(c, l, data, data')
  BY <1>13 DEF Alike, Image
<1>15. Put(Image(q, data'), Image(c[l], data), 0, d)
  <2>1. Len(Image(q, data')) = 1 /\ Image(q, data')[1] = d
    <3>1. Len(Image(q, data')) = Len(q) /\ Image(q, data')[1] = data'[q[1]]
      BY <1>2, <1>5, ImageTyped
    <3> QED BY <1>1, <1>2, <1>5, <3>1
  <2>2. Len(Image(c[l], data)) = 0
    BY <1>2, <1>3, ImageTyped
  <2> QED BY <2>1, <2>2 DEF Put
<1>16. QED
  BY <1>3, <1>12, <1>14, <1>15, PutFollows

LEMMA UnlinkFollows ==
  ASSUME TypeOK, TypeOK', Linked, NEW c, Ordered(first, succ, allocated, c), NEW l \in List,
         first[l] # NULL, NEW j \in 1 .. Len(c[l]), Unlink(c[l][j]),
         first' = IF j # 1 THEN first ELSE [first EXCEPT ![l] = FirstAfter(l)]
  PROVE  Followed
<1>1. c[l] \in Seq(Node)
  BY FirstOfOrder
<1>2. PICK q : q \in Seq(Node) /\ Cut(q, c[l], j)
  BY <1>1, RemoveCuts
<1>3. /\ Ordered(first', succ', allocated', [c EXCEPT ![l] = q])
      /\ Cut(Image(q, data'), Image(c[l], data), j)
      /\ \A m \in List : Image(c[m], data') = Image(c[m], data)
  BY <1>2, UnlinkOrdered
<1>4. Alike(c, l, data, data')
  BY <1>3 DEF Alike
<1>5. QED
  BY <1>3, <1>4, CutFollows

LEMMA AppendFollows ==
  ASSUME TypeOK, TypeOK', Linked, NEW c, Ordered(first, succ, allocated, c),
         NEW l \in List, NEW m \in List, AppendList(l, m)
  PROVE  Followed
<1>1. /\ l # m /\ first[m] # NULL /\ first'[m] = NULL
      /\ first'[l] = (IF first[l] = NULL THEN first[m] ELSE first[l])
      /\ \A k \in List : k # l /\ k # m => first'[k] = first[k]
      /\ allocated' = allocated /\ data' = data
  BY DEF AppendList, TypeOK
<1>2. succ \in [Node -> Node] /\ pred \in [Node -> Node] /\ data \in [Node -> Datum]
  BY DEF TypeOK
<1>3. \A k \in List : \A i \in 1 .. Len(c[k]) : c[k][i] \in allocated /\ c[k][i] \in Node
  BY DEF Ordered, TypeOK
<1>4. \A k, h \in List : \A i \in 1 .. Len(c[k]), j \in 1 .. Len(c[h]) :
        c[k][i] = c[h][j] => k = h /\ i = j
  BY DEF Ordered
<1>5. PICK p, e, x, y : p = c[l] /\ e = c[m] /\ x = first[l] /\ y = first[m]
  OBVIOUS
<1>6. /\ p \in Seq(Node) /\ Circle(p, x, succ) /\ Once(p)
      /\ e \in Seq(Node) /\ Circle(e, y, succ) /\ Once(e) /\ y # NULL
  BY <1>1, <1>5, OrderedOnce
<1>7. PICK q : q = p \o e
  OBVIOUS
<1>8. q \in Seq(Node) /\ Len(q) = Len(p) + Len(e)
      /\ \A i \in 1 .. Len(p) + Len(e) : q[i] = IF i <= Len(p) THEN p[i] ELSE e[i - Len(p)]
  BY <1>6, <1>7, ConcatProperties
<1>9. \A i \in 1 .. Len(q) : \/ \E j \in 1 .. Len(p) : q[i] = p[j]
                             \/ \E j \in 1 .. Len(e) : q[i] = e[j]
  <2> SUFFICES ASSUME NEW i \in 1 .. Len(q)
               PROVE  \/ \E j \in 1 .. Len(p) : q[i] = p[j]
                      \/ \E j \in 1 .. Len(e) : q[i] = e[j]
    OBVIOUS
  <2>1. Len(p) \in Nat /\ Len(e) \in Nat
    BY <1>6
  <2>2. CASE i <= Len(p)
    BY <1>8, <2>1, <2>2
  <2>3. CASE ~(i <= Len(p))
    <3>1. i - Len(p) \in 1 .. Len(e)
      BY <1>8, <2>1, <2>3
    <3> QED BY <1>8, <2>3, <3>1
  <2> QED BY <2>2, <2>3
<1>10. Circle(q, first'[l], succ') /\ Once(q)
       /\ \A k \in List : k # l /\ k # m => Untouched(c[k], succ, succ', allocated')
  <2>1. CASE x = NULL
    <3>1. p = <<>> /\ q = e
      BY <1>6, <1>7, <2>1 DEF Circle
    <3>2. succ' = succ /\ first'[l] = y
      BY <1>1, <1>5, <2>1 DEF AppendList
    <3> QED BY <1>1, <1>3, <1>6, <3>1, <3>2 DEF Untouched
  <2>2. CASE x # NULL
    <3>1. /\ Len(p) \in 1 .. Len(p) /\ pred[x] = p[Len(p)]
          /\ Len(e) \in 1 .. Len(e) /\ pred[y] = e[Len(e)]
      BY <1>1, <1>5, <2>2, FirstOfOrder
    <3>2. PICK a, b : a = p[Len(p)] /\ b = e[Len(e)]
      OBVIOUS
    <3>3. a \in Node /\ b \in Node /\ a # b
      BY <1>1, <1>3, <1>4, <1>5, <3>1, <3>2
    <3>4. succ' = [succ EXCEPT ![a] = y, ![b] = x]
      <4>1. succ' = JoinedSucc(succ, pred, x, y)
        BY <1>5, <2>2 DEF AppendList
      <4> QED BY <3>1, <3>2, <4>1 DEF JoinedSucc
    <3>5. succ'[a] = y /\ succ'[b] = x /\ \A n \in Node : n # a /\ n # b => succ'[n] = succ[n]
      BY <1>2, <3>3, <3>4
    <3>6. \A i \in 1 .. Len(p), j \in 1 .. Len(e) : p[i] # e[j]
      BY <1>1, <1>4, <1>5
    <3>7. \A i \in 1 .. Len(p) : i # Len(p) => p[i] # a /\ p[i] # b /\ p[i] \in Node
      BY <1>3, <1>4, <1>5, <3>1, <3>2, <3>6
    <3>8. \A i \in 1 .. Len(e) : i # Len(e) => e[i] # a /\ e[i] # b /\ e[i] \in Node
      BY <1>3, <1>4, <1>5, <3>1, <3>2, <3>6
    <3>9. JoinPointers(p, x, e, y, succ, succ')
      BY <3>2, <3>5, <3>6, <3>7, <3>8 DEF JoinPointers
    <3>10. Circle(q, x, succ') /\ Once(q)
      BY <1>6, <1>7, <2>2, <3>9, JoinCircle
    <3>11. \A k \in List : k # l /\ k # m => \A i \in 1 .. Len(c[k]) : c[k][i] # a /\ c[k][i] # b
      BY <1>4, <1>5, <3>1, <3>2
    <3> QED BY <1>1, <1>3, <1>5, <2>2, <3>5, <3>10, <3>11 DEF Untouched
  <2> QED BY <2>1, <2>2
<1>11. PICK w : w = [c EXCEPT ![l] = q, ![m] = <<>>]
  OBVIOUS
<1>12. c \in [List -> Seq(Node)]
  BY DEF Ordered
<1>13. /\ w \in [List -> Seq(Node)] /\ w[l] = q /\ w[m] = <<>>
       /\ \A k \in List : k # l /\ k # m => w[k] = c[k]
  <2>1. l # m /\ q \in Seq(Node)
    BY <1>1, <1>8
  <2>2. <<>> \in Seq(Node)
    OBVIOUS
  <2>3. PICK z : z = <<>>
    OBVIOUS
  <2>4. z \in Seq(Node) /\ w = [c EXCEPT ![l] = q, ![m] = z]
    BY <1>11, <2>2, <2>3
  <2>5. /\ w \in [List -> Seq(Node)] /\ w[l] = q /\ w[m] = z
        /\ \A k \in List : k # l /\ k # m => w[k] = c[k]
    BY <1>12, <2>1, <2>4
  <2> QED BY <2>3, <2>5
<1>14. Ordered(first', succ', allocated', w)
  <2>1. ASSUME NEW k \in List
        PROVE  Circle(w[k], first'[k], succ') /\ \A i \in 1 .. Len(w[k]) : w[k][i] \in allocated'
    <3>1. CASE k = l
      BY <1>1, <1>3, <1>5, <1>9, <1>10, <1>13, <3>1
    <3>2. CASE k = m
      <4>1. <<>> \in Seq(Node) /\ Len(<<>>) = 0
        OBVIOUS
      <4>2. Circle(<<>>, NULL, succ')
        BY <4>1 DEF Circle
      <4> QED BY <1>1, <1>13, <3>2, <4>1, <4>2
    <3>3. CASE k # l /\ k # m
      <4>1. w[k] = c[k] /\ first'[k] = first[k] /\ Circle(c[k], first[k], succ)
        BY <1>1, <1>13, <3>3, OrderedOnce
      <4>2. \A i \in 1 .. Len(c[k]) : succ'[c[k][i]] = succ[c[k][i]]
        BY <1>10, <3>3 DEF Untouched
      <4>3. Circle(c[k], first[k], succ')
        BY <4>1, <4>2 DEF Circle
      <4> QED BY <1>1, <1>3, <4>1, <4>3
    <3> QED BY <3>1, <3>2, <3>3
  <2>2. ASSUME NEW k \in List \ {l, m}, NEW i \in 1 .. Len(c[k]), NEW j \in 1 .. Len(q)
        PROVE  c[k][i] # q[j]
    <3>1. \A h \in 1 .. Len(p) : c[k][i] # p[h]
      BY <1>4, <1>5
    <3>2. \A h \in 1 .. Len(e) : c[k][i] # e[h]
      BY <1>4, <1>5
    <3> QED BY <1>9, <3>1, <3>2
  <2>3. \A i, j \in 1 .. Len(q) : q[i] = q[j] => i = j
    BY <1>10 DEF Once
  <2>4. ASSUME NEW k \in List, NEW h \in List, NEW i \in 1 .. Len(w[k]), NEW j \in 1 .. Len(w[h]),
               w[k][i] = w[h][j]
        PROVE  k = h /\ i = j
    <3>1. k # m /\ h # m
      BY <1>13
    <3>2. CASE k = l /\ h = l
      BY <1>13, <2>3, <2>4, <3>2
    <3>3. CASE k = l /\ h # l
      <4>1. w[k] = q /\ w[h] = c[h]
        BY <1>13, <3>1, <3>3
      <4> QED BY <2>2, <2>4, <3>1, <3>3, <4>1
    <3>4. CASE k # l /\ h = l
      <4>1. w[k] = c[k] /\ w[h] = q
        BY <1>13, <3>1, <3>4
      <4> QED BY <2>2, <2>4, <3>1, <3>4, <4>1
    <3>5. CASE k # l /\ h # l
      <4>1. w[k] = c[k] /\ w[h] = c[h]
        BY <1>13, <3>1, <3>5
      <4>2. i \in 1 .. Len(c[k]) /\ j \in 1 .. Len(c[h]) /\ c[k][i] = c[h][j]
        BY <2>4, <4>1
      <4> QED BY <1>4, <4>2
    <3> QED BY <3>2, <3>3, <3>4, <3>5
  <2> QED BY <1>13, <2>1, <2>4 DEF Ordered
<1>15. /\ Shown = ItemsOf(c, data) /\ Shown' = ItemsOf(w, data') /\ HasOrder'
       /\ \A k \in List : Shown[k] = Image(c[k], data)
  <2>1. ShownOrder(c, w)
    BY <1>14, OrderOfStep
  <2> QED BY <2>1 DEF ShownOrder
<1>16. Image(q, data) = Shown[l] \o Shown[m]
  <2>1. Image(p \o e, data) = Image(p, data) \o Image(e, data)
    BY <1>2, <1>6, ImageJoin
  <2>2. Image(p, data) = Shown[l] /\ Image(e, data) = Shown[m]
    BY <1>5, <1>15
  <2> QED BY <1>7, <2>1, <2>2
<1>17. Image(<<>>, data) = <<>>
  BY DEF Image
<1>18. Shown' = [Shown EXCEPT ![l] = Shown[l] \o Shown[m], ![m] = <<>>]
  <2>1. \A k \in List : Image(w[k], data) =
          IF k = m THEN <<>> ELSE IF k = l THEN Shown[l] \o Shown[m] ELSE Image(c[k], data)
    BY <1>13, <1>16, <1>17
  <2>2. Shown = [k \in List |-> Image(c[k], data)] /\ Shown' = [k \in List |-> Image(w[k], data)]
    BY <1>1, <1>15 DEF ItemsOf
  <2>3. PICK u : u = Shown[l] \o Shown[m]
    OBVIOUS
  <2>4. Shown' = [Shown EXCEPT ![l] = u, ![m] = <<>>]
    BY <1>1, <2>1, <2>2, <2>3
  <2> QED BY <2>3, <2>4
<1>19. Seqs!Join(l, m)
  BY <1>18 DEF Seqs!Join, Shown
<1>20. Seqs!Next
  BY <1>1, <1>19 DEF Seqs!Next
<1>21. QED
  BY <1>15, <1>20 DEF Followed

-------------------------------------------------------------------------------
(* Every step. *)

OrderInv == IInv /\ HasOrder

LEMMA InitOrder == Init => OrderInv /\ Seqs!Init
<1> SUFFICES ASSUME Init
             PROVE  OrderInv /\ Seqs!Init
  OBVIOUS
<1>1. IInv
  BY InitOwned
<1> DEFINE c == [l \in List |-> <<>>]
<1>2. Ordered(first, succ, allocated, c)
  <2>1. <<>> \in Seq(Node) /\ Len(<<>>) = 0
    OBVIOUS
  <2>2. Circle(<<>>, NULL, succ)
    BY <2>1 DEF Circle
  <2> QED BY <2>1, <2>2 DEF Init, Ordered
<1>3. Shown = ItemsOf(c, data)
  BY <1>2, OrderedShown, ShownIsFrom
<1>4. Image(<<>>, data) = <<>>
  BY DEF Image
<1>5. Shown = [l \in List |-> <<>>]
  BY <1>3, <1>4 DEF ItemsOf
<1> HIDE DEF c
<1>6. QED
  BY <1>1, <1>2, <1>5 DEF OrderInv, HasOrder, Seqs!Init, Shown

LEMMA StepFollows == OrderInv /\ [Next]_vars => OrderInv' /\ [Seqs!Next]_Shown
<1> SUFFICES ASSUME OrderInv, [Next]_vars
             PROVE  OrderInv' /\ [Seqs!Next]_Shown
  OBVIOUS
<1>1. IInv /\ IInv'
  BY StepInvariant DEF OrderInv
<1>2. TypeOK /\ TypeOK' /\ Linked /\ (freeing # NULL => first[freeing] # NULL)
  BY <1>1, RingsInvariant DEF IInv
<1>3. PICK c : Ordered(first, succ, allocated, c)
  BY DEF OrderInv, HasOrder
<1>4. CASE UNCHANGED <<first, allocated, succ, data>>
  <2>1. Ordered(first', succ', allocated', c)
    BY <1>3, <1>4
  <2>2. HasOrder'
    BY <2>1 DEF HasOrder
  <2>3. Shown' = Shown
    BY <1>4, ShownIsFrom
  <2> QED BY <1>1, <2>2, <2>3 DEF OrderInv
<1>5. CASE Next /\ ~UNCHANGED <<first, allocated, succ, data>>
  <2>1. PICK l \in List :
          \/ Insert(l)
          \/ \E m \in List : AppendList(l, m)
          \/ \E n \in Ring(l) \ {first[l]} : DeleteNode(l, n)
          \/ RemoveFirst(l)
          \/ Free(l)
    BY <1>5 DEF Next
  <2>2. /\ c[l] \in Seq(Node)
        /\ first[l] # NULL =>
             /\ Len(c[l]) >= 1 /\ Len(c[l]) \in 1 .. Len(c[l]) /\ first[l] = c[l][1]
             /\ succ[c[l][Len(c[l])]] = first[l]
    BY <1>2, <1>3, FirstOfOrder
  <2>3. Len(c[l]) \in Nat
    BY <2>2
  <2>4. ASSUME NEW n \in Node, NEW d \in Datum, InsertFirst(l, n, d)
        PROVE  Followed
    BY <1>2, <1>3, <2>4, InsertFirstFollows
  <2>5. ASSUME NEW n \in Node, NEW d \in Datum, InsertLast(l, n, d)
        PROVE  Followed
    <3>1. first[l] # NULL /\ NewNode(n, d) /\ first' = first /\ JoinNew(n, first[l])
      BY <2>5 DEF InsertLast
    <3>2. PICK j : j = Len(c[l])
      OBVIOUS
    <3>3. j \in 1 .. Len(c[l]) /\ JoinNew(n, succ[c[l][j]])
      BY <2>2, <3>1, <3>2
    <3> QED BY <1>2, <1>3, <3>1, <3>2, <3>3, JoinNewFollows
  <2>6. ASSUME NEW n \in Node, NEW d \in Datum, InsertAfter(l, n, d)
        PROVE  Followed
    <3>1. first[l] # NULL /\ NewNode(n, d) /\ first' = first /\ JoinNew(n, succ[first[l]])
      BY <2>6 DEF InsertAfter
    <3>2. 1 \in 1 .. Len(c[l]) /\ JoinNew(n, succ[c[l][1]])
      BY <2>2, <2>3, <3>1
    <3> QED BY <1>2, <1>3, <3>1, <3>2, JoinNewFollows
  <2>7. ASSUME NEW m \in List, AppendList(l, m)
        PROVE  Followed
    BY <1>2, <1>3, <2>7, AppendFollows
  <2>8. ASSUME NEW n \in Ring(l) \ {first[l]}, DeleteNode(l, n)
        PROVE  Followed
    <3>1. first[l] # NULL /\ Unlink(n) /\ first' = first
      BY <2>8 DEF DeleteNode, Ring
    <3>2. PICK j \in 1 .. Len(c[l]) : n = c[l][j]
      BY <1>2, <1>3, ReachedIsIn
    <3>3. j # 1 /\ Unlink(c[l][j])
      BY <2>2, <3>1, <3>2
    <3> QED BY <1>2, <1>3, <3>1, <3>3, UnlinkFollows
  <2>9. ASSUME RemoveFirst(l)
        PROVE  Followed
    <3>1. first[l] # NULL /\ Unlink(first[l]) /\ first' = [first EXCEPT ![l] = FirstAfter(l)]
      BY <2>9 DEF RemoveFirst
    <3>2. 1 \in 1 .. Len(c[l]) /\ Unlink(c[l][1])
      BY <2>2, <2>3, <3>1
    <3> QED BY <1>2, <1>3, <3>1, <3>2, UnlinkFollows
  <2>10. ~FreeList(l)
    BY <1>5 DEF FreeList
  <2>11. ASSUME FreeNext(l)
         PROVE  Followed
    <3>1. first[l] # NULL
      BY <1>2, <2>11, NullAssumption DEF FreeNext
    <3>2. first[l] # succ[first[l]] /\ Unlink(succ[first[l]]) /\ first' = first
      BY <2>11 DEF FreeNext
    <3>3. 1 \in 1 .. Len(c[l])
      BY <2>2, <2>3, <3>1
    <3>4. succ[c[l][1]] = c[l][IF 1 = Len(c[l]) THEN 1 ELSE 1 + 1]
      BY <1>2, <1>3, <3>3, PredIsBefore
    <3>5. Len(c[l]) # 1 /\ succ[first[l]] = c[l][2]
      BY <2>2, <3>1, <3>2, <3>4
    <3>6. 2 \in 1 .. Len(c[l]) /\ Unlink(c[l][2])
      <4>1. 2 \in 1 .. Len(c[l])
        <5>1. PICK k : k = Len(c[l])
          OBVIOUS
        <5>2. k \in Nat /\ 1 <= k /\ k # 1
          BY <2>2, <2>3, <3>1, <3>5, <5>1
        <5>3. 2 \in 1 .. k
          BY <5>2
        <5> QED BY <5>1, <5>3
      <4>2. PICK b : b = c[l][2]
        OBVIOUS
      <4>3. succ[first[l]] = b /\ Unlink(b)
        BY <3>2, <3>5, <4>2
      <4> QED BY <4>1, <4>2, <4>3
    <3> QED BY <1>2, <1>3, <3>1, <3>2, <3>6, UnlinkFollows
  <2>12. ASSUME FreeLast(l)
         PROVE  Followed
    <3>1. first[l] # NULL
      BY <1>2, <2>12, NullAssumption DEF FreeLast
    <3>2. first' = [first EXCEPT ![l] = FirstAfter(l)] /\ Unlink(first[l])
      BY <2>12 DEF FreeLast, FirstAfter
    <3>3. 1 \in 1 .. Len(c[l]) /\ Unlink(c[l][1])
      BY <2>2, <2>3, <3>1, <3>2
    <3> QED BY <1>2, <1>3, <3>1, <3>2, <3>3, UnlinkFollows
  <2>13. Followed
    <3>1. CASE Insert(l)
      BY <2>4, <2>5, <2>6, <3>1 DEF Insert
    <3>2. CASE Free(l)
      BY <2>10, <2>11, <2>12, <3>2 DEF Free
    <3> QED BY <2>1, <2>7, <2>8, <2>9, <3>1, <3>2
  <2> QED BY <1>1, <2>13 DEF Followed, OrderInv
<1>6. QED
  BY <1>4, <1>5 DEF vars

(* The rings of list.c:16-122 behave as sequences: each function changes the
   items that the caller can walk along as the abstract list does, or, in
   free_list before its first deletion, not at all. *)
THEOREM ListsBehaveAsSequences == Spec => ListsAreSequences
<1>1. OrderInv /\ [Next]_vars => [Seqs!Next]_Shown
  BY StepFollows
<1>2. OrderInv /\ [Next]_vars => OrderInv'
  BY StepFollows
<1>3. Init => OrderInv /\ Seqs!Init
  BY InitOrder
<1>4. QED
  BY <1>1, <1>2, <1>3, PTL DEF Spec, ListsAreSequences, Seqs!Spec, Shown
================================================================================
