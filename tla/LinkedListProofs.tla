-------------------------- MODULE LinkedListProofs --------------------------
(***************************************************************************)
(* What the list operators preserve, for every set of nodes: linking a     *)
(* node outside a well-formed list and unlinking one of its members give a *)
(* well-formed list again, and the ordered walk ends inside it.            *)
(***************************************************************************)
EXTENDS LinkedList, Integers, SequencesExt, SequenceTheorems,
        FiniteSetTheorems, WellFoundedInduction, TLAPS

\* What the stores of list_add_before (lib.h:47) leave at each node.
LEMMA AddBeforeFields ==
  ASSUME NEW N, NEW l \in ListMemory(N), NEW h \in N, NEW n \in N,
         n # h, n # l.prev[h]
  PROVE  LET k == ListAddBefore(l, h, n)
         IN  /\ k \in ListMemory(N)
             /\ \A m \in N :
                  /\ k.next[m] = IF m = n THEN h
                                 ELSE IF m = l.prev[h] THEN n ELSE l.next[m]
                  /\ k.prev[m] = IF m = h THEN n
                                 ELSE IF m = n THEN l.prev[h] ELSE l.prev[m]
  BY DEF ListMemory, ListAddBefore

\* What the stores of list_delete (lib.h:55) leave at each node.
LEMMA DeleteFields ==
  ASSUME NEW N, NEW l \in ListMemory(N), NEW n \in N
  PROVE  LET k == ListDelete(l, n)
         IN  /\ k \in ListMemory(N)
             /\ \A m \in N :
                  /\ k.next[m] = IF m = l.prev[n] THEN l.next[n] ELSE l.next[m]
                  /\ k.prev[m] = IF m = l.next[n] THEN l.prev[n] ELSE l.prev[m]
  BY DEF ListMemory, ListDelete

\* list_add_before with a node outside the list: still a ring, with the node.
LEMMA AddBeforeRing ==
  ASSUME NEW N, NEW l \in ListMemory(N), NEW L \in SUBSET N, Ring(l, L),
         NEW h \in L, NEW n \in N \ L
  PROVE  Ring(ListAddBefore(l, h, n), L \cup {n})
<1> DEFINE k == ListAddBefore(l, h, n)
<1>1. l.prev[h] \in L /\ l.next[l.prev[h]] = h
  BY DEF Ring
<1>2. \A m \in N :
        /\ k.next[m] = IF m = n THEN h
                       ELSE IF m = l.prev[h] THEN n ELSE l.next[m]
        /\ k.prev[m] = IF m = h THEN n
                       ELSE IF m = n THEN l.prev[h] ELSE l.prev[m]
  BY <1>1, AddBeforeFields
<1> HIDE DEF k
<1>3. ASSUME NEW m \in L \cup {n}
      PROVE  /\ k.next[m] \in L \cup {n}
             /\ k.prev[m] \in L \cup {n}
             /\ k.prev[k.next[m]] = m
             /\ k.next[k.prev[m]] = m
  BY <1>1, <1>2, SMTT(30) DEF Ring
<1>4. QED
  BY <1>3 DEF Ring, k

\* list_delete of a member: still a ring, without the member.
LEMMA DeleteRing ==
  ASSUME NEW N, NEW l \in ListMemory(N), NEW L \in SUBSET N, Ring(l, L),
         NEW h \in L, NEW n \in L \ {h}, l.next[n] # n
  PROVE  Ring(ListDelete(l, n), L \ {n})
<1> DEFINE k == ListDelete(l, n)
<1>1. \A m \in N :
        /\ k.next[m] = IF m = l.prev[n] THEN l.next[n] ELSE l.next[m]
        /\ k.prev[m] = IF m = l.next[n] THEN l.prev[n] ELSE l.prev[m]
  BY DeleteFields
<1> HIDE DEF k
<1>2. ASSUME NEW m \in L \ {n}
      PROVE  /\ k.next[m] \in L \ {n}
             /\ k.prev[m] \in L \ {n}
             /\ k.prev[k.next[m]] = m
             /\ k.next[k.prev[m]] = m
  BY <1>1, <1>2, SMTT(30) DEF Ring
<1>3. QED
  BY <1>2 DEF Ring, k

\* list_add_before with a node outside the list keeps the one cycle.
LEMMA AddBeforeWellLinked ==
  ASSUME NEW N, NEW l \in ListMemory(N), NEW L \in SUBSET N, NEW h,
         WellLinked(l, L, h), NEW at \in L, NEW n \in N \ L
  PROVE  WellLinked(ListAddBefore(l, at, n), L \cup {n}, h)
<1> DEFINE k == ListAddBefore(l, at, n)
<1>1. Ring(l, L) /\ h \in L
  BY DEF WellLinked
<1>2. Ring(k, L \cup {n})
  BY <1>1, AddBeforeRing
<1>3. l.prev[at] \in L /\ l.next[l.prev[at]] = at
  BY <1>1 DEF Ring
<1>4. \A m \in N :
        /\ k.next[m] = IF m = n THEN at
                       ELSE IF m = l.prev[at] THEN n ELSE l.next[m]
        /\ k.prev[m] = IF m = at THEN n
                       ELSE IF m = n THEN l.prev[at] ELSE l.prev[m]
  BY <1>3, AddBeforeFields
<1> HIDE DEF k
<1>5. ASSUME NEW S \in SUBSET ((L \cup {n}) \ {h}),
             \A m \in S : k.next[m] \in S
      PROVE  S = {}
  \* If n were in S, so would be at; without n, S would be closed in l.
  <2> DEFINE S0 == S \ {n}
  <2>1. S0 \in SUBSET (L \ {h})
    OBVIOUS
  <2>2. \A m \in S0 : l.next[m] \in S0
    <3> TAKE m \in S0
    <3>1. CASE m = l.prev[at]
      <4>1. k.next[m] = n /\ k.next[n] = at
        BY <1>3, <1>4, <3>1
      <4>2. QED
        BY <1>3, <1>5, <3>1, <4>1
    <3>2. CASE m # l.prev[at]
      <4>1. k.next[m] = l.next[m]
        BY <1>4, <3>2
      <4>2. l.next[m] \in L
        BY <1>1 DEF Ring
      <4>3. QED
        BY <1>5, <4>1, <4>2
    <3>3. QED
      BY <3>1, <3>2
  <2>3. S0 = {}
    BY <2>1, <2>2 DEF WellLinked, OneCycle
  <2>4. n \notin S
    <3>1. k.next[n] = at
      BY <1>4
    <3>2. QED
      BY <1>5, <2>3, <3>1
  <2>5. QED
    BY <2>3, <2>4
<1>6. ASSUME NEW S \in SUBSET ((L \cup {n}) \ {h}),
             \A m \in S : k.prev[m] \in S
      PROVE  S = {}
  <2> DEFINE S0 == S \ {n}
  <2>1. S0 \in SUBSET (L \ {h})
    OBVIOUS
  <2>2. \A m \in S0 : l.prev[m] \in S0
    <3> TAKE m \in S0
    <3>1. CASE m = at
      <4>1. k.prev[m] = n /\ k.prev[n] = l.prev[at]
        BY <1>3, <1>4, <3>1
      <4>2. QED
        BY <1>3, <1>6, <3>1, <4>1
    <3>2. CASE m # at
      <4>1. k.prev[m] = l.prev[m]
        BY <1>4, <3>2
      <4>2. l.prev[m] \in L
        BY <1>1 DEF Ring
      <4>3. QED
        BY <1>6, <4>1, <4>2
    <3>3. QED
      BY <3>1, <3>2
  <2>3. S0 = {}
    BY <2>1, <2>2 DEF WellLinked, OneCycle
  <2>4. n \notin S
    <3>1. k.prev[n] = l.prev[at]
      BY <1>4
    <3>2. QED
      BY <1>3, <1>6, <2>3, <3>1
  <2>5. QED
    BY <2>3, <2>4
<1>7. QED
  BY <1>1, <1>2, <1>5, <1>6 DEF WellLinked, OneCycle, k

\* list_delete of a member other than the head keeps the one cycle.
LEMMA DeleteWellLinked ==
  ASSUME NEW N, NEW l \in ListMemory(N), NEW L \in SUBSET N, NEW h,
         WellLinked(l, L, h), NEW n \in L \ {h}
  PROVE  WellLinked(ListDelete(l, n), L \ {n}, h)
<1> DEFINE k == ListDelete(l, n)
<1>1. Ring(l, L) /\ h \in L
  BY DEF WellLinked
<1>2. l.next[n] # n /\ l.prev[n] # n
  <2>1. {n} \in SUBSET (L \ {h})
    OBVIOUS
  <2>2. QED
    BY <2>1 DEF WellLinked, OneCycle
<1>3. Ring(k, L \ {n})
  BY <1>1, <1>2, DeleteRing
<1>4. /\ l.prev[n] \in L /\ l.next[l.prev[n]] = n
      /\ l.next[n] \in L /\ l.prev[l.next[n]] = n
  BY <1>1 DEF Ring
<1>5. \A m \in N :
        /\ k.next[m] = IF m = l.prev[n] THEN l.next[n] ELSE l.next[m]
        /\ k.prev[m] = IF m = l.next[n] THEN l.prev[n] ELSE l.prev[m]
  BY DeleteFields
<1> HIDE DEF k
<1>6. ASSUME NEW S \in SUBSET ((L \ {n}) \ {h}),
             \A m \in S : k.next[m] \in S
      PROVE  S = {}
  <2>1. CASE l.prev[n] \in S
    <3> DEFINE S1 == S \cup {n}
    <3>1. S1 \in SUBSET (L \ {h}) /\ n \in S1
      OBVIOUS
    <3>2. \A m \in S1 : l.next[m] \in S1
      <4>1. k.next[l.prev[n]] = l.next[n]
        BY <1>4, <1>5
      <4>2. l.next[n] \in S
        BY <1>6, <2>1, <4>1
      <4>3. QED
        BY <1>4, <1>5, <1>6, <4>2
    <3>3. QED
      BY <3>1, <3>2 DEF WellLinked, OneCycle
  <2>2. CASE l.prev[n] \notin S
    <3>1. \A m \in S : l.next[m] \in S
      BY <1>5, <1>6, <2>2
    <3>2. QED
      BY <3>1 DEF WellLinked, OneCycle
  <2>3. QED
    BY <2>1, <2>2
<1>7. ASSUME NEW S \in SUBSET ((L \ {n}) \ {h}),
             \A m \in S : k.prev[m] \in S
      PROVE  S = {}
  <2>1. CASE l.next[n] \in S
    <3> DEFINE S1 == S \cup {n}
    <3>1. S1 \in SUBSET (L \ {h}) /\ n \in S1
      OBVIOUS
    <3>2. \A m \in S1 : l.prev[m] \in S1
      <4>1. k.prev[l.next[n]] = l.prev[n]
        BY <1>4, <1>5
      <4>2. l.prev[n] \in S
        BY <1>7, <2>1, <4>1
      <4>3. QED
        BY <1>4, <1>5, <1>7, <4>2
    <3>3. QED
      BY <3>1, <3>2 DEF WellLinked, OneCycle
  <2>2. CASE l.next[n] \notin S
    <3>1. \A m \in S : l.prev[m] \in S
      BY <1>5, <1>7, <2>2
    <3>2. QED
      BY <3>1 DEF WellLinked, OneCycle
  <2>3. QED
    BY <2>1, <2>2
<1>8. QED
  BY <1>1, <1>3, <1>6, <1>7 DEF WellLinked, OneCycle, k

\* A walk over a well-formed list whose head stops it ends on a node of the
\* list that stops it, the first one: the node before it is the head or one
\* the walk has passed over.
LEMMA WalkInList ==
  ASSUME NEW N, NEW l \in ListMemory(N), NEW L \in SUBSET N, NEW h,
         WellLinked(l, L, h), NEW B, h \notin B
  PROVE  /\ WalkEnds(l, h, B)
         /\ WalkEnd(l, h, B) \in L \ B
         /\ \/ l.prev[WalkEnd(l, h, B)] = h
            \/ l.prev[WalkEnd(l, h, B)] \in B
<1> DEFINE V == Visited(l, h, B)
           s == WalkEnd(l, h, B)
<1>1. Ring(l, L) /\ h \in L /\ DOMAIN l.next = N
  BY DEF WellLinked, ListMemory
<1>2. WalkClosed(l, h, B, L) /\ L \in SUBSET DOMAIN l.next
  BY <1>1 DEF WalkClosed, Ring
<1>3. V \subseteq L
  BY <1>2 DEF Visited
<1>4. WalkClosed(l, h, B, V)
  <2>1. l.next[h] \in V
    BY <1>1 DEF Visited, WalkClosed, Ring
  <2>2. ASSUME NEW m \in V \cap B
        PROVE  l.next[m] \in V
    <3>1. l.next[m] \in N
      BY <1>1, <1>3 DEF Ring
    <3>2. ASSUME NEW S \in SUBSET N, WalkClosed(l, h, B, S)
          PROVE  l.next[m] \in S
      BY <1>1, <3>2 DEF Visited, WalkClosed
    <3>3. QED
      BY <1>1, <3>1, <3>2 DEF Visited
  <2>3. QED
    BY <2>1, <2>2 DEF WalkClosed
<1>5. WalkEnds(l, h, B)
  <2>1. SUFFICES ASSUME V \subseteq B PROVE FALSE
    BY DEF WalkEnds
  <2>2. V \in SUBSET (L \ {h}) /\ \A m \in V : l.next[m] \in V
    BY <1>3, <1>4, <2>1 DEF WalkClosed
  <2>3. V = {}
    BY <2>2 DEF WellLinked, OneCycle
  <2>4. QED
    BY <1>4, <2>3 DEF WalkClosed
<1>6. s \in V /\ s \notin B
  BY <1>5 DEF WalkEnds, WalkEnd
<1>7. l.prev[s] = h \/ l.prev[s] \in B
  \* Otherwise V without s would be a smaller closed set.
  <2>1. SUFFICES ASSUME l.prev[s] # h, l.prev[s] \notin B PROVE FALSE
    OBVIOUS
  <2> DEFINE W == V \ {s}
  <2>2. l.prev[l.next[h]] = h
    BY <1>1 DEF Ring
  <2>3. \A m \in L : l.prev[l.next[m]] = m
    BY <1>1 DEF Ring
  <2>4. WalkClosed(l, h, B, W)
    BY <1>3, <1>4, <2>1, <2>2, <2>3 DEF WalkClosed
  <2>5. W \in SUBSET DOMAIN l.next
    BY <1>1, <1>3
  <2>6. s \in W
    BY <1>6, <2>4, <2>5 DEF Visited
  <2>7. QED
    BY <2>6
<1>8. QED
  BY <1>3, <1>5, <1>6, <1>7
-----------------------------------------------------------------------------
\* Induction, and sequences.

\* A set of natural numbers has a least one: induction without an operator
\* parameter, by the library's theorems on finite sets.
LEMMA LeastOf ==
  ASSUME NEW X \in SUBSET Nat, X # {}
  PROVE  \E n \in X : \A m \in X : n <= m
<1> DEFINE T == {0 .. n : n \in X}
<1>1. T \subseteq FiniteSubsetsOf(Nat) /\ T # {}
  <2>1. \A n \in X : IsFiniteSet(0 .. n) /\ 0 .. n \subseteq Nat
    BY FS_Interval
  <2> QED BY <2>1 DEF FiniteSubsetsOf
<1>2. PICK s \in T : \A r \in T : ~(<<r, s>> \in StrictSubsetOrdering(Nat))
  BY <1>1, FS_StrictSubsetOrderingWellFounded, WFMin
<1>3. PICK n \in X : s = 0 .. n
  BY <1>2
<1>4. ASSUME NEW m \in X, m < n PROVE FALSE
  <2>1. 0 .. m \in T
    OBVIOUS
  <2>2. 0 .. m \subseteq 0 .. n /\ n \in 0 .. n /\ n \notin 0 .. m
    BY <1>4
  <2>3. <<0 .. m, 0 .. n>> \in StrictSubsetOrdering(Nat)
    BY <2>2 DEF StrictSubsetOrdering
  <2> QED BY <1>2, <1>3, <2>1, <2>3
<1> QED BY <1>4
\* A set that holds 0 and the successor of each of its members holds all numbers.
LEMMA SetInduction ==
  ASSUME NEW X \in SUBSET Nat, 0 \in X, \A n \in X : n + 1 \in X
  PROVE  X = Nat
<1> SUFFICES ASSUME Nat \ X # {} PROVE FALSE
  OBVIOUS
<1>1. PICK n \in Nat \ X : \A m \in Nat \ X : n <= m
  BY LeastOf
<1>2. n - 1 \in X
  BY <1>1
<1> QED BY <1>1, <1>2

\* What InsertAt does at each place.
LEMMA InsertAtProperties ==
  ASSUME NEW S, NEW s \in Seq(S), NEW i \in 1 .. Len(s) + 1, NEW e \in S
  PROVE  LET t == InsertAt(s, i, e)
         IN  /\ t \in Seq(S) /\ Len(t) = Len(s) + 1
             /\ \A j \in 1 .. Len(t) :
                  t[j] = IF j < i THEN s[j] ELSE IF j = i THEN e ELSE s[j - 1]
             /\ ToSet(t) = ToSet(s) \cup {e}
<1> DEFINE a == SubSeq(s, 1, i - 1)
           b == <<e>>
           c == SubSeq(s, i, Len(s))
           t == InsertAt(s, i, e)
<1>1. /\ a \in Seq(S) /\ Len(a) = i - 1
      /\ \A j \in 1 .. i - 1 : a[j] = s[j]
  BY SubSeqProperties
<1>2. b \in Seq(S) /\ Len(b) = 1 /\ b[1] = e
  OBVIOUS
<1>3. /\ c \in Seq(S) /\ Len(c) = Len(s) - i + 1
      /\ \A j \in 1 .. Len(s) - i + 1 : c[j] = s[i + j - 1]
  BY SubSeqProperties
<1>4. t = (a \o b) \o c
  BY DEF InsertAt
<1> HIDE DEF a, b, c, t
<1>5. /\ a \o b \in Seq(S) /\ Len(a \o b) = Len(a) + Len(b)
      /\ \A j \in 1 .. Len(a) + Len(b) :
           (a \o b)[j] = IF j <= Len(a) THEN a[j] ELSE b[j - Len(a)]
  BY <1>1, <1>2, ConcatProperties
<1> DEFINE d == a \o b
<1>51. t = d \o c /\ d \in Seq(S) /\ c \in Seq(S)
  BY <1>3, <1>4, <1>5
<1> HIDE DEF d
<1>6. /\ t \in Seq(S) /\ Len(t) = Len(d) + Len(c)
      /\ \A j \in 1 .. Len(d) + Len(c) :
           t[j] = IF j <= Len(d) THEN d[j] ELSE c[j - Len(d)]
  BY <1>51, ConcatProperties
<1>60. /\ Len(d) = i
       /\ \A j \in 1 .. i : d[j] = IF j < i THEN s[j] ELSE e
  <2>1. i - (i - 1) = 1
    OBVIOUS
  <2> QED
    BY <1>1, <1>2, <1>5, <2>1 DEF d
<1>61. Len(t) = Len(s) + 1
  BY <1>3, <1>6, <1>60
<1>7. \A j \in 1 .. Len(t) :
        t[j] = IF j < i THEN s[j] ELSE IF j = i THEN e ELSE s[j - 1]
  <2> TAKE j \in 1 .. Len(t)
  <2>1. CASE j <= i
    BY <1>6, <1>60, <1>61, <1>3, <2>1
  <2>2. CASE j > i
    <3>1. j - i \in 1 .. Len(s) - i + 1 /\ i + (j - i) - 1 = j - 1
      BY <1>61, <2>2
    <3>2. t[j] = c[j - i] /\ c[j - i] = s[i + (j - i) - 1]
      BY <1>3, <1>6, <1>60, <1>61, <2>2, <3>1
    <3> QED
      BY <2>2, <3>1, <3>2
  <2> QED
    BY <2>1, <2>2
<1>8. ToSet(t) = ToSet(s) \cup {e}
  <2>1. \A j \in 1 .. Len(s) : \E m \in 1 .. Len(t) : s[j] = t[m]
    <3> TAKE j \in 1 .. Len(s)
    <3>1. CASE j < i
      BY <1>6, <1>61, <1>7, <3>1
    <3>2. CASE j >= i
      <4>1. j + 1 \in 1 .. Len(t) /\ t[j + 1] = s[j]
        BY <1>6, <1>61, <1>7, <3>2
      <4> QED
        BY <4>1
    <3> QED
      BY <3>1, <3>2
  <2>2. \A j \in 1 .. Len(t) : t[j] = e \/ \E m \in 1 .. Len(s) : t[j] = s[m]
    <3> TAKE j \in 1 .. Len(t)
    <3>1. CASE j < i
      <4>1. j \in 1 .. Len(s) /\ t[j] = s[j]
        BY <1>61, <1>7, <3>1
      <4> QED
        BY <4>1
    <3>2. CASE j = i
      BY <1>7, <3>2
    <3>3. CASE j > i
      <4>1. j - 1 \in 1 .. Len(s) /\ t[j] = s[j - 1]
        BY <1>6, <1>61, <1>7, <3>3
      <4> QED
        BY <4>1
    <3> QED
      BY <3>1, <3>2, <3>3
  <2>3. i \in 1 .. Len(t) /\ t[i] = e
    BY <1>61, <1>7
  <2>4. DOMAIN s = 1 .. Len(s) /\ DOMAIN t = 1 .. Len(t)
    BY <1>6
  <2> QED
    <3>1. ToSet(t) \subseteq ToSet(s) \cup {e}
      BY <2>2, <2>4 DEF ToSet
    <3>2. \A x \in ToSet(s) : x \in ToSet(t)
      BY <2>1, <2>4 DEF ToSet
    <3>3. e \in ToSet(t)
      BY <2>3, <2>4 DEF ToSet
    <3> QED
      BY <3>1, <3>2, <3>3
<1> QED
  BY <1>6, <1>61, <1>7, <1>8 DEF t

\* What RemoveAt does at each place.
LEMMA RemoveAtProperties ==
  ASSUME NEW S, NEW s \in Seq(S), NEW i \in 1 .. Len(s)
  PROVE  LET t == RemoveAt(s, i)
         IN  /\ t \in Seq(S) /\ Len(t) = Len(s) - 1
             /\ \A j \in 1 .. Len(t) : t[j] = IF j < i THEN s[j] ELSE s[j + 1]
<1> DEFINE a == SubSeq(s, 1, i - 1)
           c == SubSeq(s, i + 1, Len(s))
           t == RemoveAt(s, i)
<1>1. /\ a \in Seq(S) /\ Len(a) = i - 1
      /\ \A j \in 1 .. i - 1 : a[j] = s[j]
  BY SubSeqProperties
<1>2. /\ c \in Seq(S) /\ Len(c) = Len(s) - i
      /\ \A j \in 1 .. Len(s) - i : c[j] = s[i + j]
  <2>1. \A j \in i + 1 .. Len(s) : s[j] \in S
    OBVIOUS
  <2> QED
    BY <2>1, SubSeqProperties
<1>3. t = a \o c
  BY DEF RemoveAt
<1> HIDE DEF a, c, t
<1>4. /\ t \in Seq(S) /\ Len(t) = Len(s) - 1
      /\ \A j \in 1 .. Len(t) : t[j] = IF j <= i - 1 THEN a[j] ELSE c[j - i + 1]
  <2>1. /\ t \in Seq(S) /\ Len(t) = Len(a) + Len(c)
        /\ \A j \in 1 .. Len(a) + Len(c) :
             t[j] = IF j <= Len(a) THEN a[j] ELSE c[j - Len(a)]
    BY <1>1, <1>2, <1>3, ConcatProperties
  <2>2. /\ (i - 1) + (Len(s) - i) = Len(s) - 1
        /\ \A j \in Int : j - (i - 1) = j - i + 1
    OBVIOUS
  <2> QED
    BY <1>1, <1>2, <2>1, <2>2
<1>5. \A j \in 1 .. Len(t) : t[j] = IF j < i THEN s[j] ELSE s[j + 1]
  <2> TAKE j \in 1 .. Len(t)
  <2>1. CASE j < i
    BY <1>1, <1>4, <2>1
  <2>2. CASE j >= i
    <3>1. j - i + 1 \in 1 .. Len(s) - i /\ c[j - i + 1] = s[i + (j - i + 1)]
      BY <1>2, <1>4, <2>2
    <3>2. i + (j - i + 1) = j + 1
      BY <1>4
    <3> QED
      BY <1>4, <2>2, <3>1, <3>2
  <2> QED
    BY <2>1, <2>2
<1> QED
  BY <1>4, <1>5 DEF t

\* RemoveAt takes one member out of a sequence of distinct ones.
LEMMA RemoveAtMembers ==
  ASSUME NEW S, NEW s \in Seq(S), IsInjective(s), NEW i \in 1 .. Len(s)
  PROVE  LET t == RemoveAt(s, i)
         IN  IsInjective(t) /\ ToSet(t) = ToSet(s) \ {s[i]}
<1> DEFINE t == RemoveAt(s, i)
<1>1. /\ t \in Seq(S) /\ Len(t) = Len(s) - 1
      /\ \A j \in 1 .. Len(t) : t[j] = IF j < i THEN s[j] ELSE s[j + 1]
  BY RemoveAtProperties
<1>2. DOMAIN s = 1 .. Len(s) /\ DOMAIN t = 1 .. Len(t)
  BY <1>1
<1>3. \A a, b \in 1 .. Len(s) : s[a] = s[b] => a = b
  BY <1>2 DEF IsInjective
<1> HIDE DEF t
<1>4. ASSUME NEW a \in 1 .. Len(t), NEW b \in 1 .. Len(t), t[a] = t[b]
      PROVE  a = b
  <2>1. PICK n \in Nat : n = Len(s) /\ Len(t) = n - 1 /\ i \in 1 .. n
    BY <1>1
  <2>2. PICK p \in 1 .. n : p = IF a < i THEN a ELSE a + 1
    BY <2>1
  <2>3. PICK q \in 1 .. n : q = IF b < i THEN b ELSE b + 1
    BY <2>1
  <2>4. t[a] = s[p] /\ t[b] = s[q]
    BY <1>1, <2>2, <2>3
  <2>5. p = q
    BY <1>3, <1>4, <2>1, <2>4
  <2> QED
    BY <2>1, <2>2, <2>3, <2>5
<1>5. \A j \in 1 .. Len(t) : t[j] \in ToSet(s) /\ t[j] # s[i]
  <2> TAKE j \in 1 .. Len(t)
  <2>1. CASE j < i
    BY <1>1, <1>2, <1>3, <2>1 DEF ToSet
  <2>2. CASE j >= i
    <3>1. j + 1 \in 1 .. Len(s) /\ t[j] = s[j + 1] /\ j + 1 # i
      BY <1>1, <2>2
    <3> QED
      BY <1>2, <1>3, <3>1 DEF ToSet
  <2> QED
    BY <2>1, <2>2
<1>6. \A j \in 1 .. Len(s) : j # i => s[j] \in ToSet(t)
  <2> TAKE j \in 1 .. Len(s)
  <2>1. CASE j < i
    <3>1. j \in 1 .. Len(t) /\ t[j] = s[j]
      BY <1>1, <2>1
    <3> QED
      BY <1>2, <3>1 DEF ToSet
  <2>2. CASE j > i
    <3>1. j - 1 \in 1 .. Len(t) /\ t[j - 1] = s[j]
      BY <1>1, <2>2
    <3> QED
      BY <1>2, <3>1 DEF ToSet
  <2> QED
    BY <2>1, <2>2
<1>7. \A x \in ToSet(t) : x \in ToSet(s) \ {s[i]}
  BY <1>2, <1>5 DEF ToSet
<1>8. \A x \in ToSet(s) : x # s[i] => x \in ToSet(t)
  BY <1>2, <1>6 DEF ToSet
<1> QED
  BY <1>2, <1>4, <1>7, <1>8 DEF IsInjective, t

\* A sequence of distinct members without one of them.
LEMMA RemoveFirstMembers ==
  ASSUME NEW S, NEW s \in Seq(S), IsInjective(s), NEW e
  PROVE  LET r == RemoveFirst(s, e)
         IN  r \in Seq(S) /\ IsInjective(r) /\ ToSet(r) = ToSet(s) \ {e}
<1> DEFINE I == {i \in 1 .. Len(s) : s[i] = e}
<1>1. CASE I = {}
  <2>1. RemoveFirst(s, e) = s /\ e \notin ToSet(s)
    BY <1>1 DEF RemoveFirst, ToSet
  <2> QED
    BY <2>1
<1>2. CASE I # {}
  <2>1. RemoveFirst(s, e) = RemoveAt(s, Min(I))
    BY <1>2 DEF RemoveFirst, SelectInSeq
  <2>2. I \subseteq Nat
    OBVIOUS
  <2>3. Min(I) \in I
    BY <1>2, <2>2, LeastOf DEF Min
  <2> DEFINE i == Min(I)
  <2>4. i \in 1 .. Len(s) /\ s[i] = e
    BY <2>3
  <2> HIDE DEF i, I
  <2>5. /\ RemoveAt(s, i) \in Seq(S) /\ IsInjective(RemoveAt(s, i))
        /\ ToSet(RemoveAt(s, i)) = ToSet(s) \ {e}
    BY <2>4, RemoveAtMembers, RemoveAtProperties
  <2> QED
    BY <2>1, <2>5 DEF i
<1> QED
  BY <1>1, <1>2

\* RemoveFirst of a sequence is a sequence over the same set.
LEMMA RemoveFirstType ==
  ASSUME NEW S, NEW s \in Seq(S), NEW e
  PROVE  RemoveFirst(s, e) \in Seq(S)
<1> DEFINE I == {i \in 1 .. Len(s) : s[i] = e}
<1>1. CASE I = {}
  <2>1. RemoveFirst(s, e) = s
    BY <1>1 DEF RemoveFirst
  <2> QED
    BY <2>1
<1>2. CASE I # {}
  <2>1. RemoveFirst(s, e) = RemoveAt(s, Min(I))
    BY <1>2 DEF RemoveFirst, SelectInSeq
  <2>2. I \subseteq Nat
    OBVIOUS
  <2>3. Min(I) \in I
    BY <1>2, <2>2, LeastOf DEF Min
  <2>4. Min(I) \in 1 .. Len(s)
    BY <2>3
  <2> QED
    BY <2>1, <2>4, RemoveAtProperties
<1> QED
  BY <1>1, <1>2

\* What RemoveFirst leaves in a sequence: all of its members but one.
LEMMA RemoveFirstOthers ==
  ASSUME NEW S, NEW s \in Seq(S), NEW e
  PROVE  \A x \in ToSet(s) : x # e => x \in ToSet(RemoveFirst(s, e))
<1> DEFINE I == {i \in 1 .. Len(s) : s[i] = e}
<1>1. CASE I = {}
  <2>1. RemoveFirst(s, e) = s
    BY <1>1 DEF RemoveFirst
  <2> QED
    BY <2>1
<1>2. CASE I # {}
  <2>1. RemoveFirst(s, e) = RemoveAt(s, Min(I))
    BY <1>2 DEF RemoveFirst, SelectInSeq
  <2>2. I \subseteq Nat
    OBVIOUS
  <2>3. Min(I) \in I
    BY <1>2, <2>2, LeastOf DEF Min
  <2>4. PICK i \in 1 .. Len(s) : i = Min(I) /\ s[i] = e
    BY <2>3
  <2> HIDE DEF I
  <2>5. PICK r : r = RemoveAt(s, i)
    OBVIOUS
  <2>6. /\ r \in Seq(S) /\ Len(r) = Len(s) - 1
        /\ \A j \in 1 .. Len(r) : r[j] = IF j < i THEN s[j] ELSE s[j + 1]
    BY <2>5, RemoveAtProperties
  <2>7. DOMAIN s = 1 .. Len(s) /\ DOMAIN r = 1 .. Len(r)
    BY <2>6
  <2>8. ASSUME NEW k \in 1 .. Len(s), s[k] # e
        PROVE  \E j \in 1 .. Len(r) : r[j] = s[k]
    <3>1. k # i
      BY <2>4, <2>8
    <3>2. CASE k < i
      BY <2>6, <3>2
    <3>3. CASE k > i
      <4>1. k - 1 \in 1 .. Len(r) /\ ~(k - 1 < i) /\ (k - 1) + 1 = k
        BY <2>6, <3>3
      <4>2. r[k - 1] = s[k]
        BY <2>6, <4>1
      <4> QED
        BY <4>1, <4>2
    <3> QED
      BY <3>1, <3>2, <3>3
  <2>9. \A x \in ToSet(s) : x # e => x \in ToSet(r)
    BY <2>7, <2>8 DEF ToSet
  <2> QED
    BY <2>1, <2>4, <2>5, <2>9
<1> QED
  BY <1>1, <1>2

\* Without its first.
LEMMA RemoveFirstHead ==
  ASSUME NEW S, NEW s \in Seq(S), s # <<>>
  PROVE  RemoveFirst(s, Head(s)) = Tail(s)
<1> DEFINE I == {i \in 1 .. Len(s) : s[i] = Head(s)}
<1>1. 1 \in I /\ \A i \in I : 1 <= i /\ i \in Nat
  OBVIOUS
<1>2. \A i \in I : (\A j \in I : i <= j) => i = 1
  BY <1>1
<1>3. Min(I) = 1
  BY <1>1, <1>2 DEF Min
<1>4. RemoveFirst(s, Head(s)) = RemoveAt(s, 1)
  BY <1>1, <1>3 DEF RemoveFirst, SelectInSeq
<1>5. RemoveAt(s, 1) = Tail(s)
  BY DEF RemoveAt
<1> QED
  BY <1>4, <1>5

\* One more member at the end.
LEMMA AppendMembers ==
  ASSUME NEW S, NEW s \in Seq(S), IsInjective(s), NEW e \in S, e \notin ToSet(s)
  PROVE  LET r == Append(s, e)
         IN  r \in Seq(S) /\ IsInjective(r) /\ ToSet(r) = ToSet(s) \cup {e}
<1> DEFINE r == Append(s, e)
<1>1. /\ r \in Seq(S) /\ Len(r) = Len(s) + 1 /\ r[Len(s) + 1] = e
      /\ \A i \in 1 .. Len(s) : r[i] = s[i]
  OBVIOUS
<1>2. DOMAIN s = 1 .. Len(s) /\ DOMAIN r = 1 .. Len(r)
  BY <1>1
<1>3. \A i \in 1 .. Len(s) : s[i] # e
  BY <1>2 DEF ToSet
<1>4. \A i, j \in 1 .. Len(s) : s[i] = s[j] => i = j
  BY DEF IsInjective
<1> HIDE DEF r
<1>5. \A i, j \in 1 .. Len(r) : r[i] = r[j] => i = j
  BY <1>1, <1>3, <1>4
<1>6. ToSet(r) = ToSet(s) \cup {e}
  BY <1>1, <1>2 DEF ToSet
<1> QED
  BY <1>1, <1>2, <1>5, <1>6 DEF r, IsInjective

\* A sequence and its last member.
LEMMA FrontProperties ==
  ASSUME NEW S, NEW s \in Seq(S), s # <<>>
  PROVE  /\ Front(s) \in Seq(S) /\ Len(Front(s)) = Len(s) - 1
         /\ s = Append(Front(s), s[Len(s)]) /\ s[Len(s)] \in S
         /\ \A i \in 1 .. Len(s) - 1 : Front(s)[i] = s[i]
         /\ IsInjective(s) => /\ IsInjective(Front(s)) /\ s[Len(s)] \notin ToSet(Front(s))
                             /\ ToSet(Front(s)) = ToSet(s) \ {s[Len(s)]}
<1> DEFINE f == Front(s)
           e == s[Len(s)]
           a == Append(f, e)
<1>1. Len(s) \in Nat /\ Len(s) # 0 /\ s[Len(s)] \in S /\ DOMAIN s = 1 .. Len(s)
  OBVIOUS
<1>2. /\ f \in Seq(S) /\ Len(f) = Len(s) - 1
      /\ \A i \in 1 .. Len(s) - 1 : f[i] = s[i]
  BY <1>1 DEF Front
<1>3. DOMAIN f = 1 .. Len(s) - 1
  BY <1>2
<1> HIDE DEF f
<1>4. a = s
  <2>2. e \in S /\ f \in Seq(S)
    BY <1>1, <1>2
  <2> HIDE DEF e
  <2>0. /\ a \in Seq(S) /\ Len(a) = Len(f) + 1 /\ a[Len(f) + 1] = e
        /\ \A i \in 1 .. Len(f) : a[i] = f[i]
    BY <2>2, AppendProperties
  <2> HIDE DEF a
  <2>1. /\ a \in Seq(S) /\ Len(a) = Len(s)
        /\ \A i \in 1 .. Len(s) : a[i] = s[i]
    BY <1>1, <1>2, <2>0 DEF e
  <2> QED
    BY <2>1
<1>5. ASSUME IsInjective(s)
      PROVE  /\ IsInjective(f) /\ s[Len(s)] \notin ToSet(f)
             /\ ToSet(f) = ToSet(s) \ {s[Len(s)]}
  <2>1. \A i, j \in 1 .. Len(s) : s[i] = s[j] => i = j
    BY <1>1, <1>5 DEF IsInjective
  <2>2. \A i, j \in 1 .. Len(s) - 1 : f[i] = f[j] => i = j
    BY <1>1, <1>2, <2>1
  <2>3. \A i \in 1 .. Len(s) - 1 : f[i] # s[Len(s)] /\ f[i] \in ToSet(s)
    BY <1>1, <1>2, <2>1 DEF ToSet
  <2>4. \A i \in 1 .. Len(s) : i # Len(s) => s[i] \in ToSet(f)
    <3> TAKE i \in 1 .. Len(s)
    <3> HAVE i # Len(s)
    <3> DEFINE n == Len(s)
    <3>0. n \in Nat /\ i \in 1 .. n /\ i # n
      BY <1>1
    <3> HIDE DEF n
    <3>2. i \in 1 .. n - 1
      BY <3>0
    <3>1. i \in 1 .. Len(s) - 1 /\ f[i] = s[i]
      BY <1>2, <3>2 DEF n
    <3> QED
      BY <1>3, <3>1 DEF ToSet
  <2>5. \A x \in ToSet(f) : x \in ToSet(s) \ {s[Len(s)]}
    BY <1>3, <2>3 DEF ToSet
  <2>6. \A x \in ToSet(s) : x # s[Len(s)] => x \in ToSet(f)
    BY <1>1, <2>4 DEF ToSet
  <2> QED
    BY <1>3, <2>2, <2>5, <2>6 DEF IsInjective
<1> QED
  BY <1>1, <1>2, <1>4, <1>5 DEF f

\* Front undoes Append.
LEMMA FrontOfAppend ==
  ASSUME NEW S, NEW s \in Seq(S), NEW e \in S
  PROVE  Front(Append(s, e)) = s
<1> DEFINE a == Append(s, e)
           f == Front(a)
<1>1. /\ a \in Seq(S) /\ Len(a) = Len(s) + 1 /\ Len(s) \in Nat
      /\ \A i \in 1 .. Len(s) : a[i] = s[i]
  OBVIOUS
<1> HIDE DEF a
<1>4. a # <<>> /\ Len(a) - 1 = Len(s)
  BY <1>1
<1>5. /\ f \in Seq(S) /\ Len(f) = Len(a) - 1
      /\ \A i \in 1 .. Len(a) - 1 : f[i] = a[i]
  BY <1>1, <1>4, FrontProperties
<1> HIDE DEF f
<1>2. /\ f \in Seq(S) /\ Len(f) = Len(s)
      /\ \A i \in 1 .. Len(s) : f[i] = s[i]
  BY <1>1, <1>4, <1>5
<1>3. f = s
  BY <1>2
<1> QED
  BY <1>3 DEF f, a

\* What is left when the first element is taken.
LEMMA TailProperties ==
  ASSUME NEW S, NEW s \in Seq(S), s # <<>>
  PROVE  /\ Tail(s) \in Seq(S) /\ Len(Tail(s)) = Len(s) - 1 /\ Head(s) \in ToSet(s)
         /\ Len(s) > 1 => /\ Tail(s) # <<>> /\ Tail(s)[Len(Tail(s))] = s[Len(s)]
                         /\ Front(Tail(s)) = Tail(Front(s)) /\ Head(Front(s)) = Head(s)
         /\ IsInjective(s) => /\ IsInjective(Tail(s))
                             /\ ToSet(Tail(s)) = ToSet(s) \ {Head(s)}
<1> DEFINE t == Tail(s)
<1>1. /\ t \in Seq(S) /\ Len(t) = Len(s) - 1 /\ Len(s) \in Nat /\ Len(s) # 0
      /\ \A i \in 1 .. Len(s) - 1 : t[i] = s[i + 1]
      /\ Head(s) = s[1] /\ 1 \in DOMAIN s
  OBVIOUS
<1> HIDE DEF t
<1>2. ASSUME Len(s) > 1
      PROVE  /\ t # <<>> /\ t[Len(t)] = s[Len(s)]
             /\ Front(t) = Tail(Front(s)) /\ Head(Front(s)) = Head(s)
  <2>1. Len(t) # 0 /\ t # <<>>
    BY <1>1, <1>2
  <2>2. /\ Len(s) - 1 \in 1 .. Len(s) - 1 /\ (Len(s) - 1) + 1 = Len(s)
    BY <1>1, <1>2
  <2>3. t[Len(t)] = s[Len(s)]
    BY <1>1, <2>2
  <2>4. /\ Front(t) \in Seq(S) /\ Len(Front(t)) = Len(s) - 2
        /\ \A i \in 1 .. Len(s) - 2 : Front(t)[i] = t[i]
    BY <1>1, <2>1, FrontProperties
  <2>5. /\ Front(s) \in Seq(S) /\ Len(Front(s)) = Len(s) - 1
        /\ \A i \in 1 .. Len(s) - 1 : Front(s)[i] = s[i]
    BY FrontProperties
  <2> DEFINE f == Front(s)
             r == Tail(f)
             q == Front(t)
  <2>6. f \in Seq(S) /\ Len(f) = Len(s) - 1 /\ Len(f) # 0
        /\ \A i \in 1 .. Len(s) - 1 : f[i] = s[i]
    BY <1>1, <1>2, <2>5
  <2> HIDE DEF f
  <2>7. /\ r \in Seq(S) /\ Len(r) = Len(s) - 2 /\ Head(f) = f[1]
        /\ \A i \in 1 .. Len(s) - 2 : r[i] = f[i + 1]
    BY <1>1, <2>6
  <2>8. 1 \in 1 .. Len(s) - 1
    BY <1>1, <1>2
  <2>9. Head(f) = Head(s)
    BY <1>1, <2>6, <2>7, <2>8
  <2>10. q \in Seq(S) /\ Len(q) = Len(s) - 2 /\ \A i \in 1 .. Len(s) - 2 : q[i] = t[i]
    BY <2>4
  <2> HIDE DEF r, q
  <2>11. \A i \in 1 .. Len(s) - 2 : q[i] = r[i]
    <3> TAKE i \in 1 .. Len(s) - 2
    <3>1. i \in 1 .. Len(s) - 1 /\ i + 1 \in 1 .. Len(s) - 1
      BY <1>1
    <3> QED
      BY <1>1, <2>6, <2>7, <2>10, <3>1
  <2>12. q = r
    BY <2>7, <2>10, <2>11
  <2> QED
    BY <2>1, <2>3, <2>9, <2>12 DEF f, q, r
<1>3. IsInjective(s) => IsInjective(t) /\ ToSet(t) = ToSet(s) \ {Head(s)}
  <2> SUFFICES ASSUME IsInjective(s)
               PROVE  IsInjective(t) /\ ToSet(t) = ToSet(s) \ {Head(s)}
    OBVIOUS
  <2>1. PICK e : e = Head(s)
    OBVIOUS
  <2>2. RemoveFirst(s, e) = t
    BY <2>1, RemoveFirstHead DEF t
  <2>3. IsInjective(RemoveFirst(s, e)) /\ ToSet(RemoveFirst(s, e)) = ToSet(s) \ {e}
    BY RemoveFirstMembers
  <2> QED
    BY <2>1, <2>2, <2>3
<1>4. Head(s) \in ToSet(s)
  BY <1>1 DEF ToSet
<1> QED
  BY <1>1, <1>2, <1>3, <1>4 DEF t

\* InsertAt behind the last member.
LEMMA InsertAtEnd ==
  ASSUME NEW S, NEW s \in Seq(S), NEW e \in S
  PROVE  InsertAt(s, Len(s) + 1, e) = Append(s, e)
<1> DEFINE t == InsertAt(s, Len(s) + 1, e)
           r == Append(s, e)
<1>1. /\ t \in Seq(S) /\ Len(t) = Len(s) + 1
      /\ \A j \in 1 .. Len(t) :
           t[j] = IF j < Len(s) + 1 THEN s[j] ELSE IF j = Len(s) + 1 THEN e ELSE s[j - 1]
  <2>1. Len(s) + 1 \in 1 .. Len(s) + 1
    OBVIOUS
  <2> QED
    BY <2>1, InsertAtProperties
<1>2. /\ r \in Seq(S) /\ Len(r) = Len(s) + 1
      /\ \A j \in 1 .. Len(r) : r[j] = IF j < Len(s) + 1 THEN s[j] ELSE e
  OBVIOUS
<1> HIDE DEF t, r
<1>3. \A j \in 1 .. Len(t) : t[j] = r[j]
  BY <1>1, <1>2
<1>4. t = r
  BY <1>1, <1>2, <1>3
<1> QED
  BY <1>4 DEF t, r

-----------------------------------------------------------------------------
\* Lists in the order of a sequence.  The head, which is no member, is met before
\* the first member and after the last.

NodeAt(h, s, i) == IF i \in 1 .. Len(s) THEN s[i] ELSE h

\* The pointers lead along s, forwards and backwards.
Follows(l, h, s) ==
  \A i \in 0 .. Len(s) : /\ l.next[NodeAt(h, s, i)] = NodeAt(h, s, i + 1)
                         /\ l.prev[NodeAt(h, s, i + 1)] = NodeAt(h, s, i)

\* A node is met once.
Distinct(h, s) == IsInjective(s) /\ h \notin ToSet(s)

\* Places and members of a list of distinct nodes.
LEMMA DistinctPlaces ==
  ASSUME NEW N, NEW h \in N, NEW s \in Seq(N), Distinct(h, s)
  PROVE  \A a, b \in 0 .. Len(s) : NodeAt(h, s, a) = NodeAt(h, s, b) => a = b
<1>1. \A a, b \in 1 .. Len(s) : s[a] = s[b] => a = b
  BY DEF Distinct, IsInjective
<1>2. \A a \in 1 .. Len(s) : s[a] # h
  BY DEF Distinct, ToSet
<1> QED
  BY <1>1, <1>2 DEF NodeAt

\* list_add_before (lib.h:47) at the place i of a list is InsertAt.
LEMMA FollowsInsert ==
  ASSUME NEW N, NEW l \in ListMemory(N), NEW h \in N, NEW s \in Seq(N),
         Distinct(h, s), Follows(l, h, s),
         NEW i \in 1 .. Len(s) + 1, NEW n \in N, n # h, n \notin ToSet(s)
  PROVE  LET k == ListAddBefore(l, NodeAt(h, s, i), n)
             t == InsertAt(s, i, n)
         IN  /\ k \in ListMemory(N) /\ t \in Seq(N)
             /\ Distinct(h, t) /\ Follows(k, h, t)
             /\ Len(t) = Len(s) + 1 /\ ToSet(t) = ToSet(s) \cup {n}
<1> DEFINE at == NodeAt(h, s, i)
           k == ListAddBefore(l, at, n)
           t == InsertAt(s, i, n)
           P(j) == NodeAt(h, s, j)
           Q(j) == NodeAt(h, t, j)
<1>1. /\ t \in Seq(N) /\ Len(t) = Len(s) + 1
      /\ \A j \in 1 .. Len(t) : t[j] = IF j < i THEN s[j] ELSE IF j = i THEN n ELSE s[j - 1]
      /\ ToSet(t) = ToSet(s) \cup {n}
  BY InsertAtProperties
<1>2. at \in N /\ at # n /\ l.prev[at] = P(i - 1) /\ l.prev[at] # n
  <2>1. \A j \in 0 .. Len(s) + 1 : P(j) \in N /\ P(j) # n
    BY DEF NodeAt, ToSet
  <2>2. i - 1 \in 0 .. Len(s) /\ (i - 1) + 1 = i
    OBVIOUS
  <2>3. l.prev[P((i - 1) + 1)] = P(i - 1)
    BY <2>2 DEF Follows
  <2>4. at = P(i) /\ i \in 0 .. Len(s) + 1 /\ i - 1 \in 0 .. Len(s) + 1
    BY <2>2
  <2> QED
    BY <2>1, <2>2, <2>3, <2>4
<1>3. /\ k \in ListMemory(N)
      /\ \A m \in N : /\ k.next[m] = IF m = n THEN at
                                   ELSE IF m = P(i - 1) THEN n ELSE l.next[m]
                      /\ k.prev[m] = IF m = at THEN n
                                   ELSE IF m = n THEN P(i - 1) ELSE l.prev[m]
  BY <1>2, AddBeforeFields
<1>4. \A j \in 0 .. Len(s) + 2 :
        Q(j) = IF j < i THEN P(j) ELSE IF j = i THEN n ELSE P(j - 1)
  BY <1>1 DEF NodeAt
<1>5. \A j \in 0 .. Len(s) + 1 : P(j) \in N /\ P(j) # n
  BY DEF NodeAt, ToSet
<1>6. \A a, b \in 0 .. Len(s) : P(a) = P(b) => a = b
  BY DistinctPlaces
<1>7. \A a \in 0 .. Len(s) : l.next[P(a)] = P(a + 1) /\ l.prev[P(a + 1)] = P(a)
  BY DEF Follows
<1>8. P(Len(s) + 1) = P(0) /\ Len(s) \in Nat /\ at = P(i)
  BY DEF NodeAt
<1>9. Len(t) = Len(s) + 1
  BY <1>1
<1> HIDE DEF P, Q, k, t, at
<1>11. ASSUME NEW a \in 0 .. Len(t), NEW b \in 0 .. Len(t), Q(a) = Q(b)
       PROVE  a = b
  BY <1>4, <1>5, <1>6, <1>9, <1>11, <1>8
<1>12. ASSUME NEW a \in 0 .. Len(t)
       PROVE  k.next[Q(a)] = Q(a + 1) /\ k.prev[Q(a + 1)] = Q(a)
  <2>1. CASE a < i - 1
    <3>1. a \in 0 .. Len(s) /\ Q(a) = P(a) /\ Q(a + 1) = P(a + 1)
      BY <1>4, <1>8, <1>9, <2>1
    <3>2. i - 1 \in 0 .. Len(s) /\ a # i - 1 /\ P(a) # P(i - 1)
      BY <1>6, <1>8, <2>1, <3>1
    <3>3. P(a + 1) # at
      <4>1. CASE i <= Len(s)
        <5>1. a + 1 \in 0 .. Len(s) /\ i \in 0 .. Len(s) /\ a + 1 # i
          BY <1>8, <2>1, <4>1
        <5> QED
          BY <1>6, <1>8, <5>1
      <4>2. CASE i = Len(s) + 1
        <5>1. a + 1 \in 0 .. Len(s) /\ 0 \in 0 .. Len(s) /\ a + 1 # 0
          BY <1>8, <2>1, <4>2
        <5> QED
          BY <1>6, <1>8, <4>2, <5>1
      <4> QED
        BY <1>8, <4>1, <4>2
    <3>4. l.next[P(a)] = P(a + 1) /\ l.prev[P(a + 1)] = P(a)
      BY <1>7, <3>1
    <3>5. P(a) \in N /\ P(a) # n /\ P(a + 1) \in N /\ P(a + 1) # n
      BY <1>5, <1>8, <2>1
    <3> QED
      BY <1>3, <3>1, <3>2, <3>3, <3>4, <3>5
  <2>2. CASE a = i - 1
    <3>1. Q(a) = P(i - 1) /\ Q(a + 1) = n
      BY <1>4, <1>8, <1>9, <2>2
    <3>2. P(i - 1) \in N /\ P(i - 1) # n
      BY <1>5, <1>8
    <3> QED
      BY <1>2, <1>3, <3>1, <3>2
  <2>3. CASE a = i
    <3>1. Q(a) = n /\ Q(a + 1) = at
      <4>1. a \in 0 .. Len(s) + 2 /\ a + 1 \in 0 .. Len(s) + 2 /\ (a + 1) - 1 = i
            /\ ~(a < i) /\ ~(a + 1 < i) /\ a + 1 # i
        BY <1>8, <1>9, <2>3
      <4> QED
        BY <1>4, <1>8, <2>3, <4>1
    <3> QED
      BY <1>2, <1>3, <3>1
  <2>4. CASE a > i
    <3>1. a - 1 \in 0 .. Len(s) /\ Q(a) = P(a - 1) /\ Q(a + 1) = P(a)
      BY <1>4, <1>9, <2>4
    <3>2. P(a - 1) # P(i - 1) /\ P(a) # at
      BY <1>6, <1>8, <1>9, <2>4, <3>1
    <3>3. l.next[P(a - 1)] = P(a) /\ l.prev[P(a)] = P(a - 1)
      BY <1>7, <3>1
    <3> QED
      BY <1>3, <1>5, <1>9, <3>1, <3>2, <3>3
  <2> QED
    BY <2>1, <2>2, <2>3, <2>4
<1>13. Distinct(h, t)
  <2>1. \A a \in 1 .. Len(t) : Q(a) = t[a] /\ a \in 0 .. Len(t)
    BY DEF Q, NodeAt
  <2>2. DOMAIN t = 1 .. Len(t)
    BY <1>1
  <2>3. h \notin ToSet(s) /\ ToSet(t) = ToSet(s) \cup {n}
    BY <1>1 DEF Distinct
  <2> QED
    BY <1>11, <2>1, <2>2, <2>3 DEF Distinct, IsInjective
<1>14. Follows(k, h, t)
  BY <1>12 DEF Follows, Q
<1> QED
  BY <1>1, <1>3, <1>13, <1>14 DEF k, t, at

\* list_delete (lib.h:55) of the member at the place i is RemoveAt.
LEMMA FollowsRemove ==
  ASSUME NEW N, NEW l \in ListMemory(N), NEW h \in N, NEW s \in Seq(N),
         Distinct(h, s), Follows(l, h, s), NEW i \in 1 .. Len(s)
  PROVE  LET k == ListDelete(l, s[i])
             t == RemoveAt(s, i)
         IN  /\ k \in ListMemory(N) /\ t \in Seq(N) /\ Len(t) = Len(s) - 1
             /\ Distinct(h, t) /\ Follows(k, h, t)
<1> DEFINE n == s[i]
           k == ListDelete(l, n)
           t == RemoveAt(s, i)
           P(j) == NodeAt(h, s, j)
           Q(j) == NodeAt(h, t, j)
<1>1. /\ t \in Seq(N) /\ Len(t) = Len(s) - 1
      /\ \A j \in 1 .. Len(t) : t[j] = IF j < i THEN s[j] ELSE s[j + 1]
  BY RemoveAtProperties
<1>2. n \in N /\ n = P(i) /\ Len(s) \in Nat
  BY DEF NodeAt
<1>3. /\ k \in ListMemory(N)
      /\ \A m \in N :
           /\ k.next[m] = IF m = l.prev[n] THEN l.next[n] ELSE l.next[m]
           /\ k.prev[m] = IF m = l.next[n] THEN l.prev[n] ELSE l.prev[m]
  BY <1>2, DeleteFields
<1>4. \A j \in 0 .. Len(s) : Q(j) = IF j < i THEN P(j) ELSE P(j + 1)
  BY <1>1 DEF NodeAt
<1>5. \A j \in 0 .. Len(s) + 1 : P(j) \in N
  BY DEF NodeAt
<1>6. \A a, b \in 0 .. Len(s) : P(a) = P(b) => a = b
  BY DistinctPlaces
<1>7. \A a \in 0 .. Len(s) : l.next[P(a)] = P(a + 1) /\ l.prev[P(a + 1)] = P(a)
  BY DEF Follows
<1>8. P(Len(s) + 1) = P(0)
  BY DEF NodeAt
<1>9. Len(t) = Len(s) - 1
  BY <1>1
<1> HIDE DEF P, Q, k, t, n
<1>10. l.next[n] = P(i + 1) /\ l.prev[n] = P(i - 1)
  <2>1. l.next[P(i)] = P(i + 1)
    BY <1>7
  <2>2. i - 1 \in 0 .. Len(s) /\ (i - 1) + 1 = i
    OBVIOUS
  <2>3. l.prev[P((i - 1) + 1)] = P(i - 1)
    BY <1>7, <2>2
  <2> QED
    BY <1>2, <2>1, <2>2, <2>3
<1>12. ASSUME NEW a \in 0 .. Len(t)
       PROVE  k.next[Q(a)] = Q(a + 1) /\ k.prev[Q(a + 1)] = Q(a)
  <2>1. CASE a < i - 1
    <3>1. Q(a) = P(a) /\ Q(a + 1) = P(a + 1)
      BY <1>4, <1>9, <2>1
    <3>2. P(a) # P(i - 1) /\ P(a + 1) # P(i + 1)
      BY <1>2, <1>6, <1>8, <1>9, <2>1
    <3> QED
      BY <1>2, <1>3, <1>5, <1>7, <1>9, <1>10, <3>1, <3>2
  <2>2. CASE a = i - 1
    <3>1. Q(a) = P(i - 1) /\ Q(a + 1) = P(i + 1)
      BY <1>4, <1>9, <2>2
    <3> QED
      BY <1>2, <1>3, <1>5, <1>9, <1>10, <3>1
  <2>3. CASE a >= i
    <3>1. Q(a) = P(a + 1) /\ Q(a + 1) = P(a + 2) /\ a + 1 \in 0 .. Len(s)
      BY <1>4, <1>9, <2>3
    <3>2. P(a + 1) # P(i - 1) /\ P(a + 2) # P(i + 1)
      BY <1>2, <1>6, <1>8, <1>9, <2>3
    <3>3. l.next[P(a + 1)] = P(a + 2) /\ l.prev[P(a + 2)] = P(a + 1)
      BY <1>7, <3>1
    <3> QED
      BY <1>2, <1>3, <1>5, <1>9, <1>10, <3>1, <3>2, <3>3
  <2> QED
    BY <2>1, <2>2, <2>3
<1>13. Distinct(h, t)
  <2>1. IsInjective(s) /\ h \notin ToSet(s)
    BY DEF Distinct
  <2>2. IsInjective(t) /\ ToSet(t) \subseteq ToSet(s)
    BY <2>1, RemoveAtMembers DEF t
  <2> QED
    BY <2>1, <2>2 DEF Distinct
<1>14. Follows(k, h, t)
  BY <1>12 DEF Follows, Q
<1> QED
  BY <1>1, <1>3, <1>13, <1>14 DEF k, t, n

\* A list in the order of a sequence is one cycle through the head.
LEMMA FollowsWellLinked ==
  ASSUME NEW N, NEW l \in ListMemory(N), NEW h \in N, NEW s \in Seq(N),
         Distinct(h, s), Follows(l, h, s)
  PROVE  WellLinked(l, ToSet(s) \cup {h}, h)
<1> DEFINE P(j) == NodeAt(h, s, j)
           L == ToSet(s) \cup {h}
<1>1. /\ \A j \in 1 .. Len(s) : P(j) \in ToSet(s)
      /\ \A x \in ToSet(s) : \E j \in 1 .. Len(s) : x = P(j)
      /\ P(0) = h /\ P(Len(s) + 1) = h
  BY DEF NodeAt, ToSet
<1>2. Len(s) \in Nat
  OBVIOUS
<1>3. \A a, b \in 0 .. Len(s) : P(a) = P(b) => a = b
  BY DistinctPlaces
<1>4. \A a \in 0 .. Len(s) : l.next[P(a)] = P(a + 1) /\ l.prev[P(a + 1)] = P(a)
  BY DEF Follows
<1> HIDE DEF P
<1>5. \A x \in L : \E j \in 0 .. Len(s) : x = P(j)
  <2>1. 0 \in 0 .. Len(s) /\ 1 .. Len(s) \subseteq 0 .. Len(s)
    BY <1>2
  <2> QED
    BY <1>1, <2>1
<1>6. \A x \in L : \E j \in 1 .. Len(s) + 1 : x = P(j)
  <2>1. Len(s) + 1 \in 1 .. Len(s) + 1 /\ 1 .. Len(s) \subseteq 1 .. Len(s) + 1
    BY <1>2
  <2> QED
    BY <1>1, <2>1
<1>7. \A j \in 0 .. Len(s) + 1 : P(j) \in L
  BY <1>1, <1>2
<1>8. Ring(l, L)
  <2> SUFFICES ASSUME NEW n \in L
               PROVE  /\ l.next[n] \in L /\ l.prev[n] \in L
                      /\ l.prev[l.next[n]] = n /\ l.next[l.prev[n]] = n
    BY DEF Ring
  <2>1. PICK a \in 0 .. Len(s) : n = P(a)
    BY <1>5
  <2>2. PICK b \in 1 .. Len(s) + 1 : n = P(b)
    BY <1>6
  <2>3. l.next[n] = P(a + 1) /\ l.prev[l.next[n]] = n /\ P(a + 1) \in L
    BY <1>2, <1>4, <1>7, <2>1
  <2>4. l.prev[n] = P(b - 1) /\ l.next[l.prev[n]] = n /\ P(b - 1) \in L
    <3>1. b - 1 \in 0 .. Len(s) /\ (b - 1) + 1 = b
      BY <1>2
    <3> QED
      BY <1>4, <1>7, <2>2, <3>1
  <2> QED
    BY <2>3, <2>4
<1>9. ASSUME NEW S \in SUBSET (L \ {h}), \A n \in S : l.next[n] \in S, S # {}
      PROVE  FALSE
  <2> DEFINE X == {j \in 1 .. Len(s) : P(j) \in S}
             Y == {n \in Nat : Len(s) - n \in X}
  <2>1. PICK x \in X : TRUE
    BY <1>1, <1>9
  <2>2. Len(s) - x \in Y
    BY <1>2, <2>1
  <2>3. PICK y \in Y : \A z \in Y : y <= z
    BY <2>2, LeastOf
  <2> DEFINE j == Len(s) - y
  <2>4. j \in 1 .. Len(s) /\ P(j) \in S /\ y = Len(s) - j
    BY <1>2, <2>3
  <2>5. P(j + 1) \in S
    BY <1>2, <1>4, <1>9, <2>4
  <2>6. j + 1 \in 1 .. Len(s)
    BY <1>1, <1>2, <1>9, <2>4, <2>5
  <2>7. Len(s) - (j + 1) \in Y
    BY <1>2, <2>4, <2>5, <2>6
  <2>8. Len(s) - (j + 1) < y /\ y \in Nat /\ Len(s) - (j + 1) \in Nat
    BY <1>2, <2>4, <2>6
  <2>9. y <= Len(s) - (j + 1)
    BY <2>3, <2>7
  <2> HIDE DEF Y, j
  <2> QED
    BY <2>8, <2>9
<1>10. ASSUME NEW S \in SUBSET (L \ {h}), \A n \in S : l.prev[n] \in S, S # {}
       PROVE  FALSE
  <2> DEFINE X == {j \in 1 .. Len(s) : P(j) \in S}
  <2>1. X \subseteq Nat /\ X # {}
    BY <1>1, <1>2, <1>10
  <2>2. PICK j \in X : \A z \in X : j <= z
    BY <2>1, LeastOf
  <2>3. P(j - 1) \in S
    <3>1. j - 1 \in 0 .. Len(s) /\ (j - 1) + 1 = j
      BY <1>2
    <3> QED
      BY <1>4, <1>10, <3>1
  <2>4. j - 1 \in 1 .. Len(s)
    BY <1>1, <1>2, <1>10, <2>3
  <2>5. j - 1 \in X
    BY <2>3, <2>4
  <2> QED
    BY <1>2, <2>2, <2>5
<1> QED
  BY <1>8, <1>9, <1>10 DEF WellLinked, OneCycle

\* A sequence of distinct members has as many as it is long.
LEMMA MembersCounted ==
  ASSUME NEW S, NEW s \in Seq(S), IsInjective(s)
  PROVE  IsFiniteSet(ToSet(s)) /\ Cardinality(ToSet(s)) = Len(s)
<1>1. /\ IsFiniteSet(1 .. Len(s)) /\ Cardinality(1 .. Len(s)) = Len(s)
  <2>1. Len(s) \in Nat /\ 1 \in Int /\ Len(s) \in Int /\ Len(s) - 1 + 1 = Len(s)
    OBVIOUS
  <2> QED
    BY <2>1, FS_Interval
<1>2. s \in Bijection(1 .. Len(s), ToSet(s))
  BY DEF Bijection, Injection, Surjection, IsInjective, ToSet
<1>3. ExistsBijection(1 .. Len(s), ToSet(s))
  BY <1>2 DEF ExistsBijection
<1> QED
  BY <1>1, <1>3, FS_Bijection

\* Stores to other nodes leave a list as it is.
LEMMA FollowsElsewhere ==
  ASSUME NEW N, NEW h \in N, NEW s \in Seq(N), NEW l, NEW k, Follows(l, h, s),
         \A m \in ToSet(s) \cup {h} : k.next[m] = l.next[m] /\ k.prev[m] = l.prev[m]
  PROVE  Follows(k, h, s)
<1>1. \A i \in 0 .. Len(s) + 1 : NodeAt(h, s, i) \in ToSet(s) \cup {h}
  BY DEF NodeAt, ToSet
<1>2. \A i \in 0 .. Len(s) : i \in 0 .. Len(s) + 1 /\ i + 1 \in 0 .. Len(s) + 1
  OBVIOUS
<1> QED
  BY <1>1, <1>2 DEF Follows

\* The ends of a list.
LEMMA FollowsEnds ==
  ASSUME NEW N, NEW h \in N, NEW s \in Seq(N), NEW l, Follows(l, h, s)
  PROVE  /\ l.next[l.prev[h]] = h
         /\ l.prev[h] = IF s = <<>> THEN h ELSE s[Len(s)]
         /\ l.next[h] = IF s = <<>> THEN h ELSE Head(s)
         /\ s # <<>> => l.prev[Head(s)] = h
         /\ Len(s) > 1 => l.next[Head(s)] = s[2]
<1>1. Len(s) \in 0 .. Len(s) /\ 0 \in 0 .. Len(s)
  OBVIOUS
<1>2. /\ NodeAt(h, s, Len(s) + 1) = h /\ NodeAt(h, s, 0) = h
      /\ NodeAt(h, s, Len(s)) = IF s = <<>> THEN h ELSE s[Len(s)]
      /\ NodeAt(h, s, 1) = IF s = <<>> THEN h ELSE Head(s)
      /\ Len(s) > 1 => NodeAt(h, s, 2) = s[2]
  BY DEF NodeAt
<1>3. l.next[NodeAt(h, s, Len(s))] = h /\ l.prev[h] = NodeAt(h, s, Len(s))
  BY <1>1, <1>2 DEF Follows
<1>4. l.next[h] = NodeAt(h, s, 0 + 1) /\ l.prev[NodeAt(h, s, 0 + 1)] = h
  BY <1>1, <1>2 DEF Follows
<1>5. Len(s) > 1 => 1 \in 0 .. Len(s) /\ l.next[NodeAt(h, s, 1)] = NodeAt(h, s, 1 + 1)
  BY DEF Follows
<1> QED
  BY <1>2, <1>3, <1>4, <1>5

-----------------------------------------------------------------------------
\* list_add_before(h, u) store by store, which interrupts see: after the first store
\* the list without u is one store away, after the second and the third the list
\* with u is two stores and one store away.
HalfLinked(l, h, s, u) ==
  /\ Follows([l EXCEPT !.next[l.prev[h]] = h], h, s)
  /\ l.next[l.prev[h]] = u

Completed(l, h, u, both) ==
  IF both THEN [l EXCEPT !.prev[h] = u, !.next[u] = h] ELSE [l EXCEPT !.next[u] = h]

\* First store of list_add_before: the last node leads to the new one. With that store taken
\* back, the list is the old one.
LEMMA FirstStore ==
  ASSUME NEW N, NEW l \in ListMemory(N), NEW h \in N, NEW s \in Seq(N),
         Follows(l, h, s), NEW u \in N
  PROVE  HalfLinked([l EXCEPT !.next[l.prev[h]] = u], h, s, u)
<1> DEFINE k == [l EXCEPT !.next[l.prev[h]] = u]
           j == [k EXCEPT !.next[k.prev[h]] = h]
<1>1. l.prev[h] \in N /\ l.next[l.prev[h]] = h
  BY FollowsEnds DEF ListMemory
<1>2. k.prev = l.prev /\ k.next = [l.next EXCEPT ![l.prev[h]] = u] /\ k \in ListMemory(N)
  BY <1>1 DEF ListMemory
<1>3. j.prev = l.prev /\ j.next = [k.next EXCEPT ![l.prev[h]] = h]
  BY <1>2 DEF ListMemory
<1>4. l.next \in [N -> N]
  BY DEF ListMemory
<1>5. j.next = l.next
  BY <1>1, <1>2, <1>3, <1>4
<1>6. Follows(j, h, s)
  BY <1>3, <1>5 DEF Follows
<1>7. k.next[k.prev[h]] = u
  BY <1>1, <1>2, <1>4
<1> QED
  BY <1>6, <1>7 DEF HalfLinked

\* Second store: the new node's prev. From here on the list is the new one but for the stores
\* that are to come.
LEMMA SecondStore ==
  ASSUME NEW N, NEW l \in ListMemory(N), NEW h \in N, NEW s \in Seq(N),
         Distinct(h, s), NEW u \in N, u # h, u \notin ToSet(s),
         HalfLinked(l, h, s, u)
  PROVE  Follows(Completed([l EXCEPT !.prev[u] = l.prev[h]], h, u, TRUE), h,
                 Append(s, u))
<1> DEFINE p == l.prev[h]
           j == [l EXCEPT !.next[p] = h]
           k == Completed([l EXCEPT !.prev[u] = p], h, u, TRUE)
<1>1. Follows(j, h, s) /\ l.next[p] = u /\ p \in N
  BY DEF HalfLinked, ListMemory
<1>2. j \in ListMemory(N) /\ j.prev = l.prev /\ j.next = [l.next EXCEPT ![p] = h]
  BY <1>1 DEF ListMemory
<1>3. k.prev = [l.prev EXCEPT ![u] = p, ![h] = u]
  BY DEF ListMemory, Completed
<1>4. k.next = [l.next EXCEPT ![u] = h]
  BY DEF ListMemory, Completed
<1>5. ListAddBefore(j, h, u).prev = k.prev
  BY <1>2, <1>3 DEF ListAddBefore
<1>6. ListAddBefore(j, h, u).next = k.next
  <2>1. ListAddBefore(j, h, u).next = [j.next EXCEPT ![p] = u, ![u] = h]
    BY <1>2 DEF ListAddBefore
  <2>2. [j.next EXCEPT ![p] = u] = l.next
    BY <1>1, <1>2 DEF ListMemory
  <2> QED
    BY <1>4, <2>1, <2>2
<1> DEFINE i == Len(s) + 1
<1>7. /\ i \in 1 .. Len(s) + 1 /\ NodeAt(h, s, i) = h
      /\ InsertAt(s, i, u) = Append(s, u)
  BY InsertAtEnd DEF NodeAt
<1> HIDE DEF i, j, k, p
<1>8. Follows(ListAddBefore(j, NodeAt(h, s, i), u), h, InsertAt(s, i, u))
  BY <1>1, <1>2, <1>7, FollowsInsert
<1>9. Follows(ListAddBefore(j, h, u), h, Append(s, u))
  BY <1>7, <1>8
<1>10. Follows(k, h, Append(s, u))
  BY <1>5, <1>6, <1>9 DEF Follows
<1> QED
  BY <1>10 DEF k, p

\* Third store: the head's prev is the new node.
LEMMA ThirdStore ==
  ASSUME NEW N, NEW l \in ListMemory(N), NEW h \in N, NEW s, NEW u \in N,
         Follows(Completed(l, h, u, TRUE), h, s)
  PROVE  Follows(Completed([l EXCEPT !.prev[h] = u], h, u, FALSE), h, s)
<1> DEFINE j == Completed(l, h, u, TRUE)
           k == Completed([l EXCEPT !.prev[h] = u], h, u, FALSE)
<1>1. k.next = j.next /\ k.prev = j.prev
  BY DEF Completed, ListMemory
<1> QED
  BY <1>1 DEF Follows

\* An interrupt between the first and the second store may take out the first member,
\* if it is not the last.
LEMMA HalfLinkedDelete ==
  ASSUME NEW N, NEW l \in ListMemory(N), NEW h \in N, NEW u \in N, u # h,
         NEW s \in Seq(N), Len(s) > 1, Distinct(h, s), u \notin ToSet(s),
         HalfLinked(l, h, s, u)
  PROVE  /\ l.next[h] = Head(s) /\ l.prev[h] = s[Len(s)]
         /\ HalfLinked(ListDelete(l, Head(s)), h, Tail(s), u)
<1> DEFINE f == Head(s)
           p == l.prev[h]
           j == [l EXCEPT !.next[p] = h]
           d == ListDelete(l, f)
           k == [d EXCEPT !.next[d.prev[h]] = h]
<1>1. Follows(j, h, s) /\ l.next[p] = u /\ p \in N
  BY DEF HalfLinked, ListMemory
<1>2. j \in ListMemory(N) /\ j.prev = l.prev /\ j.next = [l.next EXCEPT ![p] = h]
  BY <1>1 DEF ListMemory
<1>3. /\ s # <<>> /\ 1 \in 1 .. Len(s) /\ 2 \in 1 .. Len(s) /\ Len(s) \in 1 .. Len(s)
      /\ f = s[1] /\ RemoveAt(s, 1) = Tail(s)
  BY DEF RemoveAt
<1>4. /\ p = s[Len(s)] /\ j.next[h] = f /\ j.prev[f] = h /\ j.next[f] = s[2]
  <2> HIDE DEF j
  <2>1. /\ j.prev[h] = s[Len(s)] /\ j.next[h] = Head(s) /\ j.prev[Head(s)] = h
        /\ j.next[Head(s)] = s[2]
    BY <1>1, <1>3, FollowsEnds
  <2> QED
    BY <1>2, <2>1
<1>5. /\ f # h /\ s[2] # h /\ p # h /\ f # p /\ f \in N /\ s[2] \in N
  BY <1>3, <1>4 DEF Distinct, IsInjective, ToSet
<1>6. l.next \in [N -> N] /\ l.prev \in [N -> N]
  BY DEF ListMemory
<1>7. l.next[h] = f /\ l.prev[f] = h /\ l.next[f] = s[2]
  BY <1>2, <1>4, <1>5, <1>6
<1>8. /\ d.next = [l.next EXCEPT ![h] = s[2]]
      /\ d.prev = [l.prev EXCEPT ![s[2]] = h]
      /\ d \in ListMemory(N)
  BY <1>5, <1>7, DeleteFields DEF ListDelete
<1>9. d.prev[h] = p
  BY <1>5, <1>6, <1>8
<1>10. k.next = [d.next EXCEPT ![p] = h] /\ k.prev = d.prev
  BY <1>8, <1>9 DEF ListMemory
<1>11. d.next[p] = u
  BY <1>1, <1>5, <1>6, <1>8
<1>12. /\ ListDelete(j, f).next = [j.next EXCEPT ![h] = s[2]]
       /\ ListDelete(j, f).prev = [j.prev EXCEPT ![s[2]] = h]
  BY <1>4 DEF ListDelete
<1>13. k.next = ListDelete(j, f).next
  BY <1>1, <1>2, <1>5, <1>6, <1>8, <1>10, <1>12
<1>14. k.prev = ListDelete(j, f).prev
  BY <1>2, <1>8, <1>10, <1>12
<1>15. Follows(ListDelete(j, f), h, Tail(s))
  <2> HIDE DEF j, f
  <2>1. Follows(ListDelete(j, s[1]), h, RemoveAt(s, 1))
    BY <1>1, <1>2, <1>3, FollowsRemove
  <2> QED
    BY <1>3, <2>1
<1>16. Follows(k, h, Tail(s))
  <2> HIDE DEF j, f, k, d
  <2> QED
    BY <1>13, <1>14, <1>15 DEF Follows
<1> QED
  BY <1>4, <1>7, <1>9, <1>11, <1>16 DEF HalfLinked

\* An interrupt between the later stores that takes out the first member does the same
\* as if they were made.
LEMMA DeleteCommutes ==
  ASSUME NEW N, NEW l \in ListMemory(N), NEW h \in N, NEW u \in N, u # h,
         NEW s \in Seq(N), s # <<>>, Distinct(h, s), u \notin ToSet(s),
         NEW both \in BOOLEAN, Follows(Completed(l, h, u, both), h, Append(s, u))
  PROVE  /\ l.next[h] = Head(s)
         /\ Follows(Completed(ListDelete(l, Head(s)), h, u, both), h,
                    Append(Tail(s), u))
<1> DEFINE f == Head(s)
           a == Append(s, u)
           d == ListDelete(l, f)
           j == Completed(l, h, u, both)
           k == Completed(d, h, u, both)
<1>1. /\ a \in Seq(N) /\ Head(a) = f /\ a[1] = f /\ Len(a) = Len(s) + 1 /\ Len(a) > 1
      /\ Tail(a) = Append(Tail(s), u)
      /\ f \in N /\ f # h /\ f # u /\ f \in ToSet(s)
  BY DEF Distinct, ToSet
<1>2. Distinct(h, a)
  BY AppendMembers DEF Distinct
<1>3. /\ j.next = [l.next EXCEPT ![u] = h]
      /\ j.prev = IF both THEN [l.prev EXCEPT ![h] = u] ELSE l.prev
      /\ j \in ListMemory(N)
  BY DEF ListMemory, Completed
<1>4. j.next[h] = f /\ j.prev[f] = h /\ j.next[f] = a[2]
  <2>1. Follows(j, h, a) /\ a # <<>>
    BY <1>1
  <2> HIDE DEF j, a
  <2> QED
    BY <1>1, <2>1, FollowsEnds
<1>5. a[2] \in N /\ a[2] # h
  <2>1. 2 \in 1 .. Len(a)
    BY <1>1
  <2> QED
    BY <1>1, <1>2, <2>1 DEF Distinct, ToSet
<1>6. l.next[h] = f /\ l.prev[f] = h /\ l.next[f] = a[2]
  BY <1>1, <1>3, <1>4 DEF ListMemory
<1>7. /\ d.next = [l.next EXCEPT ![h] = a[2]]
      /\ d.prev = [l.prev EXCEPT ![a[2]] = h]
      /\ d \in ListMemory(N)
  BY <1>1, <1>6, DeleteFields DEF ListDelete
<1>8. /\ k.next = [d.next EXCEPT ![u] = h]
      /\ k.prev = IF both THEN [d.prev EXCEPT ![h] = u] ELSE d.prev
  BY <1>7 DEF ListMemory, Completed
<1>9. /\ ListDelete(j, f).next = [j.next EXCEPT ![h] = a[2]]
      /\ ListDelete(j, f).prev = [j.prev EXCEPT ![a[2]] = h]
  BY <1>4 DEF ListDelete
<1>10. l.next \in [N -> N] /\ l.prev \in [N -> N]
  BY DEF ListMemory
<1>11. k.next = ListDelete(j, f).next
  BY <1>3, <1>5, <1>7, <1>8, <1>9, <1>10
<1>12. k.prev = ListDelete(j, f).prev
  BY <1>3, <1>5, <1>7, <1>8, <1>9, <1>10
<1>13. Follows(ListDelete(j, f), h, Tail(a))
  <2>1. Follows(j, h, a) /\ 1 \in 1 .. Len(a)
    BY <1>1
  <2>2. RemoveAt(a, 1) = Tail(a)
    BY <1>1 DEF RemoveAt
  <2> HIDE DEF a, j, f
  <2>3. Follows(ListDelete(j, a[1]), h, RemoveAt(a, 1))
    BY <1>1, <1>2, <1>3, <2>1, FollowsRemove
  <2> QED
    BY <1>1, <2>2, <2>3
<1>14. Follows(k, h, Tail(a))
  <2> HIDE DEF a, j, f, k, d
  <2> QED
    BY <1>11, <1>12, <1>13 DEF Follows
<1> QED
  BY <1>1, <1>6, <1>14

\* The ends of a list that is half linked.
LEMMA HalfLinkedEnds ==
  ASSUME NEW N, NEW l \in ListMemory(N), NEW h \in N, NEW u \in N, u # h,
         NEW s \in Seq(N), Distinct(h, s), HalfLinked(l, h, s, u)
  PROVE  /\ l.prev[h] = IF s = <<>> THEN h ELSE s[Len(s)]
         /\ l.next[h] = IF s = <<>> THEN u ELSE Head(s)
<1> DEFINE p == l.prev[h]
           j == [l EXCEPT !.next[p] = h]
<1>1. Follows(j, h, s) /\ l.next[p] = u /\ p \in N
  BY DEF HalfLinked, ListMemory
<1>2. j.prev = l.prev /\ j.next = [l.next EXCEPT ![p] = h] /\ l.next \in [N -> N]
  BY <1>1 DEF ListMemory
<1>3. /\ j.prev[h] = IF s = <<>> THEN h ELSE s[Len(s)]
      /\ j.next[h] = IF s = <<>> THEN h ELSE Head(s)
  <2> HIDE DEF j
  <2> QED
    BY <1>1, FollowsEnds
<1>4. s # <<>> => p # h
  <2>1. s # <<>> => s[Len(s)] \in ToSet(s)
    BY DEF ToSet
  <2> QED
    BY <1>2, <1>3, <2>1 DEF Distinct
<1> HIDE DEF j
<1>5. CASE s = <<>>
  BY <1>1, <1>2, <1>3, <1>5
<1>6. CASE s # <<>>
  <2>1. p # h
    BY <1>4, <1>6
  <2>2. l.next[h] = j.next[h]
    BY <1>1, <1>2, <2>1
  <2> QED
    BY <1>2, <1>3, <1>6, <2>2
<1> QED
  BY <1>5, <1>6

\* The walk along next from the head comes to every node of a list whose next
\* pointers are right, up to the last.
LEMMA VisitedAlong ==
  ASSUME NEW N, NEW l \in ListMemory(N), NEW h \in N, NEW s \in Seq(N), NEW B,
         ToSet(s) \subseteq B,
         \A i \in 0 .. Len(s) - 1 : l.next[NodeAt(h, s, i)] = NodeAt(h, s, i + 1)
  PROVE  ToSet(s) \subseteq Visited(l, h, B)
<1> SUFFICES ASSUME NEW W \in SUBSET N, WalkClosed(l, h, B, W), NEW x \in ToSet(s)
             PROVE  x \in W
  BY DEF Visited, ListMemory, ToSet
<1>1. DOMAIN s = 1 .. Len(s) /\ Len(s) \in Nat
  OBVIOUS
<1> DEFINE X == {i \in 1 .. Len(s) : s[i] \notin W}
<1>2. X = {}
  <2> SUFFICES ASSUME X # {} PROVE FALSE
    OBVIOUS
  <2>0. X \subseteq Nat
    OBVIOUS
  <2>1. PICK i \in X : \A j \in X : i <= j
    BY <2>0, LeastOf
  <2>2. CASE i = 1
    <3>1. /\ 0 \in 0 .. Len(s) - 1 /\ NodeAt(h, s, 0) = h /\ NodeAt(h, s, 0 + 1) = s[1]
      BY <1>1, <2>2 DEF NodeAt
    <3>2. l.next[h] = s[1]
      BY <3>1
    <3> QED
      BY <2>2, <3>2 DEF WalkClosed
  <2>3. CASE i # 1
    <3>1. /\ i - 1 \in 1 .. Len(s) /\ i - 1 \in 0 .. Len(s) - 1 /\ i - 1 < i
          /\ (i - 1) + 1 = i
      BY <1>1, <2>3
    <3>2. s[i - 1] \in W
      BY <2>1, <3>1
    <3>3. NodeAt(h, s, i - 1) = s[i - 1] /\ NodeAt(h, s, (i - 1) + 1) = s[i]
      BY <3>1 DEF NodeAt
    <3>4. l.next[s[i - 1]] = s[i]
      BY <3>1, <3>3
    <3>5. s[i - 1] \in B
      BY <1>1, <3>1 DEF ToSet
    <3> QED
      BY <3>2, <3>4, <3>5 DEF WalkClosed
  <2> QED
    BY <2>2, <2>3
<1> QED
  BY <1>1, <1>2 DEF ToSet

\* Along next up to the last node, of a list that is half linked.
LEMMA HalfLinkedAlong ==
  ASSUME NEW N, NEW l \in ListMemory(N), NEW h \in N, NEW u \in N,
         NEW s \in Seq(N), Distinct(h, s), HalfLinked(l, h, s, u)
  PROVE  \A i \in 0 .. Len(s) - 1 : l.next[NodeAt(h, s, i)] = NodeAt(h, s, i + 1)
<1> DEFINE p == l.prev[h]
           j == [l EXCEPT !.next[p] = h]
<1>1. Follows(j, h, s) /\ p \in N
  BY DEF HalfLinked, ListMemory
<1>2. j.prev = l.prev /\ j.next = [l.next EXCEPT ![p] = h] /\ l.next \in [N -> N]
  BY <1>1 DEF ListMemory
<1> HIDE DEF j
<1>3. p = NodeAt(h, s, Len(s))
  <2>1. j.prev[h] = IF s = <<>> THEN h ELSE s[Len(s)]
    BY <1>1, FollowsEnds
  <2>2. Len(s) \in Nat /\ (s = <<>> <=> Len(s) = 0)
    OBVIOUS
  <2> QED
    BY <1>2, <2>1, <2>2 DEF NodeAt
<1> SUFFICES ASSUME NEW i \in 0 .. Len(s) - 1
             PROVE  l.next[NodeAt(h, s, i)] = NodeAt(h, s, i + 1)
  OBVIOUS
<1>4. Len(s) \in Nat /\ Len(s) \in 0 .. Len(s) /\ i \in 0 .. Len(s) /\ i # Len(s)
  OBVIOUS
<1>5. NodeAt(h, s, i) # p
  BY <1>3, <1>4, DistinctPlaces
<1>6. NodeAt(h, s, i) \in N
  BY DEF NodeAt
<1>7. j.next[NodeAt(h, s, i)] = NodeAt(h, s, i + 1)
  BY <1>1, <1>4 DEF Follows
<1> QED
  BY <1>2, <1>5, <1>6, <1>7

\* The same when only the last one or two stores are missing, and the list's ends.
LEMMA CompletedAlong ==
  ASSUME NEW N, NEW l \in ListMemory(N), NEW h \in N, NEW u \in N, u # h,
         NEW s \in Seq(N), s # <<>>, s[Len(s)] = u, Distinct(h, s), NEW both \in BOOLEAN,
         Follows(Completed(l, h, u, both), h, s)
  PROVE  /\ l.next[h] = Head(s)
         /\ ~both => l.prev[h] = u
         /\ \A i \in 0 .. Len(s) - 1 : l.next[NodeAt(h, s, i)] = NodeAt(h, s, i + 1)
<1> DEFINE j == Completed(l, h, u, both)
<1>1. /\ j.next = [l.next EXCEPT ![u] = h] /\ l.next \in [N -> N]
      /\ ~both => j.prev = l.prev
  BY DEF ListMemory, Completed
<1>2. Follows(j, h, s)
  OBVIOUS
<1> HIDE DEF j
<1>3. j.prev[h] = u /\ j.next[h] = Head(s)
  BY <1>2, FollowsEnds
<1>4. ASSUME NEW i \in 0 .. Len(s) - 1
      PROVE  l.next[NodeAt(h, s, i)] = NodeAt(h, s, i + 1)
  <2>1. Len(s) \in Nat /\ Len(s) \in 0 .. Len(s) /\ i \in 0 .. Len(s) /\ i # Len(s)
        /\ Len(s) \in 1 .. Len(s)
    OBVIOUS
  <2>2. u = NodeAt(h, s, Len(s))
    BY <2>1 DEF NodeAt
  <2>3. NodeAt(h, s, i) # u
    BY <2>1, <2>2, DistinctPlaces
  <2>4. NodeAt(h, s, i) \in N
    BY DEF NodeAt
  <2>5. j.next[NodeAt(h, s, i)] = NodeAt(h, s, i + 1)
    BY <1>2, <2>1 DEF Follows
  <2> QED
    BY <1>1, <2>3, <2>4, <2>5
<1> QED
  BY <1>1, <1>3, <1>4

\* A sequence without its last and without its first member.
LEMMA FrontAndTail ==
  ASSUME NEW N, NEW h, NEW o \in Seq(N), o # <<>>, Distinct(h, o)
  PROVE  LET s == Front(o)
             u == o[Len(o)]
         IN  /\ s \in Seq(N) /\ Distinct(h, s) /\ u \in N /\ u # h /\ u \notin ToSet(s)
             /\ o = Append(s, u) /\ Len(s) \in Nat /\ Len(o) = Len(s) + 1
             /\ s = <<>> => Head(o) = u /\ Len(s) = 0
             /\ s # <<>> => /\ Len(s) # 0 /\ Head(s) = Head(o) /\ s[1] = Head(s)
                           /\ Front(Tail(o)) = Tail(s) /\ Tail(o) = Append(Tail(s), u)
<1> DEFINE s == Front(o)
           u == o[Len(o)]
<1>1. /\ s \in Seq(N) /\ o = Append(s, u) /\ u \in N /\ u \notin ToSet(s)
      /\ IsInjective(s) /\ ToSet(s) = ToSet(o) \ {u} /\ Len(s) = Len(o) - 1
  BY FrontProperties DEF Distinct
<1>2. Len(o) \in Nat /\ Len(o) # 0 /\ DOMAIN o = 1 .. Len(o)
  OBVIOUS
<1>3. u # h
  BY <1>2 DEF Distinct, ToSet
<1>4. Len(s) \in Nat /\ Len(o) = Len(s) + 1 /\ (s = <<>> <=> Len(s) = 0)
  BY <1>1, <1>2
<1>5. s = <<>> => Head(o) = u
  BY <1>1
<1>6. ASSUME s # <<>>
      PROVE  /\ Head(s) = Head(o) /\ s[1] = Head(s)
             /\ Front(Tail(o)) = Tail(s) /\ Tail(o) = Append(Tail(s), u)
  <2>1. Len(o) > 1
    BY <1>4, <1>6
  <2>2. /\ Tail(o) \in Seq(N) /\ Tail(o) # <<>> /\ Tail(o)[Len(Tail(o))] = u
        /\ Front(Tail(o)) = Tail(s) /\ Head(s) = Head(o)
    BY <2>1, TailProperties
  <2>3. Tail(o) = Append(Front(Tail(o)), Tail(o)[Len(Tail(o))])
    BY <2>2, FrontProperties
  <2> QED
    BY <1>1, <1>6, <2>2, <2>3
<1> QED
  BY <1>1, <1>3, <1>4, <1>5, <1>6 DEF Distinct

\* A node is taken from the front of a list to which another is being added, between
\* the stores that add it.
LEMMA HalfLinkedFirst ==
  ASSUME NEW N, NEW l \in ListMemory(N), NEW h \in N, NEW o \in Seq(N), o # <<>>,
         Distinct(h, o), NEW u, u = o[Len(o)], HalfLinked(l, h, Front(o), u),
         l.next[h] # u, l.next[h] # l.prev[h]
  PROVE  /\ l.next[h] = Head(o) /\ Len(o) > 1
         /\ HalfLinked(ListDelete(l, Head(o)), h, Front(Tail(o)), u)
<1> DEFINE s == Front(o)
<1>1. HalfLinked(l, h, s, u)
  OBVIOUS
<1>2. /\ s \in Seq(N) /\ Distinct(h, s) /\ u \in N /\ u # h /\ u \notin ToSet(s)
      /\ Len(s) \in Nat /\ Len(o) = Len(s) + 1
      /\ s # <<>> => /\ Len(s) # 0 /\ Head(s) = Head(o) /\ s[1] = Head(s)
                    /\ Front(Tail(o)) = Tail(s)
  BY FrontAndTail
<1> HIDE DEF s
<1>3. /\ l.prev[h] = IF s = <<>> THEN h ELSE s[Len(s)]
      /\ l.next[h] = IF s = <<>> THEN u ELSE Head(s)
  BY <1>1, <1>2, HalfLinkedEnds
<1>4. s # <<>> /\ l.prev[h] = s[Len(s)] /\ l.next[h] = Head(s)
  BY <1>3
<1>5. Len(s) # 1
  BY <1>2, <1>4
<1>6. Len(s) > 1 /\ Len(o) > 1
  BY <1>2, <1>4, <1>5
<1>7. HalfLinked(ListDelete(l, Head(s)), h, Tail(s), u)
  BY <1>1, <1>2, <1>6, HalfLinkedDelete
<1> QED
  BY <1>2, <1>4, <1>6, <1>7

\* The first member of a list with an unfinished addition is the first of the completed list.
LEMMA CompletedFirst ==
  ASSUME NEW N, NEW l \in ListMemory(N), NEW h \in N, NEW o \in Seq(N), o # <<>>,
         Distinct(h, o), NEW u, u = o[Len(o)], NEW both \in BOOLEAN,
         Follows(Completed(l, h, u, both), h, o), l.next[h] # u
  PROVE  /\ l.next[h] = Head(o) /\ Len(o) > 1
         /\ Follows(Completed(ListDelete(l, Head(o)), h, u, both), h, Tail(o))
<1> DEFINE s == Front(o)
<1>1. /\ s \in Seq(N) /\ Distinct(h, s) /\ u \in N /\ u # h /\ u \notin ToSet(s)
      /\ o = Append(s, u) /\ Len(s) \in Nat /\ Len(o) = Len(s) + 1
      /\ s = <<>> => Head(o) = u
      /\ s # <<>> => Len(s) # 0 /\ Head(s) = Head(o) /\ Tail(o) = Append(Tail(s), u)
  BY FrontAndTail
<1> HIDE DEF s
<1>2. l.next[h] = Head(o)
  <2>1. u \in N /\ u # h /\ o[Len(o)] = u
    BY <1>1
  <2> QED
    BY <2>1, CompletedAlong
<1>3. s # <<>>
  BY <1>1, <1>2
<1>4. Len(o) > 1
  BY <1>1, <1>3
<1>5. Follows(Completed(l, h, u, both), h, Append(s, u))
  BY <1>1
<1>6. Follows(Completed(ListDelete(l, Head(s)), h, u, both), h, Append(Tail(s), u))
  BY <1>1, <1>3, <1>5, DeleteCommutes
<1> QED
  BY <1>1, <1>2, <1>3, <1>4, <1>6
-----------------------------------------------------------------------------
\* The stores of list_add_before and list_delete one by one, for a list that is known by
\* its members only: an interrupt may take out any member that they do not lead to.

\* Only the pointers of its members make a list.
LEMMA WellLinkedElsewhere ==
  ASSUME NEW l, NEW k, NEW L, NEW h, WellLinked(l, L, h),
         \A m \in L : k.next[m] = l.next[m] /\ k.prev[m] = l.prev[m]
  PROVE  WellLinked(k, L, h)
<1>1. h \in L /\ Ring(l, L) /\ OneCycle(l, L, h)
  BY DEF WellLinked
<1>2. Ring(k, L)
  BY <1>1 DEF Ring
<1>3. OneCycle(k, L, h)
  <2> SUFFICES ASSUME NEW S \in SUBSET (L \ {h}),
                      (\A n \in S : k.next[n] \in S) \/ (\A n \in S : k.prev[n] \in S)
               PROVE  S = {}
    BY DEF OneCycle
  <2>1. (\A n \in S : l.next[n] \in S) \/ (\A n \in S : l.prev[n] \in S)
    OBVIOUS
  <2> QED
    BY <1>1, <2>1 DEF OneCycle
<1> QED
  BY <1>1, <1>2, <1>3 DEF WellLinked

\* Whoever holds the head, and the next of each of its members that does not lead back to
\* the head, holds the whole list.
LEMMA WalkMeetsAll ==
  ASSUME NEW l, NEW L, NEW h, WellLinked(l, L, h), NEW S, h \in S,
         \A n \in S : l.next[n] # h => l.next[n] \in S
  PROVE  L \subseteq S
<1> DEFINE T == L \ S
<1>1. T \in SUBSET (L \ {h}) /\ Ring(l, L) /\ OneCycle(l, L, h)
  BY DEF WellLinked
<1>2. ASSUME NEW n \in T PROVE l.prev[n] \in T
  <2>1. n \in L /\ n \notin S /\ n # h
    BY <1>2
  <2>2. l.prev[n] \in L /\ l.next[l.prev[n]] = n
    BY <1>1, <2>1 DEF Ring
  <2>3. l.prev[n] \notin S
    BY <2>1, <2>2
  <2> QED
    BY <2>2, <2>3
<1>3. T = {}
  BY <1>1, <1>2 DEF OneCycle
<1> QED
  BY <1>3

\* A member that is not the head does not lead to itself.
LEMMA NotToItself ==
  ASSUME NEW l, NEW L, NEW h, WellLinked(l, L, h), NEW n \in L \ {h}
  PROVE  l.next[n] # n /\ l.prev[n] # n
<1>1. {n} \in SUBSET (L \ {h}) /\ OneCycle(l, L, h)
  BY DEF WellLinked
<1> QED
  BY <1>1 DEF OneCycle

\* After the first store of list_add_before: taken back, it leaves the old list.
HalfAdded(l, h, L, u) ==
  /\ WellLinked([l EXCEPT !.next[l.prev[h]] = h], L, h)
  /\ l.next[l.prev[h]] = u

\* After the first store of list_delete.
HalfDeleted(l, h, L, u) ==
  /\ WellLinked([l EXCEPT !.prev[l.next[u]] = u], L, h)
  /\ l.prev[l.next[u]] = l.prev[u]

\* First store of list_add_before.
LEMMA AddedFirst ==
  ASSUME NEW N, NEW l \in ListMemory(N), NEW L \in SUBSET N, NEW h, WellLinked(l, L, h),
         NEW u \in N
  PROVE  HalfAdded([l EXCEPT !.next[l.prev[h]] = u], h, L, u)
<1> DEFINE p == l.prev[h]
           k == [l EXCEPT !.next[p] = u]
           j == [k EXCEPT !.next[k.prev[h]] = h]
<1>1. h \in L /\ p \in L /\ l.next[p] = h
  BY DEF WellLinked, Ring
<1>2. l.next \in [N -> N] /\ k.prev = l.prev /\ k.next = [l.next EXCEPT ![p] = u]
  BY DEF ListMemory
<1>3. j.prev = l.prev /\ j.next = [k.next EXCEPT ![p] = h]
  BY <1>2 DEF ListMemory
<1>4. \A m \in L : j.next[m] = l.next[m] /\ j.prev[m] = l.prev[m]
  BY <1>1, <1>2, <1>3
<1>5. k.next[k.prev[h]] = u
  BY <1>1, <1>2
<1> HIDE DEF j
<1>6. WellLinked(j, L, h)
  BY <1>4, WellLinkedElsewhere
<1> QED
  BY <1>5, <1>6 DEF HalfAdded, j

\* Second store: from here on the list is the new one, but for the stores to come.
LEMMA AddedSecond ==
  ASSUME NEW N, NEW l \in ListMemory(N), NEW L \in SUBSET N, NEW h \in L,
         NEW u \in N \ L, HalfAdded(l, h, L, u)
  PROVE  WellLinked(Completed([l EXCEPT !.prev[u] = l.prev[h]], h, u, TRUE), L \cup {u}, h)
<1> DEFINE p == l.prev[h]
           j == [l EXCEPT !.next[p] = h]
           k == Completed([l EXCEPT !.prev[u] = p], h, u, TRUE)
           a == ListAddBefore(j, h, u)
<1>1. WellLinked(j, L, h) /\ l.next[p] = u /\ p \in N
  BY DEF HalfAdded, ListMemory
<1>2. j \in ListMemory(N) /\ j.prev = l.prev /\ j.next = [l.next EXCEPT ![p] = h]
  BY <1>1 DEF ListMemory
<1>3. k.prev = [l.prev EXCEPT ![u] = p, ![h] = u] /\ k.next = [l.next EXCEPT ![u] = h]
  BY DEF ListMemory, Completed
<1>4. a.prev = [j.prev EXCEPT ![u] = p, ![h] = u] /\ a.next = [j.next EXCEPT ![p] = u, ![u] = h]
  BY <1>2 DEF ListAddBefore
<1>5. l.next \in [N -> N] /\ l.prev \in [N -> N]
  BY DEF ListMemory
<1>6. [j.next EXCEPT ![p] = u] = l.next
  BY <1>1, <1>2, <1>5
<1>7. a.prev = k.prev /\ a.next = k.next
  BY <1>2, <1>3, <1>4, <1>6
<1> HIDE DEF j
<1>8. WellLinked(a, L \cup {u}, h)
  BY <1>1, <1>2, AddBeforeWellLinked
<1> HIDE DEF a, k
<1>9. \A m \in L \cup {u} : k.next[m] = a.next[m] /\ k.prev[m] = a.prev[m]
  BY <1>7
<1>10. WellLinked(k, L \cup {u}, h)
  BY <1>8, <1>9, WellLinkedElsewhere
<1> QED
  BY <1>10 DEF k

\* Third store.
LEMMA AddedThird ==
  ASSUME NEW N, NEW l \in ListMemory(N), NEW L, NEW h \in N, NEW u \in N,
         WellLinked(Completed(l, h, u, TRUE), L, h)
  PROVE  WellLinked(Completed([l EXCEPT !.prev[h] = u], h, u, FALSE), L, h)
<1> DEFINE j == Completed(l, h, u, TRUE)
           k == Completed([l EXCEPT !.prev[h] = u], h, u, FALSE)
<1>1. k.next = j.next /\ k.prev = j.prev
  BY DEF Completed, ListMemory
<1> HIDE DEF j, k
<1>2. WellLinked(k, L, h)
  BY <1>1, WellLinkedElsewhere DEF j
<1> QED
  BY <1>2 DEF k

\* First store of list_delete.
LEMMA DeletedFirst ==
  ASSUME NEW N, NEW l \in ListMemory(N), NEW L \in SUBSET N, NEW h, WellLinked(l, L, h),
         NEW u \in L \ {h}
  PROVE  HalfDeleted([l EXCEPT !.prev[l.next[u]] = l.prev[u]], h, L, u)
<1> DEFINE y == l.next[u]
           p == l.prev[u]
           k == [l EXCEPT !.prev[y] = p]
           j == [k EXCEPT !.prev[k.next[u]] = u]
<1>1. y \in L /\ p \in L /\ l.prev[y] = u /\ y # u
  BY NotToItself DEF WellLinked, Ring
<1>2. l.prev \in [N -> N] /\ k.next = l.next /\ k.prev = [l.prev EXCEPT ![y] = p]
  BY DEF ListMemory
<1>3. j.next = l.next /\ j.prev = [k.prev EXCEPT ![y] = u]
  BY <1>2 DEF ListMemory
<1>4. \A m \in L : j.next[m] = l.next[m] /\ j.prev[m] = l.prev[m]
  BY <1>1, <1>2, <1>3
<1>5. k.prev[k.next[u]] = k.prev[u]
  BY <1>1, <1>2
<1> HIDE DEF j
<1>6. WellLinked(j, L, h)
  BY <1>4, WellLinkedElsewhere
<1> QED
  BY <1>5, <1>6 DEF HalfDeleted, j

\* Second store: the list without the node.
LEMMA DeletedSecond ==
  ASSUME NEW N, NEW l \in ListMemory(N), NEW L \in SUBSET N, NEW h, NEW u \in L \ {h},
         HalfDeleted(l, h, L, u)
  PROVE  WellLinked([l EXCEPT !.next[l.prev[u]] = l.next[u]], L \ {u}, h)
<1> DEFINE y == l.next[u]
           p == l.prev[u]
           j == [l EXCEPT !.prev[y] = u]
           k == [l EXCEPT !.next[p] = y]
           d == ListDelete(j, u)
<1>1. WellLinked(j, L, h) /\ l.prev[y] = p /\ y \in N /\ p \in N
  BY DEF HalfDeleted, ListMemory
<1>2. l.next \in [N -> N] /\ l.prev \in [N -> N]
  BY DEF ListMemory
<1>3. j \in ListMemory(N) /\ j.next = l.next /\ j.prev = [l.prev EXCEPT ![y] = u]
  BY <1>1 DEF ListMemory
<1>4. y # u
  <2> HIDE DEF j, y
  <2>1. j.next[u] # u
    BY <1>1, NotToItself
  <2> QED
    BY <1>3, <2>1 DEF y
<1>5. j.prev[u] = p /\ j.next[u] = y
  BY <1>2, <1>3, <1>4
<1>6. d.next = [l.next EXCEPT ![p] = y] /\ d.prev = [j.prev EXCEPT ![y] = p]
  BY <1>3, <1>5 DEF ListDelete
<1>7. k.next = [l.next EXCEPT ![p] = y] /\ k.prev = l.prev
  BY DEF ListMemory
<1>8. d.prev = l.prev
  BY <1>1, <1>2, <1>3, <1>6
<1> HIDE DEF j
<1>9. WellLinked(d, L \ {u}, h)
  BY <1>1, <1>3, DeleteWellLinked
<1> HIDE DEF d, k
<1>10. \A m \in L \ {u} : k.next[m] = d.next[m] /\ k.prev[m] = d.prev[m]
  BY <1>6, <1>7, <1>8
<1>11. WellLinked(k, L \ {u}, h)
  BY <1>9, <1>10, WellLinkedElsewhere
<1> QED
  BY <1>11 DEF k

\* Between the first and the second store of list_add_before an interrupt may take out any
\* member but the last.
LEMMA HalfAddedDelete ==
  ASSUME NEW N, NEW l \in ListMemory(N), NEW L \in SUBSET N, NEW h \in L, NEW u \in N \ L,
         HalfAdded(l, h, L, u), NEW x \in L \ {h}, x # l.prev[h]
  PROVE  /\ HalfAdded(ListDelete(l, x), h, L \ {x}, u)
         /\ ListDelete(l, x).prev[h] = l.prev[h]
<1> DEFINE p == l.prev[h]
           j == [l EXCEPT !.next[p] = h]
           d == ListDelete(l, x)
           k == [d EXCEPT !.next[d.prev[h]] = h]
           e == ListDelete(j, x)
<1>1. WellLinked(j, L, h) /\ l.next[p] = u /\ p \in N
  BY DEF HalfAdded, ListMemory
<1>2. l.next \in [N -> N] /\ l.prev \in [N -> N]
  BY DEF ListMemory
<1>3. j \in ListMemory(N) /\ j.prev = l.prev /\ j.next = [l.next EXCEPT ![p] = h]
  BY <1>1 DEF ListMemory
<1>4. /\ j.next[x] \in L /\ j.prev[x] \in L /\ j.prev[j.next[x]] = x /\ j.next[j.prev[x]] = x
      /\ j.next[p] = h
  <2>1. x \in L /\ Ring(j, L)
    BY <1>1 DEF WellLinked
  <2>2. j.next[p] = h
    BY <1>1, <1>2, <1>3
  <2> HIDE DEF j
  <2> QED
    BY <2>1, <2>2 DEF Ring
<1>5. PICK y \in L, q \in L : y = l.next[x] /\ q = l.prev[x] /\ j.next[x] = y /\ j.prev[x] = q
  BY <1>2, <1>3, <1>4
<1>6. y # h /\ q # p
  <2>1. l.prev[y] = x /\ j.next[q] = x
    BY <1>3, <1>4, <1>5
  <2> QED
    BY <1>4, <2>1
<1>7. d.next = [l.next EXCEPT ![q] = y] /\ d.prev = [l.prev EXCEPT ![y] = q] /\ d \in ListMemory(N)
  BY <1>5, DeleteFields DEF ListDelete
<1>8. d.prev[h] = p /\ d.next[p] = u
  BY <1>1, <1>2, <1>6, <1>7
<1>9. k.next = [d.next EXCEPT ![p] = h] /\ k.prev = d.prev
  BY <1>7, <1>8 DEF ListMemory
<1>10. e.next = [j.next EXCEPT ![q] = y] /\ e.prev = [j.prev EXCEPT ![y] = q]
  BY <1>5 DEF ListDelete
<1> HIDE DEF j, p
<1>11. WellLinked(e, L \ {x}, h)
  BY <1>1, <1>3, DeleteWellLinked
<1>12. k.next = e.next
  BY <1>1, <1>2, <1>3, <1>6, <1>7, <1>9, <1>10
<1>13. k.prev = e.prev
  BY <1>3, <1>7, <1>9, <1>10
<1> HIDE DEF e, k, d
<1>14. WellLinked(k, L \ {x}, h)
  BY <1>11, <1>12, <1>13, WellLinkedElsewhere
<1> QED
  BY <1>8, <1>14 DEF HalfAdded, k, d, p

\* Between the later stores it may take out any member.
LEMMA CompletedDelete ==
  ASSUME NEW N, NEW l \in ListMemory(N), NEW L \in SUBSET N, NEW h \in L, NEW u \in N \ L,
         NEW both \in BOOLEAN, WellLinked(Completed(l, h, u, both), L \cup {u}, h),
         NEW x \in L \ {h}
  PROVE  WellLinked(Completed(ListDelete(l, x), h, u, both), (L \ {x}) \cup {u}, h)
<1> DEFINE d == ListDelete(l, x)
           j == Completed(l, h, u, both)
           k == Completed(d, h, u, both)
           e == ListDelete(j, x)
<1>1. l.next \in [N -> N] /\ l.prev \in [N -> N] /\ x # u /\ h # u /\ x \in N /\ h \in N
  BY DEF ListMemory
<1>2. /\ j.next = [l.next EXCEPT ![u] = h]
      /\ j.prev = IF both THEN [l.prev EXCEPT ![h] = u] ELSE l.prev
      /\ j \in ListMemory(N)
  BY <1>1 DEF ListMemory, Completed
<1>3. /\ j.next[x] \in L \cup {u} /\ j.prev[x] \in L \cup {u}
      /\ j.prev[j.next[x]] = x /\ j.next[j.prev[x]] = x /\ j.next[u] = h
  <2>1. x \in L \cup {u} /\ Ring(j, L \cup {u})
    BY DEF WellLinked
  <2>2. j.next[u] = h
    BY <1>1, <1>2
  <2> HIDE DEF j
  <2> QED
    BY <2>1, <2>2 DEF Ring
<1>4. PICK y \in N, q \in N : y = l.next[x] /\ q = l.prev[x] /\ j.next[x] = y /\ j.prev[x] = q
  BY <1>1, <1>2
<1>5. q # u /\ (both => y # h)
  <2>1. j.next[q] = x /\ j.prev[y] = x
    BY <1>3, <1>4
  <2>2. both => j.prev[h] = u
    BY <1>1, <1>2
  <2> QED
    BY <1>1, <1>3, <2>1, <2>2
<1>6. d.next = [l.next EXCEPT ![q] = y] /\ d.prev = [l.prev EXCEPT ![y] = q] /\ d \in ListMemory(N)
  BY <1>1, <1>4, DeleteFields DEF ListDelete
<1>7. /\ k.next = [d.next EXCEPT ![u] = h]
      /\ k.prev = IF both THEN [d.prev EXCEPT ![h] = u] ELSE d.prev
  BY <1>6 DEF ListMemory, Completed
<1>8. e.next = [j.next EXCEPT ![q] = y] /\ e.prev = [j.prev EXCEPT ![y] = q]
  BY <1>4 DEF ListDelete
<1>9. k.next = e.next
  BY <1>1, <1>2, <1>5, <1>6, <1>7, <1>8
<1>10. k.prev = e.prev
  BY <1>1, <1>2, <1>5, <1>6, <1>7, <1>8
<1> HIDE DEF j
<1>11. WellLinked(e, (L \cup {u}) \ {x}, h)
  BY <1>1, <1>2, DeleteWellLinked DEF j
<1> HIDE DEF e, k
<1>12. (L \cup {u}) \ {x} = (L \ {x}) \cup {u}
  BY <1>1
<1>13. WellLinked(k, (L \ {x}) \cup {u}, h)
  BY <1>9, <1>10, <1>11, <1>12, WellLinkedElsewhere
<1> QED
  BY <1>13 DEF k, d

\* Between the stores of list_delete it may take out any member but those beside the node.
LEMMA HalfDeletedDelete ==
  ASSUME NEW N, NEW l \in ListMemory(N), NEW L \in SUBSET N, NEW h \in L, NEW u \in L \ {h},
         HalfDeleted(l, h, L, u), NEW x \in L \ {h}, x \notin {u, l.next[u], l.prev[u]}
  PROVE  /\ HalfDeleted(ListDelete(l, x), h, L \ {x}, u)
         /\ ListDelete(l, x).next[u] = l.next[u] /\ ListDelete(l, x).prev[u] = l.prev[u]
<1> DEFINE y == l.next[u]
           p == l.prev[u]
           j == [l EXCEPT !.prev[y] = u]
           d == ListDelete(l, x)
           k == [d EXCEPT !.prev[d.next[u]] = u]
           e == ListDelete(j, x)
<1>1. WellLinked(j, L, h) /\ l.prev[y] = p /\ y \in N /\ p \in N /\ u \in N /\ x \in N
  BY DEF HalfDeleted, ListMemory
<1>2. l.next \in [N -> N] /\ l.prev \in [N -> N] /\ x # u /\ x # y /\ x # p
  BY DEF ListMemory
<1>3. j \in ListMemory(N) /\ j.next = l.next /\ j.prev = [l.prev EXCEPT ![y] = u]
  BY <1>1 DEF ListMemory
<1>4. y # u
  <2> HIDE DEF j, y
  <2>1. j.next[u] # u
    BY <1>1, NotToItself
  <2> QED
    BY <1>3, <2>1 DEF y
<1>5. /\ j.next[x] \in L /\ j.prev[x] \in L /\ j.prev[j.next[x]] = x /\ j.next[j.prev[x]] = x
      /\ j.prev[y] = u /\ j.next[u] = y /\ j.next[p] = u /\ j.prev[u] = p
  <2>1. x \in L /\ u \in L /\ Ring(j, L)
    BY <1>1 DEF WellLinked
  <2>2. j.prev[y] = u /\ j.next[u] = y /\ j.prev[u] = p
    BY <1>1, <1>2, <1>3, <1>4
  <2> HIDE DEF j
  <2> QED
    BY <2>1, <2>2 DEF Ring
<1>6. PICK z \in L, q \in L : z = l.next[x] /\ q = l.prev[x] /\ j.next[x] = z /\ j.prev[x] = q
  BY <1>1, <1>2, <1>3, <1>5
<1>7. z # y /\ z # u /\ q # u
  <2>1. j.prev[z] = x /\ j.next[q] = x
    BY <1>5, <1>6
  <2> QED
    BY <1>2, <1>5, <2>1
<1>8. d.next = [l.next EXCEPT ![q] = z] /\ d.prev = [l.prev EXCEPT ![z] = q] /\ d \in ListMemory(N)
  BY <1>1, <1>6, DeleteFields DEF ListDelete
<1>9. d.next[u] = y /\ d.prev[u] = p /\ d.prev[y] = p
  BY <1>1, <1>2, <1>7, <1>8
<1>10. k.next = d.next /\ k.prev = [d.prev EXCEPT ![y] = u]
  BY <1>8, <1>9 DEF ListMemory
<1>11. e.next = [j.next EXCEPT ![q] = z] /\ e.prev = [j.prev EXCEPT ![z] = q]
  BY <1>6 DEF ListDelete
<1> HIDE DEF j, y, p
<1>12. WellLinked(e, L \ {x}, h)
  BY <1>1, <1>3, DeleteWellLinked
<1>13. k.next = e.next
  BY <1>3, <1>8, <1>10, <1>11
<1>14. k.prev = e.prev
  BY <1>1, <1>2, <1>3, <1>7, <1>8, <1>10, <1>11
<1> HIDE DEF e, k, d
<1>15. WellLinked(k, L \ {x}, h)
  BY <1>12, <1>13, <1>14, WellLinkedElsewhere
<1> QED
  BY <1>9, <1>15 DEF HalfDeleted, k, d, y, p

\* What a delete leaves of the pointers that a call has loaded.
LEMMA DeleteElsewhere ==
  ASSUME NEW N, NEW l \in ListMemory(N), NEW L \in SUBSET N, NEW h, WellLinked(l, L, h),
         NEW x \in L, NEW u \in L
  PROVE  /\ x # l.prev[u] => ListDelete(l, x).prev[u] = l.prev[u]
         /\ x # l.next[u] => ListDelete(l, x).next[u] = l.next[u]
<1>1. u \in N /\ x \in N /\ l.prev[l.next[x]] = x /\ l.next[l.prev[x]] = x
  BY DEF WellLinked, Ring
<1> QED
  BY <1>1, DeleteFields
=============================================================================
