---------------------------- MODULE InputPathProofs ----------------------------
(***************************************************************************)
(* What holds of InputPath for every finite set of pages, any sockets and  *)
(* owners and any capacities: its types, the budget's exactness, the steps *)
(* of InputPromise, the way of an unacked frame, that a second copy of a   *)
(* keystroke has one of the causes `doubted` names, and the order of the   *)
(* pane until the first fault.                                             *)
(***************************************************************************)
EXTENDS InputPath, SequenceTheorems, FiniteSetTheorems, FunctionTheorems, TLAPS

-----------------------------------------------------------------------------
(* Sets of naturals and sequences                                          *)

NatLess == {p \in Nat \X Nat : p[1] < p[2]}

\* A set of naturals has a least element.
LEMMA Least ==
  ASSUME NEW T, T \subseteq Nat, T # {}
  PROVE  \E x \in T : \A y \in T : x <= y
<1>1. IsWellFoundedOn(NatLess, Nat) BY NatLessThanWellFounded DEF OpToRel, NatLess
<1>2. PICK x \in T : \A y \in T : ~ (<<y, x>> \in NatLess) BY <1>1, WFMin
<1>3. x \in Nat /\ \A y \in T : y \in Nat BY <1>2
<1>4. \A y \in T : ~(y < x) BY <1>2, <1>3 DEF NatLess
<1>5. \A y \in T : x <= y BY <1>3, <1>4
<1> QED BY <1>2, <1>5

LEMMA MinIs ==
  ASSUME NEW T, T \subseteq Nat, T # {}
  PROVE  Min(T) \in T /\ \A y \in T : Min(T) <= y
BY Least DEF Min

Sorted(q, S) == \A m, n \in 1..Cardinality(S) : m < n => q[m] < q[n]

\* A finite set of naturals can be listed in order.
LEMMA CanSort ==
  ASSUME NEW S, IsFiniteSet(S), S \subseteq Nat
  PROVE  \E q \in [1..Cardinality(S) -> S] : Sorted(q, S)
<1> DEFINE Bad(X) == ~ \E q \in [1..Cardinality(X) -> X] : Sorted(q, X)
           T == {n \in Nat : \E X \in SUBSET Nat : IsFiniteSet(X) /\ Cardinality(X) = n /\ Bad(X)}
<1>1. SUFFICES ASSUME T # {} PROVE FALSE
  <2>1. Cardinality(S) \in Nat BY FS_CardinalityType
  <2> QED BY <2>1, <1>1
<1>2. PICK n \in T : \A m \in T : n <= m
  <2>1. T \subseteq Nat OBVIOUS
  <2> HIDE DEF T
  <2> QED BY <1>1, <2>1, Least
<1>3. PICK X \in SUBSET Nat : IsFiniteSet(X) /\ Cardinality(X) = n /\ Bad(X) BY <1>2
<1>4. n \in Nat BY <1>2
<1>5. CASE X = {}
  <2>1. Cardinality(X) = 0 BY <1>5, FS_EmptySet
  <2>2. 1..Cardinality(X) = {} BY <2>1
  <2>3. [i \in {} |-> 0] \in [1..Cardinality(X) -> X] BY <1>5, <2>2
  <2>4. Sorted([i \in {} |-> 0], X) BY <2>1 DEF Sorted
  <2> QED BY <1>3, <2>3, <2>4
<1>6. CASE X # {}
  <2>1. PICK a \in X : \A y \in X : a <= y BY <1>6, Least
  <2> DEFINE Y == X \ {a}
  <2>2. IsFiniteSet(Y) /\ Cardinality(Y) = n - 1 /\ n - 1 \in Nat
    <3>1. IsFiniteSet(Y) /\ Cardinality(Y) = n - 1 BY <1>3, <2>1, FS_RemoveElement
    <3> QED BY <3>1, FS_CardinalityType
  <2>3. ~Bad(Y)
    <3>1. n - 1 \notin T BY <1>2, <1>4, <2>2
    <3> QED BY <2>2, <3>1
  <2>4. PICK g \in [1..(n - 1) -> Y] : Sorted(g, Y) BY <2>2, <2>3
  <2> DEFINE f == [i \in 1..n |-> IF i = 1 THEN a ELSE g[i - 1]]
  <2>5. f \in [1..n -> X]
    <3> SUFFICES ASSUME NEW i \in 1..n, i # 1 PROVE g[i - 1] \in X
      BY <2>1
    <3> QED BY <1>4, <2>4
  <2>6. \A k, m \in 1..n : k < m => f[k] < f[m]
    <3> SUFFICES ASSUME NEW k \in 1..n, NEW m \in 1..n, k < m PROVE f[k] < f[m]
      OBVIOUS
    <3>1. m - 1 \in 1..(n - 1) /\ f[m] = g[m - 1] BY <1>4
    <3>2. g[m - 1] \in Y BY <3>1, <2>4
    <3>3. CASE k = 1
      <4>1. a <= g[m - 1] /\ a # g[m - 1] BY <2>1, <3>2
      <4>2. a \in Nat /\ g[m - 1] \in Nat BY <2>1, <3>2
      <4> QED BY <3>1, <3>3, <4>1, <4>2
    <3>4. CASE k # 1
      <4>1. k - 1 \in 1..(n - 1) /\ f[k] = g[k - 1] /\ k - 1 < m - 1 BY <1>4, <3>4
      <4> QED BY <2>2, <2>4, <3>1, <4>1 DEF Sorted
    <3> QED BY <3>3, <3>4
  <2>7. Sorted(f, X) BY <1>3, <2>6 DEF Sorted
  <2> QED BY <1>3, <2>5, <2>7
<1> QED BY <1>5, <1>6

LEMMA InOrderIs ==
  ASSUME NEW S, IsFiniteSet(S), S \subseteq Nat
  PROVE  LET q == InOrder(S) IN
         /\ Cardinality(S) \in Nat
         /\ q \in [1..Cardinality(S) -> S]
         /\ q \in Seq(S) /\ Len(q) = Cardinality(S) /\ DOMAIN q = 1..Cardinality(S)
         /\ \A m, n \in 1..Cardinality(S) : m < n => q[m] < q[n]
         /\ \A x \in S : \E n \in 1..Cardinality(S) : q[n] = x
<1> DEFINE c == Cardinality(S) q == InOrder(S)
<1>1. c \in Nat BY FS_CardinalityType
<1>2. q \in [1..c -> S] /\ \A m, n \in DOMAIN q : m < n => q[m] < q[n]
  <2>1. PICK f \in [1..c -> S] : Sorted(f, S) BY CanSort
  <2>2. \A m, n \in DOMAIN f : m < n => f[m] < f[n] BY <2>1 DEF Sorted
  <2> QED BY <2>1, <2>2 DEF InOrder
<1> HIDE DEF q
<1>3. q \in Seq(S) /\ Len(q) = c /\ DOMAIN q = 1..c BY <1>1, <1>2
<1>4. \A m, n \in 1..c : m < n => q[m] < q[n] BY <1>2
<1>5. \A m, n \in 1..c : q[m] = q[n] => m = n
  <2> SUFFICES ASSUME NEW m \in 1..c, NEW n \in 1..c, q[m] = q[n], m # n PROVE FALSE
    OBVIOUS
  <2>1. q[m] \in Nat /\ q[n] \in Nat BY <1>2
  <2>2. m < n \/ n < m BY <1>1
  <2> QED BY <1>4, <2>1, <2>2
<1>6. q \in Injection(1..c, S) BY <1>2, <1>5, Fun_IsInj
<1>7. IsFiniteSet(1..c) /\ Cardinality(1..c) = c BY <1>1, FS_Interval
<1>8. q \in Surjection(1..c, S) BY <1>6, <1>7, FS_Injection
<1>9. \A x \in S : \E n \in 1..c : q[n] = x BY <1>8 DEF Surjection
<1> QED BY <1>1, <1>2, <1>3, <1>4, <1>9 DEF q

\* What RemoveAt leaves.
LEMMA RemoveAtIs ==
  ASSUME NEW S, NEW q \in Seq(S), NEW j \in 1..Len(q)
  PROVE  LET r == RemoveAt(q, j) IN
         /\ r \in Seq(S) /\ Len(r) = Len(q) - 1 /\ Len(r) \in Nat /\ DOMAIN r = 1..(Len(q) - 1)
         /\ \A n \in 1..(Len(q) - 1) : r[n] = IF n < j THEN q[n] ELSE q[n + 1]
<1> DEFINE a == SubSeq(q, 1, j - 1) b == SubSeq(q, j + 1, Len(q))
<1>1. Len(q) \in Nat BY LenProperties
<1>2. \A n \in 1..Len(q) : q[n] \in S BY ElementOfSeq
<1>3. /\ a \in Seq(S) /\ Len(a) = j - 1
      /\ \A n \in 1..(j - 1) : a[n] = q[n]
  <2>1. \A n \in 1..(j - 1) : q[n] \in S BY <1>1, <1>2
  <2>2. 1 \in Int /\ j - 1 \in Int BY <1>1
  <2>3. /\ a \in Seq(S)
        /\ Len(a) = IF 1 <= j - 1 THEN (j - 1) - 1 + 1 ELSE 0
        /\ \A n \in 1..((j - 1) - 1 + 1) : a[n] = q[1 + n - 1]
    BY <2>1, <2>2, SubSeqProperties
  <2> QED BY <1>1, <2>3
<1>4. /\ b \in Seq(S) /\ Len(b) = Len(q) - j
      /\ \A n \in 1..(Len(q) - j) : b[n] = q[j + n]
  <2>1. \A n \in (j + 1)..Len(q) : q[n] \in S BY <1>1, <1>2
  <2>2. j + 1 \in Int /\ Len(q) \in Int BY <1>1
  <2>3. /\ b \in Seq(S)
        /\ Len(b) = IF j + 1 <= Len(q) THEN Len(q) - (j + 1) + 1 ELSE 0
        /\ \A n \in 1..(Len(q) - (j + 1) + 1) : b[n] = q[(j + 1) + n - 1]
    BY <2>1, <2>2, SubSeqProperties
  <2> QED BY <1>1, <2>3
<1> HIDE DEF a, b
<1>5. /\ a \o b \in Seq(S) /\ Len(a \o b) = Len(q) - 1
      /\ \A n \in 1..(Len(q) - 1) : (a \o b)[n] = IF n <= j - 1 THEN a[n] ELSE b[n - (j - 1)]
  <2>1. /\ a \o b \in Seq(S) /\ Len(a \o b) = Len(a) + Len(b)
        /\ \A n \in 1..(Len(a) + Len(b)) : (a \o b)[n] = IF n <= Len(a) THEN a[n] ELSE b[n - Len(a)]
    BY <1>3, <1>4, ConcatProperties
  <2> QED BY <1>1, <1>3, <1>4, <2>1
<1>6. \A n \in 1..(Len(q) - 1) : (a \o b)[n] = IF n < j THEN q[n] ELSE q[n + 1]
  <2> SUFFICES ASSUME NEW n \in 1..(Len(q) - 1)
               PROVE  (a \o b)[n] = IF n < j THEN q[n] ELSE q[n + 1]
    OBVIOUS
  <2>1. CASE n < j BY <1>1, <1>3, <1>5, <2>1
  <2>2. CASE ~(n < j)
    <3>1. n - (j - 1) \in 1..(Len(q) - j) BY <1>1, <2>2
    <3>2. j + (n - (j - 1)) = n + 1 BY <1>1
    <3>3. b[n - (j - 1)] = q[n + 1] BY <1>4, <3>1, <3>2
    <3> QED BY <1>1, <1>5, <2>2, <3>3
  <2> QED BY <2>1, <2>2
<1>7. RemoveAt(q, j) = a \o b BY DEF RemoveAt, a, b
<1>8. DOMAIN (a \o b) = 1..(Len(q) - 1) BY <1>5, LenProperties
<1>9. Len(q) - 1 \in Nat BY <1>1
<1> QED BY <1>5, <1>6, <1>7, <1>8, <1>9

\* The elements of a sequence, of an extended one and of what is left of one.
LEMMA ToSetIs ==
  ASSUME NEW S, NEW q \in Seq(S)
  PROVE  /\ ToSet(q) \subseteq S
         /\ \A e : e \in ToSet(q) <=> \E n \in 1..Len(q) : q[n] = e
         /\ DOMAIN q = 1..Len(q) /\ Len(q) \in Nat
BY LenProperties, ElementOfSeq DEF ToSet

LEMMA ToSetConcat ==
  ASSUME NEW S, NEW q \in Seq(S), NEW r \in Seq(S)
  PROVE  /\ q \o r \in Seq(S)
         /\ ToSet(q \o r) = ToSet(q) \cup ToSet(r)
<1> DEFINE t == q \o r
<1>1. /\ t \in Seq(S) /\ Len(t) = Len(q) + Len(r)
      /\ \A n \in 1..(Len(q) + Len(r)) : t[n] = IF n <= Len(q) THEN q[n] ELSE r[n - Len(q)]
  BY ConcatProperties
<1> HIDE DEF t
<1>2. Len(q) \in Nat /\ Len(r) \in Nat BY LenProperties
<1>3. /\ \A e : e \in ToSet(t) <=> \E n \in 1..Len(t) : t[n] = e
      /\ \A e : e \in ToSet(q) <=> \E n \in 1..Len(q) : q[n] = e
      /\ \A e : e \in ToSet(r) <=> \E n \in 1..Len(r) : r[n] = e
  BY <1>1, ToSetIs
<1>4. \A n \in 1..Len(q) : t[n] = q[n] /\ n \in 1..Len(t) BY <1>1, <1>2
<1>5. \A n \in 1..Len(r) : t[n + Len(q)] = r[n] /\ n + Len(q) \in 1..Len(t)
  <2> SUFFICES ASSUME NEW n \in 1..Len(r)
               PROVE  t[n + Len(q)] = r[n] /\ n + Len(q) \in 1..Len(t)
    OBVIOUS
  <2>1. n + Len(q) \in 1..(Len(q) + Len(r)) /\ ~(n + Len(q) <= Len(q)) /\ (n + Len(q)) - Len(q) = n
    BY <1>2
  <2> QED BY <1>1, <2>1
<1>6. ASSUME NEW n \in 1..Len(t)
      PROVE  t[n] \in ToSet(q) \cup ToSet(r)
  <2>1. CASE n <= Len(q) BY <1>1, <1>2, <1>3, <2>1
  <2>2. CASE ~(n <= Len(q))
    <3>1. n - Len(q) \in 1..Len(r) BY <1>1, <1>2, <2>2
    <3>2. r[n - Len(q)] \in ToSet(r) BY <1>3, <3>1
    <3> QED BY <1>1, <2>2, <3>2
  <2> QED BY <2>1, <2>2
<1>7. ToSet(q) \subseteq ToSet(t) BY <1>3, <1>4
<1>8. ToSet(r) \subseteq ToSet(t) BY <1>3, <1>5
<1>9. ToSet(t) \subseteq ToSet(q) \cup ToSet(r) BY <1>3, <1>6
<1> QED BY <1>1, <1>7, <1>8, <1>9 DEF t

LEMMA ToSetAppend ==
  ASSUME NEW S, NEW q \in Seq(S), NEW e \in S
  PROVE  /\ Append(q, e) \in Seq(S) /\ Len(Append(q, e)) = Len(q) + 1
         /\ ToSet(Append(q, e)) = ToSet(q) \cup {e}
         /\ \A n \in 1..Len(q) : Append(q, e)[n] = q[n]
         /\ Append(q, e)[Len(q) + 1] = e
<1> DEFINE t == Append(q, e)
<1>1. /\ t \in Seq(S) /\ Len(t) = Len(q) + 1
      /\ \A n \in 1..Len(q) : t[n] = q[n]
      /\ t[Len(q) + 1] = e
  BY AppendProperties
<1> HIDE DEF t
<1>2. Len(q) \in Nat BY LenProperties
<1>3. \A n \in 1..(Len(q) + 1) : n \in 1..Len(q) \/ n = Len(q) + 1 BY <1>2
<1>4. \A n \in 1..Len(q) : n \in 1..(Len(q) + 1) BY <1>2
<1>5. Len(q) + 1 \in 1..(Len(q) + 1) BY <1>2
<1>6. \A x : x \in ToSet(t) <=> \E n \in 1..(Len(q) + 1) : t[n] = x
  BY <1>1, ToSetIs
<1>7. \A x : x \in ToSet(q) <=> \E n \in 1..Len(q) : q[n] = x BY ToSetIs
<1>8. \A x \in ToSet(t) : x \in ToSet(q) \cup {e} BY <1>1, <1>3, <1>6, <1>7
<1>9. \A x \in ToSet(q) : x \in ToSet(t) BY <1>1, <1>4, <1>6, <1>7
<1>10. e \in ToSet(t) BY <1>1, <1>5, <1>6
<1> QED BY <1>1, <1>8, <1>9, <1>10 DEF t

LEMMA ToSetTail ==
  ASSUME NEW S, NEW q \in Seq(S), q # <<>>
  PROVE  /\ Tail(q) \in Seq(S) /\ Len(Tail(q)) = Len(q) - 1 /\ Head(q) \in S /\ Head(q) = q[1]
         /\ \A n \in 1..(Len(q) - 1) : Tail(q)[n] = q[n + 1]
         /\ ToSet(q) = {Head(q)} \cup ToSet(Tail(q))
<1> DEFINE t == Tail(q)
<1>1. /\ t \in Seq(S) /\ Len(t) = Len(q) - 1 /\ Head(q) \in S
      /\ \A n \in 1..(Len(q) - 1) : t[n] = q[n + 1]
  BY HeadTailProperties
<1> HIDE DEF t
<1>2. Len(q) \in Nat /\ Len(q) # 0 BY EmptySeq
<1>3. Head(q) = q[1] OBVIOUS
<1>4. \A n \in 1..Len(q) : n = 1 \/ (n - 1 \in 1..(Len(q) - 1) /\ (n - 1) + 1 = n) BY <1>2
<1>5. 1 \in 1..Len(q) /\ \A n \in 1..(Len(q) - 1) : n + 1 \in 1..Len(q) BY <1>2
<1>6. \A x : x \in ToSet(q) <=> \E n \in 1..Len(q) : q[n] = x BY ToSetIs
<1>7. \A x : x \in ToSet(t) <=> \E n \in 1..(Len(q) - 1) : t[n] = x BY <1>1, ToSetIs
<1>8. \A x \in ToSet(q) : x = Head(q) \/ x \in ToSet(t)
  <2> SUFFICES ASSUME NEW n \in 1..Len(q), n # 1 PROVE q[n] \in ToSet(t)
    BY <1>3, <1>6
  <2>1. n - 1 \in 1..(Len(q) - 1) /\ (n - 1) + 1 = n BY <1>4
  <2>2. t[n - 1] = q[n] BY <1>1, <2>1
  <2> QED BY <1>7, <2>1, <2>2
<1>9. \A x \in ToSet(t) : x \in ToSet(q) BY <1>1, <1>5, <1>6, <1>7
<1>10. Head(q) \in ToSet(q) BY <1>3, <1>5, <1>6
<1> QED BY <1>1, <1>3, <1>8, <1>9, <1>10 DEF t

\* Some prefix of a hold's queue is skipped: the entries of refused sockets.
LEMMA ServableIs ==
  ASSUME NEW q \in Seq(Entry)
  PROVE  \E d \in 0..Len(q) :
            /\ Servable(q) \in Seq(Entry) /\ Len(Servable(q)) = Len(q) - d /\ Purged(q) = d
            /\ \A n \in 1..(Len(q) - d) : Servable(q)[n] = q[n + d]
            /\ \A n \in 1..d : status[q[n].sock] # "open"
            /\ d < Len(q) => status[q[d + 1].sock] = "open"
            /\ Servable(q) = <<>> <=> d = Len(q)
<1> DEFINE ok == {i \in DOMAIN q : status[q[i].sock] = "open"} t == Servable(q)
<1>1. Len(q) \in Nat /\ DOMAIN q = 1..Len(q) BY LenProperties
<1>2. \A n \in 1..Len(q) : q[n] \in Entry BY ElementOfSeq
<1>3. CASE ok = {}
  <2>1. t = <<>> BY <1>3 DEF Servable
  <2>2. t \in Seq(Entry) /\ Len(t) = 0 BY <2>1, EmptySeq
  <2>3. \A n \in 1..Len(q) : status[q[n].sock] # "open" BY <1>1, <1>3
  <2>4. Purged(q) = Len(q) BY <1>1, <2>2 DEF Purged
  <2>5. Len(q) \in 0..Len(q) /\ Len(q) - Len(q) = 0 /\ 1..(Len(q) - Len(q)) = {} BY <1>1
  <2> HIDE DEF t
  <2> WITNESS Len(q) \in 0..Len(q)
  <2> QED BY <1>1, <2>1, <2>2, <2>3, <2>4, <2>5 DEF t
<1>4. CASE ok # {}
  <2> DEFINE m == Min(ok)
  <2>1. m \in ok /\ \A y \in ok : m <= y
    <3>1. ok \subseteq Nat BY <1>1
    <3> QED BY <1>4, <3>1, MinIs
  <2>2. t = SubSeq(q, m, Len(q)) BY <1>4 DEF Servable
  <2> HIDE DEF m, t
  <2>3. m \in 1..Len(q) BY <1>1, <2>1
  <2>4. /\ t \in Seq(Entry)
        /\ Len(t) = IF m <= Len(q) THEN Len(q) - m + 1 ELSE 0
        /\ \A n \in 1..(Len(q) - m + 1) : t[n] = q[m + n - 1]
    <3>1. \A n \in m..Len(q) : q[n] \in Entry BY <1>1, <1>2, <2>3
    <3>2. m \in Int /\ Len(q) \in Int BY <1>1, <2>3
    <3> QED BY <2>2, <3>1, <3>2, SubSeqProperties
  <2> DEFINE d == m - 1
  <2>5. d \in 0..Len(q) /\ d < Len(q) /\ d + 1 = m BY <1>1, <2>3
  <2>6. Len(t) = Len(q) - d BY <1>1, <2>3, <2>4
  <2>7. \A n \in 1..(Len(q) - d) : t[n] = q[n + d]
    <3> SUFFICES ASSUME NEW n \in 1..(Len(q) - d) PROVE t[n] = q[n + d]
      OBVIOUS
    <3>1. n \in 1..(Len(q) - m + 1) /\ m + n - 1 = n + d BY <1>1, <2>3
    <3> QED BY <2>4, <3>1
  <2>8. \A n \in 1..d : status[q[n].sock] # "open"
    <3> SUFFICES ASSUME NEW n \in 1..d, status[q[n].sock] = "open" PROVE FALSE
      OBVIOUS
    <3>1. n \in ok BY <1>1, <2>5
    <3>2. m <= n BY <2>1, <3>1
    <3> QED BY <2>3, <3>2
  <2>9. Purged(q) = d BY <1>1, <2>5, <2>6 DEF Purged, t
  <2>10. t # <<>> /\ Len(t) # 0 BY <1>1, <2>4, <2>5, <2>6, EmptySeq
  <2>11. status[q[d + 1].sock] = "open" BY <2>1, <2>5
  <2>12. d # Len(q) BY <1>1, <2>5
  <2> HIDE DEF d
  <2> USE <2>5
  <2> WITNESS d \in 0..Len(q)
  <2> QED BY <2>4, <2>6, <2>7, <2>8, <2>9, <2>10, <2>11, <2>12 DEF t
<1> QED BY <1>3, <1>4

\* What the page lets out at once, and what it forgets.
LEMMA OldestIs ==
  ASSUME NEW n \in Nat \ {0}, NEW S, S \subseteq Nat
  PROVE  Oldest(n, S) \subseteq S /\ (S # {} => Oldest(n, S) # {})
<1>1. Oldest(n, S) \subseteq S BY DEF Oldest
<1>2. ASSUME S # {} PROVE Oldest(n, S) # {}
  <2>1. PICK a \in S : \A y \in S : a <= y BY <1>2, Least
  <2>2. {j \in S : j < a} = {}
    <3> SUFFICES ASSUME NEW j \in S, j < a PROVE FALSE
      OBVIOUS
    <3> QED BY <2>1
  <2>3. Cardinality({j \in S : j < a}) = 0 BY <2>2, FS_EmptySet
  <2>4. a \in Oldest(n, S) BY <2>1, <2>3 DEF Oldest
  <2> QED BY <2>4
<1> QED BY <1>1, <1>2

LEMMA FlushIs ==
  ASSUME NEW u, NEW left
  PROVE  Flushable(u, left) \subseteq u \ left
BY DEF Flushable, Oldest

LEMMA IdsAre == Ids \subseteq Nat /\ IsFiniteSet(Ids) /\ MaxId \in Nat
<1>1. MaxId \in Nat BY BoundsAssumption
<1>2. 1 \in Int /\ MaxId \in Int BY <1>1
<1>3. IsFiniteSet(1..MaxId) BY <1>2, FS_Interval
<1> QED BY <1>1, <1>3 DEF Ids

\* A set of ids goes on the wire in order.
LEMMA IdsInOrder ==
  ASSUME NEW S, S \subseteq Ids
  PROVE  InOrder(S) \in Seq(Ids) /\ ToSet(InOrder(S)) = S
<1>1. Ids \subseteq Nat /\ IsFiniteSet(Ids) BY IdsAre
<1>2. IsFiniteSet(S) /\ S \subseteq Nat BY <1>1, FS_Subset
<1> DEFINE q == InOrder(S)
<1>3. /\ q \in Seq(S) /\ Len(q) = Cardinality(S)
      /\ \A x \in S : \E n \in 1..Cardinality(S) : q[n] = x
  BY <1>2, InOrderIs
<1> HIDE DEF q
<1>4. q \in Seq(Ids) BY <1>3, SeqMonotonic
<1>5. ToSet(q) \subseteq S BY <1>3, ToSetIs
<1>6. S \subseteq ToSet(q) BY <1>3, ToSetIs
<1> QED BY <1>4, <1>5, <1>6 DEF q

-----------------------------------------------------------------------------
(* The writes of the drains                                                *)

IsDrain(c, s) == c.waiting /\ c.via = "drain" /\ c.sess = s
NoDrain(s, cs) == \A i \in 1..Len(cs) : ~IsDrain(cs[i], s)
OneDrain(s, cs, e) ==
  \E j \in 1..Len(cs) : /\ IsDrain(cs[j], s) /\ cs[j].id = e.id /\ cs[j].sock = e.sock
                        /\ \A i \in 1..Len(cs) : IsDrain(cs[i], s) => i = j

\* A hold that drains is writing its first entry, once; the others write nothing.
DrainOf(s, cs, h) ==
  IF h.draining THEN h.queue # <<>> /\ OneDrain(s, cs, Head(h.queue)) ELSE NoDrain(s, cs)

Drains == \A s \in Sessions : DrainOf(s, calls, hold[s])

\* A write leaves the chain.
LEMMA DrainRemove ==
  ASSUME NEW cs \in Seq(Call), NEW j \in 1..Len(cs), NEW s, NEW e
  PROVE  /\ NoDrain(s, cs) => NoDrain(s, RemoveAt(cs, j))
         /\ ~IsDrain(cs[j], s) /\ OneDrain(s, cs, e) => OneDrain(s, RemoveAt(cs, j), e)
         /\ IsDrain(cs[j], s) /\ OneDrain(s, cs, e) => NoDrain(s, RemoveAt(cs, j))
<1> DEFINE r == RemoveAt(cs, j)
<1>1. /\ Len(r) = Len(cs) - 1
      /\ \A n \in 1..(Len(cs) - 1) : r[n] = IF n < j THEN cs[n] ELSE cs[n + 1]
  BY RemoveAtIs
<1> HIDE DEF r
<1>2. Len(cs) \in Nat BY LenProperties
<1>3. \A n \in 1..Len(r) : n \in 1..Len(cs) /\ n + 1 \in 1..Len(cs) BY <1>1, <1>2
<1>4. ASSUME NoDrain(s, cs) PROVE NoDrain(s, r) BY <1>1, <1>3, <1>4 DEF NoDrain
<1>5. ASSUME ~IsDrain(cs[j], s), OneDrain(s, cs, e) PROVE OneDrain(s, r, e)
  <2>1. PICK m \in 1..Len(cs) : /\ IsDrain(cs[m], s) /\ cs[m].id = e.id /\ cs[m].sock = e.sock
                                /\ \A i \in 1..Len(cs) : IsDrain(cs[i], s) => i = m
    BY <1>5 DEF OneDrain
  <2> DEFINE p == IF m < j THEN m ELSE m - 1
  <2>2. m # j BY <1>5, <2>1
  <2>3. p \in 1..Len(r) /\ r[p] = cs[m]
    <3>1. CASE m < j BY <1>1, <1>2, <3>1
    <3>2. CASE ~(m < j)
      <4>1. m - 1 \in 1..(Len(cs) - 1) /\ ~(m - 1 < j) /\ (m - 1) + 1 = m BY <1>2, <2>2, <3>2
      <4> QED BY <1>1, <3>2, <4>1
    <3> QED BY <3>1, <3>2
  <2>4. ASSUME NEW i \in 1..Len(r), IsDrain(r[i], s) PROVE i = p
    <3>1. CASE i < j BY <1>1, <1>2, <1>3, <2>1, <2>4, <3>1
    <3>2. CASE ~(i < j)
      <4>1. i + 1 = m BY <1>1, <1>3, <2>1, <2>4, <3>2
      <4> QED BY <1>2, <3>2, <4>1
    <3> QED BY <3>1, <3>2
  <2> QED BY <2>1, <2>3, <2>4 DEF OneDrain
<1>6. ASSUME IsDrain(cs[j], s), OneDrain(s, cs, e) PROVE NoDrain(s, r)
  <2>1. \A i \in 1..Len(cs) : IsDrain(cs[i], s) => i = j BY <1>6 DEF OneDrain
  <2>2. ASSUME NEW n \in 1..Len(r) PROVE ~IsDrain(r[n], s)
    <3>1. CASE n < j BY <1>1, <1>3, <2>1, <3>1
    <3>2. CASE ~(n < j)
      <4>1. n + 1 # j BY <1>2, <3>2
      <4> QED BY <1>1, <1>3, <2>1, <3>2, <4>1
    <3> QED BY <3>1, <3>2
  <2> QED BY <2>2 DEF NoDrain
<1> QED BY <1>4, <1>5, <1>6 DEF r

\* A write joins it.
LEMMA DrainAppend ==
  ASSUME NEW cs \in Seq(Call), NEW c \in Call, NEW s, NEW e
  PROVE  /\ ~IsDrain(c, s) /\ NoDrain(s, cs) => NoDrain(s, Append(cs, c))
         /\ ~IsDrain(c, s) /\ OneDrain(s, cs, e) => OneDrain(s, Append(cs, c), e)
         /\ IsDrain(c, s) /\ c.id = e.id /\ c.sock = e.sock /\ NoDrain(s, cs)
              => OneDrain(s, Append(cs, c), e)
<1> DEFINE r == Append(cs, c)
<1>1. /\ Len(r) = Len(cs) + 1
      /\ \A n \in 1..Len(cs) : r[n] = cs[n]
      /\ r[Len(cs) + 1] = c
  BY ToSetAppend
<1> HIDE DEF r
<1>2. Len(cs) \in Nat BY LenProperties
<1>3. /\ \A n \in 1..Len(cs) : n \in 1..Len(r)
      /\ \A n \in 1..Len(r) : n \in 1..Len(cs) \/ n = Len(cs) + 1
      /\ Len(cs) + 1 \in 1..Len(r)
  BY <1>1, <1>2
<1>4. ASSUME ~IsDrain(c, s), NoDrain(s, cs) PROVE NoDrain(s, r)
  BY <1>1, <1>3, <1>4 DEF NoDrain
<1>5. ASSUME ~IsDrain(c, s), OneDrain(s, cs, e) PROVE OneDrain(s, r, e)
  <2>1. PICK m \in 1..Len(cs) : /\ IsDrain(cs[m], s) /\ cs[m].id = e.id /\ cs[m].sock = e.sock
                                /\ \A i \in 1..Len(cs) : IsDrain(cs[i], s) => i = m
    BY <1>5 DEF OneDrain
  <2>2. m \in 1..Len(r) /\ r[m] = cs[m] BY <1>1, <1>3
  <2>3. \A i \in 1..Len(r) : IsDrain(r[i], s) => i = m BY <1>1, <1>3, <1>5, <2>1
  <2> QED BY <2>1, <2>2, <2>3 DEF OneDrain
<1>6. ASSUME IsDrain(c, s), c.id = e.id, c.sock = e.sock, NoDrain(s, cs) PROVE OneDrain(s, r, e)
  <2>1. \A i \in 1..Len(r) : IsDrain(r[i], s) => i = Len(cs) + 1 BY <1>1, <1>3, <1>6 DEF NoDrain
  <2> QED BY <1>1, <1>3, <1>6, <2>1 DEF OneDrain
<1> QED BY <1>4, <1>5, <1>6 DEF r

\* A write of it changes.
LEMMA DrainReplace ==
  ASSUME NEW cs \in Seq(Call), NEW j \in 1..Len(cs), NEW c \in Call, NEW s, NEW e,
         NEW r, Len(r) = Len(cs), \A i \in 1..Len(cs) : r[i] = IF i = j THEN c ELSE cs[i]
  PROVE  /\ (IsDrain(c, s) => IsDrain(cs[j], s)) /\ NoDrain(s, cs) => NoDrain(s, r)
         /\ (IsDrain(c, s) <=> IsDrain(cs[j], s)) /\ c.id = cs[j].id /\ c.sock = cs[j].sock
              /\ OneDrain(s, cs, e) => OneDrain(s, r, e)
         /\ ~IsDrain(c, s) /\ IsDrain(cs[j], s) /\ OneDrain(s, cs, e) => NoDrain(s, r)
<1>1. Len(r) = Len(cs) /\ \A i \in 1..Len(cs) : r[i] = IF i = j THEN c ELSE cs[i] OBVIOUS
<1>2. ASSUME IsDrain(c, s) => IsDrain(cs[j], s), NoDrain(s, cs) PROVE NoDrain(s, r)
  BY <1>1, <1>2 DEF NoDrain
<1>3. ASSUME IsDrain(c, s) <=> IsDrain(cs[j], s), c.id = cs[j].id, c.sock = cs[j].sock,
             OneDrain(s, cs, e)
      PROVE  OneDrain(s, r, e)
  <2>1. PICK m \in 1..Len(cs) : /\ IsDrain(cs[m], s) /\ cs[m].id = e.id /\ cs[m].sock = e.sock
                                /\ \A i \in 1..Len(cs) : IsDrain(cs[i], s) => i = m
    BY <1>3 DEF OneDrain
  <2>2. IsDrain(r[m], s) /\ r[m].id = e.id /\ r[m].sock = e.sock BY <1>1, <1>3, <2>1
  <2>3. \A i \in 1..Len(r) : IsDrain(r[i], s) => i = m BY <1>1, <1>3, <2>1
  <2> QED BY <1>1, <2>2, <2>3 DEF OneDrain
<1>4. ASSUME ~IsDrain(c, s), IsDrain(cs[j], s), OneDrain(s, cs, e) PROVE NoDrain(s, r)
  BY <1>1, <1>4 DEF OneDrain, NoDrain
<1> QED BY <1>2, <1>3, <1>4

-----------------------------------------------------------------------------
(* Types                                                                   *)

PageT ==
  /\ quota \in Quotas
  /\ typed \in [Sessions -> 0..MaxId]
  /\ pending \in [Sessions -> SUBSET Ids]
  /\ sent \in [Sessions -> SUBSET Ids]
  /\ sock \in [Sessions -> Sockets \cup {None}]
  /\ \A s \in Sessions : Cardinality(pending[s]) <= MaxPending

WireT ==
  /\ status \in [Sockets -> {"unused", "open", "refused", "closed"}]
  /\ inbox \in [Sockets -> Seq(Ids)]

Hold == [queue : Seq(Entry), draining : BOOLEAN]

PlaneT ==
  /\ hold \in [Sessions -> Hold]
  /\ window \in [Sessions -> Seq(Ids)]
  /\ \A s \in Sessions : Len(window[s]) <= Window
  /\ used \in Int

NodeT ==
  /\ up \in BOOLEAN
  /\ calls \in Seq(Call)
  /\ pane \in [Sessions -> Seq(Ids)]

HistoryT ==
  /\ faults \in Nat
  /\ moved \subseteq Sessions
  /\ dropped \in [Sessions -> SUBSET Ids]
  /\ doubted \in [Sessions -> SUBSET Ids]
  /\ stranded \in [Sessions -> SUBSET Ids]

\* All of TypeOK but that the count of charges is not negative, which is a
\* matter of the budget.
Types == PageT /\ WireT /\ PlaneT /\ NodeT /\ HistoryT

LEMMA Parts == TypeOK <=> Types /\ used \in Nat
BY DEF TypeOK, Types, PageT, WireT, PlaneT, NodeT, HistoryT, Hold

\* What Next does, action by action.
LEMMA NextCases ==
  ASSUME [Next]_vars
  PROVE  \/ \E s \in Sessions : Type(s) \/ WindowFires(s) \/ PageLosesSocket(s)
         \/ \E s \in Sessions, k \in Sockets : Attach(s, k)
         \/ \E k \in Sockets : IgnoreFrame(k) \/ AckAgain(k) \/ JoinHold(k) \/ WriteFrame(k)
                                 \/ WriteReclaiming(k) \/ RefuseFrame(k) \/ PlaneSeesClose(k)
         \/ NodeWrites \/ LinkDrops \/ ChainIsLost \/ NodeReady
         \/ \E j \in DOMAIN calls : Resolved(j) \/ Rejected(j)
         \/ UNCHANGED vars
BY DEF Next, Page, Handler, Node, Answer

LEMMA DispatchIs ==
  ASSUME NEW s \in Sessions, NEW e \in Entry, NEW via \in {"fresh", "drain", "dropped"}
  PROVE  /\ Dispatch(s, e, via) \in Call
         /\ LET c == Dispatch(s, e, via) IN
              c.sess = s /\ c.id = e.id /\ c.sock = e.sock /\ c.via = via /\ c.waiting /\ ~c.written
BY DEF Dispatch, Call, Entry

\* A frame on the desk of the handler.
LEMMA FrameIs ==
  ASSUME Types, NEW k \in Sockets, inbox[k] # <<>>
  PROVE  /\ Frame(k) \in Entry /\ Frame(k).sock = k /\ Frame(k).id = Head(inbox[k])
         /\ Owner[k] \in Sessions
         /\ inbox[k] \in Seq(Ids) /\ Tail(inbox[k]) \in Seq(Ids)
         /\ ToSet(inbox[k]) = {Frame(k).id} \cup ToSet(Tail(inbox[k]))
         /\ [inbox EXCEPT ![k] = Tail(@)] \in [Sockets -> Seq(Ids)]
<1>1. inbox \in [Sockets -> Seq(Ids)] BY DEF Types, WireT
<1>2. inbox[k] \in Seq(Ids) BY <1>1
<1>3. Tail(inbox[k]) \in Seq(Ids) /\ Head(inbox[k]) \in Ids
      /\ ToSet(inbox[k]) = {Head(inbox[k])} \cup ToSet(Tail(inbox[k]))
  BY <1>2, ToSetTail
<1>4. Frame(k) \in Entry /\ Frame(k).sock = k /\ Frame(k).id = Head(inbox[k])
  BY <1>3 DEF Frame, Entry
<1> QED BY <1>1, <1>2, <1>3, <1>4, OwnerAssumption

\* The drain of s moves on to q, while no write of it is under way.
LEMMA Refire ==
  ASSUME NEW s \in Sessions, NEW q \in Seq(Entry), NEW cs \in Seq(Call),
         NoDrain(s, cs)
  PROVE  /\ Draining(s, q) \in Hold
         /\ cs \o Refires(s, q) \in Seq(Call)
         /\ DrainOf(s, cs \o Refires(s, q), Draining(s, q))
         /\ \A x, e : x # s => /\ NoDrain(x, cs) => NoDrain(x, cs \o Refires(s, q))
                               /\ OneDrain(x, cs, e) => OneDrain(x, cs \o Refires(s, q), e)
<1> DEFINE t == Servable(q)
<1>1. t \in Seq(Entry) BY ServableIs
<1>2. Draining(s, q) = [queue |-> t, draining |-> t # <<>>] BY DEF Draining
<1>3. Draining(s, q) \in Hold BY <1>1, <1>2 DEF Hold
<1>4. CASE t = <<>>
  <2>1. Refires(s, q) = <<>> BY <1>4 DEF Refires
  <2>2. cs \o Refires(s, q) = cs BY <2>1, ConcatEmptySeq
  <2>3. (t # <<>>) = FALSE BY <1>4
  <2>4. Draining(s, q) = [queue |-> t, draining |-> FALSE] BY <1>2, <2>3, Zenon
  <2>5. Draining(s, q).draining = FALSE BY <2>4
  <2>6. DrainOf(s, cs, Draining(s, q)) BY <2>5 DEF DrainOf
  <2> QED BY <1>3, <2>2, <2>6
<1>5. CASE t # <<>>
  <2> DEFINE c == Dispatch(s, Head(t), "drain")
  <2>1. Head(t) \in Entry BY <1>1, <1>5, ToSetTail
  <2>2. c \in Call /\ c.sess = s /\ c.id = Head(t).id /\ c.sock = Head(t).sock
        /\ c.via = "drain" /\ c.waiting
    BY <2>1, DispatchIs
  <2>3. Refires(s, q) = <<c>> BY <1>5 DEF Refires
  <2> HIDE DEF c
  <2>4. cs \o Refires(s, q) = Append(cs, c) BY <2>2, <2>3, AppendIsConcat
  <2>5. Append(cs, c) \in Seq(Call) BY <2>2, ToSetAppend
  <2>6. IsDrain(c, s) BY <2>2 DEF IsDrain
  <2>7. OneDrain(s, Append(cs, c), Head(t)) BY <2>2, <2>6, DrainAppend
  <2>8. DrainOf(s, Append(cs, c), Draining(s, q))
    <3>0. (t # <<>>) = TRUE BY <1>5
    <3>1. Draining(s, q) = [queue |-> t, draining |-> TRUE] BY <1>2, <3>0, Zenon
    <3>2. Draining(s, q).draining = TRUE /\ Draining(s, q).queue = t BY <3>1
    <3> QED BY <1>5, <2>7, <3>2 DEF DrainOf
  <2>9. \A x : x # s => ~IsDrain(c, x) BY <2>2 DEF IsDrain
  <2>10. \A x, e : x # s => /\ NoDrain(x, cs) => NoDrain(x, Append(cs, c))
                            /\ OneDrain(x, cs, e) => OneDrain(x, Append(cs, c), e)
    BY <2>2, <2>9, DrainAppend
  <2> QED BY <1>3, <2>4, <2>5, <2>8, <2>10
<1> QED BY <1>4, <1>5

LEMMA KickIs ==
  ASSUME Types, NEW s \in Sessions, NEW q \in Seq(Entry), NEW cs \in Seq(Call), NEW charge \in Int,
         \A x \in Sessions : DrainOf(x, cs, hold[x]),
         hold[s].draining => q # <<>> /\ Head(q) = Head(hold[s].queue),
         Kick(s, q, cs, charge)
  PROVE  /\ hold' \in [Sessions -> Hold] /\ calls' \in Seq(Call) /\ used' \in Int
         /\ Drains'
<1>1. hold \in [Sessions -> Hold] BY DEF Types, PlaneT
<1>2. CASE hold[s].draining
  <2>1. hold' = [hold EXCEPT ![s].queue = q] /\ calls' = cs /\ used' = charge BY <1>2 DEF Kick
  <2>2. hold' \in [Sessions -> Hold] BY <1>1, <2>1 DEF Hold
  <2>3. hold'[s].draining /\ hold'[s].queue = q BY <1>1, <1>2, <2>1 DEF Hold
  <2>4. DrainOf(s, calls', hold'[s]) BY <1>2, <2>1, <2>3 DEF DrainOf
  <2>5. \A x \in Sessions : x # s => hold'[x] = hold[x] BY <1>1, <2>1
  <2>6. \A x \in Sessions : DrainOf(x, calls', hold'[x]) BY <2>1, <2>4, <2>5
  <2> QED BY <2>1, <2>2, <2>6 DEF Drains
<1>3. CASE ~hold[s].draining
  <2>1. /\ hold' = [hold EXCEPT ![s] = Draining(s, q)]
        /\ calls' = cs \o Refires(s, q) /\ used' = charge - Purged(q)
    BY <1>3 DEF Kick
  <2>2. NoDrain(s, cs) BY <1>3 DEF DrainOf
  <2>3. /\ Draining(s, q) \in Hold
        /\ cs \o Refires(s, q) \in Seq(Call)
        /\ DrainOf(s, cs \o Refires(s, q), Draining(s, q))
        /\ \A x, e : x # s => /\ NoDrain(x, cs) => NoDrain(x, cs \o Refires(s, q))
                              /\ OneDrain(x, cs, e) => OneDrain(x, cs \o Refires(s, q), e)
    BY <2>2, Refire
  <2>4. Purged(q) \in Int BY ServableIs
  <2>5. hold' \in [Sessions -> Hold] BY <1>1, <2>1, <2>3
  <2>6. hold'[s] = Draining(s, q) /\ \A x \in Sessions : x # s => hold'[x] = hold[x] BY <1>1, <2>1
  <2>7. \A x \in Sessions : DrainOf(x, calls', hold'[x]) BY <2>1, <2>3, <2>6 DEF DrainOf
  <2> QED BY <2>1, <2>3, <2>4, <2>5, <2>7 DEF Drains
<1> QED BY <1>2, <1>3

-----------------------------------------------------------------------------
(* The chain of writes keeps to its drains, step by step                   *)

\* cs writes for every drain what calls does.
Same(x, cs) == /\ NoDrain(x, calls) => NoDrain(x, cs)
               /\ \A e : OneDrain(x, calls, e) => OneDrain(x, cs, e)

LEMMA SameDrain ==
  ASSUME NEW x, NEW cs, NEW h, Same(x, cs), DrainOf(x, calls, h)
  PROVE  DrainOf(x, cs, h)
BY DEF Same, DrainOf

LEMMA AppendFresh ==
  ASSUME Types, NEW c \in Call, c.via = "fresh"
  PROVE  Append(calls, c) \in Seq(Call) /\ \A x : Same(x, Append(calls, c))
<1>1. calls \in Seq(Call) BY DEF Types, NodeT
<1>2. \A x : ~IsDrain(c, x) BY DEF IsDrain
<1>3. Append(calls, c) \in Seq(Call) BY <1>1, ToSetAppend
<1> QED BY <1>1, <1>2, <1>3, DrainAppend DEF Same

LEMMA RemoveOther ==
  ASSUME Types, NEW j \in 1..Len(calls), NEW x, ~IsDrain(calls[j], x)
  PROVE  RemoveAt(calls, j) \in Seq(Call) /\ Same(x, RemoveAt(calls, j))
<1>1. calls \in Seq(Call) BY DEF Types, NodeT
<1> QED BY <1>1, RemoveAtIs, DrainRemove DEF Same

LEMMA Ends ==
  ASSUME Types, Drains, NEW j \in 1..Len(calls), NEW s \in Sessions, IsDrain(calls[j], s)
  PROVE  /\ hold[s].draining /\ hold[s].queue # <<>>
         /\ calls[j].id = Head(hold[s].queue).id /\ calls[j].sock = Head(hold[s].queue).sock
         /\ NoDrain(s, RemoveAt(calls, j))
         /\ \A i \in 1..Len(calls) : IsDrain(calls[i], s) => i = j
<1>1. calls \in Seq(Call) BY DEF Types, NodeT
<1>2. DrainOf(s, calls, hold[s]) BY DEF Drains
<1>3. ~NoDrain(s, calls) BY DEF NoDrain
<1>4. hold[s].draining /\ hold[s].queue # <<>> /\ OneDrain(s, calls, Head(hold[s].queue))
  BY <1>2, <1>3 DEF DrainOf
<1>5. PICK m \in 1..Len(calls) :
        /\ IsDrain(calls[m], s) /\ calls[m].id = Head(hold[s].queue).id
        /\ calls[m].sock = Head(hold[s].queue).sock
        /\ \A i \in 1..Len(calls) : IsDrain(calls[i], s) => i = m
  BY <1>4 DEF OneDrain
<1>6. m = j BY <1>5
<1>7. NoDrain(s, RemoveAt(calls, j)) BY <1>1, <1>4, DrainRemove
<1> QED BY <1>4, <1>5, <1>6, <1>7

\* A chain whose writes are those of calls, marked otherwise.
LEMMA SamePoints ==
  ASSUME Types, NEW r, NEW x, r \in Seq(Call), Len(r) = Len(calls),
         \A i \in 1..Len(calls) : /\ IsDrain(r[i], x) <=> IsDrain(calls[i], x)
                                  /\ r[i].id = calls[i].id /\ r[i].sock = calls[i].sock
  PROVE  Same(x, r)
<1>1. NoDrain(x, calls) => NoDrain(x, r) BY DEF NoDrain
<1>2. ASSUME NEW e, OneDrain(x, calls, e) PROVE OneDrain(x, r, e)
  BY <1>2 DEF OneDrain
<1> QED BY <1>1, <1>2 DEF Same

LEMMA DropIs ==
  ASSUME Types, Drains, NEW s \in Sessions, DropHold(s, calls, used)
  PROVE  /\ hold' \in [Sessions -> Hold] /\ calls' \in Seq(Call) /\ used' \in Int
         /\ Drains'
         /\ hold'[s] = NoHold /\ \A x \in Sessions : x # s => hold'[x] = hold[x]
         /\ Len(calls') = Len(calls)
         /\ \A i \in 1..Len(calls) :
              calls'[i] = IF calls[i].sess = s /\ calls[i].via = "drain"
                          THEN [calls[i] EXCEPT !.via = "dropped"] ELSE calls[i]
         /\ used' = used - (IF hold[s].draining THEN Len(hold[s].queue) - 1 ELSE Len(hold[s].queue))
<1>1. /\ calls \in Seq(Call) /\ hold \in [Sessions -> Hold] /\ used \in Int
      /\ Len(calls) \in Nat /\ DOMAIN calls = 1..Len(calls)
      /\ \A i \in 1..Len(calls) : calls[i] \in Call
  <2>1. calls \in Seq(Call) /\ hold \in [Sessions -> Hold] /\ used \in Int
    BY DEF Types, NodeT, PlaneT
  <2> QED BY <2>1, LenProperties, ElementOfSeq
<1>2. /\ hold' = [hold EXCEPT ![s] = NoHold]
      /\ calls' = [j \in DOMAIN calls |->
                     IF calls[j].sess = s /\ calls[j].via = "drain" THEN [calls[j] EXCEPT !.via = "dropped"]
                     ELSE calls[j]]
      /\ used' = used - (IF hold[s].draining THEN Len(hold[s].queue) - 1 ELSE Len(hold[s].queue))
  BY DEF DropHold
<1>3. \A c \in Call : [c EXCEPT !.via = "dropped"] \in Call BY DEF Call
<1>4. \A i \in 1..Len(calls) :
        /\ calls'[i] = IF calls[i].sess = s /\ calls[i].via = "drain"
                       THEN [calls[i] EXCEPT !.via = "dropped"] ELSE calls[i]
        /\ calls'[i] \in Call
  BY <1>1, <1>2, <1>3
<1>5. calls' \in Seq(Call) /\ Len(calls') = Len(calls) BY <1>1, <1>2, <1>4
<1>6. NoHold \in Hold
  <2>1. <<>> \in Seq(Entry) BY EmptySeq
  <2> QED BY <2>1 DEF NoHold, Hold
<1>7. hold' \in [Sessions -> Hold] BY <1>1, <1>2, <1>6
<1>8. hold[s].queue \in Seq(Entry) BY <1>1 DEF Hold
<1>9. used' \in Int
  <2>1. Len(hold[s].queue) \in Nat BY <1>8, LenProperties
  <2> QED BY <1>1, <1>2, <2>1
<1>10. \A c \in Call : c.via = "drain" => ~IsDrain([c EXCEPT !.via = "dropped"], s)
  BY DEF IsDrain, Call
<1>11. NoDrain(s, calls')
  <2> SUFFICES ASSUME NEW i \in 1..Len(calls') PROVE ~IsDrain(calls'[i], s)
    BY DEF NoDrain
  <2>1. CASE calls[i].sess = s /\ calls[i].via = "drain" BY <1>1, <1>4, <1>5, <1>10, <2>1
  <2>2. CASE ~(calls[i].sess = s /\ calls[i].via = "drain") BY <1>4, <1>5, <2>2 DEF IsDrain
  <2> QED BY <2>1, <2>2
<1>12. ASSUME NEW x \in Sessions, x # s PROVE Same(x, calls')
  <2>1. ASSUME NEW i \in 1..Len(calls)
        PROVE  /\ IsDrain(calls'[i], x) <=> IsDrain(calls[i], x)
               /\ calls'[i].id = calls[i].id /\ calls'[i].sock = calls[i].sock
    <3>1. calls[i] \in Call BY <1>1
    <3>2. CASE calls[i].sess = s /\ calls[i].via = "drain"
      <4>1. calls'[i] = [calls[i] EXCEPT !.via = "dropped"] BY <1>4, <3>2
      <4> QED BY <1>12, <3>1, <3>2, <4>1 DEF IsDrain, Call
    <3>3. CASE ~(calls[i].sess = s /\ calls[i].via = "drain") BY <1>4, <3>3
    <3> QED BY <3>2, <3>3
  <2> QED BY <1>5, <2>1, SamePoints
<1>13. hold'[s] = NoHold /\ \A x \in Sessions : x # s => hold'[x] = hold[x] BY <1>1, <1>2
<1>14. ASSUME NEW x \in Sessions PROVE DrainOf(x, calls', hold'[x])
  <2>1. CASE x = s BY <1>11, <1>13, <2>1 DEF DrainOf, NoHold
  <2>2. CASE x # s BY <1>12, <1>13, <2>2, SameDrain DEF Drains
  <2> QED BY <2>1, <2>2
<1>15. Drains' BY <1>14 DEF Drains
<1> QED BY <1>2, <1>4, <1>5, <1>7, <1>9, <1>13, <1>15

-----------------------------------------------------------------------------
(* Every step keeps the types and the drains                               *)

\* The page hears the ack: it still has the socket, and the plane too.
Hears(s, k) == sock[s] = k /\ status[k] = "open"

LEMMA AckIs ==
  ASSUME Types, NEW s \in Sessions, NEW k \in Sockets, NEW id \in Ids,
         NEW box \in [Sockets -> Seq(Ids)], Ack(s, k, id, box)
  PROVE  /\ pending' \in [Sessions -> SUBSET Ids] /\ sent' \in [Sessions -> SUBSET Ids]
         /\ inbox' \in [Sockets -> Seq(Ids)]
         /\ \A x \in Sessions : Cardinality(pending'[x]) <= MaxPending
         /\ \A x \in Sessions : x # s => pending'[x] = pending[x] /\ sent'[x] = sent[x]
         /\ \A y \in Sockets : y # k => inbox'[y] = box[y]
         /\ ~Hears(s, k) => pending' = pending /\ sent' = sent /\ inbox' = box
         /\ Hears(s, k) =>
              /\ pending'[s] = pending[s] \ {id}
              /\ \A i \in sent[s] : i # id => i \in sent'[s]
              /\ \A i \in sent'[s] : i # id /\ (i \in pending[s] \/ i \in sent[s])
              /\ \A i : i \in ToSet(inbox'[k]) <=>
                         i \in ToSet(box[k]) \/ (i \in sent'[s] /\ i \notin sent[s])
<1>1. /\ pending \in [Sessions -> SUBSET Ids] /\ sent \in [Sessions -> SUBSET Ids]
      /\ \A x \in Sessions : Cardinality(pending[x]) <= MaxPending
  BY DEF Types, PageT
<1>2. CASE ~Hears(s, k)
  <2>1. inbox' = box /\ pending' = pending /\ sent' = sent BY <1>2 DEF Ack, Hears
  <2> QED BY <1>1, <1>2, <2>1
<1>3. CASE Hears(s, k)
  <2> DEFINE left == sent[s] \ {id} next == Flushable(pending[s] \ {id}, left)
  <2>1. /\ pending' = [pending EXCEPT ![s] = @ \ {id}]
        /\ sent' = [sent EXCEPT ![s] = left \cup next]
        /\ inbox' = [box EXCEPT ![k] = @ \o InOrder(next)]
    BY <1>3 DEF Ack, Hears
  <2>2. next \subseteq (pending[s] \ {id}) \ left BY FlushIs
  <2> HIDE DEF next
  <2>3. next \subseteq Ids BY <1>1, <2>2
  <2>4. InOrder(next) \in Seq(Ids) /\ ToSet(InOrder(next)) = next BY <2>3, IdsInOrder
  <2>5. box[k] \o InOrder(next) \in Seq(Ids) /\ ToSet(box[k] \o InOrder(next)) = ToSet(box[k]) \cup next
    BY <2>4, ToSetConcat
  <2>6. inbox' \in [Sockets -> Seq(Ids)] /\ inbox'[k] = box[k] \o InOrder(next)
        /\ \A y \in Sockets : y # k => inbox'[y] = box[y]
    BY <2>1, <2>5
  <2>7. pending' \in [Sessions -> SUBSET Ids] /\ pending'[s] = pending[s] \ {id}
        /\ \A x \in Sessions : x # s => pending'[x] = pending[x]
    BY <1>1, <2>1
  <2>8. sent' \in [Sessions -> SUBSET Ids] /\ sent'[s] = left \cup next
        /\ \A x \in Sessions : x # s => sent'[x] = sent[x]
    BY <1>1, <2>1, <2>3
  <2>9. Cardinality(pending'[s]) <= MaxPending
    <3>1. IsFiniteSet(pending[s]) BY <1>1, IdsAre, FS_Subset
    <3>2. Cardinality(pending[s] \ {id}) <= Cardinality(pending[s]) /\ IsFiniteSet(pending[s] \ {id})
      BY <3>1, FS_Subset
    <3>3. Cardinality(pending[s] \ {id}) \in Nat /\ Cardinality(pending[s]) \in Nat
      BY <3>1, <3>2, FS_CardinalityType
    <3>4. MaxPending \in Nat BY BoundsAssumption
    <3> QED BY <1>1, <2>7, <3>2, <3>3, <3>4
  <2>10. \A x \in Sessions : Cardinality(pending'[x]) <= MaxPending BY <1>1, <2>7, <2>9
  <2> QED BY <1>3, <2>2, <2>5, <2>6, <2>7, <2>8, <2>10
<1> QED BY <1>2, <1>3

LEMMA TypeT ==
  ASSUME Types, Drains, NEW s \in Sessions, Type(s)
  PROVE  Types' /\ Drains'
<1> DEFINE id  == typed[s] + 1
           all == pending[s] \cup {id}
           old == IF Cardinality(all) > MaxPending THEN Oldest(1, all) ELSE {}
           out == IF pending[s] = {} /\ sock[s] # None THEN {id} ELSE {}
<1>1. /\ quota \in Quotas /\ typed \in [Sessions -> 0..MaxId]
      /\ pending \in [Sessions -> SUBSET Ids] /\ sent \in [Sessions -> SUBSET Ids]
      /\ sock \in [Sessions -> Sockets \cup {None}]
      /\ \A x \in Sessions : Cardinality(pending[x]) <= MaxPending
      /\ inbox \in [Sockets -> Seq(Ids)]
      /\ dropped \in [Sessions -> SUBSET Ids]
  BY DEF Types, PageT, WireT, HistoryT
<1>2. /\ typed[s] < quota[s]
      /\ typed' = [typed EXCEPT ![s] = id]
      /\ pending' = [pending EXCEPT ![s] = all \ old]
      /\ sent' = [sent EXCEPT ![s] = (@ \cup out) \ old]
      /\ dropped' = [dropped EXCEPT ![s] = @ \cup old]
      /\ inbox' = IF out = {} THEN inbox ELSE [inbox EXCEPT ![sock[s]] = Append(@, id)]
      /\ UNCHANGED <<quota, sock, status, plane, up, calls, pane, faults, moved, doubted, stranded>>
  BY DEF Type
<1>3. id \in Ids /\ id \in 0..MaxId
  <2>1. quota[s] \in 0..MaxId BY <1>1, BoundsAssumption
  <2>2. MaxId \in Nat BY IdsAre
  <2> QED BY <1>1, <1>2, <2>1, <2>2 DEF Ids
<1>4. all \subseteq Ids /\ out \subseteq Ids BY <1>1, <1>3
<1>5. old \subseteq Ids BY <1>4 DEF Oldest
<1>6. Cardinality(all \ old) <= MaxPending
  <2>1. IsFiniteSet(pending[s]) /\ IsFiniteSet(all) BY <1>1, <1>4, IdsAre, FS_Subset
  <2>2. Cardinality(pending[s]) \in Nat /\ Cardinality(all) \in Nat BY <2>1, FS_CardinalityType
  <2>3. MaxPending \in Nat BY BoundsAssumption
  <2>4. CASE ~(Cardinality(all) > MaxPending)
    <3>1. all \ old = all BY <2>4
    <3> QED BY <2>2, <2>3, <2>4, <3>1
  <2>5. CASE Cardinality(all) > MaxPending
    <3>1. all \subseteq Nat /\ all # {} BY <1>4, IdsAre
    <3>2. Oldest(1, all) \subseteq all /\ Oldest(1, all) # {} BY <3>1, OldestIs
    <3>3. PICK o \in all : o \in old BY <2>5, <3>2
    <3>4. Cardinality(all) <= Cardinality(pending[s]) + 1
      <4>1. Cardinality(all) = IF id \in pending[s] THEN Cardinality(pending[s])
                                 ELSE Cardinality(pending[s]) + 1
        BY <2>1, FS_AddElement
      <4> QED BY <2>2, <4>1
    <3>5. Cardinality(all \ {o}) = Cardinality(all) - 1 /\ IsFiniteSet(all \ {o})
      BY <2>1, <3>3, FS_RemoveElement
    <3>6. all \ old \subseteq all \ {o} BY <3>3
    <3> HIDE DEF old, all
    <3>7. Cardinality(all \ old) <= Cardinality(all \ {o}) /\ IsFiniteSet(all \ old)
      <4>1. \A S, T : IsFiniteSet(S) /\ T \subseteq S
                      => IsFiniteSet(T) /\ Cardinality(T) <= Cardinality(S)
        BY FS_Subset
      <4> QED BY <3>5, <3>6, <4>1
    <3>8. Cardinality(all \ old) \in Nat BY <3>7, FS_CardinalityType
    <3>9. Cardinality(pending[s]) <= MaxPending BY <1>1
    <3> QED BY <2>2, <2>3, <3>4, <3>5, <3>7, <3>8, <3>9
  <2> QED BY <2>4, <2>5
<1> HIDE DEF old, out, all
<1>7. typed' \in [Sessions -> 0..MaxId] BY <1>1, <1>2, <1>3
<1>8. pending' \in [Sessions -> SUBSET Ids] BY <1>1, <1>2, <1>4
<1>9. sent' \in [Sessions -> SUBSET Ids] BY <1>1, <1>2, <1>4
<1>10. dropped' \in [Sessions -> SUBSET Ids] BY <1>1, <1>2, <1>5
<1>11. inbox' \in [Sockets -> Seq(Ids)]
  <2>1. CASE out = {} BY <1>1, <1>2, <2>1
  <2>2. CASE out # {}
    <3>1. sock[s] \in Sockets BY <1>1, <2>2 DEF out
    <3>2. Append(inbox[sock[s]], id) \in Seq(Ids) BY <1>1, <1>3, <3>1, ToSetAppend
    <3>3. inbox' = [inbox EXCEPT ![sock[s]] = Append(@, id)] BY <1>2, <2>2
    <3> QED BY <1>1, <3>1, <3>2, <3>3
  <2> QED BY <2>1, <2>2
<1>12. \A x \in Sessions : Cardinality(pending'[x]) <= MaxPending BY <1>1, <1>2, <1>6
<1>13. PageT' BY <1>1, <1>2, <1>7, <1>8, <1>9, <1>12 DEF PageT
<1>14. WireT' /\ HistoryT' BY <1>2, <1>10, <1>11 DEF Types, WireT, HistoryT
<1>15. PlaneT' /\ NodeT' /\ Drains' BY <1>2 DEF Types, PlaneT, NodeT, plane, Drains
<1> QED BY <1>13, <1>14, <1>15 DEF Types

LEMMA WindowFiresT ==
  ASSUME Types, Drains, NEW s \in Sessions, WindowFires(s)
  PROVE  Types' /\ Drains'
<1> DEFINE next == Flushable(pending[s], sent[s])
<1>1. /\ sent' = [sent EXCEPT ![s] = @ \cup next]
      /\ inbox' = [inbox EXCEPT ![sock[s]] = @ \o InOrder(next)]
      /\ sock[s] # None
      /\ UNCHANGED <<quota, typed, pending, sock, status, plane, up, calls, pane, history>>
  BY DEF WindowFires
<1>2. next \subseteq pending[s] BY FlushIs
<1> HIDE DEF next
<1>3. /\ pending \in [Sessions -> SUBSET Ids] /\ sent \in [Sessions -> SUBSET Ids]
      /\ sock \in [Sessions -> Sockets \cup {None}] /\ inbox \in [Sockets -> Seq(Ids)]
  BY DEF Types, PageT, WireT
<1>4. next \subseteq Ids /\ sock[s] \in Sockets BY <1>1, <1>2, <1>3
<1>5. inbox[sock[s]] \o InOrder(next) \in Seq(Ids) BY <1>3, <1>4, IdsInOrder, ToSetConcat
<1>6. PageT' BY <1>1, <1>3, <1>4 DEF Types, PageT
<1>7. WireT' BY <1>1, <1>3, <1>4, <1>5 DEF Types, WireT
<1>8. PlaneT' /\ NodeT' /\ HistoryT' /\ Drains'
  BY <1>1 DEF Types, PlaneT, NodeT, HistoryT, plane, history, Drains
<1> QED BY <1>6, <1>7, <1>8 DEF Types

LEMMA AttachT ==
  ASSUME Types, Drains, NEW s \in Sessions, NEW k \in Sockets, Attach(s, k)
  PROVE  Types' /\ Drains'
<1> DEFINE next == Flushable(pending[s], sent[s])
<1>1. /\ sock' = [sock EXCEPT ![s] = k]
      /\ status' = [status EXCEPT ![k] = "open"]
      /\ sent' = [sent EXCEPT ![s] = @ \cup next]
      /\ inbox' = [inbox EXCEPT ![k] = InOrder(sent[s]) \o InOrder(next)]
      /\ stranded' = [stranded EXCEPT ![s] = {}]
      /\ UNCHANGED <<quota, typed, pending, plane, up, calls, pane, faults, moved, dropped, doubted>>
  BY DEF Attach
<1>2. next \subseteq pending[s] BY FlushIs
<1> HIDE DEF next
<1>3. /\ pending \in [Sessions -> SUBSET Ids] /\ sent \in [Sessions -> SUBSET Ids]
      /\ sock \in [Sessions -> Sockets \cup {None}] /\ inbox \in [Sockets -> Seq(Ids)]
      /\ status \in [Sockets -> {"unused", "open", "refused", "closed"}]
      /\ stranded \in [Sessions -> SUBSET Ids]
  BY DEF Types, PageT, WireT, HistoryT
<1>4. next \subseteq Ids /\ sent[s] \subseteq Ids BY <1>2, <1>3
<1>5. InOrder(sent[s]) \o InOrder(next) \in Seq(Ids) BY <1>4, IdsInOrder, ToSetConcat
<1>6. PageT' BY <1>1, <1>3, <1>4 DEF Types, PageT
<1>7. WireT' BY <1>1, <1>3, <1>5 DEF Types, WireT
<1>8. HistoryT' BY <1>1, <1>3 DEF Types, HistoryT
<1>9. PlaneT' /\ NodeT' /\ Drains' BY <1>1 DEF Types, PlaneT, NodeT, plane, Drains
<1> QED BY <1>6, <1>7, <1>8, <1>9 DEF Types

LEMMA PageLosesSocketT ==
  ASSUME Types, Drains, NEW s \in Sessions, PageLosesSocket(s)
  PROVE  Types' /\ Drains'
<1>1. /\ sock' = [sock EXCEPT ![s] = None]
      /\ moved' = moved \cup {s}
      /\ UNCHANGED <<quota, typed, pending, sent, status, inbox, plane, up, calls, pane,
                   faults, dropped, doubted, stranded>>
  BY DEF PageLosesSocket
<1>2. PageT' BY <1>1 DEF Types, PageT
<1>3. WireT' /\ HistoryT' BY <1>1 DEF Types, WireT, HistoryT
<1>4. PlaneT' /\ NodeT' /\ Drains' BY <1>1 DEF Types, PlaneT, NodeT, plane, Drains
<1> QED BY <1>2, <1>3, <1>4 DEF Types

LEMMA HoldFailedT ==
  ASSUME Types, NEW s \in Sessions, NEW e \in Entry, NEW cs \in Seq(Call), NEW charge \in Int,
         \A x \in Sessions : DrainOf(x, cs, hold[x]),
         HoldFailed(s, e, cs, charge)
  PROVE  /\ hold' \in [Sessions -> Hold] /\ calls' \in Seq(Call) /\ used' \in Int
         /\ Drains'
         /\ stranded' \in [Sessions -> SUBSET Ids]
<1> DEFINE q == hold[s].queue held == {x \in ToSet(q) : x.id = e.id}
<1>1. hold \in [Sessions -> Hold] /\ stranded \in [Sessions -> SUBSET Ids] BY DEF Types, PlaneT, HistoryT
<1>2. q \in Seq(Entry) BY <1>1 DEF Hold
<1>3. hold[s].draining => q # <<>> BY DEF DrainOf
<1>4. Strands(s, {e}) \subseteq Ids BY DEF Strands, Entry
<1>5. CASE held # {} /\ Kick(s, q, cs, charge)
           /\ stranded' = [stranded EXCEPT ![s] = @ \cup (IF e \in held THEN {} ELSE Strands(s, {e}))]
  <2>1. stranded' \in [Sessions -> SUBSET Ids] BY <1>1, <1>4, <1>5
  <2> HIDE DEF q
  <2>2. hold[s].draining => q # <<>> /\ Head(q) = Head(hold[s].queue) BY <1>3 DEF q
  <2> QED BY <1>2, <1>5, <2>1, <2>2, KickIs
<1>6. CASE Kick(s, Append(q, e), cs, charge + 1) /\ stranded' = stranded
  <2> DEFINE r == Append(q, e)
  <2>1. r \in Seq(Entry) /\ r # <<>> BY <1>2, AppendProperties
  <2>2. hold[s].draining => Head(r) = Head(q)
    <3>1. CASE ~hold[s].draining BY <3>1
    <3>2. CASE hold[s].draining
      <4>1. q # <<>> BY <1>3, <3>2
      <4>2. Len(q) \in Nat /\ Len(q) # 0 BY <1>2, <4>1, EmptySeq
      <4>3. r[1] = q[1] BY <1>2, <4>2, AppendProperties
      <4>4. Head(r) = r[1] /\ Head(q) = q[1] OBVIOUS
      <4> QED BY <4>3, <4>4
    <3> QED BY <3>1, <3>2
  <2>3. charge + 1 \in Int OBVIOUS
  <2>4. Kick(s, r, cs, charge + 1) BY <1>6
  <2> HIDE DEF r
  <2>5. hold[s].draining => r # <<>> /\ Head(r) = Head(hold[s].queue) BY <2>1, <2>2
  <2> QED BY <1>1, <1>6, <2>1, <2>3, <2>4, <2>5, KickIs
<1>7. (held # {} /\ Kick(s, q, cs, charge)
       /\ stranded' = [stranded EXCEPT ![s] = @ \cup (IF e \in held THEN {} ELSE Strands(s, {e}))])
      \/ (Kick(s, Append(q, e), cs, charge + 1) /\ stranded' = stranded)
  BY DEF HoldFailed
<1> QED BY <1>5, <1>6, <1>7

LEMMA IgnoreFrameT ==
  ASSUME Types, Drains, NEW k \in Sockets, IgnoreFrame(k)
  PROVE  Types' /\ Drains'
<1>1. /\ inbox' = [inbox EXCEPT ![k] = Tail(@)] /\ inbox[k] # <<>>
      /\ UNCHANGED <<client, status, plane, up, calls, pane, history>>
  BY DEF IgnoreFrame, Takes
<1>2. inbox' \in [Sockets -> Seq(Ids)] BY <1>1, FrameIs
<1>3. WireT' BY <1>1, <1>2 DEF Types, WireT
<1>4. PageT' /\ HistoryT' BY <1>1 DEF Types, PageT, HistoryT, client, history
<1>5. PlaneT' /\ NodeT' /\ Drains' BY <1>1 DEF Types, PlaneT, NodeT, plane, Drains
<1> QED BY <1>3, <1>4, <1>5 DEF Types

LEMMA AckAgainT ==
  ASSUME Types, Drains, NEW k \in Sockets, AckAgain(k)
  PROVE  Types' /\ Drains'
<1> DEFINE s == Owner[k] box == [inbox EXCEPT ![k] = Tail(@)]
<1>1. /\ Ack(s, k, Frame(k).id, box) /\ inbox[k] # <<>>
      /\ UNCHANGED <<quota, typed, sock, status, plane, up, calls, pane, history>>
  BY DEF AckAgain
<1>2. s \in Sessions /\ Frame(k).id \in Ids /\ box \in [Sockets -> Seq(Ids)]
  BY <1>1, FrameIs DEF Entry
<1> HIDE DEF s, box
<1>3. /\ pending' \in [Sessions -> SUBSET Ids] /\ sent' \in [Sessions -> SUBSET Ids]
      /\ inbox' \in [Sockets -> Seq(Ids)]
      /\ \A x \in Sessions : Cardinality(pending'[x]) <= MaxPending
  BY <1>1, <1>2, AckIs
<1>4. PageT' /\ WireT' BY <1>1, <1>3 DEF Types, PageT, WireT
<1>5. PlaneT' /\ NodeT' /\ HistoryT' /\ Drains'
  BY <1>1 DEF Types, PlaneT, NodeT, HistoryT, plane, history, Drains
<1> QED BY <1>4, <1>5 DEF Types

LEMMA OverflowT ==
  ASSUME Types, Drains, NEW s \in Sessions, NEW e \in Entry, HoldOverflows(s, e)
  PROVE  /\ hold' \in [Sessions -> Hold] /\ calls' \in Seq(Call) /\ used' \in Int
         /\ Drains'
         /\ stranded' \in [Sessions -> SUBSET Ids]
         /\ status' \in [Sockets -> {"unused", "open", "refused", "closed"}]
<1>1. /\ status' = [status EXCEPT ![e.sock] = "refused"]
      /\ DropHold(s, calls, used)
      /\ stranded' = [stranded EXCEPT ![s] = @ \cup Strands(s, ToSet(hold[s].queue))]
  BY DEF HoldOverflows
<1>2. hold[s].queue \in Seq(Entry) BY DEF Types, PlaneT, Hold
<1>3. ToSet(hold[s].queue) \subseteq Entry BY <1>2, ToSetIs
<1>4. Strands(s, ToSet(hold[s].queue)) \subseteq Ids BY <1>3 DEF Strands, Entry
<1>5. stranded' \in [Sessions -> SUBSET Ids] BY <1>1, <1>4 DEF Types, HistoryT
<1>6. status' \in [Sockets -> {"unused", "open", "refused", "closed"}] BY <1>1 DEF Types, WireT
<1> QED BY <1>1, <1>5, <1>6, DropIs

LEMMA JoinHoldT ==
  ASSUME Types, Drains, NEW k \in Sockets, JoinHold(k)
  PROVE  Types' /\ Drains'
<1> DEFINE s == Owner[k]
<1>1. /\ inbox[k] # <<>>
      /\ inbox' = [inbox EXCEPT ![k] = Tail(@)]
      /\ UNCHANGED <<client, window, up, pane, faults, moved, dropped>>
      /\ \/ /\ HoldFailed(s, Frame(k), calls, used)
            /\ doubted' = IF Joins(s, Frame(k).id) /\ Rewrites(s, Frame(k).id)
                          THEN [doubted EXCEPT ![s] = @ \cup {Frame(k).id}] ELSE doubted
            /\ UNCHANGED status
         \/ HoldOverflows(s, Frame(k)) /\ UNCHANGED doubted
  BY DEF JoinHold, Takes
<1>2. s \in Sessions /\ Frame(k) \in Entry /\ Frame(k).id \in Ids
      /\ inbox' \in [Sockets -> Seq(Ids)]
  BY <1>1, FrameIs DEF Entry
<1>3. calls \in Seq(Call) /\ used \in Int /\ \A x \in Sessions : DrainOf(x, calls, hold[x])
      /\ doubted \in [Sessions -> SUBSET Ids]
      /\ status \in [Sockets -> {"unused", "open", "refused", "closed"}]
  BY DEF Types, NodeT, PlaneT, HistoryT, WireT, Drains
<1>4. /\ hold' \in [Sessions -> Hold] /\ calls' \in Seq(Call) /\ used' \in Int
      /\ Drains'
      /\ stranded' \in [Sessions -> SUBSET Ids]
      /\ status' \in [Sockets -> {"unused", "open", "refused", "closed"}]
      /\ doubted' \in [Sessions -> SUBSET Ids]
  <2>1. CASE HoldFailed(s, Frame(k), calls, used)
             /\ doubted' = (IF Joins(s, Frame(k).id) /\ Rewrites(s, Frame(k).id)
                            THEN [doubted EXCEPT ![s] = @ \cup {Frame(k).id}] ELSE doubted)
             /\ UNCHANGED status
    <3>1. doubted' \in [Sessions -> SUBSET Ids] BY <1>2, <1>3, <2>1
    <3> HIDE DEF s
    <3> QED BY <1>2, <1>3, <2>1, <3>1, HoldFailedT
  <2>2. CASE HoldOverflows(s, Frame(k)) /\ UNCHANGED doubted
    <3> HIDE DEF s
    <3> QED BY <1>2, <1>3, <2>2, OverflowT
  <2> QED BY <1>1, <2>1, <2>2
<1>5. PageT' /\ WireT' BY <1>1, <1>2, <1>4 DEF Types, PageT, WireT, client
<1>6. PlaneT' /\ NodeT' /\ HistoryT' BY <1>1, <1>4 DEF Types, PlaneT, NodeT, HistoryT
<1> QED BY <1>4, <1>5, <1>6 DEF Types

LEMMA FreshT ==
  ASSUME Types, Drains, NEW k \in Sockets, Fresh(k), Write(k)
  PROVE  /\ Owner[k] \in Sessions
         /\ calls' \in Seq(Call) /\ \A x : Same(x, calls')
         /\ calls' = Append(calls, Dispatch(Owner[k], Frame(k), "fresh"))
         /\ Dispatch(Owner[k], Frame(k), "fresh") \in Call
         /\ inbox' \in [Sockets -> Seq(Ids)] /\ inbox[k] # <<>>
         /\ doubted' \in [Sessions -> SUBSET Ids]
<1>1. inbox' = [inbox EXCEPT ![k] = Tail(@)] /\ inbox[k] # <<>> BY DEF Fresh, Takes
<1>2. Owner[k] \in Sessions /\ Frame(k) \in Entry /\ Frame(k).id \in Ids
      /\ inbox' \in [Sockets -> Seq(Ids)]
  BY <1>1, FrameIs DEF Entry
<1> DEFINE c == Dispatch(Owner[k], Frame(k), "fresh")
<1>3. c \in Call /\ c.via = "fresh" BY <1>2, DispatchIs
<1>4. calls' = Append(calls, c) BY DEF Write
<1> HIDE DEF c
<1>5. calls' \in Seq(Call) /\ \A x : Same(x, calls') BY <1>3, <1>4, AppendFresh
<1>6. doubted' \in [Sessions -> SUBSET Ids] BY <1>2 DEF Write, Types, HistoryT
<1> QED BY <1>1, <1>2, <1>3, <1>4, <1>5, <1>6 DEF c

LEMMA WriteFrameT ==
  ASSUME Types, Drains, NEW k \in Sockets, WriteFrame(k)
  PROVE  Types' /\ Drains'
<1>1. /\ Fresh(k) /\ Write(k) /\ used' = used + 1
      /\ UNCHANGED <<client, status, hold, window, up, pane, faults, moved, dropped, stranded>>
  BY DEF WriteFrame
<1>2. /\ calls' \in Seq(Call) /\ \A x : Same(x, calls')
      /\ inbox' \in [Sockets -> Seq(Ids)]
      /\ doubted' \in [Sessions -> SUBSET Ids]
  BY <1>1, FreshT
<1>3. PageT' /\ WireT' BY <1>1, <1>2 DEF Types, PageT, WireT, client
<1>4. PlaneT' BY <1>1 DEF Types, PlaneT
<1>5. NodeT' /\ HistoryT' BY <1>1, <1>2 DEF Types, NodeT, HistoryT
<1>6. Drains'
  <2>1. \A x \in Sessions : DrainOf(x, calls, hold[x]) /\ hold'[x] = hold[x] BY <1>1 DEF Drains
  <2>2. \A x \in Sessions : DrainOf(x, calls', hold'[x]) BY <1>2, <2>1, SameDrain
  <2> QED BY <2>2 DEF Drains
<1> QED BY <1>3, <1>4, <1>5, <1>6 DEF Types

\* What gives its place up is never the entry being written.
LEMMA IdleIs ==
  ASSUME Types, Drains, NEW s \in Sessions, Idle(s) # {}
  PROVE  LET i == Min(Idle(s)) q == hold[s].queue IN
         /\ q \in Seq(Entry) /\ Len(q) \in Nat
         /\ i \in 1..Len(q) /\ i \in Idle(s)
         /\ hold[s].draining => i > 1
<1> DEFINE q == hold[s].queue
<1>1. q \in Seq(Entry) BY DEF Types, PlaneT, Hold
<1>2. Len(q) \in Nat /\ DOMAIN q = 1..Len(q) BY <1>1, LenProperties
<1>3. Idle(s) \subseteq 1..Len(q) BY <1>2 DEF Idle
<1>4. Idle(s) \subseteq Nat BY <1>2, <1>3
<1>5. Min(Idle(s)) \in Idle(s) BY <1>4, MinIs
<1>6. hold[s].draining => Idle(s) = 2..Len(q) BY DEF Idle
<1>7. hold[s].draining => Min(Idle(s)) > 1
  <2> HIDE DEF q
  <2> QED BY <1>2, <1>5, <1>6
<1> QED BY <1>1, <1>2, <1>3, <1>5, <1>7

LEMMA WriteReclaimingT ==
  ASSUME Types, Drains, NEW k \in Sockets, WriteReclaiming(k)
  PROVE  Types' /\ Drains'
<1>1. /\ Fresh(k) /\ Write(k)
      /\ UNCHANGED <<client, status, window, used, up, pane, faults, moved, dropped>>
  BY DEF WriteReclaiming
<1>2. PICK s \in Sessions :
        /\ Idle(s) # {}
        /\ hold' = [hold EXCEPT ![s].queue = RemoveAt(hold[s].queue, Min(Idle(s)))]
        /\ stranded' = [stranded EXCEPT ![s] = @ \cup Strands(s, {hold[s].queue[Min(Idle(s))]})]
  BY DEF WriteReclaiming
<1> DEFINE q == hold[s].queue i == Min(Idle(s)) r == RemoveAt(q, i)
<1>3. q \in Seq(Entry) /\ Len(q) \in Nat /\ i \in 1..Len(q) /\ (hold[s].draining => i > 1)
  BY <1>2, IdleIs
<1>4. /\ calls' \in Seq(Call) /\ \A x : Same(x, calls')
      /\ inbox' \in [Sockets -> Seq(Ids)]
      /\ doubted' \in [Sessions -> SUBSET Ids]
  BY <1>1, FreshT
<1>5. hold \in [Sessions -> Hold] /\ stranded \in [Sessions -> SUBSET Ids] BY DEF Types, PlaneT, HistoryT
<1>6. hold' = [hold EXCEPT ![s].queue = r]
      /\ stranded' = [stranded EXCEPT ![s] = @ \cup Strands(s, {q[i]})]
  BY <1>2
<1> HIDE DEF i, q
<1>7. r \in Seq(Entry) /\ Len(r) = Len(q) - 1
      /\ \A n \in 1..(Len(q) - 1) : r[n] = IF n < i THEN q[n] ELSE q[n + 1]
  BY <1>3, RemoveAtIs
<1>8. q[i] \in Entry BY <1>3, ElementOfSeq
<1> HIDE DEF r
<1>9. stranded' \in [Sessions -> SUBSET Ids] BY <1>5, <1>6, <1>8 DEF Strands, Entry
<1>10. hold' \in [Sessions -> Hold] BY <1>5, <1>6, <1>7 DEF Hold
<1>11. hold'[s].queue = r /\ hold'[s].draining = hold[s].draining
       /\ \A x \in Sessions : x # s => hold'[x] = hold[x]
  BY <1>5, <1>6 DEF Hold
<1>12. hold[s].draining => r # <<>> /\ Head(r) = Head(q)
  <2> SUFFICES ASSUME hold[s].draining PROVE r # <<>> /\ Head(r) = Head(q)
    OBVIOUS
  <2>1. Len(r) # 0 /\ Len(r) \in Nat /\ 1 < i /\ 1 \in 1..(Len(q) - 1) BY <1>3, <1>7
  <2>2. r # <<>> BY <2>1
  <2>3. r[1] = q[1] BY <1>7, <2>1
  <2>4. Head(r) = r[1] /\ Head(q) = q[1] OBVIOUS
  <2> QED BY <2>2, <2>3, <2>4
<1>13. Drains'
  <2>1. DrainOf(s, calls, hold[s]) /\ Same(s, calls') BY <1>4 DEF Drains
  <2>2. DrainOf(s, calls, hold'[s]) BY <1>11, <1>12, <2>1 DEF DrainOf, q
  <2>3. \A x \in Sessions : DrainOf(x, calls, hold'[x]) BY <1>11, <2>2 DEF Drains
  <2>4. \A x \in Sessions : DrainOf(x, calls', hold'[x]) BY <1>4, <2>3, SameDrain
  <2> QED BY <2>4 DEF Drains
<1>14. PageT' /\ WireT' BY <1>1, <1>4 DEF Types, PageT, WireT, client
<1>15. PlaneT' /\ NodeT' /\ HistoryT' BY <1>1, <1>4, <1>9, <1>10 DEF Types, PlaneT, NodeT, HistoryT
<1> QED BY <1>13, <1>14, <1>15 DEF Types

LEMMA RefuseFrameT ==
  ASSUME Types, Drains, NEW k \in Sockets, RefuseFrame(k)
  PROVE  Types' /\ Drains'
<1>1. /\ inbox[k] # <<>> /\ inbox' = [inbox EXCEPT ![k] = Tail(@)]
      /\ status' = [status EXCEPT ![k] = "refused"]
      /\ UNCHANGED <<client, plane, up, calls, pane, history>>
  BY DEF RefuseFrame, Fresh, Takes
<1>2. inbox' \in [Sockets -> Seq(Ids)] BY <1>1, FrameIs
<1>3. WireT' BY <1>1, <1>2 DEF Types, WireT
<1>4. PageT' /\ HistoryT' BY <1>1 DEF Types, PageT, HistoryT, client, history
<1>5. PlaneT' /\ NodeT' /\ Drains' BY <1>1 DEF Types, PlaneT, NodeT, plane, Drains
<1> QED BY <1>3, <1>4, <1>5 DEF Types

LEMMA PlaneSeesCloseT ==
  ASSUME Types, Drains, NEW k \in Sockets, PlaneSeesClose(k)
  PROVE  Types' /\ Drains'
<1> DEFINE s == Owner[k]
<1>1. /\ status' = [status EXCEPT ![k] = "closed"]
      /\ inbox' = [inbox EXCEPT ![k] = <<>>]
      /\ DropHold(s, calls, used)
      /\ stranded' = [stranded EXCEPT ![s] = @ \cup Strands(s, ToSet(hold[s].queue))]
      /\ UNCHANGED <<client, window, up, pane, faults, moved, dropped, doubted>>
  BY DEF PlaneSeesClose
<1>2. s \in Sessions BY OwnerAssumption
<1> HIDE DEF s
<1>3. /\ hold' \in [Sessions -> Hold] /\ calls' \in Seq(Call) /\ used' \in Int
      /\ Drains'
  BY <1>1, <1>2, DropIs
<1>4. hold[s].queue \in Seq(Entry) BY <1>2 DEF Types, PlaneT, Hold
<1>5. ToSet(hold[s].queue) \subseteq Entry BY <1>4, ToSetIs
<1>6. Strands(s, ToSet(hold[s].queue)) \subseteq Ids BY <1>5 DEF Strands, Entry
<1>7. stranded' \in [Sessions -> SUBSET Ids] BY <1>1, <1>6 DEF Types, HistoryT
<1>8. <<>> \in Seq(Ids) BY EmptySeq
<1>9. PageT' /\ WireT' BY <1>1, <1>8 DEF Types, PageT, WireT, client
<1>10. PlaneT' /\ NodeT' /\ HistoryT' BY <1>1, <1>3, <1>7 DEF Types, PlaneT, NodeT, HistoryT
<1> QED BY <1>3, <1>9, <1>10 DEF Types

LEMMA CallsAre ==
  ASSUME Types
  PROVE  /\ calls \in Seq(Call) /\ Len(calls) \in Nat /\ DOMAIN calls = 1..Len(calls)
         /\ \A j \in 1..Len(calls) : calls[j] \in Call
<1>1. calls \in Seq(Call) BY DEF Types, NodeT
<1> QED BY <1>1, LenProperties, ElementOfSeq

\* The write is in the pane, or its chain was rejected: it is marked so.
LEMMA MarkIs ==
  ASSUME Types, NEW j \in 1..Len(calls)
  PROVE  /\ LET r == [calls EXCEPT ![j].written = TRUE] IN
              /\ r \in Seq(Call) /\ Len(r) = Len(calls) /\ \A x : Same(x, r)
              /\ \A i \in 1..Len(calls) : i # j => r[i] = calls[i]
              /\ r[j] = [calls[j] EXCEPT !.written = TRUE]
         /\ LET r == [calls EXCEPT ![j].waiting = FALSE] IN
              /\ r \in Seq(Call) /\ Len(r) = Len(calls)
              /\ \A x : ~IsDrain(calls[j], x) => Same(x, r)
              /\ \A x, e : IsDrain(calls[j], x) /\ OneDrain(x, calls, e) => NoDrain(x, r)
              /\ \A i \in 1..Len(calls) : i # j => r[i] = calls[i]
              /\ r[j] = [calls[j] EXCEPT !.waiting = FALSE]
<1>1. calls \in Seq(Call) /\ Len(calls) \in Nat /\ calls[j] \in Call
  BY CallsAre
<1>2. ASSUME NEW c \in Call, c = [calls[j] EXCEPT !.written = TRUE]
      PROVE  LET r == [calls EXCEPT ![j].written = TRUE] IN
              /\ r \in Seq(Call) /\ Len(r) = Len(calls) /\ \A x : Same(x, r)
              /\ \A i \in 1..Len(calls) : i # j => r[i] = calls[i]
              /\ r[j] = c
  <2> DEFINE r == [calls EXCEPT ![j] = c]
  <2>1. r = [calls EXCEPT ![j].written = TRUE] BY <1>2
  <2>2. \A x : IsDrain(c, x) <=> IsDrain(calls[j], x) BY <1>1, <1>2 DEF IsDrain, Call
  <2>3. c.id = calls[j].id /\ c.sock = calls[j].sock BY <1>1, <1>2 DEF Call
  <2>4. /\ r \in Seq(Call) /\ Len(r) = Len(calls)
        /\ \A i \in 1..Len(calls) : r[i] = IF i = j THEN c ELSE calls[i]
        /\ \A x : NoDrain(x, calls) => NoDrain(x, r)
        /\ \A x, e : OneDrain(x, calls, e) => OneDrain(x, r, e)
    <3>1. ASSUME NEW x, NEW e
          PROVE  /\ r \in Seq(Call) /\ Len(r) = Len(calls)
                 /\ \A i \in 1..Len(calls) : r[i] = IF i = j THEN c ELSE calls[i]
                 /\ NoDrain(x, calls) => NoDrain(x, r)
                 /\ OneDrain(x, calls, e) => OneDrain(x, r, e)
      <4>1. IsDrain(c, x) <=> IsDrain(calls[j], x) BY <2>2
      <4>2. /\ r \in Seq(Call) /\ Len(r) = Len(calls)
            /\ \A i \in 1..Len(calls) : r[i] = IF i = j THEN c ELSE calls[i]
        BY <1>1, ExceptSeq
      <4> HIDE DEF r
      <4> QED BY <1>1, <2>3, <4>1, <4>2, DrainReplace
    <3> HIDE DEF r
    <3> QED BY <3>1
  <2> HIDE DEF r
  <2>5. \A x : Same(x, r) BY <2>4 DEF Same
  <2> QED BY <2>1, <2>4, <2>5
<1>3. ASSUME NEW c \in Call, c = [calls[j] EXCEPT !.waiting = FALSE]
      PROVE  LET r == [calls EXCEPT ![j].waiting = FALSE] IN
              /\ r \in Seq(Call) /\ Len(r) = Len(calls)
              /\ \A x : ~IsDrain(calls[j], x) => Same(x, r)
              /\ \A x, e : IsDrain(calls[j], x) /\ OneDrain(x, calls, e) => NoDrain(x, r)
              /\ \A i \in 1..Len(calls) : i # j => r[i] = calls[i]
              /\ r[j] = c
  <2> DEFINE r == [calls EXCEPT ![j] = c]
  <2>1. r = [calls EXCEPT ![j].waiting = FALSE] BY <1>3
  <2>2. \A x : ~IsDrain(c, x) BY <1>1, <1>3 DEF IsDrain, Call
  <2>3. c.id = calls[j].id /\ c.sock = calls[j].sock BY <1>1, <1>3 DEF Call
  <2>4. /\ r \in Seq(Call) /\ Len(r) = Len(calls)
        /\ \A i \in 1..Len(calls) : r[i] = IF i = j THEN c ELSE calls[i]
        /\ \A x : NoDrain(x, calls) => NoDrain(x, r)
        /\ \A x, e : ~IsDrain(calls[j], x) /\ OneDrain(x, calls, e) => OneDrain(x, r, e)
        /\ \A x, e : IsDrain(calls[j], x) /\ OneDrain(x, calls, e) => NoDrain(x, r)
    <3>1. ASSUME NEW x, NEW e
          PROVE  /\ r \in Seq(Call) /\ Len(r) = Len(calls)
                 /\ \A i \in 1..Len(calls) : r[i] = IF i = j THEN c ELSE calls[i]
                 /\ NoDrain(x, calls) => NoDrain(x, r)
                 /\ ~IsDrain(calls[j], x) /\ OneDrain(x, calls, e) => OneDrain(x, r, e)
                 /\ IsDrain(calls[j], x) /\ OneDrain(x, calls, e) => NoDrain(x, r)
      <4>1. ~IsDrain(c, x) BY <2>2
      <4>2. /\ r \in Seq(Call) /\ Len(r) = Len(calls)
            /\ \A i \in 1..Len(calls) : r[i] = IF i = j THEN c ELSE calls[i]
        BY <1>1, ExceptSeq
      <4> HIDE DEF r
      <4> QED BY <1>1, <2>3, <4>1, <4>2, DrainReplace
    <3> HIDE DEF r
    <3> QED BY <3>1
  <2> HIDE DEF r
  <2>5. \A x : ~IsDrain(calls[j], x) => Same(x, r) BY <2>4 DEF Same
  <2> QED BY <2>1, <2>4, <2>5
<1>4. [calls[j] EXCEPT !.written = TRUE] \in Call /\ [calls[j] EXCEPT !.waiting = FALSE] \in Call
  BY <1>1 DEF Call
<1> QED BY <1>2, <1>3, <1>4

LEMMA NodeWritesT ==
  ASSUME Types, Drains, NodeWrites
  PROVE  Types' /\ Drains'
<1>1. PICK j \in 1..Len(calls) :
        /\ pane' = [pane EXCEPT ![calls[j].sess] = Append(@, calls[j].id)]
        /\ calls' = IF calls[j].waiting THEN [calls EXCEPT ![j].written = TRUE] ELSE RemoveAt(calls, j)
        /\ UNCHANGED <<client, wire, plane, up, history>>
  BY CallsAre DEF NodeWrites
<1>2. calls[j].sess \in Sessions /\ calls[j].id \in Ids BY CallsAre DEF Call
<1>3. pane \in [Sessions -> Seq(Ids)] BY DEF Types, NodeT
<1>4. pane' \in [Sessions -> Seq(Ids)]
  <2>1. Append(pane[calls[j].sess], calls[j].id) \in Seq(Ids) BY <1>2, <1>3, ToSetAppend
  <2> QED BY <1>1, <1>2, <1>3, <2>1
<1>5. calls' \in Seq(Call) /\ \A x : Same(x, calls')
  <2>1. CASE calls[j].waiting BY <1>1, <2>1, MarkIs
  <2>2. CASE ~calls[j].waiting
    <3>1. \A x : ~IsDrain(calls[j], x) BY <2>2 DEF IsDrain
    <3> QED BY <1>1, <2>2, <3>1, RemoveOther
  <2> QED BY <2>1, <2>2
<1>6. PageT' /\ WireT' /\ HistoryT' BY <1>1 DEF Types, PageT, WireT, HistoryT, client, wire, history
<1>7. PlaneT' BY <1>1 DEF Types, PlaneT, plane
<1>8. NodeT' BY <1>1, <1>4, <1>5 DEF Types, NodeT
<1>9. Drains'
  <2>1. hold' = hold BY <1>1 DEF plane
  <2>2. \A x \in Sessions : DrainOf(x, calls', hold[x]) BY <1>5, SameDrain DEF Drains
  <2> QED BY <2>1, <2>2 DEF Drains
<1> QED BY <1>6, <1>7, <1>8, <1>9 DEF Types

LEMMA LinkDropsT ==
  ASSUME Types, Drains, LinkDrops
  PROVE  Types' /\ Drains'
<1>1. /\ up' = FALSE /\ faults' = faults + 1
      /\ UNCHANGED <<client, wire, plane, calls, pane, moved, dropped, doubted, stranded>>
  BY DEF LinkDrops
<1>2. PageT' /\ WireT' BY <1>1 DEF Types, PageT, WireT, client, wire
<1>3. PlaneT' /\ NodeT' /\ Drains' BY <1>1 DEF Types, PlaneT, NodeT, plane, Drains
<1>4. HistoryT' BY <1>1 DEF Types, HistoryT
<1> QED BY <1>2, <1>3, <1>4 DEF Types

LEMMA RememberIs ==
  ASSUME NEW w \in Seq(Ids), NEW id \in Ids, Len(w) <= Window
  PROVE  /\ Remember(w, id) \in Seq(Ids) /\ Len(Remember(w, id)) <= Window
         /\ ToSet(Remember(w, id)) \subseteq ToSet(w) \cup {id}
         /\ id \in ToSet(Remember(w, id))
<1>1. Window \in Nat \ {0} /\ Len(w) \in Nat BY BoundsAssumption, LenProperties
<1>2. CASE Contains(w, id)
  <2>1. Remember(w, id) = w BY <1>2 DEF Remember
  <2>2. id \in ToSet(w) BY <1>2 DEF Contains, ToSet
  <2> QED BY <2>1, <2>2
<1>3. CASE ~Contains(w, id) /\ Len(w) < Window
  <2>1. Remember(w, id) = Append(w, id) BY <1>3 DEF Remember
  <2> QED BY <1>1, <1>3, <2>1, ToSetAppend
<1>4. CASE ~Contains(w, id) /\ ~(Len(w) < Window)
  <2>1. Remember(w, id) = Append(Tail(w), id) BY <1>4 DEF Remember
  <2>2. w # <<>>
    <3>1. Len(w) # 0 BY <1>1, <1>4
    <3> QED BY <3>1
  <2>3. Tail(w) \in Seq(Ids) /\ Len(Tail(w)) = Len(w) - 1 /\ ToSet(Tail(w)) \subseteq ToSet(w)
    BY <2>2, ToSetTail
  <2> DEFINE t == Tail(w)
  <2> HIDE DEF t
  <2>4. t \in Seq(Ids) BY <2>3 DEF t
  <2>5. Append(t, id) \in Seq(Ids) /\ Len(Append(t, id)) = Len(t) + 1 /\ ToSet(Append(t, id)) = ToSet(t) \cup {id}
    BY <2>4, ToSetAppend
  <2> QED BY <1>1, <1>4, <2>1, <2>3, <2>5 DEF t
<1> QED BY <1>2, <1>3, <1>4

LEMMA ResolvedT ==
  ASSUME Types, Drains, NEW j \in DOMAIN calls, Resolved(j)
  PROVE  Types' /\ Drains'
<1> DEFINE c == calls[j] s == c.sess q == hold[s].queue rest == RemoveAt(calls, j)
<1>1. /\ c.waiting
      /\ window' = [window EXCEPT ![s] = Remember(@, c.id)]
      /\ doubted' = [doubted EXCEPT ![s] = @ \cup (Forgets(window[s], c.id) \cap Outstanding(s))]
      /\ Ack(s, c.sock, c.id, inbox)
      /\ IF c.via = "drain"
         THEN /\ hold' = [hold EXCEPT ![s] = Draining(s, Tail(q))]
              /\ calls' = rest \o Refires(s, Tail(q))
              /\ used' = used - 1 - Purged(Tail(q))
         ELSE /\ calls' = rest
              /\ used' = used - 1
              /\ UNCHANGED hold
      /\ UNCHANGED <<quota, typed, sock, status, up, pane, faults, moved, dropped, stranded>>
  BY DEF Resolved, NextToSettle
<1>2. j \in 1..Len(calls) /\ c \in Call BY CallsAre
<1>3. s \in Sessions /\ c.sock \in Sockets /\ c.id \in Ids BY <1>2 DEF Call
<1>4. calls \in Seq(Call) /\ hold \in [Sessions -> Hold] /\ used \in Int /\ inbox \in [Sockets -> Seq(Ids)]
      /\ window \in [Sessions -> Seq(Ids)] /\ \A x \in Sessions : Len(window[x]) <= Window
      /\ doubted \in [Sessions -> SUBSET Ids]
  BY DEF Types, NodeT, PlaneT, WireT, HistoryT
<1>5. rest \in Seq(Call) BY <1>2, <1>4, RemoveAtIs
<1>6. Remember(window[s], c.id) \in Seq(Ids) /\ Len(Remember(window[s], c.id)) <= Window
  BY <1>3, <1>4, RememberIs
<1>7. Forgets(window[s], c.id) \subseteq Ids
  <2>1. window[s] \in Seq(Ids) BY <1>3, <1>4
  <2>2. ToSet(window[s]) \subseteq Ids BY <2>1, ToSetIs
  <2> QED BY <2>2 DEF Forgets
<1> HIDE DEF c, s, q, rest
<1>8. /\ window' \in [Sessions -> Seq(Ids)] /\ \A x \in Sessions : Len(window'[x]) <= Window
      /\ doubted' \in [Sessions -> SUBSET Ids]
  BY <1>1, <1>3, <1>4, <1>6, <1>7
<1>9. /\ pending' \in [Sessions -> SUBSET Ids] /\ sent' \in [Sessions -> SUBSET Ids]
      /\ inbox' \in [Sockets -> Seq(Ids)]
      /\ \A x \in Sessions : Cardinality(pending'[x]) <= MaxPending
  BY <1>1, <1>3, <1>4, AckIs
<1>10. hold' \in [Sessions -> Hold] /\ calls' \in Seq(Call) /\ used' \in Int /\ Drains'
  <2>1. CASE c.via = "drain"
    <3>1. hold' = [hold EXCEPT ![s] = Draining(s, Tail(q))] /\ calls' = rest \o Refires(s, Tail(q))
          /\ used' = used - 1 - Purged(Tail(q))
      BY <1>1, <2>1
    <3>2. IsDrain(calls[j], s) BY <1>1, <2>1 DEF IsDrain, c, s
    <3>3. q # <<>> /\ NoDrain(s, rest) BY <1>2, <1>3, <3>2, Ends DEF q, rest
    <3>4. q \in Seq(Entry) BY <1>3, <1>4 DEF q, Hold
    <3>5. Tail(q) \in Seq(Entry) BY <3>3, <3>4, ToSetTail
    <3> DEFINE t == Tail(q)
    <3> HIDE DEF t
    <3>6. t \in Seq(Entry) BY <3>5 DEF t
    <3>7. /\ Draining(s, t) \in Hold
          /\ rest \o Refires(s, t) \in Seq(Call)
          /\ DrainOf(s, rest \o Refires(s, t), Draining(s, t))
          /\ \A x, e : x # s => /\ NoDrain(x, rest) => NoDrain(x, rest \o Refires(s, t))
                                /\ OneDrain(x, rest, e) => OneDrain(x, rest \o Refires(s, t), e)
      BY <1>3, <1>5, <3>3, <3>6, Refire
    <3>8. Purged(t) \in Int BY <3>6, ServableIs
    <3>9. hold' \in [Sessions -> Hold] /\ calls' \in Seq(Call) /\ used' \in Int
          /\ hold'[s] = Draining(s, t) /\ \A x \in Sessions : x # s => hold'[x] = hold[x]
      BY <1>3, <1>4, <3>1, <3>7, <3>8 DEF t
    <3>10. ASSUME NEW x \in Sessions, x # s PROVE DrainOf(x, calls', hold'[x])
      <4>1. ~IsDrain(calls[j], x) BY <3>10, <3>2 DEF IsDrain
      <4>2. Same(x, rest) BY <1>2, <4>1, RemoveOther DEF rest
      <4>3. DrainOf(x, rest, hold[x]) BY <4>2, SameDrain DEF Drains
      <4>4. DrainOf(x, rest \o Refires(s, t), hold[x]) BY <3>7, <3>10, <4>3 DEF DrainOf
      <4> QED BY <3>1, <3>9, <3>10, <4>4 DEF t
    <3>11. DrainOf(s, calls', hold'[s]) BY <3>1, <3>7, <3>9 DEF t
    <3>12. Drains' BY <3>10, <3>11 DEF Drains
    <3> QED BY <3>9, <3>12
  <2>2. CASE c.via # "drain"
    <3>1. calls' = rest /\ used' = used - 1 /\ hold' = hold BY <1>1, <2>2
    <3>2. \A x : ~IsDrain(calls[j], x) BY <2>2 DEF IsDrain, c
    <3>3. \A x : Same(x, rest) BY <1>2, <3>2, RemoveOther DEF rest
    <3>4. \A x \in Sessions : DrainOf(x, rest, hold[x]) BY <3>3, SameDrain DEF Drains
    <3>5. Drains' BY <3>1, <3>4 DEF Drains
    <3> QED BY <1>4, <1>5, <3>1, <3>5
  <2> QED BY <2>1, <2>2
<1>11. PageT' /\ WireT' BY <1>1, <1>9 DEF Types, PageT, WireT
<1>12. PlaneT' /\ NodeT' /\ HistoryT' BY <1>1, <1>8, <1>10 DEF Types, PlaneT, NodeT, HistoryT
<1> QED BY <1>10, <1>11, <1>12 DEF Types

LEMMA AfterRejectionIs ==
  ASSUME Types, Drains, NEW j \in 1..Len(calls), NEW cs \in AfterRejection(j)
  PROVE  /\ cs \in Seq(Call)
         /\ \A x : ~IsDrain(calls[j], x) => Same(x, cs)
         /\ \A x \in Sessions : IsDrain(calls[j], x) => NoDrain(x, cs)
<1>1. CASE cs = RemoveAt(calls, j)
  <2>1. calls \in Seq(Call) BY CallsAre
  <2> QED BY <1>1, <2>1, RemoveAtIs, RemoveOther, Ends
<1>2. CASE cs = [calls EXCEPT ![j].waiting = FALSE]
  <2>1. /\ cs \in Seq(Call)
        /\ \A x : ~IsDrain(calls[j], x) => Same(x, cs)
        /\ \A x, e : IsDrain(calls[j], x) /\ OneDrain(x, calls, e) => NoDrain(x, cs)
    BY <1>2, MarkIs
  <2>2. ASSUME NEW x \in Sessions, IsDrain(calls[j], x) PROVE NoDrain(x, cs)
    <3>1. ~NoDrain(x, calls) BY <2>2 DEF NoDrain
    <3>2. OneDrain(x, calls, Head(hold[x].queue)) BY <3>1 DEF Drains, DrainOf
    <3> QED BY <2>1, <2>2, <3>2
  <2> QED BY <2>1, <2>2
<1> QED BY <1>1, <1>2 DEF AfterRejection

LEMMA RejectedT ==
  ASSUME Types, Drains, NEW j \in DOMAIN calls, Rejected(j)
  PROVE  Types' /\ Drains'
<1> DEFINE c == calls[j] e == [id |-> c.id, sock |-> c.sock]
<1>1. /\ c.waiting
      /\ IF up THEN faults < MaxFaults /\ faults' = faults + 1 ELSE UNCHANGED faults
      /\ UNCHANGED <<client, wire, window, up, pane, moved, dropped>>
  BY DEF Rejected, NextToSettle
<1>2. PICK cs \in AfterRejection(j) :
        /\ doubted' = IF c.written \/ Len(cs) = Len(calls)
                      THEN [doubted EXCEPT ![c.sess] = @ \cup {c.id}] ELSE doubted
        /\ \/ /\ c.via = "fresh"
              /\ status[c.sock] = "open"
              /\ HoldFailed(c.sess, e, cs, used - 1)
           \/ /\ c.via = "drain"
              /\ hold' = [hold EXCEPT ![c.sess].draining = FALSE]
              /\ calls' = cs
              /\ UNCHANGED <<used, stranded>>
           \/ /\ c.via = "dropped" \/ (c.via = "fresh" /\ status[c.sock] # "open")
              /\ calls' = cs
              /\ used' = used - 1
              /\ UNCHANGED <<hold, stranded>>
  BY DEF Rejected
<1>3. j \in 1..Len(calls) /\ c \in Call BY CallsAre
<1>4. c.sess \in Sessions /\ c.sock \in Sockets /\ c.id \in Ids /\ e \in Entry
  BY <1>3 DEF Call, Entry
<1>5. /\ hold \in [Sessions -> Hold] /\ used \in Int /\ used - 1 \in Int
      /\ doubted \in [Sessions -> SUBSET Ids] /\ stranded \in [Sessions -> SUBSET Ids]
      /\ faults \in Nat
  BY DEF Types, PlaneT, HistoryT
<1>6. /\ cs \in Seq(Call)
      /\ \A x : ~IsDrain(calls[j], x) => Same(x, cs)
      /\ \A x \in Sessions : IsDrain(calls[j], x) => NoDrain(x, cs)
  BY <1>2, <1>3, AfterRejectionIs
<1>7. doubted' \in [Sessions -> SUBSET Ids] /\ faults' \in Nat BY <1>1, <1>2, <1>4, <1>5
<1>8. c.via # "drain" => \A x \in Sessions : DrainOf(x, cs, hold[x])
  <2> SUFFICES ASSUME c.via # "drain", NEW x \in Sessions PROVE DrainOf(x, cs, hold[x])
    OBVIOUS
  <2>1. ~IsDrain(calls[j], x) BY DEF IsDrain
  <2> QED BY <1>6, <2>1, SameDrain DEF Drains
<1> HIDE DEF c, e
<1>9. /\ hold' \in [Sessions -> Hold] /\ calls' \in Seq(Call) /\ used' \in Int
      /\ Drains'
      /\ stranded' \in [Sessions -> SUBSET Ids]
  <2>1. CASE c.via = "fresh" /\ HoldFailed(c.sess, e, cs, used - 1)
    <3>1. \A x \in Sessions : DrainOf(x, cs, hold[x]) BY <1>8, <2>1
    <3> QED BY <1>4, <1>5, <1>6, <2>1, <3>1, HoldFailedT
  <2>2. CASE /\ c.via = "drain"
             /\ hold' = [hold EXCEPT ![c.sess].draining = FALSE]
             /\ calls' = cs
             /\ UNCHANGED <<used, stranded>>
    <3>1. hold' \in [Sessions -> Hold] BY <1>4, <1>5, <2>2 DEF Hold
    <3>2. ~hold'[c.sess].draining /\ \A x \in Sessions : x # c.sess => hold'[x] = hold[x]
      BY <1>4, <1>5, <2>2 DEF Hold
    <3>3. IsDrain(calls[j], c.sess) BY <1>1, <2>2 DEF IsDrain, c
    <3>4. NoDrain(c.sess, cs) BY <1>4, <1>6, <3>3
    <3>5. DrainOf(c.sess, cs, hold'[c.sess]) BY <3>2, <3>4 DEF DrainOf
    <3>6. ASSUME NEW x \in Sessions, x # c.sess PROVE DrainOf(x, cs, hold'[x])
      <4>1. ~IsDrain(calls[j], x) BY <3>6 DEF IsDrain, c
      <4>2. DrainOf(x, cs, hold[x]) BY <1>6, <4>1, SameDrain DEF Drains
      <4> QED BY <3>2, <3>6, <4>2
    <3>7. Drains' BY <2>2, <3>5, <3>6 DEF Drains
    <3> QED BY <1>5, <1>6, <2>2, <3>1, <3>7
  <2>3. CASE /\ c.via # "drain"
             /\ calls' = cs
             /\ used' = used - 1
             /\ UNCHANGED <<hold, stranded>>
    <3>1. Drains' BY <1>8, <2>3 DEF Drains
    <3> QED BY <1>5, <1>6, <2>3, <3>1
  <2> QED BY <1>2, <2>1, <2>2, <2>3
<1>10. PageT' /\ WireT' BY <1>1 DEF Types, PageT, WireT, client, wire
<1>11. PlaneT' /\ NodeT' BY <1>1, <1>9 DEF Types, PlaneT, NodeT
<1>12. HistoryT' BY <1>1, <1>7, <1>9 DEF Types, HistoryT
<1> QED BY <1>9, <1>10, <1>11, <1>12 DEF Types

\* The node's chain is lost: the writes that still wait for an answer stay, in
\* their order.
LEMMA ChainIsLostIs ==
  ASSUME Types, ChainIsLost
  PROVE  \E f \in [1..Len(calls') -> 1..Len(calls)] :
            /\ calls' \in Seq(Call) /\ Len(calls') \in Nat
            /\ \A n \in 1..Len(calls') : calls'[n] = calls[f[n]] /\ calls[f[n]].waiting
            /\ \A m, n \in 1..Len(calls') : m < n => f[m] < f[n]
            /\ \A i \in 1..Len(calls) : calls[i].waiting => \E n \in 1..Len(calls') : f[n] = i
<1> DEFINE K == {j \in DOMAIN calls : calls[j].waiting} f == InOrder(K) c == Cardinality(K)
<1>1. /\ calls \in Seq(Call) /\ Len(calls) \in Nat /\ DOMAIN calls = 1..Len(calls)
      /\ \A j \in 1..Len(calls) : calls[j] \in Call
  BY CallsAre
<1>2. K \subseteq 1..Len(calls) BY <1>1
<1>3. IsFiniteSet(K) /\ K \subseteq Nat
  <2>1. 1 \in Int /\ Len(calls) \in Int BY <1>1
  <2>2. IsFiniteSet(1..Len(calls)) BY <2>1, FS_Interval
  <2> QED BY <1>1, <1>2, <2>2, FS_Subset
<1>4. calls' = [n \in DOMAIN f |-> calls[f[n]]] BY DEF ChainIsLost
<1> HIDE DEF K
<1>5. /\ c \in Nat /\ f \in [1..c -> K] /\ DOMAIN f = 1..c
      /\ \A m, n \in 1..c : m < n => f[m] < f[n]
      /\ \A x \in K : \E n \in 1..c : f[n] = x
  BY <1>3, InOrderIs
<1> HIDE DEF f, c
<1>6. f \in [1..c -> 1..Len(calls)] BY <1>2, <1>5
<1>7. calls' = [n \in 1..c |-> calls[f[n]]] BY <1>4, <1>5
<1>8. \A n \in 1..c : calls[f[n]] \in Call BY <1>1, <1>6
<1>9. calls' \in Seq(Call) /\ Len(calls') = c BY <1>5, <1>7, <1>8
<1>10. \A n \in 1..c : calls'[n] = calls[f[n]] /\ calls[f[n]].waiting BY <1>5, <1>7 DEF K
<1>11. \A i \in 1..Len(calls) : calls[i].waiting => \E n \in 1..c : f[n] = i BY <1>1, <1>5 DEF K
<1>12. 1..Len(calls') = 1..c BY <1>9
<1> QED BY <1>5, <1>6, <1>9, <1>10, <1>11, <1>12

LEMMA ChainIsLostT ==
  ASSUME Types, Drains, ChainIsLost
  PROVE  Types' /\ Drains'
<1>1. PICK f \in [1..Len(calls') -> 1..Len(calls)] :
        /\ calls' \in Seq(Call) /\ Len(calls') \in Nat
        /\ \A n \in 1..Len(calls') : calls'[n] = calls[f[n]] /\ calls[f[n]].waiting
        /\ \A m, n \in 1..Len(calls') : m < n => f[m] < f[n]
        /\ \A i \in 1..Len(calls) : calls[i].waiting => \E n \in 1..Len(calls') : f[n] = i
  BY ChainIsLostIs
<1>2. UNCHANGED <<client, wire, plane, up, pane, history>> BY DEF ChainIsLost
<1>3. ASSUME NEW x, NoDrain(x, calls) PROVE NoDrain(x, calls')
  <2>1. \A n \in 1..Len(calls') : ~IsDrain(calls'[n], x) BY <1>1, <1>3 DEF NoDrain
  <2> QED BY <2>1 DEF NoDrain
<1>4. ASSUME NEW x, NEW e, OneDrain(x, calls, e) PROVE OneDrain(x, calls', e)
  <2>1. PICK j \in 1..Len(calls) : /\ IsDrain(calls[j], x) /\ calls[j].id = e.id /\ calls[j].sock = e.sock
                                   /\ \A i \in 1..Len(calls) : IsDrain(calls[i], x) => i = j
    BY <1>4 DEF OneDrain
  <2>2. calls[j].waiting BY <2>1 DEF IsDrain
  <2>3. PICK n \in 1..Len(calls') : f[n] = j BY <1>1, <2>2
  <2>4. IsDrain(calls'[n], x) /\ calls'[n].id = e.id /\ calls'[n].sock = e.sock BY <1>1, <2>1, <2>3
  <2>5. ASSUME NEW m \in 1..Len(calls'), IsDrain(calls'[m], x) PROVE m = n
    <3>1. f[m] = j BY <1>1, <2>1, <2>5
    <3>2. ~(m < n) /\ ~(n < m)
      <4>1. f[m] \in 1..Len(calls) /\ f[n] \in 1..Len(calls) BY <1>1
      <4>2. Len(calls) \in Nat BY CallsAre
      <4> QED BY <1>1, <2>3, <3>1, <4>1, <4>2
    <3> QED BY <1>1, <3>2
  <2> QED BY <2>4, <2>5 DEF OneDrain
<1>5. \A x : Same(x, calls') BY <1>3, <1>4 DEF Same
<1>6. PageT' /\ WireT' /\ HistoryT' BY <1>2 DEF Types, PageT, WireT, HistoryT, client, wire, history
<1>7. PlaneT' /\ NodeT' BY <1>1, <1>2 DEF Types, PlaneT, NodeT, plane
<1>8. Drains'
  <2>1. hold' = hold BY <1>2 DEF plane
  <2>2. \A x \in Sessions : DrainOf(x, calls', hold[x]) BY <1>5, SameDrain DEF Drains
  <2> QED BY <2>1, <2>2 DEF Drains
<1> QED BY <1>6, <1>7, <1>8 DEF Types

\* The sessions with something to write again, when the node is back.
Refired == {s \in Sessions : Servable(hold[s].queue) # <<>>}
Again(s) == Dispatch(s, Head(Servable(hold[s].queue)), "drain")

LEMMA NodeReadyIs ==
  ASSUME Types, NodeReady
  PROVE  \E R \in Seq(Call) : \E order \in [1..Len(R) -> Refired] :
            /\ calls' = calls \o R /\ Len(R) \in Nat /\ Len(R) = Cardinality(Refired)
            /\ \A n \in 1..Len(R) : R[n] = Again(order[n])
            /\ \A m, n \in 1..Len(R) : order[m] = order[n] => m = n
            /\ \A s \in Refired : \E n \in 1..Len(R) : order[n] = s
<1> DEFINE c == Cardinality(Refired)
<1>1. PICK order \in [1..c -> Refired] :
        /\ \A m, n \in DOMAIN order : order[m] = order[n] => m = n
        /\ calls' = calls \o [n \in DOMAIN order |-> Again(order[n])]
  BY DEF NodeReady, Refired, Again
<1> DEFINE R == [n \in DOMAIN order |-> Again(order[n])]
<1>2. IsFiniteSet(Refired) BY SessionsAssumption, FS_Subset DEF Refired
<1>3. c \in Nat BY <1>2, FS_CardinalityType
<1>4. \A s \in Refired : Again(s) \in Call
  <2> SUFFICES ASSUME NEW s \in Refired PROVE Again(s) \in Call
    OBVIOUS
  <2>1. s \in Sessions /\ Servable(hold[s].queue) # <<>> BY DEF Refired
  <2>2. hold[s].queue \in Seq(Entry) BY <2>1 DEF Types, PlaneT, Hold
  <2>3. Servable(hold[s].queue) \in Seq(Entry) BY <2>2, ServableIs
  <2>4. Head(Servable(hold[s].queue)) \in Entry BY <2>1, <2>3, ToSetTail
  <2> QED BY <2>1, <2>4, DispatchIs DEF Again
<1>5. DOMAIN order = 1..c BY <1>1
<1> HIDE DEF c
<1>6. R = [n \in 1..c |-> Again(order[n])] BY <1>5
<1>7. \A n \in 1..c : Again(order[n]) \in Call BY <1>1, <1>4
<1>8. R \in Seq(Call) /\ Len(R) = c BY <1>3, <1>6, <1>7
<1>9. \A n \in 1..c : R[n] = Again(order[n]) BY <1>6
<1>10. calls' = calls \o R BY <1>1
<1> HIDE DEF R
<1>11. \A m, n \in 1..c : order[m] = order[n] => m = n BY <1>1, <1>5
<1>12. order \in Injection(1..c, Refired) BY <1>1, <1>11, Fun_IsInj
<1>13. IsFiniteSet(1..c) /\ Cardinality(1..c) = c BY <1>3, FS_Interval
<1>14. order \in Surjection(1..c, Refired) BY <1>2, <1>12, <1>13, FS_Injection DEF c
<1>15. \A s \in Refired : \E n \in 1..c : order[n] = s BY <1>14 DEF Surjection
<1>16. 1..Len(R) = 1..c BY <1>8
<1>17. order \in [1..Len(R) -> Refired] BY <1>1, <1>16 DEF c
<1>18. Len(R) \in Nat /\ Len(R) = Cardinality(Refired) BY <1>3, <1>8 DEF c
<1> QED BY <1>8, <1>9, <1>10, <1>11, <1>15, <1>16, <1>17, <1>18

LEMMA NodeReadyT ==
  ASSUME Types, Drains, NodeReady
  PROVE  Types' /\ Drains'
<1> DEFINE N == Len(calls)
<1>0. PICK R \in Seq(Call) : \E order \in [1..Len(R) -> Refired] :
        /\ calls' = calls \o R /\ Len(R) \in Nat
        /\ \A n \in 1..Len(R) : R[n] = Again(order[n])
        /\ \A m, n \in 1..Len(R) : order[m] = order[n] => m = n
        /\ \A s \in Refired : \E n \in 1..Len(R) : order[n] = s
  BY NodeReadyIs
<1>1. PICK order \in [1..Len(R) -> Refired] :
        /\ calls' = calls \o R /\ Len(R) \in Nat
        /\ \A n \in 1..Len(R) : R[n] = Again(order[n])
        /\ \A m, n \in 1..Len(R) : order[m] = order[n] => m = n
        /\ \A s \in Refired : \E n \in 1..Len(R) : order[n] = s
  BY <1>0
<1>2. /\ \A j \in DOMAIN calls : ~calls[j].waiting
      /\ up' = TRUE
      /\ hold' = [s \in Sessions |-> Draining(s, hold[s].queue)]
      /\ used' = used - Cardinality(UNION {{s} \X (1..Purged(hold[s].queue)) : s \in Sessions})
      /\ UNCHANGED <<client, wire, window, pane, history>>
  BY DEF NodeReady
<1>3. /\ calls \in Seq(Call) /\ N \in Nat /\ DOMAIN calls = 1..N
      /\ \A j \in 1..N : calls[j] \in Call
  BY CallsAre
<1>4. /\ calls' \in Seq(Call) /\ Len(calls') = N + Len(R)
      /\ \A n \in 1..(N + Len(R)) : calls'[n] = IF n <= N THEN calls[n] ELSE R[n - N]
  BY <1>1, <1>3, ConcatProperties
<1>5. \A n \in 1..N : ~calls'[n].waiting BY <1>1, <1>2, <1>3, <1>4
<1>6. ASSUME NEW s \in Sessions
      PROVE  /\ hold[s].queue \in Seq(Entry) /\ Servable(hold[s].queue) \in Seq(Entry)
             /\ Purged(hold[s].queue) \in Nat
             /\ Draining(s, hold[s].queue) \in Hold
             /\ Servable(hold[s].queue) # <<>> =>
                  /\ Again(s) \in Call /\ IsDrain(Again(s), s)
                  /\ \A x \in Sessions : IsDrain(Again(s), x) => x = s
                  /\ Again(s).id = Head(Servable(hold[s].queue)).id
                  /\ Again(s).sock = Head(Servable(hold[s].queue)).sock
  <2>1. hold[s].queue \in Seq(Entry) BY DEF Types, PlaneT, Hold
  <2>2. Servable(hold[s].queue) \in Seq(Entry) /\ Purged(hold[s].queue) \in Nat
    <3> DEFINE q == hold[s].queue
    <3>1. Len(q) \in Nat BY <2>1, LenProperties
    <3> HIDE DEF q
    <3>2. \E d \in 0..Len(q) : Servable(q) \in Seq(Entry) /\ Purged(q) = d
      BY <2>1, ServableIs DEF q
    <3>3. Servable(q) \in Seq(Entry) /\ Purged(q) \in Nat BY <3>1, <3>2
    <3> QED BY <3>3 DEF q
  <2>3. Draining(s, hold[s].queue) \in Hold BY <2>2 DEF Draining, Hold
  <2>4. ASSUME Servable(hold[s].queue) # <<>>
        PROVE  /\ Again(s) \in Call /\ IsDrain(Again(s), s)
               /\ \A x \in Sessions : IsDrain(Again(s), x) => x = s
               /\ Again(s).id = Head(Servable(hold[s].queue)).id
               /\ Again(s).sock = Head(Servable(hold[s].queue)).sock
    <3>1. Head(Servable(hold[s].queue)) \in Entry BY <2>2, <2>4, ToSetTail
    <3> QED BY <3>1, DispatchIs DEF Again, IsDrain
  <2> QED BY <2>1, <2>2, <2>3, <2>4
<1>7. hold' \in [Sessions -> Hold] BY <1>2, <1>6
<1>8. used' \in Int
  <2> DEFINE P(s) == {s} \X (1..Purged(hold[s].queue))
             U == UNION {P(s) : s \in Sessions}
  <2>1. \A s \in Sessions : IsFiniteSet(P(s))
    <3> SUFFICES ASSUME NEW s \in Sessions PROVE IsFiniteSet(P(s))
      OBVIOUS
    <3>1. Purged(hold[s].queue) \in Int /\ 1 \in Int BY <1>6
    <3>2. IsFiniteSet(1..Purged(hold[s].queue)) /\ IsFiniteSet({s}) BY <3>1, FS_Interval, FS_Singleton
    <3> QED BY <3>2, FS_Product
  <2> HIDE DEF P
  <2>2. IsFiniteSet({P(s) : s \in Sessions})
    <3> DEFINE g == [s \in Sessions |-> P(s)]
    <3>1. g \in Surjection(Sessions, {P(s) : s \in Sessions}) BY DEF Surjection
    <3> QED BY <3>1, SessionsAssumption, FS_Surjection
  <2>3. IsFiniteSet(U) BY <2>1, <2>2, FS_UNION
  <2>4. Cardinality(U) \in Nat BY <2>3, FS_CardinalityType
  <2>5. used' = used - Cardinality(U) BY <1>2 DEF P
  <2>6. used \in Int BY DEF Types, PlaneT
  <2> QED BY <2>4, <2>5, <2>6
<1>9. ASSUME NEW s \in Sessions PROVE DrainOf(s, calls', hold'[s])
  <2> DEFINE t == Servable(hold[s].queue)
  <2>1. hold'[s] = [queue |-> t, draining |-> t # <<>>] BY <1>2 DEF Draining
  <2>2. \A n \in 1..Len(calls') : IsDrain(calls'[n], s) => n - N \in 1..Len(R) /\ order[n - N] = s
    <3> SUFFICES ASSUME NEW n \in 1..Len(calls'), IsDrain(calls'[n], s)
                 PROVE  n - N \in 1..Len(R) /\ order[n - N] = s
      OBVIOUS
    <3>1. ~(n <= N) BY <1>3, <1>4, <1>5 DEF IsDrain
    <3>2. n - N \in 1..Len(R) /\ calls'[n] = R[n - N] BY <1>1, <1>3, <1>4, <3>1
    <3>3. order[n - N] \in Refired BY <1>1, <3>2
    <3>4. calls'[n] = Again(order[n - N]) BY <1>1, <3>2
    <3> QED BY <1>6, <3>2, <3>3, <3>4 DEF Refired
  <2>3. CASE t = <<>>
    <3>1. s \notin Refired BY <2>3 DEF Refired
    <3>2. NoDrain(s, calls')
      <4>1. ASSUME NEW n \in 1..Len(calls'), IsDrain(calls'[n], s) PROVE FALSE
        <5>1. n - N \in 1..Len(R) /\ order[n - N] = s BY <2>2, <4>1
        <5>2. order[n - N] \in Refired BY <1>1, <5>1
        <5> QED BY <3>1, <5>1, <5>2
      <4> QED BY <4>1 DEF NoDrain
    <3>3. (t # <<>>) = FALSE BY <2>3
    <3>4. hold'[s] = [queue |-> t, draining |-> FALSE] BY <2>1, <3>3, Zenon
    <3>5. hold'[s].draining = FALSE BY <3>4
    <3> QED BY <3>2, <3>5 DEF DrainOf
  <2>4. CASE t # <<>>
    <3>1. s \in Refired BY <2>4 DEF Refired
    <3>2. PICK m \in 1..Len(R) : order[m] = s BY <1>1, <3>1
    <3>3. m + N \in 1..Len(calls') /\ calls'[m + N] = Again(s)
      <4>1. m + N \in 1..(N + Len(R)) /\ ~(m + N <= N) /\ (m + N) - N = m BY <1>1, <1>3
      <4> QED BY <1>1, <1>4, <3>2, <4>1
    <3>4. IsDrain(calls'[m + N], s) /\ calls'[m + N].id = Head(t).id /\ calls'[m + N].sock = Head(t).sock
      BY <1>6, <2>4, <3>3
    <3>5. ASSUME NEW n \in 1..Len(calls'), IsDrain(calls'[n], s) PROVE n = m + N
      <4>1. n - N \in 1..Len(R) /\ order[n - N] = s BY <2>2, <3>5
      <4>2. n - N = m BY <1>1, <3>2, <4>1
      <4> QED BY <1>1, <1>3, <1>4, <4>2
    <3>6. OneDrain(s, calls', Head(t)) BY <3>3, <3>4, <3>5 DEF OneDrain
    <3>7. (t # <<>>) = TRUE BY <2>4
    <3>8. hold'[s] = [queue |-> t, draining |-> TRUE] BY <2>1, <3>7, Zenon
    <3>9. hold'[s].draining = TRUE /\ hold'[s].queue = t BY <3>8
    <3> QED BY <2>4, <3>6, <3>9 DEF DrainOf
  <2> QED BY <2>3, <2>4
<1>10. Drains' BY <1>9 DEF Drains
<1>11. PageT' /\ WireT' /\ HistoryT' BY <1>2 DEF Types, PageT, WireT, HistoryT, client, wire, history
<1>12. PlaneT' /\ NodeT' BY <1>2, <1>4, <1>7, <1>8 DEF Types, PlaneT, NodeT
<1> QED BY <1>10, <1>11, <1>12 DEF Types

LEMMA InitT == Init => Types /\ Drains
<1> SUFFICES ASSUME Init PROVE Types /\ Drains
  OBVIOUS
<1>1. <<>> \in Seq(Ids) /\ <<>> \in Seq(Entry) /\ <<>> \in Seq(Call) /\ Len(<<>>) = 0 BY EmptySeq
<1>2. MaxId \in Nat /\ MaxPending \in Nat /\ Window \in Nat /\ Cardinality({}) = 0
  BY BoundsAssumption, FS_EmptySet
<1>3. PageT BY <1>2 DEF Init, PageT
<1>4. WireT BY <1>1 DEF Init, WireT
<1>5. NoHold \in Hold BY <1>1 DEF NoHold, Hold
<1>6. PlaneT BY <1>1, <1>2, <1>5 DEF Init, PlaneT
<1>7. NodeT BY <1>1 DEF Init, NodeT
<1>8. HistoryT BY DEF Init, HistoryT
<1>9. Drains
  <2>1. \A s \in Sessions : ~hold[s].draining BY DEF Init, NoHold
  <2>2. \A s : NoDrain(s, calls) BY <1>1 DEF Init, NoDrain
  <2> QED BY <2>1, <2>2 DEF Drains, DrainOf
<1> QED BY <1>3, <1>4, <1>6, <1>7, <1>8, <1>9 DEF Types

LEMMA NextT ==
  ASSUME Types, Drains, [Next]_vars
  PROVE  Types' /\ Drains'
<1>1. CASE \E s \in Sessions : Type(s) \/ WindowFires(s) \/ PageLosesSocket(s)
  BY <1>1, TypeT, WindowFiresT, PageLosesSocketT
<1>2. CASE \E s \in Sessions, k \in Sockets : Attach(s, k) BY <1>2, AttachT
<1>3. CASE \E k \in Sockets : IgnoreFrame(k) \/ AckAgain(k) \/ JoinHold(k) \/ WriteFrame(k)
                                 \/ WriteReclaiming(k) \/ RefuseFrame(k) \/ PlaneSeesClose(k)
  BY <1>3, IgnoreFrameT, AckAgainT, JoinHoldT, WriteFrameT, WriteReclaimingT, RefuseFrameT, PlaneSeesCloseT
<1>4. CASE NodeWrites \/ LinkDrops \/ ChainIsLost \/ NodeReady
  BY <1>4, NodeWritesT, LinkDropsT, ChainIsLostT, NodeReadyT
<1>5. CASE \E j \in DOMAIN calls : Resolved(j) \/ Rejected(j) BY <1>5, ResolvedT, RejectedT
<1>6. CASE UNCHANGED vars
  <2>1. UNCHANGED <<client, wire, plane, up, calls, pane, history>> BY <1>6 DEF vars, wire, plane, history
  <2>2. PageT' /\ WireT' BY <2>1 DEF Types, PageT, WireT, client, wire
  <2>3. PlaneT' /\ NodeT' /\ Drains' BY <2>1 DEF Types, PlaneT, NodeT, plane, Drains
  <2>4. HistoryT' BY <2>1 DEF Types, HistoryT, history
  <2> QED BY <2>2, <2>3, <2>4 DEF Types
<1> QED BY <1>1, <1>2, <1>3, <1>4, <1>5, <1>6, NextCases

-----------------------------------------------------------------------------
(* The budget                                                              *)

\* Two sets in one-to-one correspondence.
LEMMA OneToOne ==
  ASSUME NEW S, NEW T, IsFiniteSet(S), NEW f \in [S -> T],
         \A a, b \in S : f[a] = f[b] => a = b,
         \A t \in T : \E a \in S : f[a] = t
  PROVE  IsFiniteSet(T) /\ Cardinality(T) = Cardinality(S)
<1>1. f \in Injection(S, T) BY Fun_IsInj
<1>2. f \in Surjection(S, T) BY Fun_IsSurj
<1> QED BY <1>1, <1>2, FS_Surjection

\* The writes a chain is charged for.
Counts(c) == c.waiting /\ c.via \in {"fresh", "dropped"}
Charged(cs) == {j \in 1..Len(cs) : Counts(cs[j])}

LEMMA ChargedFinite ==
  ASSUME NEW cs \in Seq(Call)
  PROVE  IsFiniteSet(Charged(cs)) /\ Cardinality(Charged(cs)) \in Nat
<1>1. 1 \in Int /\ Len(cs) \in Int BY LenProperties
<1>2. IsFiniteSet(1..Len(cs)) BY <1>1, FS_Interval
<1>3. Charged(cs) \subseteq 1..Len(cs) BY DEF Charged
<1>4. IsFiniteSet(Charged(cs)) BY <1>2, <1>3, FS_Subset
<1> QED BY <1>4, FS_CardinalityType

LEMMA ChargedAppend ==
  ASSUME NEW cs \in Seq(Call), NEW c \in Call
  PROVE  Cardinality(Charged(Append(cs, c))) =
           Cardinality(Charged(cs)) + (IF Counts(c) THEN 1 ELSE 0)
<1> DEFINE r == Append(cs, c)
<1>1. /\ Len(r) = Len(cs) + 1
      /\ \A n \in 1..Len(cs) : r[n] = cs[n]
      /\ r[Len(cs) + 1] = c
  BY ToSetAppend
<1> HIDE DEF r
<1>2. Len(cs) \in Nat BY LenProperties
<1>3. IsFiniteSet(Charged(cs)) /\ Cardinality(Charged(cs)) \in Nat BY ChargedFinite
<1>4. Len(cs) + 1 \notin Charged(cs) BY <1>2 DEF Charged
<1>5. \A n \in 1..Len(r) : n \in 1..Len(cs) \/ n = Len(cs) + 1 BY <1>1, <1>2
<1>6. \A n \in 1..Len(cs) : n \in 1..Len(r) BY <1>1, <1>2
<1>7. Len(cs) + 1 \in 1..Len(r) BY <1>1, <1>2
<1>8. CASE Counts(c)
  <2>1. Charged(r) = Charged(cs) \cup {Len(cs) + 1} BY <1>1, <1>5, <1>6, <1>7, <1>8 DEF Charged
  <2> QED BY <1>3, <1>4, <1>8, <2>1, FS_AddElement DEF r
<1>9. CASE ~Counts(c)
  <2>1. Charged(r) = Charged(cs) BY <1>1, <1>5, <1>6, <1>9 DEF Charged
  <2> QED BY <1>3, <1>9, <2>1 DEF r
<1> QED BY <1>8, <1>9

LEMMA ChargedRemove ==
  ASSUME NEW cs \in Seq(Call), NEW j \in 1..Len(cs)
  PROVE  Cardinality(Charged(RemoveAt(cs, j))) =
           Cardinality(Charged(cs)) - (IF Counts(cs[j]) THEN 1 ELSE 0)
<1> DEFINE r == RemoveAt(cs, j)
<1>1. /\ r \in Seq(Call) /\ Len(r) = Len(cs) - 1
      /\ \A n \in 1..(Len(cs) - 1) : r[n] = IF n < j THEN cs[n] ELSE cs[n + 1]
  BY RemoveAtIs
<1> HIDE DEF r
<1>2. Len(cs) \in Nat BY LenProperties
<1>3. IsFiniteSet(Charged(cs)) /\ Cardinality(Charged(cs)) \in Nat /\ IsFiniteSet(Charged(r))
  BY <1>1, ChargedFinite
<1> DEFINE T == Charged(cs) \ {j}
           f == [n \in Charged(r) |-> IF n < j THEN n ELSE n + 1]
<1>4. f \in [Charged(r) -> T]
  <2> SUFFICES ASSUME NEW n \in Charged(r) PROVE (IF n < j THEN n ELSE n + 1) \in T
    OBVIOUS
  <2>1. n \in 1..(Len(cs) - 1) /\ Counts(r[n]) BY <1>1 DEF Charged
  <2>2. CASE n < j
    <3>1. n \in 1..Len(cs) /\ n # j /\ Counts(cs[n]) BY <1>1, <1>2, <2>1, <2>2
    <3> QED BY <2>2, <3>1 DEF Charged
  <2>3. CASE ~(n < j)
    <3>1. n + 1 \in 1..Len(cs) /\ n + 1 # j /\ Counts(cs[n + 1]) BY <1>1, <1>2, <2>1, <2>3
    <3> QED BY <2>3, <3>1 DEF Charged
  <2> QED BY <2>2, <2>3
<1>5. \A a, b \in Charged(r) : f[a] = f[b] => a = b
  <2>1. \A a \in Charged(r) : a \in Nat BY <1>1, <1>2 DEF Charged
  <2> QED BY <2>1
<1>6. \A t \in T : \E a \in Charged(r) : f[a] = t
  <2> SUFFICES ASSUME NEW t \in T PROVE \E a \in Charged(r) : f[a] = t
    OBVIOUS
  <2>1. t \in 1..Len(cs) /\ Counts(cs[t]) /\ t # j BY DEF Charged
  <2>2. CASE t < j
    <3>1. t \in 1..Len(r) /\ r[t] = cs[t] BY <1>1, <1>2, <2>1, <2>2
    <3>2. t \in Charged(r) BY <2>1, <3>1 DEF Charged
    <3> QED BY <2>2, <3>2
  <2>3. CASE ~(t < j)
    <3>1. t - 1 \in 1..Len(r) /\ ~(t - 1 < j) /\ (t - 1) + 1 = t BY <1>1, <1>2, <2>1, <2>3
    <3>2. r[t - 1] = cs[t] BY <1>1, <3>1
    <3>3. t - 1 \in Charged(r) BY <2>1, <3>1, <3>2 DEF Charged
    <3> QED BY <3>1, <3>3
  <2> QED BY <2>2, <2>3
<1> HIDE DEF f, T
<1>7. Cardinality(T) = Cardinality(Charged(r)) BY <1>3, <1>4, <1>5, <1>6, OneToOne
<1>8. j \in Charged(cs) <=> Counts(cs[j]) BY DEF Charged
<1>9. Cardinality(T) = Cardinality(Charged(cs)) - (IF Counts(cs[j]) THEN 1 ELSE 0)
  <2>1. Cardinality(Charged(cs) \ {j}) =
          IF j \in Charged(cs) THEN Cardinality(Charged(cs)) - 1 ELSE Cardinality(Charged(cs))
    BY <1>3, FS_RemoveElement
  <2> QED BY <1>3, <1>8, <2>1 DEF T
<1> QED BY <1>7, <1>9 DEF r

\* A chain that is charged for the same writes.
LEMMA ChargedSame ==
  ASSUME NEW cs, NEW r, Len(r) = Len(cs),
         \A n \in 1..Len(cs) : Counts(r[n]) <=> Counts(cs[n])
  PROVE  Charged(r) = Charged(cs)
BY DEF Charged

LEMMA ChargedConcat ==
  ASSUME NEW cs \in Seq(Call), NEW r \in Seq(Call), \A n \in 1..Len(r) : ~Counts(r[n])
  PROVE  Charged(cs \o r) = Charged(cs)
<1> DEFINE t == cs \o r
<1>1. /\ Len(t) = Len(cs) + Len(r)
      /\ \A n \in 1..(Len(cs) + Len(r)) : t[n] = IF n <= Len(cs) THEN cs[n] ELSE r[n - Len(cs)]
  BY ConcatProperties
<1>2. Len(cs) \in Nat /\ Len(r) \in Nat BY LenProperties
<1> HIDE DEF t
<1>3. \A n \in 1..Len(cs) : n \in 1..Len(t) /\ t[n] = cs[n] BY <1>1, <1>2
<1>4. \A n \in 1..Len(t) : n \in 1..Len(cs) \/ ~Counts(t[n])
  <2> SUFFICES ASSUME NEW n \in 1..Len(t), n \notin 1..Len(cs) PROVE ~Counts(t[n])
    OBVIOUS
  <2>1. ~(n <= Len(cs)) /\ n - Len(cs) \in 1..Len(r) BY <1>1, <1>2
  <2>2. t[n] = r[n - Len(cs)] BY <1>1, <2>1
  <2> QED BY <2>1, <2>2
<1> QED BY <1>3, <1>4 DEF Charged, t

-----------------------------------------------------------------------------
(* The places the holds take up.                                           *)

Slots(h, S) == UNION {{s} \X DOMAIN h[s].queue : s \in S}

LEMMA SlotsFinite ==
  ASSUME NEW h \in [Sessions -> Hold], NEW S, S \subseteq Sessions
  PROVE  IsFiniteSet(Slots(h, S)) /\ Cardinality(Slots(h, S)) \in Nat
<1> DEFINE P(s) == {s} \X DOMAIN h[s].queue
<1>1. IsFiniteSet(S) BY SessionsAssumption, FS_Subset
<1>2. \A s \in S : IsFiniteSet(P(s))
  <2> SUFFICES ASSUME NEW s \in S PROVE IsFiniteSet(P(s))
    OBVIOUS
  <2>1. h[s].queue \in Seq(Entry) BY DEF Hold
  <2>2. DOMAIN h[s].queue = 1..Len(h[s].queue) /\ Len(h[s].queue) \in Int /\ 1 \in Int BY <2>1, LenProperties
  <2>3. IsFiniteSet(1..Len(h[s].queue)) /\ IsFiniteSet({s}) BY <2>2, FS_Interval, FS_Singleton
  <2> QED BY <2>2, <2>3, FS_Product
<1> HIDE DEF P
<1>3. IsFiniteSet({P(s) : s \in S})
  <2> DEFINE g == [s \in S |-> P(s)]
  <2>1. g \in Surjection(S, {P(s) : s \in S}) BY DEF Surjection
  <2> QED BY <1>1, <2>1, FS_Surjection
<1>4. IsFiniteSet(UNION {P(s) : s \in S}) BY <1>2, <1>3, FS_UNION
<1>5. Slots(h, S) = UNION {P(s) : s \in S} BY DEF Slots, P
<1> QED BY <1>4, <1>5, FS_CardinalityType

LEMMA SlotsOf ==
  ASSUME NEW h \in [Sessions -> Hold], NEW s \in Sessions
  PROVE  Cardinality(Slots(h, Sessions)) =
           Cardinality(Slots(h, Sessions \ {s})) + Len(h[s].queue)
<1> DEFINE O == Slots(h, Sessions \ {s}) P == {s} \X DOMAIN h[s].queue
<1>1. h[s].queue \in Seq(Entry) BY DEF Hold
<1>2. DOMAIN h[s].queue = 1..Len(h[s].queue) /\ Len(h[s].queue) \in Nat /\ 1 \in Int BY <1>1, LenProperties
<1>3. IsFiniteSet(DOMAIN h[s].queue) /\ Cardinality(DOMAIN h[s].queue) = Len(h[s].queue)
  BY <1>2, FS_Interval
<1>4. IsFiniteSet({s}) /\ Cardinality({s}) = 1 BY FS_Singleton
<1>5. IsFiniteSet(P) /\ Cardinality(P) = Len(h[s].queue)
  <2>1. IsFiniteSet(P) /\ Cardinality(P) = Cardinality({s}) * Cardinality(DOMAIN h[s].queue)
    BY <1>3, <1>4, FS_Product
  <2> QED BY <1>2, <1>3, <1>4, <2>1
<1>6. IsFiniteSet(O) /\ Cardinality(O) \in Nat
  <2>1. Sessions \ {s} \subseteq Sessions OBVIOUS
  <2> QED BY <2>1, SlotsFinite
<1>7. Slots(h, Sessions) = O \cup P BY DEF Slots
<1>8. O \cap P = {} BY DEF Slots
<1> HIDE DEF O, P
<1>9. Cardinality(O \cup P) = Cardinality(O) + Cardinality(P) - Cardinality(O \cap P) BY <1>5, <1>6, FS_Union
<1>10. Cardinality(O \cap P) = 0 BY <1>8, FS_EmptySet
<1>11. Cardinality(O \cup P) = Cardinality(O) + Len(h[s].queue) BY <1>2, <1>5, <1>6, <1>9, <1>10
<1> QED BY <1>7, <1>11 DEF O

\* The hold of one session changes.
LEMMA SlotsChange ==
  ASSUME NEW h \in [Sessions -> Hold], NEW g \in [Sessions -> Hold], NEW s \in Sessions,
         \A x \in Sessions : x # s => g[x].queue = h[x].queue
  PROVE  /\ Cardinality(Slots(g, Sessions)) =
              Cardinality(Slots(h, Sessions)) - Len(h[s].queue) + Len(g[s].queue)
         /\ Cardinality(Slots(h, Sessions)) \in Nat /\ Cardinality(Slots(g, Sessions)) \in Nat
         /\ Len(h[s].queue) \in Nat /\ Len(g[s].queue) \in Nat
<1>1. Slots(g, Sessions \ {s}) = Slots(h, Sessions \ {s})
  <2>1. {{x} \X DOMAIN g[x].queue : x \in Sessions \ {s}} = {{x} \X DOMAIN h[x].queue : x \in Sessions \ {s}}
    OBVIOUS
  <2> QED BY <2>1 DEF Slots
<1>2. Cardinality(Slots(h, Sessions \ {s})) \in Nat
  <2>1. Sessions \ {s} \subseteq Sessions OBVIOUS
  <2> QED BY <2>1, SlotsFinite
<1>3. Len(h[s].queue) \in Nat /\ Len(g[s].queue) \in Nat
  <2>1. h[s].queue \in Seq(Entry) /\ g[s].queue \in Seq(Entry) BY DEF Hold
  <2> QED BY <2>1, LenProperties
<1>4. Cardinality(Slots(h, Sessions)) = Cardinality(Slots(h, Sessions \ {s})) + Len(h[s].queue) BY SlotsOf
<1>5. Cardinality(Slots(g, Sessions)) = Cardinality(Slots(g, Sessions \ {s})) + Len(g[s].queue) BY SlotsOf
<1> QED BY <1>1, <1>2, <1>3, <1>4, <1>5

-----------------------------------------------------------------------------
(* The budget counts what is charged, step by step                         *)

Total(cs, h) == Cardinality(Charged(cs)) + Cardinality(Slots(h, Sessions))
Budget == used = Total(calls, hold) /\ used <= NodeCap

LEMMA BudgetMeans ==
  ASSUME Types
  PROVE  BudgetIsExact <=> Budget
<1>1. DOMAIN calls = 1..Len(calls) BY CallsAre
<1>2. Waiting({"fresh", "dropped"}) = Charged(calls) BY <1>1 DEF Waiting, Charged, Counts
<1>3. Retained = Slots(hold, Sessions) BY DEF Retained, Slots
<1> QED BY <1>2, <1>3 DEF BudgetIsExact, Budget, Total

LEMMA TotalIs ==
  ASSUME NEW cs \in Seq(Call), NEW h \in [Sessions -> Hold]
  PROVE  /\ Cardinality(Charged(cs)) \in Nat /\ Cardinality(Slots(h, Sessions)) \in Nat
         /\ Total(cs, h) \in Nat
<1>1. Cardinality(Charged(cs)) \in Nat BY ChargedFinite
<1>2. Cardinality(Slots(h, Sessions)) \in Nat BY SlotsFinite
<1> QED BY <1>1, <1>2 DEF Total

\* A drain's write is charged as the hold's entry, not as a write.
LEMMA RefiresFree ==
  ASSUME NEW s \in Sessions, NEW q \in Seq(Entry), NEW cs \in Seq(Call)
  PROVE  /\ cs \o Refires(s, q) \in Seq(Call)
         /\ Charged(cs \o Refires(s, q)) = Charged(cs)
<1> DEFINE t == Servable(q)
<1>1. t \in Seq(Entry) BY ServableIs
<1>2. CASE t = <<>>
  <2>1. Refires(s, q) = <<>> BY <1>2 DEF Refires
  <2>2. cs \o Refires(s, q) = cs BY <2>1, ConcatEmptySeq
  <2> QED BY <2>2
<1>3. CASE t # <<>>
  <2> DEFINE c == Dispatch(s, Head(t), "drain") r == <<c>>
  <2>1. Head(t) \in Entry BY <1>1, <1>3, ToSetTail
  <2>2. c \in Call /\ c.via = "drain" BY <2>1, DispatchIs
  <2>3. Refires(s, q) = r BY <1>3 DEF Refires
  <2> HIDE DEF c
  <2>4. r \in Seq(Call) /\ Len(r) = 1 /\ r[1] = c BY <2>2
  <2>5. \A n \in 1..Len(r) : ~Counts(r[n]) BY <2>2, <2>4 DEF Counts
  <2> HIDE DEF r
  <2>6. Charged(cs \o r) = Charged(cs) /\ cs \o r \in Seq(Call) BY <2>4, <2>5, ChargedConcat, ConcatProperties
  <2> QED BY <2>3, <2>6
<1> QED BY <1>2, <1>3

LEMMA KickB ==
  ASSUME Types, NEW s \in Sessions, NEW q \in Seq(Entry), NEW cs \in Seq(Call), NEW charge \in Int,
         charge = Total(cs, hold) - Len(hold[s].queue) + Len(q), charge <= NodeCap,
         hold' \in [Sessions -> Hold],
         Kick(s, q, cs, charge)
  PROVE  Budget'
<1>1. hold \in [Sessions -> Hold] BY DEF Types, PlaneT
<1>2. Len(q) \in Nat BY LenProperties
<1>3. NodeCap \in Nat BY BoundsAssumption
<1>4. CASE hold[s].draining
  <2>1. hold' = [hold EXCEPT ![s].queue = q] /\ calls' = cs /\ used' = charge BY <1>4 DEF Kick
  <2>2. hold'[s].queue = q /\ \A x \in Sessions : x # s => hold'[x].queue = hold[x].queue
    BY <1>1, <2>1 DEF Hold
  <2>3. /\ Cardinality(Slots(hold', Sessions)) =
              Cardinality(Slots(hold, Sessions)) - Len(hold[s].queue) + Len(hold'[s].queue)
        /\ Cardinality(Slots(hold, Sessions)) \in Nat /\ Len(hold[s].queue) \in Nat
    BY <1>1, <2>2, SlotsChange
  <2>4. Cardinality(Charged(cs)) \in Nat BY ChargedFinite
  <2>5. used' = Cardinality(Charged(calls')) + Cardinality(Slots(hold', Sessions))
    BY <1>2, <2>1, <2>2, <2>3, <2>4 DEF Total
  <2> QED BY <2>1, <2>5 DEF Budget, Total
<1>5. CASE ~hold[s].draining
  <2>1. /\ hold' = [hold EXCEPT ![s] = Draining(s, q)]
        /\ calls' = cs \o Refires(s, q) /\ used' = charge - Purged(q)
    BY <1>5 DEF Kick
  <2>2. hold'[s].queue = Servable(q) /\ \A x \in Sessions : x # s => hold'[x].queue = hold[x].queue
    BY <1>1, <2>1 DEF Hold, Draining
  <2>3. /\ Cardinality(Slots(hold', Sessions)) =
              Cardinality(Slots(hold, Sessions)) - Len(hold[s].queue) + Len(hold'[s].queue)
        /\ Cardinality(Slots(hold, Sessions)) \in Nat /\ Len(hold[s].queue) \in Nat
    BY <1>1, <2>2, SlotsChange
  <2>4. PICK d \in 0..Len(q) : Len(Servable(q)) = Len(q) - d /\ Purged(q) = d BY ServableIs
  <2>5. Cardinality(Charged(cs)) \in Nat BY ChargedFinite
  <2>6. Charged(calls') = Charged(cs) BY <2>1, RefiresFree
  <2>7. used' = Cardinality(Charged(calls')) + Cardinality(Slots(hold', Sessions))
    <3>1. used' = charge - d BY <2>1, <2>4
    <3>2. Len(hold'[s].queue) = Len(q) - d BY <2>2, <2>4
    <3>3. Total(cs, hold) = Cardinality(Charged(cs)) + Cardinality(Slots(hold, Sessions)) BY DEF Total
    <3>4. Total(cs, hold) \in Int BY <2>3, <2>5, <3>3
    <3>5. charge = Total(cs, hold) - Len(hold[s].queue) + Len(q) OBVIOUS
    <3>6. d \in Int /\ charge \in Int BY <1>2
    <3> DEFINE C == Cardinality(Charged(cs)) S == Cardinality(Slots(hold, Sessions))
               l == Len(hold[s].queue) m == Len(q)
    <3>7. C \in Int /\ S \in Int /\ l \in Int /\ m \in Int BY <1>2, <2>3, <2>5
    <3>8. charge = (C + S) - l + m BY <3>3, <3>5
    <3>9. Cardinality(Slots(hold', Sessions)) = S - l + (m - d) BY <2>3, <3>2
    <3> HIDE DEF C, S, l, m
    <3>10. charge - d = C + (S - l + (m - d)) BY <3>6, <3>7, <3>8
    <3> QED BY <2>6, <3>1, <3>9, <3>10 DEF C
  <2>8. used' <= NodeCap BY <1>2, <1>3, <2>1, <2>4
  <2> QED BY <2>7, <2>8 DEF Budget, Total
<1> QED BY <1>4, <1>5

LEMMA HoldFailedB ==
  ASSUME Types, NEW s \in Sessions, NEW e \in Entry, NEW cs \in Seq(Call), NEW charge \in Int,
         charge = Total(cs, hold), charge <= NodeCap,
         hold' \in [Sessions -> Hold],
         HoldFailed(s, e, cs, charge)
  PROVE  Budget'
<1> DEFINE q == hold[s].queue
<1>1. q \in Seq(Entry) BY DEF Types, PlaneT, Hold
<1>2. Len(q) \in Nat BY <1>1, LenProperties
<1>3. hold \in [Sessions -> Hold] BY DEF Types, PlaneT
<1>4. Total(cs, hold) \in Nat /\ NodeCap \in Nat BY <1>3, TotalIs, BoundsAssumption
<1>5. CASE Kick(s, q, cs, charge)
  <2>1. charge = Total(cs, hold) - Len(hold[s].queue) + Len(q) BY <1>2, <1>4
  <2> HIDE DEF q
  <2> QED BY <1>1, <1>5, <2>1, KickB
<1>6. CASE charge < NodeCap /\ Kick(s, Append(q, e), cs, charge + 1)
  <2> DEFINE r == Append(q, e)
  <2>1. r \in Seq(Entry) /\ Len(r) = Len(q) + 1 BY <1>1, AppendProperties
  <2>2. charge + 1 = Total(cs, hold) - Len(hold[s].queue) + Len(r) /\ charge + 1 \in Int
        /\ charge + 1 <= NodeCap
    BY <1>2, <1>4, <1>6, <2>1
  <2>3. Kick(s, r, cs, charge + 1) BY <1>6
  <2> HIDE DEF r
  <2> QED BY <2>1, <2>2, <2>3, KickB
<1> QED BY <1>5, <1>6 DEF HoldFailed

LEMMA DropB ==
  ASSUME Types, Drains, Budget, NEW s \in Sessions, DropHold(s, calls, used)
  PROVE  Budget'
<1> DEFINE q == hold[s].queue N == Len(calls)
<1>1. /\ hold' \in [Sessions -> Hold] /\ calls' \in Seq(Call)
      /\ hold'[s] = NoHold /\ \A x \in Sessions : x # s => hold'[x] = hold[x]
      /\ Len(calls') = N
      /\ \A i \in 1..N :
           calls'[i] = IF calls[i].sess = s /\ calls[i].via = "drain"
                       THEN [calls[i] EXCEPT !.via = "dropped"] ELSE calls[i]
      /\ used' = used - (IF hold[s].draining THEN Len(q) - 1 ELSE Len(q))
  BY DropIs
<1>2. calls \in Seq(Call) /\ N \in Nat /\ \A i \in 1..N : calls[i] \in Call BY CallsAre
<1>3. hold \in [Sessions -> Hold] /\ used \in Int BY DEF Types, PlaneT
<1>4. Len(hold'[s].queue) = 0 BY <1>1, EmptySeq DEF NoHold
<1>5. /\ Cardinality(Slots(hold', Sessions)) =
              Cardinality(Slots(hold, Sessions)) - Len(q) + Len(hold'[s].queue)
      /\ Cardinality(Slots(hold, Sessions)) \in Nat /\ Len(q) \in Nat
  <2>1. \A x \in Sessions : x # s => hold'[x].queue = hold[x].queue BY <1>1
  <2> QED BY <1>1, <1>3, <2>1, SlotsChange
<1>6. IsFiniteSet(Charged(calls)) /\ Cardinality(Charged(calls)) \in Nat BY <1>2, ChargedFinite
<1>7. \A i \in 1..N : ~(calls[i].sess = s /\ calls[i].via = "drain") => calls'[i] = calls[i] BY <1>1
<1>8. \A i \in 1..N : calls[i].sess = s /\ calls[i].via = "drain" =>
        /\ Counts(calls'[i]) <=> calls[i].waiting
        /\ ~Counts(calls[i]) /\ (calls[i].waiting <=> IsDrain(calls[i], s))
  <2> SUFFICES ASSUME NEW i \in 1..N, calls[i].sess = s, calls[i].via = "drain"
               PROVE  /\ Counts(calls'[i]) <=> calls[i].waiting
                      /\ ~Counts(calls[i]) /\ (calls[i].waiting <=> IsDrain(calls[i], s))
    OBVIOUS
  <2>1. calls[i] \in Call BY <1>2
  <2>2. calls'[i] = [calls[i] EXCEPT !.via = "dropped"] BY <1>1
  <2>3. calls'[i].via = "dropped" /\ calls'[i].waiting = calls[i].waiting BY <2>1, <2>2 DEF Call
  <2> QED BY <2>3 DEF Counts, IsDrain
<1>9. NodeCap \in Nat BY BoundsAssumption
<1>10. DrainOf(s, calls, hold[s]) BY DEF Drains
<1> HIDE DEF q, N
<1>11. CASE ~hold[s].draining
  <2>1. NoDrain(s, calls) BY <1>10, <1>11 DEF DrainOf
  <2>2. \A i \in 1..N : Counts(calls'[i]) <=> Counts(calls[i])
    BY <1>7, <1>8, <2>1 DEF NoDrain, N
  <2>3. Charged(calls') = Charged(calls) BY <1>1, <2>2, ChargedSame DEF N
  <2> QED BY <1>1, <1>3, <1>4, <1>5, <1>6, <1>9, <1>11, <2>3 DEF Budget, Total
<1>12. CASE hold[s].draining
  <2>1. q # <<>> /\ OneDrain(s, calls, Head(q)) BY <1>10, <1>12 DEF DrainOf, q
  <2>2. PICK j \in 1..N : IsDrain(calls[j], s) /\ \A i \in 1..N : IsDrain(calls[i], s) => i = j
    BY <2>1 DEF OneDrain, N
  <2>3. calls[j].sess = s /\ calls[j].via = "drain" /\ calls[j].waiting BY <2>2 DEF IsDrain
  <2>4. j \notin Charged(calls) BY <2>3 DEF Charged, Counts
  <2>5. Counts(calls'[j]) BY <1>8, <2>3
  <2>6. \A i \in 1..N : i # j => (Counts(calls'[i]) <=> Counts(calls[i]))
    BY <1>7, <1>8, <2>2
  <2>7. Charged(calls') = Charged(calls) \cup {j} BY <1>1, <2>5, <2>6 DEF Charged, N
  <2>8. Cardinality(Charged(calls')) = Cardinality(Charged(calls)) + 1 BY <1>6, <2>4, <2>7, FS_AddElement
  <2>9. Len(q) # 0
    <3>1. q \in Seq(Entry) BY <1>3 DEF Hold, q
    <3> QED BY <2>1, <3>1, EmptySeq
  <2> QED BY <1>1, <1>3, <1>4, <1>5, <1>6, <1>9, <1>12, <2>8, <2>9 DEF Budget, Total
<1> QED BY <1>11, <1>12

LEMMA FrameB ==
  ASSUME Budget, UNCHANGED <<hold, used>>, Charged(calls') = Charged(calls)
  PROVE  Budget'
BY DEF Budget, Total

LEMMA JoinHoldB ==
  ASSUME Types, Drains, Budget, Types', NEW k \in Sockets, JoinHold(k)
  PROVE  Budget'
<1> DEFINE s == Owner[k]
<1>1. /\ inbox[k] # <<>>
      /\ HoldFailed(s, Frame(k), calls, used) \/ HoldOverflows(s, Frame(k))
  BY DEF JoinHold, Takes
<1>2. s \in Sessions /\ Frame(k) \in Entry BY <1>1, FrameIs
<1>3. calls \in Seq(Call) /\ used \in Int BY DEF Types, NodeT, PlaneT
<1>4. hold' \in [Sessions -> Hold] BY DEF Types, PlaneT
<1>5. used = Total(calls, hold) /\ used <= NodeCap BY DEF Budget
<1> HIDE DEF s
<1>6. CASE HoldFailed(s, Frame(k), calls, used) BY <1>2, <1>3, <1>4, <1>5, <1>6, HoldFailedB
<1>7. CASE HoldOverflows(s, Frame(k))
  <2>1. DropHold(s, calls, used) BY <1>7 DEF HoldOverflows
  <2> QED BY <1>2, <2>1, DropB
<1> QED BY <1>1, <1>6, <1>7

LEMMA WriteFrameB ==
  ASSUME Types, Drains, Budget, NEW k \in Sockets, WriteFrame(k)
  PROVE  Budget'
<1> DEFINE c == Dispatch(Owner[k], Frame(k), "fresh")
<1>1. Fresh(k) /\ Write(k) /\ used < NodeCap /\ used' = used + 1 /\ hold' = hold BY DEF WriteFrame
<1>2. calls' = Append(calls, c) /\ c \in Call BY <1>1, FreshT
<1>3. Counts(c) BY DEF Counts, Dispatch
<1> HIDE DEF c
<1>4. calls \in Seq(Call) /\ used \in Int /\ hold \in [Sessions -> Hold] BY DEF Types, NodeT, PlaneT
<1>5. Cardinality(Charged(calls')) = Cardinality(Charged(calls)) + 1 BY <1>2, <1>3, <1>4, ChargedAppend
<1>6. Cardinality(Charged(calls)) \in Nat /\ Cardinality(Slots(hold, Sessions)) \in Nat BY <1>4, TotalIs
<1>7. NodeCap \in Nat BY BoundsAssumption
<1> QED BY <1>1, <1>4, <1>5, <1>6, <1>7 DEF Budget, Total

LEMMA WriteReclaimingB ==
  ASSUME Types, Drains, Budget, Types', NEW k \in Sockets, WriteReclaiming(k)
  PROVE  Budget'
<1>1. Fresh(k) /\ Write(k) /\ used' = used BY DEF WriteReclaiming
<1>2. PICK s \in Sessions :
        Idle(s) # {} /\ hold' = [hold EXCEPT ![s].queue = RemoveAt(hold[s].queue, Min(Idle(s)))]
  BY DEF WriteReclaiming
<1> DEFINE q == hold[s].queue i == Min(Idle(s)) r == RemoveAt(q, i)
           c == Dispatch(Owner[k], Frame(k), "fresh")
<1>3. q \in Seq(Entry) /\ Len(q) \in Nat /\ i \in 1..Len(q) BY <1>2, IdleIs
<1>4. calls' = Append(calls, c) /\ c \in Call BY <1>1, FreshT
<1>5. Counts(c) BY DEF Counts, Dispatch
<1> HIDE DEF c
<1>6. calls \in Seq(Call) /\ used \in Int /\ hold \in [Sessions -> Hold] /\ hold' \in [Sessions -> Hold]
  BY DEF Types, NodeT, PlaneT
<1>7. Cardinality(Charged(calls')) = Cardinality(Charged(calls)) + 1 BY <1>4, <1>5, <1>6, ChargedAppend
<1>8. hold' = [hold EXCEPT ![s].queue = r] BY <1>2
<1> HIDE DEF i
<1>9. Len(r) = Len(q) - 1 BY <1>3, RemoveAtIs
<1> HIDE DEF r
<1>10. hold'[s].queue = r /\ \A x \in Sessions : x # s => hold'[x].queue = hold[x].queue
  BY <1>6, <1>8 DEF Hold
<1>11. /\ Cardinality(Slots(hold', Sessions)) =
              Cardinality(Slots(hold, Sessions)) - Len(q) + Len(hold'[s].queue)
       /\ Cardinality(Slots(hold, Sessions)) \in Nat
  BY <1>6, <1>10, SlotsChange
<1>12. Cardinality(Charged(calls)) \in Nat BY <1>6, ChargedFinite
<1>13. Cardinality(Slots(hold', Sessions)) = Cardinality(Slots(hold, Sessions)) - 1 BY <1>3, <1>9, <1>10, <1>11
<1> QED BY <1>1, <1>6, <1>7, <1>11, <1>12, <1>13 DEF Budget, Total

LEMMA NodeWritesB ==
  ASSUME Types, Budget, NodeWrites
  PROVE  Budget'
<1>1. PICK j \in 1..Len(calls) :
        /\ calls' = IF calls[j].waiting THEN [calls EXCEPT ![j].written = TRUE] ELSE RemoveAt(calls, j)
        /\ UNCHANGED plane
  BY CallsAre DEF NodeWrites
<1>2. calls \in Seq(Call) /\ hold \in [Sessions -> Hold] /\ calls[j] \in Call
  BY CallsAre DEF Types, PlaneT
<1>3. Cardinality(Charged(calls')) = Cardinality(Charged(calls))
  <2>1. CASE calls[j].waiting
    <3>1. /\ Len(calls') = Len(calls)
          /\ \A i \in 1..Len(calls) : i # j => calls'[i] = calls[i]
          /\ calls'[j] = [calls[j] EXCEPT !.written = TRUE]
      BY <1>1, <2>1, MarkIs
    <3>2. Counts(calls'[j]) <=> Counts(calls[j]) BY <1>2, <3>1 DEF Counts, Call
    <3>3. \A n \in 1..Len(calls) : Counts(calls'[n]) <=> Counts(calls[n]) BY <3>1, <3>2
    <3> QED BY <3>1, <3>3, ChargedSame
  <2>2. CASE ~calls[j].waiting
    <3>1. ~Counts(calls[j]) BY <2>2 DEF Counts
    <3>2. Cardinality(Charged(calls)) \in Nat BY <1>2, ChargedFinite
    <3> QED BY <1>1, <1>2, <2>2, <3>1, <3>2, ChargedRemove
  <2> QED BY <2>1, <2>2
<1> QED BY <1>1, <1>3 DEF Budget, Total, plane

LEMMA ChainIsLostB ==
  ASSUME Types, Budget, ChainIsLost
  PROVE  Budget'
<1>1. PICK f \in [1..Len(calls') -> 1..Len(calls)] :
        /\ calls' \in Seq(Call) /\ Len(calls') \in Nat
        /\ \A n \in 1..Len(calls') : calls'[n] = calls[f[n]] /\ calls[f[n]].waiting
        /\ \A m, n \in 1..Len(calls') : m < n => f[m] < f[n]
        /\ \A i \in 1..Len(calls) : calls[i].waiting => \E n \in 1..Len(calls') : f[n] = i
  BY ChainIsLostIs
<1>2. UNCHANGED plane BY DEF ChainIsLost
<1> DEFINE S == Charged(calls') T == Charged(calls) g == [n \in S |-> f[n]]
<1>3. IsFiniteSet(S) BY <1>1, ChargedFinite
<1>4. g \in [S -> T]
  <2> SUFFICES ASSUME NEW n \in S PROVE f[n] \in T
    OBVIOUS
  <2>1. n \in 1..Len(calls') /\ Counts(calls'[n]) BY DEF Charged
  <2>2. f[n] \in 1..Len(calls) /\ Counts(calls[f[n]]) BY <1>1, <2>1
  <2> QED BY <2>2 DEF Charged
<1>5. \A a, b \in S : g[a] = g[b] => a = b
  <2> SUFFICES ASSUME NEW a \in S, NEW b \in S, f[a] = f[b] PROVE a = b
    OBVIOUS
  <2>1. a \in 1..Len(calls') /\ b \in 1..Len(calls') BY DEF Charged
  <2>2. f[a] \in 1..Len(calls) /\ f[b] \in 1..Len(calls) BY <1>1, <2>1
  <2>3. Len(calls) \in Nat BY CallsAre
  <2>4. ~(f[a] < f[b]) /\ ~(f[b] < f[a]) BY <2>2, <2>3
  <2>5. ~(a < b) /\ ~(b < a) BY <1>1, <2>1, <2>4
  <2> QED BY <1>1, <2>1, <2>5
<1>6. \A t \in T : \E a \in S : g[a] = t
  <2> SUFFICES ASSUME NEW t \in T PROVE \E a \in S : f[a] = t
    OBVIOUS
  <2>1. t \in 1..Len(calls) /\ Counts(calls[t]) /\ calls[t].waiting BY DEF Charged, Counts
  <2>2. PICK n \in 1..Len(calls') : f[n] = t BY <1>1, <2>1
  <2>3. n \in S BY <1>1, <2>1, <2>2 DEF Charged
  <2> QED BY <2>2, <2>3
<1> HIDE DEF S, T, g
<1>7. Cardinality(T) = Cardinality(S) BY <1>3, <1>4, <1>5, <1>6, OneToOne
<1> QED BY <1>2, <1>7 DEF Budget, Total, plane, S, T

LEMMA ResolvedB ==
  ASSUME Types, Drains, Budget, Types', NEW j \in DOMAIN calls, Resolved(j)
  PROVE  Budget'
<1> DEFINE c == calls[j] s == c.sess q == hold[s].queue rest == RemoveAt(calls, j)
<1>1. /\ c.waiting
      /\ IF c.via = "drain"
         THEN /\ hold' = [hold EXCEPT ![s] = Draining(s, Tail(q))]
              /\ calls' = rest \o Refires(s, Tail(q))
              /\ used' = used - 1 - Purged(Tail(q))
         ELSE /\ calls' = rest
              /\ used' = used - 1
              /\ UNCHANGED hold
  BY DEF Resolved, NextToSettle
<1>2. j \in 1..Len(calls) /\ c \in Call BY CallsAre
<1>3. s \in Sessions BY <1>2 DEF Call
<1>4. calls \in Seq(Call) /\ hold \in [Sessions -> Hold] /\ used \in Int /\ hold' \in [Sessions -> Hold]
  BY DEF Types, NodeT, PlaneT
<1>5. rest \in Seq(Call) BY <1>2, <1>4, RemoveAtIs
<1>6. Cardinality(Charged(rest)) = Cardinality(Charged(calls)) - (IF Counts(c) THEN 1 ELSE 0)
  BY <1>2, <1>4, ChargedRemove
<1>7. Cardinality(Charged(calls)) \in Nat /\ Cardinality(Slots(hold, Sessions)) \in Nat BY <1>4, TotalIs
<1>8. NodeCap \in Nat BY BoundsAssumption
<1>9. CASE c.via = "drain"
  <2>1. IsDrain(calls[j], s) BY <1>1, <1>9 DEF IsDrain
  <2>2. ~Counts(c) BY <1>9 DEF Counts
  <2>3. q # <<>> BY <1>2, <1>3, <2>1, Ends
  <2>4. q \in Seq(Entry) BY <1>3, <1>4 DEF Hold
  <2>5. Tail(q) \in Seq(Entry) /\ Len(Tail(q)) = Len(q) - 1 BY <2>3, <2>4, ToSetTail
  <2> DEFINE t == Tail(q)
  <2>6. t \in Seq(Entry) /\ Len(t) = Len(q) - 1 BY <2>5
  <2>7. hold' = [hold EXCEPT ![s] = Draining(s, t)] /\ calls' = rest \o Refires(s, t)
        /\ used' = used - 1 - Purged(t)
    BY <1>1, <1>9
  <2>8. Len(q) \in Nat BY <2>4, LenProperties
  <2> HIDE DEF t, rest, q, s, c
  <2>9. PICK d \in 0..Len(t) : Len(Servable(t)) = Len(t) - d /\ Purged(t) = d BY <2>6, ServableIs
  <2>10. Charged(calls') = Charged(rest) BY <1>3, <1>5, <2>6, <2>7, RefiresFree
  <2>11. hold'[s].queue = Servable(t) /\ \A x \in Sessions : x # s => hold'[x].queue = hold[x].queue
    BY <1>3, <1>4, <2>7 DEF Hold, Draining
  <2>12. Cardinality(Slots(hold', Sessions)) =
              Cardinality(Slots(hold, Sessions)) - Len(q) + Len(hold'[s].queue)
    BY <1>3, <1>4, <2>11, SlotsChange DEF q
  <2>13. Cardinality(Charged(calls')) = Cardinality(Charged(calls)) BY <1>6, <1>7, <2>2, <2>10
  <2>14. Len(t) \in Nat BY <2>6, <2>8, LenProperties
  <2>15. Cardinality(Slots(hold', Sessions)) = Cardinality(Slots(hold, Sessions)) - 1 - d
    BY <1>7, <2>6, <2>8, <2>9, <2>11, <2>12, <2>14
  <2>16. used' = used - 1 - d BY <2>7, <2>9
  <2> QED BY <1>4, <1>7, <1>8, <2>13, <2>14, <2>15, <2>16 DEF Budget, Total
<1>10. CASE c.via # "drain"
  <2>1. Counts(c) BY <1>1, <1>2, <1>10 DEF Counts, Call
  <2>2. calls' = rest /\ used' = used - 1 /\ hold' = hold BY <1>1, <1>10
  <2> HIDE DEF c, s, q, rest
  <2> QED BY <1>4, <1>6, <1>7, <1>8, <2>1, <2>2 DEF Budget, Total
<1> QED BY <1>9, <1>10

LEMMA RejectedB ==
  ASSUME Types, Drains, Budget, Types', NEW j \in DOMAIN calls, Rejected(j)
  PROVE  Budget'
<1> DEFINE c == calls[j] e == [id |-> c.id, sock |-> c.sock]
<1>1. c.waiting BY DEF Rejected, NextToSettle
<1>2. PICK cs \in AfterRejection(j) :
        \/ /\ c.via = "fresh"
           /\ HoldFailed(c.sess, e, cs, used - 1)
        \/ /\ c.via = "drain"
           /\ hold' = [hold EXCEPT ![c.sess].draining = FALSE]
           /\ calls' = cs
           /\ UNCHANGED used
        \/ /\ c.via \in {"dropped", "fresh"}
           /\ calls' = cs
           /\ used' = used - 1
           /\ UNCHANGED hold
  BY DEF Rejected
<1>3. j \in 1..Len(calls) /\ c \in Call BY CallsAre
<1>4. c.sess \in Sessions /\ e \in Entry BY <1>3 DEF Call, Entry
<1>5. calls \in Seq(Call) /\ hold \in [Sessions -> Hold] /\ used \in Int /\ hold' \in [Sessions -> Hold]
  BY DEF Types, NodeT, PlaneT
<1>6. cs \in Seq(Call) BY <1>2, <1>3, AfterRejectionIs
<1>7. Cardinality(Charged(cs)) = Cardinality(Charged(calls)) - (IF Counts(c) THEN 1 ELSE 0)
  <2>1. CASE cs = RemoveAt(calls, j) BY <1>3, <1>5, <2>1, ChargedRemove
  <2>2. CASE cs = [calls EXCEPT ![j].waiting = FALSE]
    <3>1. /\ Len(cs) = Len(calls)
          /\ \A i \in 1..Len(calls) : i # j => cs[i] = calls[i]
          /\ cs[j] = [calls[j] EXCEPT !.waiting = FALSE]
      BY <1>3, <2>2, MarkIs
    <3>2. ~Counts(cs[j]) BY <1>3, <3>1 DEF Counts, Call
    <3>3. Charged(cs) = Charged(calls) \ {j} BY <3>1, <3>2 DEF Charged
    <3>4. IsFiniteSet(Charged(calls)) /\ Cardinality(Charged(calls)) \in Nat BY <1>5, ChargedFinite
    <3>5. j \in Charged(calls) <=> Counts(c) BY <1>3 DEF Charged
    <3>6. Cardinality(Charged(calls) \ {j}) =
            IF j \in Charged(calls) THEN Cardinality(Charged(calls)) - 1 ELSE Cardinality(Charged(calls))
      BY <3>4, FS_RemoveElement
    <3> QED BY <3>3, <3>4, <3>5, <3>6
  <2> QED BY <1>2, <2>1, <2>2 DEF AfterRejection
<1>8. Cardinality(Charged(calls)) \in Nat /\ Cardinality(Slots(hold, Sessions)) \in Nat BY <1>5, TotalIs
<1>9. NodeCap \in Nat BY BoundsAssumption
<1>10. Counts(c) <=> c.via \in {"fresh", "dropped"} BY <1>1 DEF Counts
<1> HIDE DEF c, e
<1>11. CASE c.via = "fresh" /\ HoldFailed(c.sess, e, cs, used - 1)
  <2>1. used - 1 = Total(cs, hold) /\ used - 1 <= NodeCap /\ used - 1 \in Int
    BY <1>5, <1>7, <1>8, <1>9, <1>10, <1>11 DEF Budget, Total
  <2> DEFINE u == used - 1
  <2>2. u = Total(cs, hold) /\ u <= NodeCap /\ u \in Int /\ HoldFailed(c.sess, e, cs, u) BY <1>11, <2>1
  <2> HIDE DEF u
  <2> QED BY <1>4, <1>5, <1>6, <2>2, HoldFailedB
<1>12. CASE c.via = "drain" /\ hold' = [hold EXCEPT ![c.sess].draining = FALSE] /\ calls' = cs /\ UNCHANGED used
  <2>1. \A x \in Sessions : hold'[x].queue = hold[x].queue BY <1>4, <1>5, <1>12 DEF Hold
  <2>2. Slots(hold', Sessions) = Slots(hold, Sessions)
    <3>1. {{x} \X DOMAIN hold'[x].queue : x \in Sessions} = {{x} \X DOMAIN hold[x].queue : x \in Sessions}
      BY <2>1
    <3> QED BY <3>1 DEF Slots
  <2> QED BY <1>7, <1>8, <1>10, <1>12, <2>2 DEF Budget, Total
<1>13. CASE c.via \in {"dropped", "fresh"} /\ calls' = cs /\ used' = used - 1 /\ UNCHANGED hold
  BY <1>5, <1>7, <1>8, <1>9, <1>10, <1>13 DEF Budget, Total
<1> QED BY <1>2, <1>11, <1>12, <1>13

\* The node is back: what the holds let go is what the budget gives back.
LEMMA NodeReadyB ==
  ASSUME Types, Drains, Budget, Types', NodeReady
  PROVE  Budget'
<1> DEFINE Q(s) == hold[s].queue
           G == UNION {{s} \X (1..Purged(Q(s))) : s \in Sessions}
           A == Slots(hold, Sessions) B == Slots(hold', Sessions)
<1>0. PICK R \in Seq(Call) : \E order \in [1..Len(R) -> Refired] :
        /\ calls' = calls \o R
        /\ \A n \in 1..Len(R) : R[n] = Again(order[n])
  BY NodeReadyIs
<1>1. PICK order \in [1..Len(R) -> Refired] :
        calls' = calls \o R /\ \A n \in 1..Len(R) : R[n] = Again(order[n])
  BY <1>0
<1>2. hold' = [s \in Sessions |-> Draining(s, Q(s))] /\ used' = used - Cardinality(G)
  BY DEF NodeReady
<1>3. calls \in Seq(Call) /\ hold \in [Sessions -> Hold] /\ used \in Int /\ hold' \in [Sessions -> Hold]
  BY DEF Types, NodeT, PlaneT
<1>4. Charged(calls') = Charged(calls)
  <2>1. ASSUME NEW n \in 1..Len(R) PROVE ~Counts(R[n])
    <3>0. \A x : Again(x).via = "drain" BY DEF Again, Dispatch
    <3>1. R[n].via = "drain" BY <1>1, <3>0
    <3> QED BY <3>1 DEF Counts
  <2> QED BY <1>1, <1>3, <2>1, ChargedConcat
<1>5. \A s \in Sessions :
        /\ Q(s) \in Seq(Entry) /\ Len(Q(s)) \in Nat /\ DOMAIN Q(s) = 1..Len(Q(s))
        /\ Purged(Q(s)) \in 0..Len(Q(s))
        /\ hold'[s].queue = Servable(Q(s)) /\ DOMAIN hold'[s].queue = 1..(Len(Q(s)) - Purged(Q(s)))
  <2> SUFFICES ASSUME NEW s \in Sessions
               PROVE  /\ Q(s) \in Seq(Entry) /\ Len(Q(s)) \in Nat /\ DOMAIN Q(s) = 1..Len(Q(s))
                      /\ Purged(Q(s)) \in 0..Len(Q(s))
                      /\ hold'[s].queue = Servable(Q(s))
                      /\ DOMAIN hold'[s].queue = 1..(Len(Q(s)) - Purged(Q(s)))
    OBVIOUS
  <2> DEFINE q == Q(s)
  <2>1. q \in Seq(Entry) BY <1>3 DEF Hold
  <2>2. Len(q) \in Nat /\ DOMAIN q = 1..Len(q) BY <2>1, LenProperties
  <2>3. hold'[s].queue = Servable(q) BY <1>2 DEF Draining
  <2> HIDE DEF q
  <2>4. PICK d \in 0..Len(q) : Servable(q) \in Seq(Entry) /\ Len(Servable(q)) = Len(q) - d /\ Purged(q) = d
    BY <2>1, ServableIs
  <2>5. DOMAIN Servable(q) = 1..(Len(q) - d) BY <2>4, LenProperties
  <2> QED BY <2>1, <2>2, <2>3, <2>4, <2>5 DEF q
<1>6. IsFiniteSet(A) /\ IsFiniteSet(B) /\ Cardinality(A) \in Nat /\ Cardinality(B) \in Nat
  BY <1>3, SlotsFinite
<1>7. \A p : p \in A <=> \E s \in Sessions : \E n \in 1..Len(Q(s)) : p = <<s, n>> BY <1>5 DEF Slots
<1>8. \A p : p \in B <=> \E s \in Sessions : \E n \in 1..(Len(Q(s)) - Purged(Q(s))) : p = <<s, n>>
  BY <1>5 DEF Slots
<1>9. \A p : p \in G <=> \E s \in Sessions : \E n \in 1..Purged(Q(s)) : p = <<s, n>> OBVIOUS
<1> DEFINE T == A \ G f == [p \in B |-> <<p[1], p[2] + Purged(Q(p[1]))>>]
<1> HIDE DEF A, B, G
<1>10. G \subseteq A
  <2> SUFFICES ASSUME NEW s \in Sessions, NEW n \in 1..Purged(Q(s)) PROVE <<s, n>> \in A
    BY <1>9
  <2>1. n \in 1..Len(Q(s)) BY <1>5
  <2> QED BY <1>7, <2>1
<1>11. \A s \in Sessions : \A n \in 1..(Len(Q(s)) - Purged(Q(s))) :
         <<s, n>> \in B /\ f[<<s, n>>] = <<s, n + Purged(Q(s))>>
  BY <1>8
<1>12. f \in [B -> T]
  <2> SUFFICES ASSUME NEW s \in Sessions, NEW n \in 1..(Len(Q(s)) - Purged(Q(s)))
               PROVE  <<s, n + Purged(Q(s))>> \in T
    BY <1>8, <1>11
  <2>1. n + Purged(Q(s)) \in 1..Len(Q(s)) /\ n + Purged(Q(s)) \notin 1..Purged(Q(s)) BY <1>5
  <2>2. <<s, n + Purged(Q(s))>> \in A BY <1>7, <2>1
  <2>3. <<s, n + Purged(Q(s))>> \notin G BY <1>9, <2>1
  <2> QED BY <2>2, <2>3
<1>13. \A a, b \in B : f[a] = f[b] => a = b
  <2> SUFFICES ASSUME NEW s \in Sessions, NEW n \in 1..(Len(Q(s)) - Purged(Q(s))),
                      NEW t \in Sessions, NEW m \in 1..(Len(Q(t)) - Purged(Q(t))),
                      <<s, n + Purged(Q(s))>> = <<t, m + Purged(Q(t))>>
               PROVE  <<s, n>> = <<t, m>>
    BY <1>8, <1>11
  <2>1. s = t /\ n + Purged(Q(s)) = m + Purged(Q(s)) OBVIOUS
  <2>2. n = m BY <1>5, <2>1
  <2> QED BY <2>1, <2>2
<1>14. \A t \in T : \E a \in B : f[a] = t
  <2> SUFFICES ASSUME NEW t \in T PROVE \E a \in B : f[a] = t
    OBVIOUS
  <2>0. PICK s \in Sessions : \E m \in 1..Len(Q(s)) : t = <<s, m>> BY <1>7
  <2>1. PICK m \in 1..Len(Q(s)) : t = <<s, m>> BY <2>0
  <2>2. m \notin 1..Purged(Q(s)) BY <1>9, <2>1
  <2>3. m - Purged(Q(s)) \in 1..(Len(Q(s)) - Purged(Q(s))) /\ (m - Purged(Q(s))) + Purged(Q(s)) = m
    BY <1>5, <2>2
  <2>4. <<s, m - Purged(Q(s))>> \in B /\ f[<<s, m - Purged(Q(s))>>] = t BY <1>11, <2>1, <2>3
  <2> QED BY <2>4
<1> HIDE DEF f, T
<1>15. Cardinality(T) = Cardinality(B) BY <1>6, <1>12, <1>13, <1>14, OneToOne
<1>16. Cardinality(T) = Cardinality(A) - Cardinality(A \cap G) BY <1>6, FS_Difference DEF T
<1>17. A \cap G = G BY <1>10
<1>18. Cardinality(G) \in Nat
  <2>1. IsFiniteSet(G) BY <1>6, <1>10, FS_Subset
  <2> QED BY <2>1, FS_CardinalityType
<1>19. Cardinality(Charged(calls)) \in Nat /\ NodeCap \in Nat BY <1>3, ChargedFinite, BoundsAssumption
<1>20. used = Cardinality(Charged(calls)) + Cardinality(A) /\ used <= NodeCap BY DEF Budget, Total, A
<1>21. used' = Cardinality(Charged(calls)) + Cardinality(B) /\ used' <= NodeCap
  <2>1. Cardinality(B) = Cardinality(A) - Cardinality(G) BY <1>15, <1>16, <1>17
  <2>2. used' = used - Cardinality(G) BY <1>2
  <2> QED BY <1>6, <1>18, <1>19, <1>20, <2>1, <2>2
<1> QED BY <1>4, <1>21 DEF Budget, Total, B

LEMMA NextB ==
  ASSUME Types, Drains, Budget, Types', [Next]_vars
  PROVE  Budget'
<1>1. CASE \E s \in Sessions : Type(s) \/ WindowFires(s) \/ PageLosesSocket(s)
  <2>1. UNCHANGED <<hold, used, calls>> BY <1>1 DEF Type, WindowFires, PageLosesSocket, plane
  <2> QED BY <2>1, FrameB
<1>2. CASE \E s \in Sessions, k \in Sockets : Attach(s, k)
  <2>1. UNCHANGED <<hold, used, calls>> BY <1>2 DEF Attach, plane
  <2> QED BY <2>1, FrameB
<1>3. CASE \E k \in Sockets : IgnoreFrame(k) \/ AckAgain(k) \/ RefuseFrame(k)
  <2>1. UNCHANGED <<hold, used, calls>> BY <1>3 DEF IgnoreFrame, AckAgain, RefuseFrame, plane
  <2> QED BY <2>1, FrameB
<1>4. CASE \E k \in Sockets : JoinHold(k) \/ WriteFrame(k) \/ WriteReclaiming(k)
  BY <1>4, JoinHoldB, WriteFrameB, WriteReclaimingB
<1>5. CASE \E k \in Sockets : PlaneSeesClose(k)
  <2>1. PICK k \in Sockets : PlaneSeesClose(k) BY <1>5
  <2>2. DropHold(Owner[k], calls, used) BY <2>1 DEF PlaneSeesClose
  <2> QED BY <2>2, DropB, OwnerAssumption
<1>6. CASE NodeWrites \/ ChainIsLost \/ NodeReady BY <1>6, NodeWritesB, ChainIsLostB, NodeReadyB
<1>7. CASE LinkDrops
  <2>1. UNCHANGED <<hold, used, calls>> BY <1>7 DEF LinkDrops, plane
  <2> QED BY <2>1, FrameB
<1>8. CASE \E j \in DOMAIN calls : Resolved(j) \/ Rejected(j) BY <1>8, ResolvedB, RejectedB
<1>9. CASE UNCHANGED vars
  <2>1. UNCHANGED <<hold, used, calls>> BY <1>9 DEF vars, plane
  <2> QED BY <2>1, FrameB
<1> QED BY <1>1, <1>2, <1>3, <1>4, <1>5, <1>6, <1>7, <1>8, <1>9, NextCases

LEMMA InitB == Init => Budget
<1> SUFFICES ASSUME Init PROVE Budget
  OBVIOUS
<1>1. calls = <<>> /\ used = 0 /\ hold = [s \in Sessions |-> NoHold] BY DEF Init
<1>2. Len(calls) = 0 BY <1>1, EmptySeq
<1>3. Charged(calls) = {} BY <1>2 DEF Charged
<1>4. \A s \in Sessions : DOMAIN hold[s].queue = {} BY <1>1, EmptySeq DEF NoHold
<1>5. Slots(hold, Sessions) = {} BY <1>4 DEF Slots
<1>6. NodeCap \in Nat BY BoundsAssumption
<1>7. Cardinality({}) = 0 BY FS_EmptySet
<1>8. Cardinality(Charged(calls)) = 0 /\ Cardinality(Slots(hold, Sessions)) = 0 BY <1>3, <1>5, <1>7
<1>9. Total(calls, hold) = 0 BY <1>8 DEF Total
<1> QED BY <1>1, <1>6, <1>9 DEF Budget

\* The inductive invariant of the budget: the types, what the drains write and
\* the count itself.
BInv == Types /\ Drains /\ Budget

LEMMA BInvHolds == Spec => []BInv
<1>1. Init => BInv BY InitT, InitB DEF BInv
<1>2. BInv /\ [Next]_vars => BInv' BY NextT, NextB DEF BInv
<1> QED BY <1>1, <1>2, PTL DEF Spec

\* The state of the path has the types it is declared with: the window and the
\* page's queue keep to their sizes, and the charges are never below zero.
THEOREM TypeCorrect == Spec => []TypeOK
<1>1. BInv => TypeOK
  <2> SUFFICES ASSUME BInv PROVE TypeOK
    OBVIOUS
  <2>1. calls \in Seq(Call) /\ hold \in [Sessions -> Hold] BY DEF BInv, Types, NodeT, PlaneT
  <2>2. used \in Nat BY <2>1, TotalIs DEF BInv, Budget
  <2> QED BY <2>2, Parts DEF BInv
<1> QED BY <1>1, BInvHolds, PTL

\* No settlement, drop, reclaim or refusal leaks or doubles a charge of the
\* node's share, whatever the sizes of the queues and the budget
\* (input-budget.ts).
THEOREM ChargesAreExact == Spec => []BudgetIsExact
<1>1. BInv => BudgetIsExact BY BudgetMeans DEF BInv
<1> QED BY <1>1, BInvHolds, PTL

-----------------------------------------------------------------------------
(* What a step leaves of the frames it handles                             *)

LEMMA RemoveSets ==
  ASSUME NEW S, NEW q \in Seq(S), NEW j \in 1..Len(q)
  PROVE  /\ RemoveAt(q, j) \in Seq(S)
         /\ ToSet(RemoveAt(q, j)) \subseteq ToSet(q)
         /\ \A e \in ToSet(q) : e # q[j] => e \in ToSet(RemoveAt(q, j))
<1> DEFINE r == RemoveAt(q, j)
<1>1. /\ r \in Seq(S) /\ Len(r) = Len(q) - 1
      /\ \A n \in 1..(Len(q) - 1) : r[n] = IF n < j THEN q[n] ELSE q[n + 1]
  BY RemoveAtIs
<1> HIDE DEF r
<1>2. Len(q) \in Nat BY LenProperties
<1>3. /\ \A x : x \in ToSet(q) <=> \E n \in 1..Len(q) : q[n] = x
      /\ \A x : x \in ToSet(r) <=> \E n \in 1..Len(r) : r[n] = x
  BY <1>1, ToSetIs
<1>4. ASSUME NEW n \in 1..Len(r) PROVE r[n] \in ToSet(q)
  <2>1. n \in 1..Len(q) /\ n + 1 \in 1..Len(q) BY <1>1, <1>2
  <2> QED BY <1>1, <1>3, <2>1
<1>5. ASSUME NEW n \in 1..Len(q), q[n] # q[j] PROVE q[n] \in ToSet(r)
  <2>1. CASE n < j
    <3>1. n \in 1..Len(r) /\ r[n] = q[n] BY <1>1, <1>2, <2>1
    <3> QED BY <1>3, <3>1
  <2>2. CASE ~(n < j)
    <3>1. n # j BY <1>5
    <3>2. n - 1 \in 1..Len(r) /\ ~(n - 1 < j) /\ (n - 1) + 1 = n BY <1>1, <1>2, <2>2, <3>1
    <3>3. r[n - 1] = q[n] BY <1>1, <3>2
    <3> QED BY <1>3, <3>2, <3>3
  <2> QED BY <2>1, <2>2
<1> QED BY <1>1, <1>3, <1>4, <1>5 DEF r

\* Entries of sockets that take input are not purged.
LEMMA ServableSets ==
  ASSUME NEW q \in Seq(Entry)
  PROVE  /\ Servable(q) \in Seq(Entry)
         /\ ToSet(Servable(q)) \subseteq ToSet(q)
         /\ \A e \in ToSet(q) : status[e.sock] = "open" => e \in ToSet(Servable(q))
         /\ Servable(q) # <<>> => Head(Servable(q)) \in ToSet(q) /\ status[Head(Servable(q)).sock] = "open"
<1> DEFINE t == Servable(q)
<1>1. PICK d \in 0..Len(q) :
            /\ t \in Seq(Entry) /\ Len(t) = Len(q) - d
            /\ \A n \in 1..(Len(q) - d) : t[n] = q[n + d]
            /\ \A n \in 1..d : status[q[n].sock] # "open"
            /\ d < Len(q) => status[q[d + 1].sock] = "open"
            /\ t = <<>> <=> d = Len(q)
  BY ServableIs
<1> HIDE DEF t
<1>2. Len(q) \in Nat BY LenProperties
<1>3. /\ \A x : x \in ToSet(q) <=> \E n \in 1..Len(q) : q[n] = x
      /\ \A x : x \in ToSet(t) <=> \E n \in 1..Len(t) : t[n] = x
  BY <1>1, ToSetIs
<1>4. ASSUME NEW n \in 1..Len(t) PROVE t[n] \in ToSet(q)
  <2>1. n + d \in 1..Len(q) BY <1>1, <1>2
  <2> QED BY <1>1, <1>3, <2>1
<1>5. ASSUME NEW n \in 1..Len(q), status[q[n].sock] = "open" PROVE q[n] \in ToSet(t)
  <2>1. n \notin 1..d BY <1>1, <1>5
  <2>2. n - d \in 1..Len(t) /\ (n - d) + d = n BY <1>1, <1>2, <2>1
  <2>3. t[n - d] = q[n] BY <1>1, <2>2
  <2> QED BY <1>3, <2>2, <2>3
<1>6. ASSUME t # <<>> PROVE Head(t) \in ToSet(q) /\ status[Head(t).sock] = "open"
  <2>1. d < Len(q) BY <1>1, <1>2, <1>6
  <2>2. 1 \in 1..Len(t) BY <1>1, <1>2, <2>1
  <2>3. Head(t) = t[1] BY <1>1, <1>6, ToSetTail
  <2>4. t[1] = q[d + 1] BY <1>1, <2>2
  <2> QED BY <1>1, <1>4, <2>1, <2>2, <2>3, <2>4
<1> QED BY <1>1, <1>3, <1>4, <1>5, <1>6 DEF t

LEMMA RefiresSets ==
  ASSUME NEW s \in Sessions, NEW q \in Seq(Entry), NEW cs \in Seq(Call)
  PROVE  /\ cs \o Refires(s, q) \in Seq(Call)
         /\ Servable(q) = <<>> => cs \o Refires(s, q) = cs
         /\ Servable(q) # <<>> =>
              /\ Dispatch(s, Head(Servable(q)), "drain") \in Call
              /\ cs \o Refires(s, q) = Append(cs, Dispatch(s, Head(Servable(q)), "drain"))
         /\ ToSet(cs) \subseteq ToSet(cs \o Refires(s, q))
         /\ ToSet(cs \o Refires(s, q)) \subseteq ToSet(cs) \cup {Dispatch(s, e, "drain") : e \in ToSet(q)}
<1> DEFINE t == Servable(q)
<1>1. t \in Seq(Entry) /\ (t # <<>> => Head(t) \in ToSet(q)) BY ServableSets
<1>2. CASE t = <<>>
  <2>1. Refires(s, q) = <<>> BY <1>2 DEF Refires
  <2>2. cs \o Refires(s, q) = cs BY <2>1, ConcatEmptySeq
  <2> QED BY <1>2, <2>2
<1>3. CASE t # <<>>
  <2> DEFINE c == Dispatch(s, Head(t), "drain")
  <2>1. Head(t) \in Entry BY <1>1, <1>3, ToSetTail
  <2>2. c \in Call BY <2>1, DispatchIs
  <2>3. Refires(s, q) = <<c>> BY <1>3 DEF Refires
  <2>4. c \in {Dispatch(s, e, "drain") : e \in ToSet(q)} BY <1>1, <1>3
  <2> HIDE DEF c
  <2>5. cs \o Refires(s, q) = Append(cs, c) BY <2>2, <2>3, AppendIsConcat
  <2>6. Append(cs, c) \in Seq(Call) /\ ToSet(Append(cs, c)) = ToSet(cs) \cup {c} BY <2>2, ToSetAppend
  <2> QED BY <1>3, <2>2, <2>4, <2>5, <2>6 DEF c
<1> QED BY <1>2, <1>3

LEMMA KickSets ==
  ASSUME Types, NEW s \in Sessions, NEW q \in Seq(Entry), NEW cs \in Seq(Call), NEW charge,
         Kick(s, q, cs, charge)
  PROVE  /\ \A x \in Sessions : x # s => hold'[x] = hold[x]
         /\ ToSet(hold'[s].queue) \subseteq ToSet(q)
         /\ \A e \in ToSet(q) : status[e.sock] = "open" => e \in ToSet(hold'[s].queue)
         /\ ToSet(cs) \subseteq ToSet(calls')
         /\ ToSet(calls') \subseteq ToSet(cs) \cup {Dispatch(s, e, "drain") : e \in ToSet(q)}
<1>1. hold \in [Sessions -> Hold] BY DEF Types, PlaneT
<1>2. CASE hold[s].draining
  <2>1. hold' = [hold EXCEPT ![s].queue = q] /\ calls' = cs BY <1>2 DEF Kick
  <2>2. hold'[s].queue = q /\ \A x \in Sessions : x # s => hold'[x] = hold[x] BY <1>1, <2>1 DEF Hold
  <2> QED BY <2>1, <2>2
<1>3. CASE ~hold[s].draining
  <2>1. hold' = [hold EXCEPT ![s] = Draining(s, q)] /\ calls' = cs \o Refires(s, q) BY <1>3 DEF Kick
  <2>2. hold'[s].queue = Servable(q) /\ \A x \in Sessions : x # s => hold'[x] = hold[x]
    BY <1>1, <2>1 DEF Draining
  <2> QED BY <2>1, <2>2, ServableSets, RefiresSets
<1> QED BY <1>2, <1>3

LEMMA HoldFailedSets ==
  ASSUME Types, NEW s \in Sessions, NEW e \in Entry, NEW cs \in Seq(Call), NEW charge,
         HoldFailed(s, e, cs, charge)
  PROVE  /\ \A x \in Sessions : x # s => hold'[x] = hold[x] /\ stranded'[x] = stranded[x]
         /\ ToSet(hold'[s].queue) \subseteq ToSet(hold[s].queue) \cup {e}
         /\ \A x \in ToSet(hold[s].queue) : status[x.sock] = "open" => x \in ToSet(hold'[s].queue)
         /\ stranded[s] \subseteq stranded'[s]
         /\ status[e.sock] = "open" /\ e.sock = sock[s] =>
              e \in ToSet(hold'[s].queue) \/ e.id \in stranded'[s]
         /\ ToSet(cs) \subseteq ToSet(calls')
         /\ ToSet(calls') \subseteq
              ToSet(cs) \cup {Dispatch(s, x, "drain") : x \in ToSet(hold[s].queue) \cup {e}}
<1> DEFINE q == hold[s].queue held == {x \in ToSet(q) : x.id = e.id}
<1>1. q \in Seq(Entry) /\ stranded \in [Sessions -> SUBSET Ids] BY DEF Types, PlaneT, Hold, HistoryT
<1>2. CASE /\ held # {}
           /\ Kick(s, q, cs, charge)
           /\ stranded' = [stranded EXCEPT ![s] = @ \cup (IF e \in held THEN {} ELSE Strands(s, {e}))]
  <2>1. /\ \A x \in Sessions : x # s => hold'[x] = hold[x]
        /\ ToSet(hold'[s].queue) \subseteq ToSet(q)
        /\ \A x \in ToSet(q) : status[x.sock] = "open" => x \in ToSet(hold'[s].queue)
        /\ ToSet(cs) \subseteq ToSet(calls')
        /\ ToSet(calls') \subseteq ToSet(cs) \cup {Dispatch(s, x, "drain") : x \in ToSet(q)}
    <3> HIDE DEF q
    <3> QED BY <1>1, <1>2, KickSets
  <2>2. stranded'[s] = stranded[s] \cup (IF e \in held THEN {} ELSE Strands(s, {e}))
        /\ \A x \in Sessions : x # s => stranded'[x] = stranded[x]
    BY <1>1, <1>2
  <2>3. e.sock = sock[s] => e.id \in Strands(s, {e}) BY DEF Strands
  <2> QED BY <2>1, <2>2, <2>3
<1>3. CASE Kick(s, Append(q, e), cs, charge + 1) /\ stranded' = stranded
  <2> DEFINE r == Append(q, e)
  <2>1. r \in Seq(Entry) /\ ToSet(r) = ToSet(q) \cup {e} BY <1>1, ToSetAppend
  <2>2. Kick(s, r, cs, charge + 1) BY <1>3
  <2> HIDE DEF r
  <2>3. /\ \A x \in Sessions : x # s => hold'[x] = hold[x]
        /\ ToSet(hold'[s].queue) \subseteq ToSet(r)
        /\ \A x \in ToSet(r) : status[x.sock] = "open" => x \in ToSet(hold'[s].queue)
        /\ ToSet(cs) \subseteq ToSet(calls')
        /\ ToSet(calls') \subseteq ToSet(cs) \cup {Dispatch(s, x, "drain") : x \in ToSet(r)}
    BY <2>1, <2>2, KickSets
  <2> QED BY <1>3, <2>1, <2>3
<1> QED BY <1>2, <1>3 DEF HoldFailed

LEMMA DropSets ==
  ASSUME Types, Drains, NEW s \in Sessions, DropHold(s, calls, used)
  PROVE  /\ hold'[s].queue = <<>> /\ \A x \in Sessions : x # s => hold'[x] = hold[x]
         /\ \A c \in ToSet(calls') :
              \E b \in ToSet(calls) : c = b \/ (b.via = "drain" /\ c = [b EXCEPT !.via = "dropped"])
         /\ \A b \in ToSet(calls) : ~(b.sess = s /\ b.via = "drain") => b \in ToSet(calls')
<1>1. /\ calls' \in Seq(Call) /\ Len(calls') = Len(calls)
      /\ hold'[s] = NoHold /\ \A x \in Sessions : x # s => hold'[x] = hold[x]
      /\ \A i \in 1..Len(calls) :
              calls'[i] = IF calls[i].sess = s /\ calls[i].via = "drain"
                          THEN [calls[i] EXCEPT !.via = "dropped"] ELSE calls[i]
  BY DropIs
<1>2. calls \in Seq(Call) BY CallsAre
<1>3. /\ \A x : x \in ToSet(calls) <=> \E n \in 1..Len(calls) : calls[n] = x
      /\ \A x : x \in ToSet(calls') <=> \E n \in 1..Len(calls) : calls'[n] = x
  BY <1>1, <1>2, ToSetIs
<1>4. hold'[s].queue = <<>> BY <1>1 DEF NoHold
<1>5. \A c \in ToSet(calls') :
              \E b \in ToSet(calls) : c = b \/ (b.via = "drain" /\ c = [b EXCEPT !.via = "dropped"])
  <2> SUFFICES ASSUME NEW c \in ToSet(calls')
               PROVE  \E b \in ToSet(calls) : c = b \/ (b.via = "drain" /\ c = [b EXCEPT !.via = "dropped"])
    OBVIOUS
  <2>1. PICK i \in 1..Len(calls) : calls'[i] = c BY <1>3
  <2>2. calls[i] \in ToSet(calls) BY <1>3
  <2>3. CASE calls[i].sess = s /\ calls[i].via = "drain"
    <3>1. c = [calls[i] EXCEPT !.via = "dropped"] BY <1>1, <2>1, <2>3
    <3> QED BY <2>2, <2>3, <3>1
  <2>4. CASE ~(calls[i].sess = s /\ calls[i].via = "drain")
    <3>1. c = calls[i] BY <1>1, <2>1, <2>4
    <3> QED BY <2>2, <3>1
  <2> QED BY <2>3, <2>4
<1>6. ASSUME NEW b \in ToSet(calls), ~(b.sess = s /\ b.via = "drain") PROVE b \in ToSet(calls')
  <2>1. PICK i \in 1..Len(calls) : calls[i] = b BY <1>3
  <2>2. calls'[i] = b BY <1>1, <1>6, <2>1
  <2> QED BY <1>3, <2>2
<1> QED BY <1>1, <1>4, <1>5, <1>6

LEMMA RejectionSets ==
  ASSUME Types, NEW j \in 1..Len(calls), NEW cs \in AfterRejection(j)
  PROVE  /\ cs \in Seq(Call)
         /\ \A c \in ToSet(cs) : c \in ToSet(calls) \/ c = [calls[j] EXCEPT !.waiting = FALSE]
         /\ \A c \in ToSet(calls) : c # calls[j] => c \in ToSet(cs)
<1>1. calls \in Seq(Call) BY CallsAre
<1>2. CASE cs = RemoveAt(calls, j) BY <1>1, <1>2, RemoveSets
<1>3. CASE cs = [calls EXCEPT ![j].waiting = FALSE]
  <2>1. /\ cs \in Seq(Call) /\ Len(cs) = Len(calls)
        /\ \A i \in 1..Len(calls) : i # j => cs[i] = calls[i]
        /\ cs[j] = [calls[j] EXCEPT !.waiting = FALSE]
    BY <1>3, MarkIs
  <2>2. /\ \A x : x \in ToSet(calls) <=> \E n \in 1..Len(calls) : calls[n] = x
        /\ \A x : x \in ToSet(cs) <=> \E n \in 1..Len(cs) : cs[n] = x
    BY <1>1, <2>1, ToSetIs
  <2> QED BY <2>1, <2>2
<1> QED BY <1>2, <1>3 DEF AfterRejection

-----------------------------------------------------------------------------
(* Whose frames are where: no id is anywhere before it was typed, no frame *)
(* is on another page's socket, and what is written or remembered landed   *)

EntryOk(s, e) == Owner[e.sock] = s /\ e.id <= typed[s]
CallOk(c) == /\ Owner[c.sock] = c.sess /\ c.id <= typed[c.sess]
             /\ c.written => c.id \in ToSet(pane[c.sess])

PageOk == \A s \in Sessions :
  /\ sock[s] # None => Owner[sock[s]] = s
  /\ sent[s] \subseteq pending[s]
  /\ \A i \in pending[s] : i <= typed[s]
WireOk == \A k \in Sockets : \A i \in ToSet(inbox[k]) : i <= typed[Owner[k]]
HoldOk == \A s \in Sessions : \A e \in ToSet(hold[s].queue) : EntryOk(s, e)
CallsOk == \A c \in ToSet(calls) : CallOk(c)
PaneOk == \A s \in Sessions :
  /\ ToSet(window[s]) \subseteq ToSet(pane[s])
  /\ \A i \in ToSet(pane[s]) : i <= typed[s]

Belongs == PageOk /\ WireOk /\ HoldOk /\ CallsOk /\ PaneOk

\* A frame of the page of k, and its write.
LEMMA FrameOk ==
  ASSUME Types, Belongs, NEW k \in Sockets, inbox[k] # <<>>
  PROVE  /\ EntryOk(Owner[k], Frame(k)) /\ Frame(k).id \in Ids
         /\ \A i \in ToSet(Tail(inbox[k])) : i <= typed[Owner[k]]
<1>1. /\ Frame(k) \in Entry /\ Frame(k).sock = k
      /\ ToSet(inbox[k]) = {Frame(k).id} \cup ToSet(Tail(inbox[k]))
  BY FrameIs
<1>2. \A i \in ToSet(inbox[k]) : i <= typed[Owner[k]] BY DEF Belongs, WireOk
<1>3. Frame(k).id \in Ids BY <1>1 DEF Entry
<1> QED BY <1>1, <1>2, <1>3 DEF EntryOk

LEMMA DispatchOk ==
  ASSUME NEW s \in Sessions, NEW e \in Entry, EntryOk(s, e), NEW via \in {"fresh", "drain", "dropped"}
  PROVE  CallOk(Dispatch(s, e, via))
BY DispatchIs DEF EntryOk, CallOk

LEMMA HoldFailedOk ==
  ASSUME Types, Belongs, NEW s \in Sessions, NEW e \in Entry, EntryOk(s, e),
         NEW cs \in Seq(Call), \A c \in ToSet(cs) : CallOk(c), NEW charge,
         HoldFailed(s, e, cs, charge)
  PROVE  /\ \A x \in Sessions : \A h \in ToSet(hold'[x].queue) : EntryOk(x, h)
         /\ \A c \in ToSet(calls') : CallOk(c)
<1>1. /\ \A x \in Sessions : x # s => hold'[x] = hold[x]
      /\ ToSet(hold'[s].queue) \subseteq ToSet(hold[s].queue) \cup {e}
      /\ ToSet(calls') \subseteq
           ToSet(cs) \cup {Dispatch(s, x, "drain") : x \in ToSet(hold[s].queue) \cup {e}}
  BY HoldFailedSets
<1>2. \A x \in Sessions : \A h \in ToSet(hold[x].queue) : EntryOk(x, h) BY DEF Belongs, HoldOk
<1>3. \A x \in Sessions : \A h \in ToSet(hold'[x].queue) : EntryOk(x, h)
  <2> SUFFICES ASSUME NEW x \in Sessions, NEW h \in ToSet(hold'[x].queue) PROVE EntryOk(x, h)
    OBVIOUS
  <2>1. CASE x = s BY <1>1, <1>2, <2>1
  <2>2. CASE x # s
    <3>1. hold'[x] = hold[x] BY <1>1, <2>2
    <3>2. h \in ToSet(hold[x].queue) BY <3>1
    <3> QED BY <1>2, <3>2
  <2> QED BY <2>1, <2>2
<1>4. \A x \in ToSet(hold[s].queue) \cup {e} : x \in Entry /\ EntryOk(s, x)
  <2>1. hold[s].queue \in Seq(Entry) BY DEF Types, PlaneT, Hold
  <2>2. ToSet(hold[s].queue) \subseteq Entry BY <2>1, ToSetIs
  <2> QED BY <1>2, <2>2
<1>5. \A x \in ToSet(hold[s].queue) \cup {e} : CallOk(Dispatch(s, x, "drain")) BY <1>4, DispatchOk
<1> QED BY <1>1, <1>3, <1>5

\* Acks and re-sends.
LEMMA AckOk ==
  ASSUME Types, PageOk, NEW k \in Sockets, NEW id \in Ids, NEW box \in [Sockets -> Seq(Ids)],
         \A x \in Sockets : \A i \in ToSet(box[x]) : i <= typed[Owner[x]],
         Ack(Owner[k], k, id, box), UNCHANGED <<typed, sock>>
  PROVE  PageOk' /\ WireOk'
<1> DEFINE s == Owner[k]
<1>1. s \in Sessions BY OwnerAssumption
<1>2. Ack(s, k, id, box) OBVIOUS
<1> HIDE DEF s
<1>3. /\ \A x \in Sessions : x # s => pending'[x] = pending[x] /\ sent'[x] = sent[x]
      /\ \A y \in Sockets : y # k => inbox'[y] = box[y]
      /\ ~Hears(s, k) => pending' = pending /\ sent' = sent /\ inbox' = box
      /\ Hears(s, k) => pending'[s] = pending[s] \ {id}
  BY <1>1, <1>2, AckIs
<1>6. Hears(s, k) => \A i \in sent'[s] : i # id /\ (i \in pending[s] \/ i \in sent[s])
  BY <1>1, <1>2, AckIs
<1>7. Hears(s, k) => \A i : i \in ToSet(inbox'[k]) <=>
                                i \in ToSet(box[k]) \/ (i \in sent'[s] /\ i \notin sent[s])
  BY <1>1, <1>2, AckIs
<1>4. CASE ~Hears(s, k)
  <2>1. UNCHANGED <<pending, sent, typed, sock>> /\ inbox' = box BY <1>3, <1>4
  <2> QED BY <2>1 DEF PageOk, WireOk
<1>5. CASE Hears(s, k)
  <2>2. pending'[s] = pending[s] \ {id} BY <1>3, <1>5
  <2>3. sent[s] \subseteq pending[s] /\ \A i \in pending[s] : i <= typed[s] BY <1>1 DEF PageOk
  <2>4. sent'[s] \subseteq pending'[s] /\ \A i \in pending'[s] : i <= typed[s] BY <1>5, <1>6, <2>2, <2>3
  <2>5. PageOk'
    <3> SUFFICES ASSUME NEW x \in Sessions
                 PROVE  /\ sock[x] # None => Owner[sock[x]] = x
                        /\ sent'[x] \subseteq pending'[x]
                        /\ \A i \in pending'[x] : i <= typed[x]
      BY DEF PageOk
    <3>1. sock[x] # None => Owner[sock[x]] = x BY DEF PageOk
    <3>2. CASE x = s BY <2>4, <3>1, <3>2
    <3>3. CASE x # s
      <4>1. pending'[x] = pending[x] /\ sent'[x] = sent[x] BY <1>3, <3>3
      <4> QED BY <3>1, <4>1 DEF PageOk
    <3> QED BY <3>2, <3>3
  <2>6. \A i \in ToSet(inbox'[k]) : i <= typed[Owner[k]] BY <1>5, <1>7, <2>2, <2>3, <2>4 DEF s
  <2>7. WireOk' BY <1>3, <2>6 DEF WireOk
  <2> QED BY <2>5, <2>7
<1> QED BY <1>4, <1>5

LEMMA TypeK ==
  ASSUME Types, Types', Belongs, NEW s \in Sessions, Type(s)
  PROVE  Belongs'
<1> DEFINE id  == typed[s] + 1
           all == pending[s] \cup {id}
           old == IF Cardinality(all) > MaxPending THEN Oldest(1, all) ELSE {}
           out == IF pending[s] = {} /\ sock[s] # None THEN {id} ELSE {}
<1>1. /\ typed \in [Sessions -> 0..MaxId] /\ sock \in [Sessions -> Sockets \cup {None}]
      /\ pending \in [Sessions -> SUBSET Ids] /\ sent \in [Sessions -> SUBSET Ids]
      /\ inbox \in [Sockets -> Seq(Ids)] /\ MaxId \in Nat
  BY IdsAre DEF Types, PageT, WireT
<1>2. /\ typed' = [typed EXCEPT ![s] = id]
      /\ pending' = [pending EXCEPT ![s] = all \ old]
      /\ sent' = [sent EXCEPT ![s] = (@ \cup out) \ old]
      /\ inbox' = IF out = {} THEN inbox ELSE [inbox EXCEPT ![sock[s]] = Append(@, id)]
      /\ UNCHANGED <<sock, hold, window, calls, pane>>
  BY DEF Type, plane
<1>3. typed'[s] = id /\ typed[s] \in Nat /\ id = typed[s] + 1
      /\ \A x \in Sessions : typed[x] \in Nat /\ (x # s => typed'[x] = typed[x])
  BY <1>1, <1>2
<1>4. \A x \in Sessions : \A i \in Ids : i <= typed[x] => i <= typed'[x]
  <2> SUFFICES ASSUME NEW x \in Sessions, NEW i \in Ids, i <= typed[x] PROVE i <= typed'[x]
    OBVIOUS
  <2>1. i \in Nat BY IdsAre
  <2>2. CASE x = s BY <1>3, <2>1, <2>2
  <2>3. CASE x # s BY <1>3, <2>3
  <2> QED BY <2>2, <2>3
<1>5. out \subseteq {id} /\ (out # {} => pending[s] = {} /\ sock[s] # None /\ out = {id}) OBVIOUS
<1>6. id \in Ids
  <2>1. typed'[s] \in 0..MaxId BY DEF Types, PageT
  <2> QED BY <1>1, <1>3, <2>1 DEF Ids
<1> HIDE DEF old, out
<1>7. PageOk'
  <2> SUFFICES ASSUME NEW x \in Sessions
               PROVE  /\ sock'[x] # None => Owner[sock'[x]] = x
                      /\ sent'[x] \subseteq pending'[x]
                      /\ \A i \in pending'[x] : i <= typed'[x]
    BY DEF PageOk
  <2>1. /\ sock[x] # None => Owner[sock[x]] = x
        /\ sent[x] \subseteq pending[x]
        /\ \A i \in pending[x] : i <= typed[x]
    BY DEF Belongs, PageOk
  <2>2. \A i \in pending[x] : i <= typed'[x] BY <1>1, <1>4, <2>1
  <2>3. CASE x = s
    <3>1. pending'[x] = all \ old /\ sent'[x] = (sent[x] \cup out) \ old BY <1>1, <1>2, <2>3
    <3>2. id <= typed'[x] BY <1>3, <2>3
    <3> QED BY <1>2, <1>5, <2>1, <2>2, <2>3, <3>1, <3>2
  <2>4. CASE x # s
    <3>1. pending'[x] = pending[x] /\ sent'[x] = sent[x] BY <1>1, <1>2, <2>4
    <3> QED BY <1>2, <2>1, <2>2, <3>1
  <2> QED BY <2>3, <2>4
<1>8. WireOk'
  <2> SUFFICES ASSUME NEW k \in Sockets, NEW i \in ToSet(inbox'[k]) PROVE i <= typed'[Owner[k]]
    BY DEF WireOk
  <2>1. Owner[k] \in Sessions BY OwnerAssumption
  <2>2. inbox[k] \in Seq(Ids) BY <1>1
  <2>3. ToSet(inbox[k]) \subseteq Ids BY <2>2, ToSetIs
  <2>4. \A m \in ToSet(inbox[k]) : m <= typed'[Owner[k]] BY <1>4, <2>1, <2>3 DEF Belongs, WireOk
  <2>5. CASE inbox'[k] = inbox[k] BY <2>4, <2>5
  <2>6. CASE inbox'[k] # inbox[k]
    <3>1. out # {} BY <1>2, <2>6
    <3>2. k = sock[s] /\ inbox'[k] = Append(inbox[k], id) BY <1>1, <1>2, <2>6, <3>1
    <3>3. Owner[k] = s BY <1>5, <3>1, <3>2 DEF Belongs, PageOk
    <3>4. i \in ToSet(inbox[k]) \cup {id} BY <1>6, <2>2, <3>2, ToSetAppend
    <3> QED BY <1>3, <2>4, <3>3, <3>4
  <2> QED BY <2>5, <2>6
<1>9. HoldOk'
  <2> SUFFICES ASSUME NEW x \in Sessions, NEW e \in ToSet(hold[x].queue)
               PROVE  Owner[e.sock] = x /\ e.id <= typed'[x]
    BY <1>2 DEF HoldOk, EntryOk
  <2>1. hold[x].queue \in Seq(Entry) BY DEF Types, PlaneT, Hold
  <2>2. e \in Entry BY <2>1, ToSetIs
  <2> QED BY <1>4, <2>2 DEF Belongs, HoldOk, EntryOk, Entry
<1>10. CallsOk'
  <2> SUFFICES ASSUME NEW c \in ToSet(calls)
               PROVE  /\ Owner[c.sock] = c.sess /\ c.id <= typed'[c.sess]
                      /\ c.written => c.id \in ToSet(pane[c.sess])
    BY <1>2 DEF CallsOk, CallOk
  <2>1. calls \in Seq(Call) BY CallsAre
  <2>2. c \in Call BY <2>1, ToSetIs
  <2> QED BY <1>4, <2>2 DEF Belongs, CallsOk, CallOk, Call
<1>11. PaneOk'
  <2> SUFFICES ASSUME NEW x \in Sessions
               PROVE  /\ ToSet(window[x]) \subseteq ToSet(pane[x])
                      /\ \A i \in ToSet(pane[x]) : i <= typed'[x]
    BY <1>2 DEF PaneOk
  <2>1. pane[x] \in Seq(Ids) BY DEF Types, NodeT
  <2>2. ToSet(pane[x]) \subseteq Ids BY <2>1, ToSetIs
  <2> QED BY <1>4, <2>2 DEF Belongs, PaneOk
<1> QED BY <1>7, <1>8, <1>9, <1>10, <1>11 DEF Belongs

\* The window's flush and the attach: the page puts what it holds on its socket.
LEMMA SendsK ==
  ASSUME Types, Belongs, NEW s \in Sessions, NEW k \in Sockets, Owner[k] = s,
         UNCHANGED <<typed, pending, hold, window, calls, pane>>,
         \A x \in Sessions : x # s => sock'[x] = sock[x] /\ sent'[x] = sent[x],
         sock'[s] = k, sent'[s] \subseteq pending[s],
         \A x \in Sockets : x # k => inbox'[x] = inbox[x],
         ToSet(inbox'[k]) \subseteq ToSet(inbox[k]) \cup pending[s]
  PROVE  Belongs'
<1>1. PageOk'
  <2> SUFFICES ASSUME NEW x \in Sessions
               PROVE  /\ sock'[x] # None => Owner[sock'[x]] = x
                      /\ sent'[x] \subseteq pending[x]
                      /\ \A i \in pending[x] : i <= typed[x]
    BY DEF PageOk
  <2>1. CASE x = s BY <2>1 DEF Belongs, PageOk
  <2>2. CASE x # s
    <3>1. sock'[x] = sock[x] /\ sent'[x] = sent[x] BY <2>2
    <3> QED BY <3>1 DEF Belongs, PageOk
  <2> QED BY <2>1, <2>2
<1>2. \A i \in ToSet(inbox'[k]) : i <= typed[s] BY DEF Belongs, PageOk, WireOk
<1>3. WireOk' BY <1>2 DEF Belongs, WireOk
<1>4. HoldOk' /\ CallsOk' /\ PaneOk' BY DEF Belongs, HoldOk, EntryOk, CallsOk, CallOk, PaneOk
<1> QED BY <1>1, <1>3, <1>4 DEF Belongs

LEMMA WindowFiresK ==
  ASSUME Types, Belongs, NEW s \in Sessions, WindowFires(s)
  PROVE  Belongs'
<1> DEFINE next == Flushable(pending[s], sent[s])
<1>1. /\ sent' = [sent EXCEPT ![s] = @ \cup next]
      /\ inbox' = [inbox EXCEPT ![sock[s]] = @ \o InOrder(next)]
      /\ sock[s] # None
      /\ UNCHANGED <<typed, pending, sock, hold, window, calls, pane>>
  BY DEF WindowFires, plane
<1>2. next \subseteq pending[s] BY FlushIs
<1> HIDE DEF next
<1>3. /\ pending \in [Sessions -> SUBSET Ids] /\ sent \in [Sessions -> SUBSET Ids]
      /\ sock \in [Sessions -> Sockets \cup {None}] /\ inbox \in [Sockets -> Seq(Ids)]
  BY DEF Types, PageT, WireT
<1>4. next \subseteq Ids /\ sock[s] \in Sockets BY <1>1, <1>2, <1>3
<1>5. Owner[sock[s]] = s /\ sent[s] \subseteq pending[s] BY <1>1 DEF Belongs, PageOk
<1>6. InOrder(next) \in Seq(Ids) /\ ToSet(InOrder(next)) = next BY <1>4, IdsInOrder
<1>7. ToSet(inbox[sock[s]] \o InOrder(next)) = ToSet(inbox[sock[s]]) \cup next
  BY <1>3, <1>4, <1>6, ToSetConcat
<1>8. ToSet(inbox'[sock[s]]) \subseteq ToSet(inbox[sock[s]]) \cup pending[s]
  BY <1>1, <1>2, <1>3, <1>4, <1>7
<1>9. sent'[s] \subseteq pending[s] BY <1>1, <1>2, <1>3, <1>5
<1>10. \A x \in Sockets : x # sock[s] => inbox'[x] = inbox[x] BY <1>1, <1>3
<1>11. \A x \in Sessions : x # s => sock'[x] = sock[x] /\ sent'[x] = sent[x] BY <1>1, <1>3
<1>12. sock'[s] = sock[s] BY <1>1
<1> QED BY <1>1, <1>4, <1>5, <1>8, <1>9, <1>10, <1>11, <1>12, SendsK

LEMMA AttachK ==
  ASSUME Types, Belongs, NEW s \in Sessions, NEW k \in Sockets, Attach(s, k)
  PROVE  Belongs'
<1> DEFINE next == Flushable(pending[s], sent[s])
<1>1. /\ Owner[k] = s
      /\ sock' = [sock EXCEPT ![s] = k]
      /\ sent' = [sent EXCEPT ![s] = @ \cup next]
      /\ inbox' = [inbox EXCEPT ![k] = InOrder(sent[s]) \o InOrder(next)]
      /\ UNCHANGED <<typed, pending, hold, window, calls, pane>>
  BY DEF Attach, plane
<1>2. next \subseteq pending[s] BY FlushIs
<1> HIDE DEF next
<1>3. /\ pending \in [Sessions -> SUBSET Ids] /\ sent \in [Sessions -> SUBSET Ids]
      /\ sock \in [Sessions -> Sockets \cup {None}] /\ inbox \in [Sockets -> Seq(Ids)]
  BY DEF Types, PageT, WireT
<1>4. next \subseteq Ids /\ sent[s] \subseteq Ids BY <1>2, <1>3
<1>5. sent[s] \subseteq pending[s] BY DEF Belongs, PageOk
<1>6. /\ InOrder(next) \in Seq(Ids) /\ ToSet(InOrder(next)) = next
      /\ InOrder(sent[s]) \in Seq(Ids) /\ ToSet(InOrder(sent[s])) = sent[s]
  BY <1>4, IdsInOrder
<1> DEFINE a == InOrder(sent[s]) b == InOrder(next)
<1>7. ToSet(a \o b) = sent[s] \cup next
  <2>1. a \in Seq(Ids) /\ b \in Seq(Ids) /\ ToSet(a) = sent[s] /\ ToSet(b) = next BY <1>6
  <2> HIDE DEF a, b
  <2> QED BY <2>1, ToSetConcat
<1>8. ToSet(inbox'[k]) \subseteq ToSet(inbox[k]) \cup pending[s] BY <1>1, <1>2, <1>3, <1>5, <1>7
<1>9. sent'[s] \subseteq pending[s] BY <1>1, <1>2, <1>3, <1>5
<1>10. \A x \in Sockets : x # k => inbox'[x] = inbox[x] BY <1>1, <1>3
<1>11. \A x \in Sessions : x # s => sock'[x] = sock[x] /\ sent'[x] = sent[x] BY <1>1, <1>3
<1>12. sock'[s] = k BY <1>1, <1>3
<1> QED BY <1>1, <1>8, <1>9, <1>10, <1>11, <1>12, SendsK

LEMMA PageLosesSocketK ==
  ASSUME Types, Belongs, NEW s \in Sessions, PageLosesSocket(s)
  PROVE  Belongs'
<1>1. /\ sock' = [sock EXCEPT ![s] = None]
      /\ UNCHANGED <<typed, pending, sent, inbox, hold, window, calls, pane>>
  BY DEF PageLosesSocket, plane
<1>2. sock \in [Sessions -> Sockets \cup {None}] BY DEF Types, PageT
<1>3. PageOk' BY <1>1, <1>2 DEF Belongs, PageOk
<1>4. WireOk' /\ HoldOk' /\ CallsOk' /\ PaneOk'
  BY <1>1 DEF Belongs, WireOk, HoldOk, EntryOk, CallsOk, CallOk, PaneOk
<1> QED BY <1>3, <1>4 DEF Belongs

\* A frame leaves the wire.
LEMMA TakesK ==
  ASSUME Types, Belongs, NEW k \in Sockets, Takes(k), UNCHANGED typed
  PROVE  WireOk'
<1>1. inbox[k] # <<>> /\ inbox' = [inbox EXCEPT ![k] = Tail(@)] BY DEF Takes
<1>2. inbox \in [Sockets -> Seq(Ids)] BY DEF Types, WireT
<1>3. \A i \in ToSet(Tail(inbox[k])) : i <= typed[Owner[k]] BY <1>1, FrameOk
<1>4. inbox'[k] = Tail(inbox[k]) /\ \A x \in Sockets : x # k => inbox'[x] = inbox[x] BY <1>1, <1>2
<1>5. ASSUME NEW x \in Sockets, NEW i \in ToSet(inbox'[x]) PROVE i <= typed[Owner[x]]
  BY <1>3, <1>4 DEF Belongs, WireOk
<1> QED BY <1>5 DEF WireOk

\* A step that leaves the page, the pane and the window alone.
LEMMA PlaneK ==
  ASSUME Belongs, UNCHANGED <<typed, pending, sent, sock, window, pane>>,
         WireOk', HoldOk', CallsOk'
  PROVE  Belongs'
<1>1. PageOk' /\ PaneOk' BY DEF Belongs, PageOk, PaneOk
<1> QED BY <1>1 DEF Belongs

\* A hold is dropped: its writes are another's.
LEMMA DropK ==
  ASSUME Types, Drains, Belongs, NEW s \in Sessions, DropHold(s, calls, used), UNCHANGED <<typed, pane>>
  PROVE  HoldOk' /\ CallsOk'
<1>1. /\ hold'[s].queue = <<>> /\ \A x \in Sessions : x # s => hold'[x] = hold[x]
      /\ \A c \in ToSet(calls') :
           \E b \in ToSet(calls) : c = b \/ (b.via = "drain" /\ c = [b EXCEPT !.via = "dropped"])
  BY DropSets
<1>2. HoldOk'
  <2> SUFFICES ASSUME NEW x \in Sessions, NEW e \in ToSet(hold'[x].queue) PROVE EntryOk(x, e)
    BY DEF HoldOk, EntryOk
  <2>1. x # s
    <3>1. ToSet(<<>>) = {} BY DEF ToSet
    <3> QED BY <1>1, <3>1
  <2>2. hold'[x] = hold[x] BY <1>1, <2>1
  <2>3. e \in ToSet(hold[x].queue) BY <2>2
  <2> QED BY <2>3 DEF Belongs, HoldOk
<1>3. CallsOk'
  <2> SUFFICES ASSUME NEW c \in ToSet(calls') PROVE CallOk(c)
    BY DEF CallsOk, CallOk
  <2>1. PICK b \in ToSet(calls) : c = b \/ (b.via = "drain" /\ c = [b EXCEPT !.via = "dropped"])
    BY <1>1
  <2>2. calls \in Seq(Call) BY CallsAre
  <2>3. b \in Call BY <2>2, ToSetIs
  <2>4. CallOk(b) BY DEF Belongs, CallsOk
  <2> QED BY <2>1, <2>3, <2>4 DEF CallOk, Call
<1> QED BY <1>2, <1>3

LEMMA IgnoreFrameK ==
  ASSUME Types, Belongs, NEW k \in Sockets, IgnoreFrame(k) \/ RefuseFrame(k)
  PROVE  Belongs'
<1>1. Takes(k) /\ UNCHANGED <<typed, pending, sent, sock, window, pane, hold, calls>>
  BY DEF IgnoreFrame, RefuseFrame, Fresh, client, plane
<1>2. WireOk' BY <1>1, TakesK
<1>3. HoldOk' /\ CallsOk' BY <1>1 DEF Belongs, HoldOk, EntryOk, CallsOk, CallOk
<1> QED BY <1>1, <1>2, <1>3, PlaneK

LEMMA AckAgainK ==
  ASSUME Types, Belongs, NEW k \in Sockets, AckAgain(k)
  PROVE  Belongs'
<1>1. /\ inbox[k] # <<>>
      /\ Ack(Owner[k], k, Frame(k).id, [inbox EXCEPT ![k] = Tail(@)])
      /\ UNCHANGED <<typed, sock, window, pane, hold, calls>>
  BY DEF AckAgain, plane
<1> DEFINE box == [inbox EXCEPT ![k] = Tail(@)]
<1>2. box \in [Sockets -> Seq(Ids)] /\ Frame(k).id \in Ids BY <1>1, FrameIs DEF Entry
<1>3. inbox \in [Sockets -> Seq(Ids)] BY DEF Types, WireT
<1>4. box[k] = Tail(inbox[k]) /\ \A x \in Sockets : x # k => box[x] = inbox[x] BY <1>3
<1>5. \A i \in ToSet(Tail(inbox[k])) : i <= typed[Owner[k]] BY <1>1, FrameOk
<1>6. Ack(Owner[k], k, Frame(k).id, box) BY <1>1
<1> HIDE DEF box
<1>7. \A x \in Sockets : \A i \in ToSet(box[x]) : i <= typed[Owner[x]]
  BY <1>4, <1>5 DEF Belongs, WireOk
<1>8. PageOk' /\ WireOk'
  <2>1. PageOk BY DEF Belongs
  <2> QED BY <1>1, <1>2, <1>6, <1>7, <2>1, AckOk
<1>9. HoldOk' /\ CallsOk' /\ PaneOk' BY <1>1 DEF Belongs, HoldOk, EntryOk, CallsOk, CallOk, PaneOk
<1> QED BY <1>8, <1>9 DEF Belongs

LEMMA JoinHoldK ==
  ASSUME Types, Drains, Belongs, NEW k \in Sockets, JoinHold(k)
  PROVE  Belongs'
<1> DEFINE s == Owner[k] e == Frame(k)
<1>1. /\ Takes(k) /\ inbox[k] # <<>>
      /\ HoldFailed(s, e, calls, used) \/ DropHold(s, calls, used)
      /\ UNCHANGED <<typed, pending, sent, sock, window, pane>>
  BY DEF JoinHold, Takes, HoldOverflows, client
<1>2. s \in Sessions /\ e \in Entry /\ EntryOk(s, e) BY <1>1, FrameIs, FrameOk
<1>3. WireOk' BY <1>1, TakesK
<1> HIDE DEF s, e
<1>4. HoldOk' /\ CallsOk'
  <2>1. CASE HoldFailed(s, e, calls, used)
    <3>1. calls \in Seq(Call) /\ \A c \in ToSet(calls) : CallOk(c) BY CallsAre DEF Belongs, CallsOk
    <3>2. /\ \A x \in Sessions : \A h \in ToSet(hold'[x].queue) : EntryOk(x, h)
          /\ \A c \in ToSet(calls') : CallOk(c)
      BY <1>2, <2>1, <3>1, HoldFailedOk
    <3> QED BY <1>1, <3>2 DEF HoldOk, EntryOk, CallsOk, CallOk
  <2>2. CASE DropHold(s, calls, used) BY <1>1, <1>2, <2>2, DropK
  <2> QED BY <1>1, <2>1, <2>2
<1> QED BY <1>1, <1>3, <1>4, PlaneK

\* A fresh frame is written.
LEMMA WriteK ==
  ASSUME Types, Belongs, NEW k \in Sockets, Fresh(k), Write(k), UNCHANGED <<typed, pane>>
  PROVE  WireOk' /\ CallsOk'
<1> DEFINE c == Dispatch(Owner[k], Frame(k), "fresh")
<1>1. Takes(k) /\ inbox[k] # <<>> /\ calls' = Append(calls, c) BY DEF Fresh, Write, Takes
<1>2. Owner[k] \in Sessions /\ Frame(k) \in Entry /\ EntryOk(Owner[k], Frame(k))
  BY <1>1, FrameIs, FrameOk
<1>3. WireOk' BY <1>1, TakesK
<1>4. c \in Call /\ CallOk(c) BY <1>2, DispatchIs, DispatchOk
<1> HIDE DEF c
<1>5. calls \in Seq(Call) BY CallsAre
<1>6. ToSet(calls') = ToSet(calls) \cup {c} BY <1>1, <1>4, <1>5, ToSetAppend
<1>7. \A x \in ToSet(calls') : CallOk(x) BY <1>4, <1>6 DEF Belongs, CallsOk
<1>8. CallsOk' BY <1>7 DEF CallsOk, CallOk
<1> QED BY <1>3, <1>8

LEMMA WriteFrameK ==
  ASSUME Types, Drains, Belongs, NEW k \in Sockets, WriteFrame(k) \/ WriteReclaiming(k)
  PROVE  Belongs'
<1>1. Fresh(k) /\ Write(k) /\ UNCHANGED <<typed, pending, sent, sock, window, pane>>
  BY DEF WriteFrame, WriteReclaiming, client
<1>2. WireOk' /\ CallsOk' BY <1>1, WriteK
<1>3. HoldOk'
  <2>1. CASE UNCHANGED hold BY <1>1, <2>1 DEF Belongs, HoldOk, EntryOk
  <2>2. CASE \E s \in {x \in Sessions : Idle(x) # {}} :
               hold' = [hold EXCEPT ![s].queue = RemoveAt(hold[s].queue, Min(Idle(s)))]
    <3>1. PICK s \in Sessions :
            /\ Idle(s) # {}
            /\ hold' = [hold EXCEPT ![s].queue = RemoveAt(hold[s].queue, Min(Idle(s)))]
      BY <2>2
    <3> DEFINE q == hold[s].queue i == Min(Idle(s)) r == RemoveAt(q, i)
    <3>2. q \in Seq(Entry) /\ Len(q) \in Nat /\ i \in 1..Len(q) /\ (hold[s].draining => i > 1)
      BY <3>1, IdleIs
    <3>3. hold \in [Sessions -> Hold] BY DEF Types, PlaneT
    <3>4. hold' = [hold EXCEPT ![s].queue = r] BY <3>1
    <3> HIDE DEF i, q
    <3>5. ToSet(r) \subseteq ToSet(q) BY <3>2, RemoveSets
    <3> HIDE DEF r
    <3>6. hold'[s].queue = r /\ \A x \in Sessions : x # s => hold'[x] = hold[x] BY <3>3, <3>4 DEF Hold
    <3>7. ASSUME NEW x \in Sessions, NEW e \in ToSet(hold'[x].queue) PROVE EntryOk(x, e)
      <4>1. e \in ToSet(hold[x].queue)
        <5>1. CASE x = s BY <3>5, <3>6, <5>1 DEF q
        <5>2. CASE x # s
          <6>1. hold'[x] = hold[x] BY <3>6, <5>2
          <6> QED BY <6>1
        <5> QED BY <5>1, <5>2
      <4> QED BY <4>1 DEF Belongs, HoldOk
    <3> QED BY <1>1, <3>7 DEF HoldOk, EntryOk
  <2> QED BY <2>1, <2>2 DEF WriteFrame, WriteReclaiming
<1> QED BY <1>1, <1>2, <1>3, PlaneK

LEMMA PlaneSeesCloseK ==
  ASSUME Types, Drains, Belongs, NEW k \in Sockets, PlaneSeesClose(k)
  PROVE  Belongs'
<1>1. /\ inbox' = [inbox EXCEPT ![k] = <<>>]
      /\ DropHold(Owner[k], calls, used)
      /\ UNCHANGED <<typed, pending, sent, sock, window, pane>>
  BY DEF PlaneSeesClose, client
<1>2. Owner[k] \in Sessions BY OwnerAssumption
<1>3. HoldOk' /\ CallsOk' BY <1>1, <1>2, DropK
<1>4. WireOk'
  <2>1. inbox \in [Sockets -> Seq(Ids)] BY DEF Types, WireT
  <2>2. inbox'[k] = <<>> /\ \A x \in Sockets : x # k => inbox'[x] = inbox[x] BY <1>1, <2>1
  <2>3. ToSet(<<>>) = {} BY DEF ToSet
  <2>4. ASSUME NEW x \in Sockets, NEW i \in ToSet(inbox'[x]) PROVE i <= typed[Owner[x]]
    BY <2>2, <2>3 DEF Belongs, WireOk
  <2> QED BY <1>1, <2>4 DEF WireOk
<1> QED BY <1>1, <1>3, <1>4, PlaneK

-----------------------------------------------------------------------------
(* The node's steps, on the sets of frames                                 *)

\* An answer: its write leaves the chain, its entry the hold.
LEMMA ResolvedSets ==
  ASSUME Types, Drains, NEW j \in 1..Len(calls), Resolved(j)
  PROVE  LET c == calls[j] s == c.sess rest == RemoveAt(calls, j) IN
         /\ c \in Call /\ rest \in Seq(Call)
         /\ \A x \in Sessions : x # s => hold'[x] = hold[x]
         /\ c.via # "drain" => hold' = hold /\ calls' = rest
         /\ c.via = "drain" =>
              /\ hold[s].queue # <<>> /\ Head(hold[s].queue).id = c.id /\ Head(hold[s].queue).sock = c.sock
              /\ hold'[s].queue = Servable(Tail(hold[s].queue))
         /\ ToSet(hold'[s].queue) \subseteq ToSet(hold[s].queue)
         /\ ToSet(rest) \subseteq ToSet(calls')
         /\ ToSet(calls') \subseteq ToSet(rest) \cup {Dispatch(s, e, "drain") : e \in ToSet(hold[s].queue)}
<1> DEFINE c == calls[j] s == c.sess q == hold[s].queue rest == RemoveAt(calls, j)
<1>1. /\ c.waiting
      /\ IF c.via = "drain"
         THEN /\ hold' = [hold EXCEPT ![s] = Draining(s, Tail(q))]
              /\ calls' = rest \o Refires(s, Tail(q))
         ELSE calls' = rest /\ UNCHANGED hold
  BY DEF Resolved, NextToSettle
<1>2. c \in Call /\ calls \in Seq(Call) BY CallsAre
<1>3. s \in Sessions /\ hold \in [Sessions -> Hold] BY <1>2 DEF Call, Types, PlaneT
<1>4. rest \in Seq(Call) BY <1>2, RemoveAtIs
<1>5. q \in Seq(Entry) BY <1>3 DEF Hold
<1>6. CASE c.via = "drain"
  <2>1. IsDrain(calls[j], s) BY <1>1, <1>6 DEF IsDrain
  <2>2. q # <<>> /\ c.id = Head(q).id /\ c.sock = Head(q).sock BY <1>3, <2>1, Ends
  <2> DEFINE t == Tail(q)
  <2>3. t \in Seq(Entry) /\ ToSet(t) \subseteq ToSet(q) BY <1>5, <2>2, ToSetTail
  <2>4. hold' = [hold EXCEPT ![s] = Draining(s, t)] /\ calls' = rest \o Refires(s, t) BY <1>1, <1>6
  <2>5. hold'[s].queue = Servable(t) /\ \A x \in Sessions : x # s => hold'[x] = hold[x]
    BY <1>3, <2>4 DEF Draining
  <2> HIDE DEF t, rest, q, s, c
  <2>6. ToSet(Servable(t)) \subseteq ToSet(t) BY <2>3, ServableSets
  <2>7. /\ ToSet(rest) \subseteq ToSet(rest \o Refires(s, t))
        /\ ToSet(rest \o Refires(s, t)) \subseteq ToSet(rest) \cup {Dispatch(s, e, "drain") : e \in ToSet(t)}
    BY <1>3, <1>4, <2>3, RefiresSets
  <2>8. ToSet(hold'[s].queue) \subseteq ToSet(q) BY <2>3, <2>5, <2>6
  <2>9. ToSet(calls') \subseteq ToSet(rest) \cup {Dispatch(s, e, "drain") : e \in ToSet(q)}
    BY <2>3, <2>4, <2>7
  <2> QED BY <1>2, <1>4, <1>6, <2>2, <2>4, <2>5, <2>7, <2>8, <2>9 DEF t, rest, q, s, c
<1>7. CASE c.via # "drain" BY <1>1, <1>2, <1>4, <1>7
<1> QED BY <1>6, <1>7

LEMMA NodeReadySets ==
  ASSUME Types, NodeReady
  PROVE  /\ \A s \in Sessions :
               /\ hold'[s].queue = Servable(hold[s].queue)
               /\ ToSet(hold'[s].queue) \subseteq ToSet(hold[s].queue)
               /\ \A e \in ToSet(hold[s].queue) : status[e.sock] = "open" => e \in ToSet(hold'[s].queue)
         /\ ToSet(calls) \subseteq ToSet(calls')
         /\ \A c \in ToSet(calls') :
               \/ c \in ToSet(calls)
               \/ \E s \in Sessions : \E e \in ToSet(hold[s].queue) : c = Dispatch(s, e, "drain")
<1>1. hold' = [s \in Sessions |-> Draining(s, hold[s].queue)] BY DEF NodeReady
<1>2. ASSUME NEW s \in Sessions
      PROVE  /\ hold[s].queue \in Seq(Entry)
             /\ hold'[s].queue = Servable(hold[s].queue)
             /\ ToSet(hold'[s].queue) \subseteq ToSet(hold[s].queue)
             /\ \A e \in ToSet(hold[s].queue) : status[e.sock] = "open" => e \in ToSet(hold'[s].queue)
  <2> DEFINE q == hold[s].queue
  <2>1. q \in Seq(Entry) BY DEF Types, PlaneT, Hold
  <2>2. hold'[s].queue = Servable(q) BY <1>1 DEF Draining
  <2> HIDE DEF q
  <2>3. /\ ToSet(Servable(q)) \subseteq ToSet(q)
        /\ \A e \in ToSet(q) : status[e.sock] = "open" => e \in ToSet(Servable(q))
    BY <2>1, ServableSets
  <2> QED BY <2>1, <2>2, <2>3 DEF q
<1>3. PICK R \in Seq(Call) : \E order \in [1..Len(R) -> Refired] :
        /\ calls' = calls \o R
        /\ \A n \in 1..Len(R) : R[n] = Again(order[n])
  BY NodeReadyIs
<1>4. PICK order \in [1..Len(R) -> Refired] :
        /\ calls' = calls \o R
        /\ \A n \in 1..Len(R) : R[n] = Again(order[n])
  BY <1>3
<1>5. calls \in Seq(Call) BY CallsAre
<1>6. ToSet(calls') = ToSet(calls) \cup ToSet(R) BY <1>4, <1>5, ToSetConcat
<1>7. \A c \in ToSet(R) : \E s \in Sessions : \E e \in ToSet(hold[s].queue) : c = Dispatch(s, e, "drain")
  <2> SUFFICES ASSUME NEW c \in ToSet(R)
               PROVE  \E s \in Sessions : \E e \in ToSet(hold[s].queue) : c = Dispatch(s, e, "drain")
    OBVIOUS
  <2>1. PICK n \in 1..Len(R) : R[n] = c BY ToSetIs
  <2> DEFINE s == order[n] q == hold[s].queue
  <2>2. s \in Sessions /\ Servable(q) # <<>> BY <1>4 DEF Refired
  <2>3. c = Dispatch(s, Head(Servable(q)), "drain") BY <1>4, <2>1 DEF Again
  <2>4. q \in Seq(Entry) BY <1>2, <2>2
  <2> HIDE DEF s, q
  <2>5. Head(Servable(q)) \in ToSet(q) BY <2>2, <2>4, ServableSets
  <2> QED BY <2>2, <2>3, <2>5 DEF q
<1> QED BY <1>2, <1>6, <1>7

LEMMA ChainIsLostSets ==
  ASSUME Types, ChainIsLost
  PROVE  ToSet(calls') = {c \in ToSet(calls) : c.waiting}
<1>1. PICK f \in [1..Len(calls') -> 1..Len(calls)] :
        /\ calls' \in Seq(Call) /\ Len(calls') \in Nat
        /\ \A n \in 1..Len(calls') : calls'[n] = calls[f[n]] /\ calls[f[n]].waiting
        /\ \A i \in 1..Len(calls) : calls[i].waiting => \E n \in 1..Len(calls') : f[n] = i
  BY ChainIsLostIs
<1>2. calls \in Seq(Call) BY CallsAre
<1>3. /\ \A x : x \in ToSet(calls) <=> \E n \in 1..Len(calls) : calls[n] = x
      /\ \A x : x \in ToSet(calls') <=> \E n \in 1..Len(calls') : calls'[n] = x
  BY <1>1, <1>2, ToSetIs
<1>4. \A x \in ToSet(calls') : x \in ToSet(calls) /\ x.waiting BY <1>1, <1>3
<1>5. \A x \in ToSet(calls) : x.waiting => x \in ToSet(calls') BY <1>1, <1>3
<1> QED BY <1>4, <1>5

\* One write of the chain is marked.
LEMMA MarkedSets ==
  ASSUME Types, NEW j \in 1..Len(calls), NEW r \in Seq(Call), NEW d, Len(r) = Len(calls),
         \A i \in 1..Len(calls) : i # j => r[i] = calls[i], r[j] = d
  PROVE  /\ \A c \in ToSet(r) : c \in ToSet(calls) \/ c = d
         /\ \A c \in ToSet(calls) : c # calls[j] => c \in ToSet(r)
         /\ d \in ToSet(r)
<1>1. calls \in Seq(Call) BY CallsAre
<1>2. /\ \A x : x \in ToSet(calls) <=> \E n \in 1..Len(calls) : calls[n] = x
      /\ \A x : x \in ToSet(r) <=> \E n \in 1..Len(r) : r[n] = x
  BY <1>1, ToSetIs
<1> QED BY <1>2

LEMMA NodeWritesSets ==
  ASSUME Types, NEW j \in 1..Len(calls),
         calls' = IF calls[j].waiting THEN [calls EXCEPT ![j].written = TRUE] ELSE RemoveAt(calls, j)
  PROVE  /\ \A c \in ToSet(calls') : c \in ToSet(calls) \/ c = [calls[j] EXCEPT !.written = TRUE]
         /\ \A c \in ToSet(calls) : c # calls[j] => c \in ToSet(calls')
         /\ calls[j].waiting => [calls[j] EXCEPT !.written = TRUE] \in ToSet(calls')
<1>1. calls \in Seq(Call) BY CallsAre
<1>2. CASE ~calls[j].waiting BY <1>1, <1>2, RemoveSets
<1>3. CASE calls[j].waiting
  <2> DEFINE r == [calls EXCEPT ![j].written = TRUE] d == [calls[j] EXCEPT !.written = TRUE]
  <2>1. calls' = r BY <1>3
  <2>2. /\ r \in Seq(Call) /\ Len(r) = Len(calls)
        /\ \A i \in 1..Len(calls) : i # j => r[i] = calls[i]
        /\ r[j] = d
    BY MarkIs
  <2>3. /\ \A c \in ToSet(r) : c \in ToSet(calls) \/ c = d
        /\ \A c \in ToSet(calls) : c # calls[j] => c \in ToSet(r)
        /\ d \in ToSet(r)
    <3> HIDE DEF r, d
    <3> QED BY <2>2, MarkedSets
  <2> QED BY <2>1, <2>3
<1> QED BY <1>2, <1>3

LEMMA NodeWritesK ==
  ASSUME Types, Belongs, NodeWrites
  PROVE  Belongs'
<1>1. PICK j \in 1..Len(calls) :
        /\ pane' = [pane EXCEPT ![calls[j].sess] = Append(@, calls[j].id)]
        /\ calls' = IF calls[j].waiting THEN [calls EXCEPT ![j].written = TRUE] ELSE RemoveAt(calls, j)
        /\ UNCHANGED <<client, wire, plane, up, history>>
  BY CallsAre DEF NodeWrites
<1> DEFINE b == calls[j] s == b.sess
<1>2. b \in Call /\ s \in Sessions /\ b.id \in Ids BY CallsAre DEF Call
<1>3. pane \in [Sessions -> Seq(Ids)] BY DEF Types, NodeT
<1>4. ToSet(Append(pane[s], b.id)) = ToSet(pane[s]) \cup {b.id} BY <1>2, <1>3, ToSetAppend
<1>5. ToSet(pane'[s]) = ToSet(pane[s]) \cup {b.id} BY <1>1, <1>2, <1>3, <1>4
<1>6. \A x \in Sessions : x # s => pane'[x] = pane[x] BY <1>1, <1>3
<1>7. \A x \in Sessions : ToSet(pane[x]) \subseteq ToSet(pane'[x])
  <2> SUFFICES ASSUME NEW x \in Sessions PROVE ToSet(pane[x]) \subseteq ToSet(pane'[x])
    OBVIOUS
  <2>1. CASE x = s BY <1>5, <2>1
  <2>2. CASE x # s
    <3>1. pane'[x] = pane[x] BY <1>6, <2>2
    <3> QED BY <3>1
  <2> QED BY <2>1, <2>2
<1>8. UNCHANGED <<typed, pending, sent, sock, inbox, hold, window>> BY <1>1 DEF client, wire, plane
<1>9. calls \in Seq(Call) /\ b \in ToSet(calls)
  <2>1. calls \in Seq(Call) BY CallsAre
  <2> QED BY <2>1, ToSetIs
<1>10. CallOk(b) BY <1>9 DEF Belongs, CallsOk
<1>11. PaneOk'
  <2> SUFFICES ASSUME NEW x \in Sessions
               PROVE  /\ ToSet(window[x]) \subseteq ToSet(pane'[x])
                      /\ \A i \in ToSet(pane'[x]) : i <= typed[x]
    BY <1>8 DEF PaneOk
  <2>1. ToSet(window[x]) \subseteq ToSet(pane[x]) /\ \A i \in ToSet(pane[x]) : i <= typed[x]
    BY DEF Belongs, PaneOk
  <2>2. \A i \in ToSet(pane'[x]) : i <= typed[x]
    <3>1. CASE x = s BY <1>5, <1>10, <2>1, <3>1 DEF CallOk
    <3>2. CASE x # s
      <4>1. pane'[x] = pane[x] BY <1>6, <3>2
      <4> QED BY <2>1, <4>1
    <3> QED BY <3>1, <3>2
  <2> QED BY <1>7, <2>1, <2>2
<1>12. CallsOk'
  <2> SUFFICES ASSUME NEW c \in ToSet(calls')
               PROVE  /\ Owner[c.sock] = c.sess /\ c.id <= typed[c.sess]
                      /\ c.written => c.id \in ToSet(pane'[c.sess])
    BY <1>8 DEF CallsOk, CallOk
  <2>1. c \in ToSet(calls) \/ c = [b EXCEPT !.written = TRUE] BY <1>1, NodeWritesSets
  <2>2. CASE c \in ToSet(calls)
    <3>1. CallOk(c) BY <2>2 DEF Belongs, CallsOk
    <3>2. c \in Call BY <1>9, <2>2, ToSetIs
    <3>3. c.sess \in Sessions BY <3>2 DEF Call
    <3> QED BY <1>7, <3>1, <3>3 DEF CallOk
  <2>3. CASE c = [b EXCEPT !.written = TRUE]
    <3>1. c.sess = s /\ c.id = b.id /\ c.sock = b.sock BY <1>2, <2>3 DEF Call
    <3> QED BY <1>5, <1>10, <3>1 DEF CallOk
  <2> QED BY <2>1, <2>2, <2>3
<1>13. PageOk' /\ WireOk' /\ HoldOk' BY <1>8 DEF Belongs, PageOk, WireOk, HoldOk, EntryOk
<1> QED BY <1>11, <1>12, <1>13 DEF Belongs

LEMMA ChainIsLostK ==
  ASSUME Types, Belongs, ChainIsLost
  PROVE  Belongs'
<1>1. UNCHANGED <<typed, pending, sent, sock, inbox, hold, window, pane>>
  BY DEF ChainIsLost, client, wire, plane
<1>2. ToSet(calls') \subseteq ToSet(calls) BY ChainIsLostSets
<1>3. CallsOk' BY <1>1, <1>2 DEF Belongs, CallsOk, CallOk
<1>4. WireOk' /\ HoldOk' BY <1>1 DEF Belongs, WireOk, HoldOk, EntryOk
<1> QED BY <1>1, <1>3, <1>4, PlaneK

LEMMA NodeReadyK ==
  ASSUME Types, Belongs, NodeReady
  PROVE  Belongs'
<1>1. UNCHANGED <<typed, pending, sent, sock, inbox, window, pane>>
  BY DEF NodeReady, client, wire
<1>2. /\ \A s \in Sessions : ToSet(hold'[s].queue) \subseteq ToSet(hold[s].queue)
      /\ \A c \in ToSet(calls') :
            \/ c \in ToSet(calls)
            \/ \E s \in Sessions : \E e \in ToSet(hold[s].queue) : c = Dispatch(s, e, "drain")
  BY NodeReadySets
<1>3. HoldOk' BY <1>1, <1>2 DEF Belongs, HoldOk, EntryOk
<1>4. ASSUME NEW c \in ToSet(calls') PROVE CallOk(c)
  <2>1. CASE c \in ToSet(calls) BY <2>1 DEF Belongs, CallsOk
  <2>2. CASE \E s \in Sessions : \E e \in ToSet(hold[s].queue) : c = Dispatch(s, e, "drain")
    <3>1. PICK s \in Sessions : \E e \in ToSet(hold[s].queue) : c = Dispatch(s, e, "drain") BY <2>2
    <3>2. PICK e \in ToSet(hold[s].queue) : c = Dispatch(s, e, "drain") BY <3>1
    <3>3. hold[s].queue \in Seq(Entry) BY DEF Types, PlaneT, Hold
    <3>4. e \in Entry BY <3>3, ToSetIs
    <3>5. EntryOk(s, e) BY DEF Belongs, HoldOk
    <3> QED BY <3>2, <3>4, <3>5, DispatchOk
  <2> QED BY <1>2, <2>1, <2>2
<1>5. CallsOk' BY <1>1, <1>4 DEF CallsOk, CallOk
<1>6. WireOk' BY <1>1 DEF Belongs, WireOk
<1> QED BY <1>1, <1>3, <1>5, <1>6, PlaneK

LEMMA ResolvedK ==
  ASSUME Types, Drains, Belongs, NEW j \in 1..Len(calls), Resolved(j)
  PROVE  Belongs'
<1> DEFINE c == calls[j] s == c.sess rest == RemoveAt(calls, j)
<1>1. /\ c.written
      /\ window' = [window EXCEPT ![s] = Remember(@, c.id)]
      /\ Ack(s, c.sock, c.id, inbox)
      /\ UNCHANGED <<typed, sock, pane>>
  BY DEF Resolved
<1>2. c \in Call /\ calls \in Seq(Call) /\ c \in ToSet(calls)
  <2>1. c \in Call /\ calls \in Seq(Call) BY CallsAre
  <2> QED BY <2>1, ToSetIs
<1>3. s \in Sessions /\ c.sock \in Sockets /\ c.id \in Ids BY <1>2 DEF Call
<1>4. CallOk(c) BY <1>2 DEF Belongs, CallsOk
<1>5. Owner[c.sock] = s /\ c.id \in ToSet(pane[s]) BY <1>1, <1>4 DEF CallOk
<1>6. /\ rest \in Seq(Call)
      /\ \A x \in Sessions : x # s => hold'[x] = hold[x]
      /\ ToSet(hold'[s].queue) \subseteq ToSet(hold[s].queue)
      /\ ToSet(calls') \subseteq ToSet(rest) \cup {Dispatch(s, e, "drain") : e \in ToSet(hold[s].queue)}
  BY ResolvedSets
<1>7. ToSet(rest) \subseteq ToSet(calls) BY <1>2, RemoveSets
<1>8. inbox \in [Sockets -> Seq(Ids)] /\ window \in [Sessions -> Seq(Ids)]
      /\ Len(window[s]) <= Window
  BY <1>3 DEF Types, WireT, PlaneT
<1> HIDE DEF rest, s, c
<1>9. PageOk' /\ WireOk'
  <2>1. PageOk /\ \A x \in Sockets : \A i \in ToSet(inbox[x]) : i <= typed[Owner[x]]
    BY DEF Belongs, WireOk
  <2>2. Ack(Owner[c.sock], c.sock, c.id, inbox) BY <1>1, <1>5
  <2> QED BY <1>1, <1>3, <1>8, <2>1, <2>2, AckOk
<1>10. HoldOk'
  <2>1. \A x \in Sessions : ToSet(hold'[x].queue) \subseteq ToSet(hold[x].queue)
    <3> SUFFICES ASSUME NEW x \in Sessions PROVE ToSet(hold'[x].queue) \subseteq ToSet(hold[x].queue)
      OBVIOUS
    <3>1. CASE x = s BY <1>6, <3>1
    <3>2. CASE x # s
      <4>1. hold'[x] = hold[x] BY <1>6, <3>2
      <4> QED BY <4>1
    <3> QED BY <3>1, <3>2
  <2> QED BY <1>1, <2>1 DEF Belongs, HoldOk, EntryOk
<1>11. ASSUME NEW d \in ToSet(calls') PROVE CallOk(d)
  <2>1. CASE d \in ToSet(rest) BY <1>7, <2>1 DEF Belongs, CallsOk
  <2>2. CASE d \in {Dispatch(s, e, "drain") : e \in ToSet(hold[s].queue)}
    <3>1. PICK e \in ToSet(hold[s].queue) : d = Dispatch(s, e, "drain") BY <2>2
    <3>2. hold[s].queue \in Seq(Entry) BY <1>3 DEF Types, PlaneT, Hold
    <3>3. e \in Entry BY <3>2, ToSetIs
    <3>4. EntryOk(s, e) BY <1>3 DEF Belongs, HoldOk
    <3> QED BY <1>3, <3>1, <3>3, <3>4, DispatchOk
  <2> QED BY <1>6, <2>1, <2>2
<1>12. CallsOk' BY <1>1, <1>11 DEF CallsOk, CallOk
<1>13. PaneOk'
  <2> SUFFICES ASSUME NEW x \in Sessions
               PROVE  ToSet(window'[x]) \subseteq ToSet(pane[x]) /\ \A i \in ToSet(pane[x]) : i <= typed[x]
    BY <1>1 DEF PaneOk
  <2>1. ToSet(window[x]) \subseteq ToSet(pane[x]) /\ \A i \in ToSet(pane[x]) : i <= typed[x]
    BY DEF Belongs, PaneOk
  <2>2. CASE x = s
    <3>1. window[s] \in Seq(Ids) BY <1>3, <1>8
    <3>2. window'[s] = Remember(window[s], c.id) BY <1>1, <1>3, <1>8
    <3>3. ToSet(Remember(window[s], c.id)) \subseteq ToSet(window[s]) \cup {c.id}
      BY <1>3, <1>8, <3>1, RememberIs
    <3> QED BY <1>5, <2>1, <2>2, <3>2, <3>3
  <2>3. CASE x # s
    <3>1. window'[x] = window[x] BY <1>1, <1>8, <2>3
    <3> QED BY <2>1, <3>1
  <2> QED BY <2>2, <2>3
<1> QED BY <1>9, <1>10, <1>12, <1>13 DEF Belongs

LEMMA RejectedK ==
  ASSUME Types, Drains, Belongs, NEW j \in 1..Len(calls), Rejected(j)
  PROVE  Belongs'
<1> DEFINE c == calls[j] e == [id |-> c.id, sock |-> c.sock]
<1>1. UNCHANGED <<typed, pending, sent, sock, inbox, window, pane>> BY DEF Rejected, client, wire
<1>2. PICK cs \in AfterRejection(j) :
        \/ HoldFailed(c.sess, e, cs, used - 1)
        \/ /\ hold' = [hold EXCEPT ![c.sess].draining = FALSE]
           /\ calls' = cs
        \/ /\ calls' = cs
           /\ UNCHANGED hold
  BY DEF Rejected
<1>3. c \in Call /\ calls \in Seq(Call) /\ c \in ToSet(calls)
  <2>1. c \in Call /\ calls \in Seq(Call) BY CallsAre
  <2> QED BY <2>1, ToSetIs
<1>4. c.sess \in Sessions /\ e \in Entry BY <1>3 DEF Call, Entry
<1>5. CallOk(c) BY <1>3 DEF Belongs, CallsOk
<1>6. EntryOk(c.sess, e) BY <1>5 DEF CallOk, EntryOk
<1>7. /\ cs \in Seq(Call)
      /\ \A d \in ToSet(cs) : d \in ToSet(calls) \/ d = [c EXCEPT !.waiting = FALSE]
  BY <1>2, RejectionSets
<1>8. \A d \in ToSet(cs) : CallOk(d)
  <2> SUFFICES ASSUME NEW d \in ToSet(cs) PROVE CallOk(d)
    OBVIOUS
  <2>1. CASE d \in ToSet(calls) BY <2>1 DEF Belongs, CallsOk
  <2>2. CASE d = [c EXCEPT !.waiting = FALSE] BY <1>3, <1>5, <2>2 DEF CallOk, Call
  <2> QED BY <1>7, <2>1, <2>2
<1> HIDE DEF c, e
<1>9. HoldOk' /\ CallsOk'
  <2>1. CASE HoldFailed(c.sess, e, cs, used - 1)
    <3>1. /\ \A x \in Sessions : \A h \in ToSet(hold'[x].queue) : EntryOk(x, h)
          /\ \A d \in ToSet(calls') : CallOk(d)
      BY <1>4, <1>6, <1>7, <1>8, <2>1, HoldFailedOk
    <3> QED BY <1>1, <3>1 DEF HoldOk, EntryOk, CallsOk, CallOk
  <2>2. CASE hold' = [hold EXCEPT ![c.sess].draining = FALSE] /\ calls' = cs
    <3>1. hold \in [Sessions -> Hold] BY DEF Types, PlaneT
    <3>2. \A x \in Sessions : hold'[x].queue = hold[x].queue BY <2>2, <3>1 DEF Hold
    <3>3. HoldOk' BY <1>1, <3>2 DEF Belongs, HoldOk, EntryOk
    <3>4. CallsOk' BY <1>1, <1>8, <2>2 DEF CallsOk, CallOk
    <3> QED BY <3>3, <3>4
  <2>3. CASE calls' = cs /\ UNCHANGED hold
    <3>1. HoldOk' BY <1>1, <2>3 DEF Belongs, HoldOk, EntryOk
    <3>2. CallsOk' BY <1>1, <1>8, <2>3 DEF CallsOk, CallOk
    <3> QED BY <3>1, <3>2
  <2> QED BY <1>2, <2>1, <2>2, <2>3
<1>10. WireOk' BY <1>1 DEF Belongs, WireOk
<1> QED BY <1>1, <1>9, <1>10, PlaneK

LEMMA NextK ==
  ASSUME Types, Types', Drains, Belongs, [Next]_vars
  PROVE  Belongs'
<1>1. CASE \E s \in Sessions : Type(s) \/ WindowFires(s) \/ PageLosesSocket(s)
  BY <1>1, TypeK, WindowFiresK, PageLosesSocketK
<1>2. CASE \E s \in Sessions, k \in Sockets : Attach(s, k) BY <1>2, AttachK
<1>3. CASE \E k \in Sockets : IgnoreFrame(k) \/ AckAgain(k) \/ JoinHold(k) \/ WriteFrame(k)
                                \/ WriteReclaiming(k) \/ RefuseFrame(k) \/ PlaneSeesClose(k)
  BY <1>3, IgnoreFrameK, AckAgainK, JoinHoldK, WriteFrameK, PlaneSeesCloseK
<1>4. CASE NodeWrites \/ ChainIsLost \/ NodeReady BY <1>4, NodeWritesK, ChainIsLostK, NodeReadyK
<1>5. CASE \E j \in DOMAIN calls : Resolved(j) \/ Rejected(j)
  <2>1. DOMAIN calls = 1..Len(calls) BY CallsAre
  <2> QED BY <1>5, <2>1, ResolvedK, RejectedK
<1>6. CASE LinkDrops \/ UNCHANGED vars
  <2>1. UNCHANGED <<typed, pending, sent, sock, inbox, hold, window, calls, pane>>
    BY <1>6 DEF LinkDrops, vars, client, wire, plane
  <2>2. WireOk' /\ HoldOk' /\ CallsOk'
    BY <2>1 DEF Belongs, WireOk, HoldOk, EntryOk, CallsOk, CallOk
  <2> QED BY <2>1, <2>2, PlaneK
<1> QED BY <1>1, <1>2, <1>3, <1>4, <1>5, <1>6, NextCases

LEMMA InitK == Init => Belongs
<1> SUFFICES ASSUME Init PROVE Belongs
  OBVIOUS
<1>1. ToSet(<<>>) = {} BY DEF ToSet
<1>2. \A s \in Sessions : hold[s].queue = <<>> BY DEF Init, NoHold
<1>3. PageOk BY DEF Init, PageOk
<1>4. WireOk /\ CallsOk /\ PaneOk BY <1>1 DEF Init, WireOk, CallsOk, PaneOk
<1>5. HoldOk BY <1>1, <1>2 DEF HoldOk
<1> QED BY <1>3, <1>4, <1>5 DEF Belongs

KInv == Types /\ Drains /\ Belongs

LEMMA KInvHolds == Spec => []KInv
<1>1. Init => KInv BY InitT, InitK DEF KInv
<1>2. KInv /\ [Next]_vars => KInv' BY NextT, NextK DEF KInv
<1> QED BY <1>1, <1>2, PTL DEF Spec

-----------------------------------------------------------------------------
(* The path implements its promise                                         *)

KeyTyped == {k \in Keys : k[2] <= typed[k[1]]}
KeyLanded == {k \in Keys : k[2] \in ToSet(pane[k[1]])}
KeyRetired == {k \in Keys : k[2] <= typed[k[1]] /\ k[2] \notin pending[k[1]] \cup dropped[k[1]]}

\* What the page retires when id is acked.
LEMMA RetireR ==
  ASSUME Types, NEW k \in Sockets, NEW id \in Ids, NEW box \in [Sockets -> Seq(Ids)],
         Ack(Owner[k], k, id, box), UNCHANGED <<typed, pane, dropped>>,
         id <= typed[Owner[k]], id \in ToSet(pane[Owner[k]])
  PROVE  [Promise!Next]_<<KeyTyped, KeyLanded, KeyRetired>>
<1> DEFINE s == Owner[k] key == <<s, id>>
<1>1. s \in Sessions BY OwnerAssumption
<1>2. key \in Keys /\ key[1] = s /\ key[2] = id BY <1>1 DEF Keys
<1>3. Ack(s, k, id, box) /\ id <= typed[s] /\ id \in ToSet(pane[s]) OBVIOUS
<1>4. KeyTyped' = KeyTyped /\ KeyLanded' = KeyLanded BY DEF KeyTyped, KeyLanded
<1>5. \A x \in Keys : x[1] \in Sessions /\ x = <<x[1], x[2]>> BY DEF Keys
<1> HIDE DEF s
<1>6. /\ \A x \in Sessions : x # s => pending'[x] = pending[x]
      /\ ~Hears(s, k) => pending' = pending
      /\ Hears(s, k) => pending'[s] = pending[s] \ {id}
  BY <1>1, <1>3, AckIs
<1>7. CASE ~Hears(s, k) \/ id \in dropped[s]
  <2>1. \A x \in Keys : x \in KeyRetired' <=> x \in KeyRetired
    BY <1>5, <1>6, <1>7 DEF KeyRetired
  <2>2. KeyRetired' = KeyRetired BY <2>1 DEF KeyRetired
  <2> QED BY <1>4, <2>2
<1>8. CASE Hears(s, k) /\ id \notin dropped[s]
  <2>1. \A x \in Keys : x \in KeyRetired' <=> x \in KeyRetired \/ x = key
    <3> SUFFICES ASSUME NEW x \in Keys PROVE x \in KeyRetired' <=> x \in KeyRetired \/ x = key
      OBVIOUS
    <3>1. CASE x = key BY <1>2, <1>3, <1>6, <1>8, <3>1 DEF KeyRetired
    <3>2. CASE x # key
      <4>1. x[1] # s \/ x[2] # id BY <1>5, <3>2
      <4>2. x[2] \in pending'[x[1]] <=> x[2] \in pending[x[1]] BY <1>5, <1>6, <1>8, <4>1
      <4> QED BY <3>2, <4>2 DEF KeyRetired
    <3> QED BY <3>1, <3>2
  <2>2. KeyRetired' = KeyRetired \cup {key} BY <1>2, <2>1 DEF KeyRetired
  <2>3. key \in KeyLanded BY <1>2, <1>3 DEF KeyLanded
  <2>4. Promise!Retire(key) BY <1>4, <2>2, <2>3 DEF Promise!Retire, KeyTyped, KeyLanded, KeyRetired
  <2> QED BY <1>2, <2>4 DEF Promise!Next
<1> QED BY <1>7, <1>8

LEMMA TypeR ==
  ASSUME Types, Types', NEW s \in Sessions, Type(s)
  PROVE  [Promise!Next]_<<KeyTyped, KeyLanded, KeyRetired>>
<1> DEFINE id  == typed[s] + 1
           all == pending[s] \cup {id}
           old == IF Cardinality(all) > MaxPending THEN Oldest(1, all) ELSE {}
           key == <<s, id>>
<1>1. /\ typed \in [Sessions -> 0..MaxId] /\ pending \in [Sessions -> SUBSET Ids]
      /\ dropped \in [Sessions -> SUBSET Ids] /\ MaxId \in Nat
  BY IdsAre DEF Types, PageT, HistoryT
<1>2. /\ typed' = [typed EXCEPT ![s] = id]
      /\ pending' = [pending EXCEPT ![s] = all \ old]
      /\ dropped' = [dropped EXCEPT ![s] = @ \cup old]
      /\ pane' = pane
  BY DEF Type
<1>3. typed'[s] = id /\ typed[s] \in Nat /\ id = typed[s] + 1
      /\ \A x \in Sessions : typed[x] \in Nat /\ (x # s => typed'[x] = typed[x])
  BY <1>1, <1>2
<1>4. id \in Ids
  <2>1. typed'[s] \in 0..MaxId BY DEF Types, PageT
  <2> QED BY <1>1, <1>3, <2>1 DEF Ids
<1>5. old \subseteq all BY DEF Oldest
<1> HIDE DEF old
<1>6. /\ pending'[s] = all \ old /\ dropped'[s] = dropped[s] \cup old
      /\ \A x \in Sessions : x # s => pending'[x] = pending[x] /\ dropped'[x] = dropped[x]
  BY <1>1, <1>2
<1>7. key \in Keys /\ key[1] = s /\ key[2] = id BY <1>4 DEF Keys
<1>8. \A x \in Keys : x[1] \in Sessions /\ x[2] \in Ids /\ x = <<x[1], x[2]>> BY DEF Keys
<1>9. \A x \in Keys : x[2] \in Nat /\ typed[x[1]] \in Nat BY <1>3, <1>8, IdsAre
<1> HIDE DEF key
<1>10. \A x \in Keys : x # key => (x[2] <= typed'[x[1]] <=> x[2] <= typed[x[1]])
  <2> SUFFICES ASSUME NEW x \in Keys, x # key PROVE x[2] <= typed'[x[1]] <=> x[2] <= typed[x[1]]
    OBVIOUS
  <2>1. CASE x[1] = s
    <3>1. x[2] # id BY <1>8, <2>1 DEF key
    <3> QED BY <1>3, <1>9, <2>1, <3>1
  <2>2. CASE x[1] # s BY <1>3, <1>8, <2>2
  <2> QED BY <2>1, <2>2
<1>11. key \notin KeyTyped /\ key \in KeyTyped' BY <1>3, <1>7 DEF KeyTyped
<1>12. \A x \in Keys : x \in KeyTyped' <=> x \in KeyTyped \/ x = key BY <1>10, <1>11 DEF KeyTyped
<1>13. KeyTyped' = KeyTyped \cup {key} BY <1>7, <1>12 DEF KeyTyped
<1>14. KeyLanded' = KeyLanded BY <1>2 DEF KeyLanded
<1>15. \A x \in Keys : x \in KeyRetired' <=> x \in KeyRetired
  <2> SUFFICES ASSUME NEW x \in Keys PROVE x \in KeyRetired' <=> x \in KeyRetired
    OBVIOUS
  <2>1. CASE x = key
    <3>1. x \notin KeyRetired BY <1>11, <2>1 DEF KeyRetired, KeyTyped
    <3>2. id \in pending'[s] \cup dropped'[s] BY <1>5, <1>6
    <3> QED BY <1>7, <2>1, <3>1, <3>2 DEF KeyRetired
  <2>2. CASE x # key
    <3>1. x[2] \in pending'[x[1]] \cup dropped'[x[1]] <=> x[2] \in pending[x[1]] \cup dropped[x[1]]
      <4>1. CASE x[1] = s
        <5>1. x[2] # id BY <1>8, <2>2, <4>1 DEF key
        <5> QED BY <1>5, <1>6, <4>1, <5>1
      <4>2. CASE x[1] # s BY <1>6, <1>8, <4>2
      <4> QED BY <4>1, <4>2
    <3> QED BY <1>10, <2>2, <3>1 DEF KeyRetired
  <2> QED BY <2>1, <2>2
<1>16. KeyRetired' = KeyRetired BY <1>15 DEF KeyRetired
<1>17. Promise!Type(key)
  BY <1>11, <1>13, <1>14, <1>16 DEF Promise!Type, KeyTyped, KeyLanded, KeyRetired
<1> QED BY <1>7, <1>17, Zenon DEF Promise!Next, Promise!Type

LEMMA NodeWritesR ==
  ASSUME Types, Belongs, NodeWrites
  PROVE  [Promise!Next]_<<KeyTyped, KeyLanded, KeyRetired>>
<1>1. PICK j \in 1..Len(calls) :
        /\ pane' = [pane EXCEPT ![calls[j].sess] = Append(@, calls[j].id)]
        /\ UNCHANGED <<typed, pending, dropped>>
  BY CallsAre DEF NodeWrites, client, history
<1> DEFINE b == calls[j] s == b.sess key == <<s, b.id>>
<1>2. b \in Call /\ s \in Sessions /\ b.id \in Ids BY CallsAre DEF Call
<1>3. pane \in [Sessions -> Seq(Ids)] BY DEF Types, NodeT
<1>4. ToSet(Append(pane[s], b.id)) = ToSet(pane[s]) \cup {b.id} BY <1>2, <1>3, ToSetAppend
<1>5. ToSet(pane'[s]) = ToSet(pane[s]) \cup {b.id} BY <1>1, <1>2, <1>3, <1>4
<1>6. \A x \in Sessions : x # s => pane'[x] = pane[x] BY <1>1, <1>3
<1>7. b.id <= typed[s]
  <2>1. calls \in Seq(Call) BY CallsAre
  <2>2. b \in ToSet(calls) BY <2>1, ToSetIs
  <2> QED BY <2>2 DEF Belongs, CallsOk, CallOk
<1>8. key \in Keys /\ key[1] = s /\ key[2] = b.id BY <1>2 DEF Keys
<1>9. \A x \in Keys : x[1] \in Sessions /\ x = <<x[1], x[2]>> BY DEF Keys
<1>10. key \in KeyTyped BY <1>7, <1>8 DEF KeyTyped
<1>11. \A x \in Keys : x \in KeyLanded' <=> x \in KeyLanded \/ x = key
  <2> HIDE DEF s, b
  <2> SUFFICES ASSUME NEW x \in Keys PROVE x \in KeyLanded' <=> x \in KeyLanded \/ x = key
    OBVIOUS
  <2>1. CASE x[1] = s BY <1>5, <1>8, <1>9, <2>1 DEF KeyLanded
  <2>2. CASE x[1] # s
    <3>1. pane'[x[1]] = pane[x[1]] /\ x # key BY <1>6, <1>8, <1>9, <2>2
    <3> QED BY <3>1 DEF KeyLanded
  <2> QED BY <2>1, <2>2
<1>12. KeyLanded' = KeyLanded \cup {key} BY <1>8, <1>11 DEF KeyLanded
<1>13. KeyTyped' = KeyTyped /\ KeyRetired' = KeyRetired BY <1>1 DEF KeyTyped, KeyRetired
<1>14. Promise!Land(key) BY <1>10, <1>12, <1>13 DEF Promise!Land, KeyTyped, KeyLanded, KeyRetired
<1> HIDE DEF key
<1> QED BY <1>8, <1>14 DEF Promise!Next, Promise!Land

LEMMA AckAgainR ==
  ASSUME Types, Belongs, NEW k \in Sockets, AckAgain(k)
  PROVE  [Promise!Next]_<<KeyTyped, KeyLanded, KeyRetired>>
<1> DEFINE box == [inbox EXCEPT ![k] = Tail(@)] id == Frame(k).id
<1>1. /\ inbox[k] # <<>>
      /\ Contains(window[Owner[k]], id)
      /\ Ack(Owner[k], k, id, box)
      /\ UNCHANGED <<typed, pane, dropped>>
  BY DEF AckAgain, history
<1>2. box \in [Sockets -> Seq(Ids)] /\ id \in Ids BY <1>1, FrameIs DEF Entry
<1>3. id <= typed[Owner[k]] BY <1>1, FrameOk, FrameIs DEF EntryOk
<1>4. id \in ToSet(pane[Owner[k]])
  <2>1. id \in ToSet(window[Owner[k]]) BY <1>1 DEF Contains, ToSet
  <2> QED BY <2>1, OwnerAssumption DEF Belongs, PaneOk
<1> HIDE DEF box, id
<1> QED BY <1>1, <1>2, <1>3, <1>4, RetireR

LEMMA ResolvedR ==
  ASSUME Types, Belongs, NEW j \in 1..Len(calls), Resolved(j)
  PROVE  [Promise!Next]_<<KeyTyped, KeyLanded, KeyRetired>>
<1> DEFINE c == calls[j]
<1>1. c.written /\ Ack(c.sess, c.sock, c.id, inbox) /\ UNCHANGED <<typed, pane, dropped>>
  BY DEF Resolved
<1>2. c \in Call BY CallsAre
<1>3. c.sock \in Sockets /\ c.id \in Ids /\ inbox \in [Sockets -> Seq(Ids)]
  BY <1>2 DEF Call, Types, WireT
<1>4. CallOk(c)
  <2>1. calls \in Seq(Call) BY CallsAre
  <2>2. c \in ToSet(calls) BY <2>1, ToSetIs
  <2> QED BY <2>2 DEF Belongs, CallsOk
<1>5. Owner[c.sock] = c.sess /\ c.id <= typed[c.sess] /\ c.id \in ToSet(pane[c.sess])
  BY <1>1, <1>4 DEF CallOk
<1> HIDE DEF c
<1> QED BY <1>1, <1>3, <1>5, RetireR

LEMMA NextR ==
  ASSUME Types, Types', Belongs, [Next]_vars
  PROVE  [Promise!Next]_<<KeyTyped, KeyLanded, KeyRetired>>
<1>1. CASE \E s \in Sessions : Type(s) BY <1>1, TypeR
<1>2. CASE NodeWrites BY <1>2, NodeWritesR
<1>3. CASE \E k \in Sockets : AckAgain(k) BY <1>3, AckAgainR
<1>4. CASE \E j \in DOMAIN calls : Resolved(j)
  <2>1. DOMAIN calls = 1..Len(calls) BY CallsAre
  <2> QED BY <1>4, <2>1, ResolvedR
<1>5. CASE \/ \E s \in Sessions : WindowFires(s) \/ PageLosesSocket(s)
           \/ \E s \in Sessions, k \in Sockets : Attach(s, k)
           \/ \E k \in Sockets : IgnoreFrame(k) \/ JoinHold(k) \/ WriteFrame(k)
                                   \/ WriteReclaiming(k) \/ RefuseFrame(k) \/ PlaneSeesClose(k)
           \/ LinkDrops \/ ChainIsLost \/ NodeReady
           \/ \E j \in DOMAIN calls : Rejected(j)
           \/ UNCHANGED vars
  <2>1. UNCHANGED <<typed, pane, pending, dropped>>
    BY <1>5 DEF WindowFires, PageLosesSocket, Attach, IgnoreFrame, JoinHold, WriteFrame,
                WriteReclaiming, RefuseFrame, PlaneSeesClose, LinkDrops, ChainIsLost, NodeReady,
                Rejected, vars, client, history
  <2> QED BY <2>1 DEF KeyTyped, KeyLanded, KeyRetired
<1> QED BY <1>1, <1>2, <1>3, <1>4, <1>5, NextCases

LEMMA InitR == Init => Promise!Init
<1> SUFFICES ASSUME Init PROVE Promise!Init
  OBVIOUS
<1>1. \A x \in Keys : x[1] \in Sessions /\ x[2] \in Nat /\ x[2] # 0 BY IdsAre DEF Keys, Ids
<1>2. typed = [s \in Sessions |-> 0] /\ pane = [s \in Sessions |-> <<>>] BY DEF Init
<1>3. \A x \in Keys : ~(x[2] <= typed[x[1]]) BY <1>1, <1>2
<1>4. \A x \in Keys : x[2] \notin ToSet(pane[x[1]])
  <2>1. ToSet(<<>>) = {} BY DEF ToSet
  <2> QED BY <1>1, <1>2, <2>1
<1> QED BY <1>3, <1>4 DEF Promise!Init

\* An id is retired from the page's queue only once it reached the pane, what
\* reached the pane was typed, and neither is ever undone: for any number of
\* pages, sockets, ids, faults and any size of the budget and the window.
THEOREM PathKeepsPromise == Spec => KeystrokesAreNotLost
<1>1. Init => Promise!Init BY InitR
<1>2. KInv /\ KInv' /\ [Next]_vars => [Promise!Next]_<<KeyTyped, KeyLanded, KeyRetired>>
  BY NextR DEF KInv
<1>3. KInv /\ KInv' /\ [Next]_vars =>
        [Promise!Next]_<<{k \in Keys : k[2] <= typed[k[1]]}, {k \in Keys : k[2] \in ToSet(pane[k[1]])},
                         {k \in Keys : k[2] <= typed[k[1]] /\ k[2] \notin pending[k[1]] \cup dropped[k[1]]}>>
  BY <1>2 DEF KeyTyped, KeyLanded, KeyRetired
<1> QED BY <1>1, <1>3, KInvHolds, PTL DEF Spec, KeystrokesAreNotLost, Promise!Spec

-----------------------------------------------------------------------------
(* An unacked frame is on its way                                          *)

Calling(cs, s, k, i) == \E c \in ToSet(cs) :
  c.waiting /\ c.via \in {"fresh", "drain"} /\ c.sess = s /\ c.sock = k /\ c.id = i
Holding(q, k, i) == \E e \in ToSet(q) : e.sock = k /\ e.id = i
Carried(s, k, i) == \/ i \in ToSet(inbox[k]) \/ Calling(calls, s, k, i)
                    \/ Holding(hold[s].queue, k, i) \/ i \in stranded[s]
Live(s) == sock[s] # None /\ status[sock[s]] = "open"

\* UnackedMeansNotYet, frame by frame.
OnWay == \A s \in Sessions : Live(s) => \A i \in sent[s] : Carried(s, sock[s], i)

LEMMA OnWayMeans ==
  ASSUME Types, OnWay
  PROVE  UnackedMeansNotYet
<1> SUFFICES ASSUME NEW s \in Sessions, Live(s), NEW i \in sent[s]
             PROVE  i \in OnItsWay(s, sock[s]) \cup stranded[s]
  BY DEF UnackedMeansNotYet, Live
<1> DEFINE k == sock[s]
<1>1. Carried(s, k, i) BY DEF OnWay
<1>2. CASE Calling(calls, s, k, i)
  <2>1. PICK c \in ToSet(calls) :
           c.waiting /\ c.via \in {"fresh", "drain"} /\ c.sess = s /\ c.sock = k /\ c.id = i
    BY <1>2 DEF Calling
  <2>2. calls \in Seq(Call) /\ DOMAIN calls = 1..Len(calls) BY CallsAre
  <2>3. PICK j \in 1..Len(calls) : calls[j] = c BY <2>2, ToSetIs
  <2>4. j \in {m \in Waiting({"fresh", "drain"}) : calls[m].sess = s /\ calls[m].sock = k}
    BY <2>1, <2>2, <2>3 DEF Waiting
  <2> QED BY <2>1, <2>3, <2>4 DEF OnItsWay
<1>3. CASE Holding(hold[s].queue, k, i)
  <2>1. PICK e \in ToSet(hold[s].queue) : e.sock = k /\ e.id = i BY <1>3 DEF Holding
  <2> QED BY <2>1 DEF OnItsWay
<1>4. CASE i \in ToSet(inbox[k]) BY <1>4 DEF OnItsWay
<1> QED BY <1>1, <1>2, <1>3, <1>4 DEF Carried

\* Only the page's own steps and the acks touch what it sent.
LEMMA OnWayBy ==
  ASSUME OnWay, UNCHANGED <<sock, sent>>,
         \A s \in Sessions : Live(s)' => Live(s),
         \A s \in Sessions : \A i \in sent[s] :
            Live(s) /\ Live(s)' /\ Carried(s, sock[s], i) =>
               \/ i \in ToSet(inbox'[sock[s]]) \/ Calling(calls', s, sock[s], i)
               \/ Holding(hold'[s].queue, sock[s], i) \/ i \in stranded'[s]
  PROVE  OnWay'
BY DEF OnWay, Carried

\* The live sockets of two pages differ.
LEMMA LiveIs ==
  ASSUME Types, Belongs, NEW s \in Sessions, sock[s] # None
  PROVE  sock[s] \in Sockets /\ Owner[sock[s]] = s
BY DEF Types, PageT, Belongs, PageOk

LEMMA TypeW ==
  ASSUME Types, Types', Belongs, OnWay, NEW s \in Sessions, Type(s)
  PROVE  OnWay'
<1> DEFINE id  == typed[s] + 1
           all == pending[s] \cup {id}
           old == IF Cardinality(all) > MaxPending THEN Oldest(1, all) ELSE {}
           out == IF pending[s] = {} /\ sock[s] # None THEN {id} ELSE {}
<1>1. /\ sock \in [Sessions -> Sockets \cup {None}] /\ sent \in [Sessions -> SUBSET Ids]
      /\ inbox \in [Sockets -> Seq(Ids)] /\ typed \in [Sessions -> 0..MaxId] /\ MaxId \in Nat
  BY IdsAre DEF Types, PageT, WireT
<1>2. /\ typed' = [typed EXCEPT ![s] = id]
      /\ sent' = [sent EXCEPT ![s] = (@ \cup out) \ old]
      /\ inbox' = IF out = {} THEN inbox ELSE [inbox EXCEPT ![sock[s]] = Append(@, id)]
      /\ UNCHANGED <<sock, status, hold, calls, stranded>>
  BY DEF Type, plane
<1>3. id \in Ids
  <2>1. typed'[s] \in 0..MaxId BY DEF Types, PageT
  <2>2. typed'[s] = id /\ typed[s] \in Nat BY <1>1, <1>2
  <2> QED BY <1>1, <2>1, <2>2 DEF Ids
<1>4. out \subseteq {id} /\ (out # {} => sock[s] # None) OBVIOUS
<1> HIDE DEF old, out, id
<1>5. \A k \in Sockets : ToSet(inbox[k]) \subseteq ToSet(inbox'[k])
  <2> SUFFICES ASSUME NEW k \in Sockets PROVE ToSet(inbox[k]) \subseteq ToSet(inbox'[k])
    OBVIOUS
  <2>1. CASE inbox'[k] = inbox[k] BY <2>1
  <2>2. CASE inbox'[k] # inbox[k]
    <3>1. inbox'[k] = Append(inbox[k], id) BY <1>1, <1>2, <2>2
    <3> QED BY <1>1, <1>3, <3>1, ToSetAppend
  <2> QED BY <2>1, <2>2
<1>6. out # {} => id \in ToSet(inbox'[sock[s]])
  <2> SUFFICES ASSUME out # {} PROVE id \in ToSet(inbox'[sock[s]])
    OBVIOUS
  <2>1. sock[s] \in Sockets BY <1>1, <1>4
  <2>2. inbox'[sock[s]] = Append(inbox[sock[s]], id) BY <1>1, <1>2, <2>1
  <2> QED BY <1>1, <1>3, <2>1, <2>2, ToSetAppend
<1> SUFFICES ASSUME NEW x \in Sessions, Live(x)', NEW i \in sent'[x]
             PROVE  Carried(x, sock[x], i)'
  BY <1>2 DEF OnWay
<1>7. Live(x) /\ sock[x] \in Sockets BY <1>1, <1>2 DEF Live
<1>8. CASE i \in sent[x]
  <2>1. Carried(x, sock[x], i) BY <1>7, <1>8 DEF OnWay
  <2> QED BY <1>2, <1>5, <1>7, <2>1 DEF Carried
<1>9. CASE i \notin sent[x]
  <2>1. x = s /\ out # {} /\ i = id BY <1>1, <1>2, <1>4, <1>9
  <2> QED BY <1>2, <1>6, <2>1 DEF Carried
<1> QED BY <1>8, <1>9

LEMMA WindowFiresW ==
  ASSUME Types, Belongs, OnWay, NEW s \in Sessions, WindowFires(s)
  PROVE  OnWay'
<1> DEFINE next == Flushable(pending[s], sent[s])
<1>1. /\ sent' = [sent EXCEPT ![s] = @ \cup next]
      /\ inbox' = [inbox EXCEPT ![sock[s]] = @ \o InOrder(next)]
      /\ sock[s] # None
      /\ UNCHANGED <<sock, status, hold, calls, stranded>>
  BY DEF WindowFires, plane, history
<1>2. next \subseteq pending[s] BY FlushIs
<1> HIDE DEF next
<1>3. /\ pending \in [Sessions -> SUBSET Ids] /\ sent \in [Sessions -> SUBSET Ids]
      /\ sock \in [Sessions -> Sockets \cup {None}] /\ inbox \in [Sockets -> Seq(Ids)]
  BY DEF Types, PageT, WireT
<1>4. next \subseteq Ids /\ sock[s] \in Sockets BY <1>1, <1>2, <1>3
<1>5. InOrder(next) \in Seq(Ids) /\ ToSet(InOrder(next)) = next BY <1>4, IdsInOrder
<1>6. ToSet(inbox[sock[s]] \o InOrder(next)) = ToSet(inbox[sock[s]]) \cup next
  BY <1>3, <1>4, <1>5, ToSetConcat
<1>7. ToSet(inbox'[sock[s]]) = ToSet(inbox[sock[s]]) \cup next
      /\ \A k \in Sockets : k # sock[s] => inbox'[k] = inbox[k]
  BY <1>1, <1>3, <1>4, <1>6
<1>8. \A k \in Sockets : ToSet(inbox[k]) \subseteq ToSet(inbox'[k])
  <2> SUFFICES ASSUME NEW k \in Sockets PROVE ToSet(inbox[k]) \subseteq ToSet(inbox'[k])
    OBVIOUS
  <2>1. CASE k = sock[s] BY <1>7, <2>1
  <2>2. CASE k # sock[s]
    <3>1. inbox'[k] = inbox[k] BY <1>7, <2>2
    <3> QED BY <3>1
  <2> QED BY <2>1, <2>2
<1> SUFFICES ASSUME NEW x \in Sessions, Live(x)', NEW i \in sent'[x]
             PROVE  Carried(x, sock[x], i)'
  BY <1>1 DEF OnWay
<1>9. Live(x) /\ sock[x] \in Sockets BY <1>1, <1>3 DEF Live
<1>10. CASE i \in sent[x]
  <2>1. Carried(x, sock[x], i) BY <1>9, <1>10 DEF OnWay
  <2> QED BY <1>1, <1>8, <1>9, <2>1 DEF Carried
<1>11. CASE i \notin sent[x]
  <2>1. x = s /\ i \in next BY <1>1, <1>3, <1>11
  <2> QED BY <1>1, <1>7, <2>1 DEF Carried
<1> QED BY <1>10, <1>11

LEMMA AttachW ==
  ASSUME Types, Belongs, OnWay, NEW s \in Sessions, NEW k \in Sockets, Attach(s, k)
  PROVE  OnWay'
<1> DEFINE next == Flushable(pending[s], sent[s])
<1>1. /\ Owner[k] = s
      /\ sock' = [sock EXCEPT ![s] = k]
      /\ status' = [status EXCEPT ![k] = "open"]
      /\ sent' = [sent EXCEPT ![s] = @ \cup next]
      /\ inbox' = [inbox EXCEPT ![k] = InOrder(sent[s]) \o InOrder(next)]
      /\ stranded' = [stranded EXCEPT ![s] = {}]
      /\ UNCHANGED <<hold, calls>>
  BY DEF Attach, plane
<1>2. next \subseteq pending[s] BY FlushIs
<1> HIDE DEF next
<1>3. /\ pending \in [Sessions -> SUBSET Ids] /\ sent \in [Sessions -> SUBSET Ids]
      /\ sock \in [Sessions -> Sockets \cup {None}] /\ inbox \in [Sockets -> Seq(Ids)]
      /\ status \in [Sockets -> {"unused", "open", "refused", "closed"}]
      /\ stranded \in [Sessions -> SUBSET Ids]
  BY DEF Types, PageT, WireT, HistoryT
<1>4. next \subseteq Ids /\ sent[s] \subseteq Ids BY <1>2, <1>3
<1>5. /\ InOrder(next) \in Seq(Ids) /\ ToSet(InOrder(next)) = next
      /\ InOrder(sent[s]) \in Seq(Ids) /\ ToSet(InOrder(sent[s])) = sent[s]
  BY <1>4, IdsInOrder
<1> DEFINE a == InOrder(sent[s]) b == InOrder(next)
<1>6. ToSet(a \o b) = sent[s] \cup next
  <2>1. a \in Seq(Ids) /\ b \in Seq(Ids) /\ ToSet(a) = sent[s] /\ ToSet(b) = next BY <1>5
  <2> HIDE DEF a, b
  <2> QED BY <2>1, ToSetConcat
<1>7. ToSet(inbox'[k]) = sent[s] \cup next BY <1>1, <1>3, <1>6
<1> SUFFICES ASSUME NEW x \in Sessions, Live(x)', NEW i \in sent'[x]
             PROVE  Carried(x, sock[x], i)'
  BY DEF OnWay
<1>8. CASE x = s
  <2>1. sock'[x] = k BY <1>1, <1>3, <1>8
  <2>2. i \in sent[s] \cup next BY <1>1, <1>3, <1>8
  <2> QED BY <1>7, <2>1, <2>2 DEF Carried
<1>9. CASE x # s
  <2>1. sock'[x] = sock[x] /\ sent'[x] = sent[x] /\ stranded'[x] = stranded[x] BY <1>1, <1>3, <1>9
  <2>2. sock[x] # None BY <2>1 DEF Live
  <2>3. sock[x] \in Sockets /\ sock[x] # k BY <1>1, <1>9, <2>2, LiveIs
  <2>4. status'[sock[x]] = status[sock[x]] /\ inbox'[sock[x]] = inbox[sock[x]] BY <1>1, <1>3, <2>3
  <2>5. Live(x) BY <2>1, <2>4 DEF Live
  <2>6. Carried(x, sock[x], i) BY <2>1, <2>5 DEF OnWay
  <2> QED BY <1>1, <2>1, <2>4, <2>6 DEF Carried
<1> QED BY <1>8, <1>9

LEMMA PageLosesSocketW ==
  ASSUME Types, OnWay, NEW s \in Sessions, PageLosesSocket(s)
  PROVE  OnWay'
<1>1. /\ sock' = [sock EXCEPT ![s] = None]
      /\ UNCHANGED <<sent, status, inbox, hold, calls, stranded>>
  BY DEF PageLosesSocket, plane
<1>2. sock \in [Sessions -> Sockets \cup {None}] BY DEF Types, PageT
<1>3. \A x \in Sessions : sock'[x] # None => sock'[x] = sock[x] BY <1>1, <1>2
<1> QED BY <1>1, <1>3 DEF OnWay, Live, Carried

\* The frame of another page, or of a socket that takes no input.
LEMMA TakesW ==
  ASSUME Types, NEW k \in Sockets, Takes(k)
  PROVE  /\ \A x \in Sockets : x # k => inbox'[x] = inbox[x]
         /\ \A i \in ToSet(inbox[k]) : i # Frame(k).id => i \in ToSet(inbox'[k])
         /\ inbox'[k] = Tail(inbox[k])
<1>1. inbox[k] # <<>> /\ inbox' = [inbox EXCEPT ![k] = Tail(@)] BY DEF Takes
<1>2. inbox \in [Sockets -> Seq(Ids)] BY DEF Types, WireT
<1>3. ToSet(inbox[k]) = {Frame(k).id} \cup ToSet(Tail(inbox[k])) BY <1>1, FrameIs
<1> QED BY <1>1, <1>2, <1>3

LEMMA IgnoreFrameW ==
  ASSUME Types, Belongs, OnWay, NEW k \in Sockets, IgnoreFrame(k) \/ RefuseFrame(k)
  PROVE  OnWay'
<1>1. /\ Takes(k) /\ status' \in {status, [status EXCEPT ![k] = "refused"]}
      /\ status[k] # "open" \/ status' = [status EXCEPT ![k] = "refused"]
      /\ UNCHANGED <<sent, sock, hold, calls, stranded>>
  BY DEF IgnoreFrame, RefuseFrame, Fresh, client, plane, history
<1>2. status \in [Sockets -> {"unused", "open", "refused", "closed"}] BY DEF Types, WireT
<1>3. \A x \in Sockets : x # k => inbox'[x] = inbox[x] BY <1>1, TakesW
<1>4. status'[k] # "open" /\ \A x \in Sockets : status'[x] = "open" => status[x] = "open"
  BY <1>1, <1>2
<1>5. \A s \in Sessions : Live(s)' => Live(s) /\ sock[s] \in Sockets /\ sock[s] # k
  BY <1>1, <1>4, LiveIs DEF Live
<1> QED BY <1>1, <1>3, <1>5, OnWayBy DEF Carried

\* An ack retires its id, and what leaves with it is on the wire.
LEMMA AckW ==
  ASSUME Types, Belongs, OnWay, NEW k \in Sockets, NEW id \in Ids, NEW box \in [Sockets -> Seq(Ids)],
         Ack(Owner[k], k, id, box), UNCHANGED <<sock, status>>,
         \A x \in Sockets : \A i \in ToSet(inbox[x]) : (x = k /\ i = id) \/ i \in ToSet(box[x]),
         \A x \in Sessions : \A i \in sent[x] :
            Live(x) /\ (sock[x] # k \/ i # id) =>
               /\ Calling(calls, x, sock[x], i) => Calling(calls', x, sock[x], i)
               /\ Holding(hold[x].queue, sock[x], i) => Holding(hold'[x].queue, sock[x], i)
               /\ i \in stranded[x] => i \in stranded'[x]
  PROVE  OnWay'
<1> DEFINE s == Owner[k]
<1>1. s \in Sessions /\ Ack(s, k, id, box) BY OwnerAssumption
<1>2. \A x \in Sessions : x # s /\ sock[x] # None => sock[x] # k BY LiveIs
<1> HIDE DEF s
<1>3. /\ \A x \in Sessions : x # s => sent'[x] = sent[x]
      /\ \A y \in Sockets : y # k => inbox'[y] = box[y]
      /\ ~Hears(s, k) => sent' = sent /\ inbox' = box
  BY <1>1, AckIs
<1>4. Hears(s, k) => \A i \in sent'[s] : i # id BY <1>1, AckIs
<1>5. Hears(s, k) => \A i : i \in ToSet(inbox'[k]) <=>
                                i \in ToSet(box[k]) \/ (i \in sent'[s] /\ i \notin sent[s])
  BY <1>1, AckIs
<1> SUFFICES ASSUME NEW x \in Sessions, Live(x)', NEW i \in sent'[x]
             PROVE  Carried(x, sock[x], i)'
  BY DEF OnWay
<1>6. Live(x) /\ sock[x] \in Sockets BY LiveIs DEF Live
<1>7. CASE sock[x] # k
  <2>1. x # s \/ ~Hears(s, k) BY <1>7 DEF Hears
  <2>2. sent'[x] = sent[x] /\ inbox'[sock[x]] = box[sock[x]] BY <1>3, <1>6, <1>7, <2>1
  <2>3. Carried(x, sock[x], i) BY <1>6, <2>2 DEF OnWay
  <2>4. i \in ToSet(inbox[sock[x]]) => i \in ToSet(inbox'[sock[x]]) BY <1>6, <1>7, <2>2
  <2> QED BY <1>6, <1>7, <2>2, <2>3, <2>4 DEF Carried
<1>8. CASE sock[x] = k
  <2>1. x = s /\ Hears(s, k) BY <1>2, <1>6, <1>8 DEF Live, Hears
  <2>2. i # id BY <1>4, <2>1
  <2>3. CASE i \in sent[x]
    <3>1. Carried(x, k, i) BY <1>6, <1>8, <2>3 DEF OnWay
    <3>2. i \in ToSet(inbox[k]) => i \in ToSet(inbox'[k]) BY <1>5, <2>1, <2>2
    <3> QED BY <1>6, <1>8, <2>2, <2>3, <3>1, <3>2 DEF Carried
  <2>4. CASE i \notin sent[x]
    <3>1. i \in ToSet(inbox'[k]) BY <1>5, <2>1, <2>4
    <3> QED BY <1>8, <3>1 DEF Carried
  <2> QED BY <2>3, <2>4
<1> QED BY <1>7, <1>8

LEMMA AckAgainW ==
  ASSUME Types, Belongs, OnWay, NEW k \in Sockets, AckAgain(k)
  PROVE  OnWay'
<1> DEFINE box == [inbox EXCEPT ![k] = Tail(@)] id == Frame(k).id
<1>1. /\ inbox[k] # <<>> /\ Ack(Owner[k], k, id, box)
      /\ UNCHANGED <<sock, status, calls, hold, stranded>>
  BY DEF AckAgain, plane, history
<1>2. box \in [Sockets -> Seq(Ids)] /\ id \in Ids /\ ToSet(inbox[k]) = {id} \cup ToSet(Tail(inbox[k]))
  BY <1>1, FrameIs DEF Entry
<1>3. inbox \in [Sockets -> Seq(Ids)] BY DEF Types, WireT
<1>4. box[k] = Tail(inbox[k]) /\ \A x \in Sockets : x # k => box[x] = inbox[x] BY <1>3
<1> HIDE DEF box, id
<1>5. \A x \in Sockets : \A i \in ToSet(inbox[x]) : (x = k /\ i = id) \/ i \in ToSet(box[x])
  BY <1>2, <1>4
<1>6. \A x \in Sessions : \A i \in sent[x] :
            Live(x) /\ (sock[x] # k \/ i # id) =>
               /\ Calling(calls, x, sock[x], i) => Calling(calls', x, sock[x], i)
               /\ Holding(hold[x].queue, sock[x], i) => Holding(hold'[x].queue, sock[x], i)
               /\ i \in stranded[x] => i \in stranded'[x]
  BY <1>1
<1> QED BY <1>1, <1>2, <1>5, <1>6, AckW

\* A dropped hold is remembered as stranded where its entries came on the live
\* socket; the write of its drain has one of them.
LEMMA DropW ==
  ASSUME Types, Drains, NEW s \in Sessions, DropHold(s, calls, used),
         stranded' = [stranded EXCEPT ![s] = @ \cup Strands(s, ToSet(hold[s].queue))],
         NEW x \in Sessions, NEW i
  PROVE  /\ Calling(calls, x, sock[x], i) => Calling(calls', x, sock[x], i) \/ i \in stranded'[x]
         /\ Holding(hold[x].queue, sock[x], i) => Holding(hold'[x].queue, sock[x], i) \/ i \in stranded'[x]
         /\ i \in stranded[x] => i \in stranded'[x]
<1>1. /\ \A y \in Sessions : y # s => hold'[y] = hold[y]
      /\ \A b \in ToSet(calls) : ~(b.sess = s /\ b.via = "drain") => b \in ToSet(calls')
  BY DropSets
<1>2. stranded \in [Sessions -> SUBSET Ids] BY DEF Types, HistoryT
<1>3. \A e \in ToSet(hold[s].queue) : e.sock = sock[s] => e.id \in stranded'[s]
  BY <1>2 DEF Strands
<1>4. i \in stranded[x] => i \in stranded'[x] BY <1>2
<1>5. ASSUME Holding(hold[x].queue, sock[x], i)
      PROVE  Holding(hold'[x].queue, sock[x], i) \/ i \in stranded'[x]
  <2>1. CASE x = s BY <1>3, <1>5, <2>1 DEF Holding
  <2>2. CASE x # s
    <3>1. hold'[x] = hold[x] BY <1>1, <2>2
    <3> QED BY <1>5, <3>1
  <2> QED BY <2>1, <2>2
<1>6. ASSUME Calling(calls, x, sock[x], i)
      PROVE  Calling(calls', x, sock[x], i) \/ i \in stranded'[x]
  <2>1. PICK c \in ToSet(calls) :
           c.waiting /\ c.via \in {"fresh", "drain"} /\ c.sess = x /\ c.sock = sock[x] /\ c.id = i
    BY <1>6 DEF Calling
  <2>2. CASE c.sess = s /\ c.via = "drain"
    <3>1. calls \in Seq(Call) BY CallsAre
    <3>2. PICK j \in 1..Len(calls) : calls[j] = c BY <3>1, ToSetIs
    <3>3. IsDrain(calls[j], s) BY <2>1, <2>2, <3>2 DEF IsDrain
    <3>4. hold[s].queue # <<>> /\ c.id = Head(hold[s].queue).id /\ c.sock = Head(hold[s].queue).sock
      BY <3>2, <3>3, Ends
    <3>5. hold[s].queue \in Seq(Entry) BY DEF Types, PlaneT, Hold
    <3>6. Head(hold[s].queue) \in ToSet(hold[s].queue) BY <3>4, <3>5, ToSetTail
    <3> QED BY <1>3, <2>1, <2>2, <3>4, <3>6
  <2>3. CASE ~(c.sess = s /\ c.via = "drain")
    <3>1. c \in ToSet(calls') BY <1>1, <2>3
    <3> QED BY <2>1, <3>1 DEF Calling
  <2> QED BY <2>2, <2>3
<1> QED BY <1>4, <1>5, <1>6

\* A frame that joins a hold, or whose write failed.
LEMMA HoldFailedW ==
  ASSUME Types, NEW s \in Sessions, NEW e \in Entry, NEW cs \in Seq(Call), NEW charge,
         HoldFailed(s, e, cs, charge), NEW x \in Sessions, sock[x] \in Sockets, Live(x), NEW i
  PROVE  /\ Calling(cs, x, sock[x], i) => Calling(calls', x, sock[x], i)
         /\ Holding(hold[x].queue, sock[x], i) => Holding(hold'[x].queue, sock[x], i)
         /\ i \in stranded[x] => i \in stranded'[x]
         /\ s = x /\ e.sock = sock[x] /\ e.id = i =>
              Holding(hold'[x].queue, sock[x], i) \/ i \in stranded'[x]
<1>1. /\ \A y \in Sessions : y # s => hold'[y] = hold[y] /\ stranded'[y] = stranded[y]
      /\ \A y \in ToSet(hold[s].queue) : status[y.sock] = "open" => y \in ToSet(hold'[s].queue)
      /\ stranded[s] \subseteq stranded'[s]
      /\ status[e.sock] = "open" /\ e.sock = sock[s] =>
           e \in ToSet(hold'[s].queue) \/ e.id \in stranded'[s]
      /\ ToSet(cs) \subseteq ToSet(calls')
  BY HoldFailedSets
<1>2. status[sock[x]] = "open" BY DEF Live
<1>3. Calling(cs, x, sock[x], i) => Calling(calls', x, sock[x], i) BY <1>1 DEF Calling
<1>4. CASE x = s BY <1>1, <1>2, <1>3, <1>4 DEF Holding
<1>5. CASE x # s
  <2>1. hold'[x] = hold[x] /\ stranded'[x] = stranded[x] BY <1>1, <1>5
  <2> QED BY <1>3, <1>5, <2>1
<1> QED BY <1>4, <1>5

LEMMA JoinHoldW ==
  ASSUME Types, Drains, Belongs, OnWay, NEW k \in Sockets, JoinHold(k)
  PROVE  OnWay'
<1> DEFINE s == Owner[k] e == Frame(k)
<1>1. /\ Takes(k) /\ inbox[k] # <<>>
      /\ UNCHANGED <<sent, sock>>
      /\ \/ HoldFailed(s, e, calls, used) /\ UNCHANGED status
         \/ /\ status' = [status EXCEPT ![e.sock] = "refused"]
            /\ DropHold(s, calls, used)
            /\ stranded' = [stranded EXCEPT ![s] = @ \cup Strands(s, ToSet(hold[s].queue))]
  BY DEF JoinHold, Takes, HoldOverflows, client
<1>2. s \in Sessions /\ e \in Entry /\ e.sock = k BY <1>1, FrameIs
<1>3. /\ \A x \in Sockets : x # k => inbox'[x] = inbox[x]
      /\ \A i \in ToSet(inbox[k]) : i # e.id => i \in ToSet(inbox'[k])
  BY <1>1, TakesW
<1>4. calls \in Seq(Call) BY CallsAre
<1>5. status \in [Sockets -> {"unused", "open", "refused", "closed"}] BY DEF Types, WireT
<1> HIDE DEF e, s
<1>6. CASE HoldFailed(s, e, calls, used) /\ UNCHANGED status
  <2>1. ASSUME NEW x \in Sessions, NEW i \in sent[x], Live(x), Carried(x, sock[x], i)
        PROVE  \/ i \in ToSet(inbox'[sock[x]]) \/ Calling(calls', x, sock[x], i)
               \/ Holding(hold'[x].queue, sock[x], i) \/ i \in stranded'[x]
    <3>1. sock[x] \in Sockets /\ Owner[sock[x]] = x BY <2>1, LiveIs DEF Live
    <3>2. /\ Calling(calls, x, sock[x], i) => Calling(calls', x, sock[x], i)
          /\ Holding(hold[x].queue, sock[x], i) => Holding(hold'[x].queue, sock[x], i)
          /\ i \in stranded[x] => i \in stranded'[x]
          /\ s = x /\ e.sock = sock[x] /\ e.id = i =>
               Holding(hold'[x].queue, sock[x], i) \/ i \in stranded'[x]
      BY <1>2, <1>4, <1>6, <2>1, <3>1, HoldFailedW
    <3>3. CASE i \in ToSet(inbox[sock[x]])
      <4>1. CASE sock[x] = k /\ i = e.id
        <5>1. s = x BY <3>1, <4>1 DEF s
        <5> QED BY <1>2, <3>2, <4>1, <5>1
      <4>2. CASE ~(sock[x] = k /\ i = e.id) BY <1>3, <3>1, <3>3, <4>2
      <4> QED BY <4>1, <4>2
    <3> QED BY <2>1, <3>2, <3>3 DEF Carried
  <2>2. \A x \in Sessions : Live(x)' => Live(x) BY <1>1, <1>6 DEF Live
  <2> QED BY <1>1, <2>1, <2>2, OnWayBy
<1>7. CASE /\ status' = [status EXCEPT ![e.sock] = "refused"]
           /\ DropHold(s, calls, used)
           /\ stranded' = [stranded EXCEPT ![s] = @ \cup Strands(s, ToSet(hold[s].queue))]
  <2>1. status'[k] # "open" /\ \A x \in Sockets : status'[x] = "open" => status[x] = "open"
    BY <1>2, <1>5, <1>7
  <2>2. \A x \in Sessions : Live(x)' => Live(x) /\ sock[x] \in Sockets /\ sock[x] # k
    BY <1>1, <2>1, LiveIs DEF Live
  <2>3. ASSUME NEW x \in Sessions, NEW i \in sent[x], Live(x), Live(x)', Carried(x, sock[x], i)
        PROVE  \/ i \in ToSet(inbox'[sock[x]]) \/ Calling(calls', x, sock[x], i)
               \/ Holding(hold'[x].queue, sock[x], i) \/ i \in stranded'[x]
    <3>1. inbox'[sock[x]] = inbox[sock[x]] BY <1>3, <2>2, <2>3
    <3>2. /\ Calling(calls, x, sock[x], i) => Calling(calls', x, sock[x], i) \/ i \in stranded'[x]
          /\ Holding(hold[x].queue, sock[x], i) => Holding(hold'[x].queue, sock[x], i) \/ i \in stranded'[x]
          /\ i \in stranded[x] => i \in stranded'[x]
      BY <1>2, <1>7, DropW
    <3> QED BY <2>3, <3>1, <3>2 DEF Carried
  <2> QED BY <1>1, <2>2, <2>3, OnWayBy
<1> QED BY <1>1, <1>6, <1>7

LEMMA PlaneSeesCloseW ==
  ASSUME Types, Drains, Belongs, OnWay, NEW k \in Sockets, PlaneSeesClose(k)
  PROVE  OnWay'
<1> DEFINE s == Owner[k]
<1>1. /\ status' = [status EXCEPT ![k] = "closed"]
      /\ inbox' = [inbox EXCEPT ![k] = <<>>]
      /\ DropHold(s, calls, used)
      /\ stranded' = [stranded EXCEPT ![s] = @ \cup Strands(s, ToSet(hold[s].queue))]
      /\ UNCHANGED <<sent, sock>>
  BY DEF PlaneSeesClose, client
<1>2. s \in Sessions BY OwnerAssumption
<1>3. status \in [Sockets -> {"unused", "open", "refused", "closed"}] /\ inbox \in [Sockets -> Seq(Ids)]
  BY DEF Types, WireT
<1> HIDE DEF s
<1>4. status'[k] # "open" /\ \A x \in Sockets : status'[x] = "open" => status[x] = "open"
  BY <1>1, <1>3
<1>5. \A x \in Sessions : Live(x)' => Live(x) /\ sock[x] \in Sockets /\ sock[x] # k
  BY <1>1, <1>4, LiveIs DEF Live
<1>6. ASSUME NEW x \in Sessions, NEW i \in sent[x], Live(x), Live(x)', Carried(x, sock[x], i)
      PROVE  \/ i \in ToSet(inbox'[sock[x]]) \/ Calling(calls', x, sock[x], i)
             \/ Holding(hold'[x].queue, sock[x], i) \/ i \in stranded'[x]
  <2>1. inbox'[sock[x]] = inbox[sock[x]] BY <1>1, <1>3, <1>5, <1>6
  <2>2. /\ Calling(calls, x, sock[x], i) => Calling(calls', x, sock[x], i) \/ i \in stranded'[x]
        /\ Holding(hold[x].queue, sock[x], i) => Holding(hold'[x].queue, sock[x], i) \/ i \in stranded'[x]
        /\ i \in stranded[x] => i \in stranded'[x]
    BY <1>1, <1>2, DropW
  <2> QED BY <1>6, <2>1, <2>2 DEF Carried
<1> QED BY <1>1, <1>5, <1>6, OnWayBy

LEMMA WriteFrameW ==
  ASSUME Types, Drains, Belongs, OnWay, NEW k \in Sockets, WriteFrame(k) \/ WriteReclaiming(k)
  PROVE  OnWay'
<1> DEFINE s == Owner[k] e == Frame(k) c == Dispatch(s, e, "fresh")
<1>1. /\ Takes(k) /\ inbox[k] # <<>> /\ calls' = Append(calls, c)
      /\ UNCHANGED <<sent, sock, status>>
      /\ \/ UNCHANGED <<hold, stranded>>
         \/ \E r \in Sessions :
              /\ Idle(r) # {}
              /\ hold' = [hold EXCEPT ![r].queue = RemoveAt(hold[r].queue, Min(Idle(r)))]
              /\ stranded' = [stranded EXCEPT ![r] = @ \cup Strands(r, {hold[r].queue[Min(Idle(r))]})]
  BY DEF WriteFrame, WriteReclaiming, Fresh, Write, Takes, client
<1>2. s \in Sessions /\ e \in Entry /\ e.sock = k BY <1>1, FrameIs
<1>3. c \in Call /\ c.sess = s /\ c.id = e.id /\ c.sock = k /\ c.via = "fresh" /\ c.waiting
  BY <1>2, DispatchIs
<1>4. /\ \A x \in Sockets : x # k => inbox'[x] = inbox[x]
      /\ \A i \in ToSet(inbox[k]) : i # e.id => i \in ToSet(inbox'[k])
  BY <1>1, TakesW
<1>5. calls \in Seq(Call) BY CallsAre
<1> HIDE DEF c
<1>6. ToSet(calls') = ToSet(calls) \cup {c} BY <1>1, <1>3, <1>5, ToSetAppend
<1>7. ASSUME NEW x \in Sessions, NEW i, Holding(hold[x].queue, sock[x], i) \/ i \in stranded[x]
      PROVE  Holding(hold'[x].queue, sock[x], i) \/ i \in stranded'[x]
  <2>1. CASE UNCHANGED <<hold, stranded>> BY <1>7, <2>1
  <2>2. CASE \E r \in Sessions :
              /\ Idle(r) # {}
              /\ hold' = [hold EXCEPT ![r].queue = RemoveAt(hold[r].queue, Min(Idle(r)))]
              /\ stranded' = [stranded EXCEPT ![r] = @ \cup Strands(r, {hold[r].queue[Min(Idle(r))]})]
    <3>1. PICK r \in Sessions :
              /\ Idle(r) # {}
              /\ hold' = [hold EXCEPT ![r].queue = RemoveAt(hold[r].queue, Min(Idle(r)))]
              /\ stranded' = [stranded EXCEPT ![r] = @ \cup Strands(r, {hold[r].queue[Min(Idle(r))]})]
      BY <2>2
    <3> DEFINE q == hold[r].queue m == Min(Idle(r)) t == RemoveAt(q, m)
    <3>2. q \in Seq(Entry) /\ Len(q) \in Nat /\ m \in 1..Len(q) BY <3>1, IdleIs
    <3>3. hold \in [Sessions -> Hold] /\ stranded \in [Sessions -> SUBSET Ids]
      BY DEF Types, PlaneT, HistoryT
    <3>4. hold' = [hold EXCEPT ![r].queue = t]
          /\ stranded' = [stranded EXCEPT ![r] = @ \cup Strands(r, {q[m]})]
      BY <3>1
    <3> HIDE DEF m, q
    <3>5. \A h \in ToSet(q) : h # q[m] => h \in ToSet(t) BY <3>2, RemoveSets
    <3> HIDE DEF t
    <3>6. hold'[r].queue = t /\ \A y \in Sessions : y # r => hold'[y] = hold[y] /\ stranded'[y] = stranded[y]
      BY <3>3, <3>4 DEF Hold
    <3>7. stranded'[r] = stranded[r] \cup Strands(r, {q[m]}) BY <3>3, <3>4
    <3>8. CASE x = r
      <4>1. CASE i \in stranded[x] BY <3>7, <3>8, <4>1
      <4>2. CASE Holding(hold[x].queue, sock[x], i)
        <5>1. PICK h \in ToSet(q) : h.sock = sock[r] /\ h.id = i BY <3>8, <4>2 DEF Holding, q
        <5>2. CASE h = q[m]
          <6>1. i \in Strands(r, {q[m]}) BY <5>1, <5>2 DEF Strands
          <6> QED BY <3>7, <3>8, <6>1
        <5>3. CASE h # q[m] BY <3>5, <3>6, <3>8, <5>1, <5>3 DEF Holding
        <5> QED BY <5>2, <5>3
      <4> QED BY <1>7, <4>1, <4>2
    <3>9. CASE x # r
      <4>1. hold'[x] = hold[x] /\ stranded'[x] = stranded[x] BY <3>6, <3>9
      <4> QED BY <1>7, <4>1
    <3> QED BY <3>8, <3>9
  <2> QED BY <1>1, <2>1, <2>2
<1> HIDE DEF e, s
<1>8. ASSUME NEW x \in Sessions, NEW i \in sent[x], Live(x), Carried(x, sock[x], i)
      PROVE  \/ i \in ToSet(inbox'[sock[x]]) \/ Calling(calls', x, sock[x], i)
             \/ Holding(hold'[x].queue, sock[x], i) \/ i \in stranded'[x]
  <2>1. sock[x] \in Sockets /\ Owner[sock[x]] = x BY <1>8, LiveIs DEF Live
  <2>2. CASE i \in ToSet(inbox[sock[x]])
    <3>1. CASE sock[x] = k /\ i = e.id
      <4>1. c.sess = x /\ c.sock = sock[x] /\ c.id = i BY <1>3, <2>1, <3>1 DEF s
      <4> QED BY <1>3, <1>6, <4>1 DEF Calling
    <3>2. CASE ~(sock[x] = k /\ i = e.id) BY <1>4, <2>1, <2>2, <3>2
    <3> QED BY <3>1, <3>2
  <2>3. CASE Calling(calls, x, sock[x], i) BY <1>6, <2>3 DEF Calling
  <2> QED BY <1>7, <1>8, <2>2, <2>3 DEF Carried
<1>9. \A x \in Sessions : Live(x)' => Live(x) BY <1>1 DEF Live
<1> QED BY <1>1, <1>8, <1>9, OnWayBy

\* A step that keeps the waiting writes, and the entries of open sockets.
LEMMA KeepsW ==
  ASSUME Types, Belongs, OnWay, UNCHANGED <<sent, sock, status, inbox>>,
         \A s \in Sessions : \A i : Calling(calls, s, sock[s], i) => Calling(calls', s, sock[s], i),
         \A s \in Sessions : \A e \in ToSet(hold[s].queue) :
            status[e.sock] = "open" => e \in ToSet(hold'[s].queue),
         \A s \in Sessions : stranded[s] \subseteq stranded'[s]
  PROVE  OnWay'
<1>1. \A s \in Sessions : Live(s)' => Live(s) BY DEF Live
<1>2. \A s \in Sessions : \A i : Live(s) /\ Holding(hold[s].queue, sock[s], i)
                                    => Holding(hold'[s].queue, sock[s], i)
  BY DEF Live, Holding
<1> QED BY <1>1, <1>2, OnWayBy DEF Carried

LEMMA NodeStepsW ==
  ASSUME Types, Belongs, OnWay, NodeWrites \/ ChainIsLost \/ NodeReady
  PROVE  OnWay'
<1>1. UNCHANGED <<sent, sock, status, inbox, stranded>>
  BY DEF NodeWrites, ChainIsLost, NodeReady, client, wire, history
<1>2. CASE NodeWrites
  <2>1. PICK j \in 1..Len(calls) :
        /\ calls' = IF calls[j].waiting THEN [calls EXCEPT ![j].written = TRUE] ELSE RemoveAt(calls, j)
        /\ UNCHANGED hold
    BY <1>2, CallsAre DEF NodeWrites, plane
  <2> DEFINE d == [calls[j] EXCEPT !.written = TRUE]
  <2>2. /\ \A c \in ToSet(calls) : c # calls[j] => c \in ToSet(calls')
        /\ calls[j].waiting => d \in ToSet(calls')
    BY <2>1, NodeWritesSets
  <2>3. calls[j] \in Call BY CallsAre
  <2>4. d.waiting = calls[j].waiting /\ d.via = calls[j].via /\ d.sess = calls[j].sess
        /\ d.sock = calls[j].sock /\ d.id = calls[j].id
    BY <2>3 DEF Call
  <2> HIDE DEF d
  <2>5. ASSUME NEW s \in Sessions, NEW i, Calling(calls, s, sock[s], i)
        PROVE  Calling(calls', s, sock[s], i)
    <3>1. PICK c \in ToSet(calls) :
             c.waiting /\ c.via \in {"fresh", "drain"} /\ c.sess = s /\ c.sock = sock[s] /\ c.id = i
      BY <2>5 DEF Calling
    <3>2. CASE c = calls[j]
      <4>1. d \in ToSet(calls') BY <2>2, <3>1, <3>2
      <4>2. d.waiting /\ d.via \in {"fresh", "drain"} /\ d.sess = s /\ d.sock = sock[s] /\ d.id = i
        BY <2>4, <3>1, <3>2
      <4> QED BY <4>1, <4>2 DEF Calling
    <3>3. CASE c # calls[j]
      <4>1. c \in ToSet(calls') BY <2>2, <3>3
      <4> QED BY <3>1, <4>1 DEF Calling
    <3> QED BY <3>2, <3>3
  <2> QED BY <1>1, <2>1, <2>5, KeepsW
<1>3. CASE ChainIsLost
  <2>1. ToSet(calls') = {c \in ToSet(calls) : c.waiting} BY <1>3, ChainIsLostSets
  <2>2. \A s \in Sessions : \A i : Calling(calls, s, sock[s], i) => Calling(calls', s, sock[s], i)
    BY <2>1 DEF Calling
  <2>3. UNCHANGED hold BY <1>3 DEF ChainIsLost, plane
  <2> QED BY <1>1, <2>2, <2>3, KeepsW
<1>4. CASE NodeReady
  <2>1. /\ \A s \in Sessions : \A e \in ToSet(hold[s].queue) :
               status[e.sock] = "open" => e \in ToSet(hold'[s].queue)
        /\ ToSet(calls) \subseteq ToSet(calls')
    BY <1>4, NodeReadySets
  <2>2. \A s \in Sessions : \A i : Calling(calls, s, sock[s], i) => Calling(calls', s, sock[s], i)
    BY <2>1 DEF Calling
  <2> QED BY <1>1, <2>1, <2>2, KeepsW
<1> QED BY <1>2, <1>3, <1>4

LEMMA ResolvedW ==
  ASSUME Types, Drains, Belongs, OnWay, NEW j \in 1..Len(calls), Resolved(j)
  PROVE  OnWay'
<1> DEFINE c == calls[j] s == c.sess k == c.sock id == c.id rest == RemoveAt(calls, j) q == hold[s].queue
<1>1. Ack(s, k, id, inbox) /\ UNCHANGED <<sock, status, stranded>> BY DEF Resolved
<1>2. c \in Call /\ calls \in Seq(Call) /\ c \in ToSet(calls)
  <2>1. c \in Call /\ calls \in Seq(Call) BY CallsAre
  <2> QED BY <2>1, ToSetIs
<1>3. s \in Sessions /\ k \in Sockets /\ id \in Ids BY <1>2 DEF Call
<1>4. Owner[k] = s BY <1>2 DEF Belongs, CallsOk, CallOk
<1>5. /\ rest \in Seq(Call)
      /\ \A x \in Sessions : x # s => hold'[x] = hold[x]
      /\ c.via # "drain" => hold' = hold
      /\ c.via = "drain" =>
           /\ q # <<>> /\ Head(q).id = id /\ Head(q).sock = k
           /\ hold'[s].queue = Servable(Tail(q))
      /\ ToSet(rest) \subseteq ToSet(calls')
  BY ResolvedSets
<1>6. \A b \in ToSet(calls) : b # c => b \in ToSet(rest) BY <1>2, RemoveSets
<1>7. inbox \in [Sockets -> Seq(Ids)] /\ q \in Seq(Entry) BY <1>3 DEF Types, WireT, PlaneT, Hold
<1> HIDE DEF c, s, k, id, rest, q
<1>8. c.sess = s /\ c.sock = k /\ c.id = id BY DEF s, k, id
<1>9. ASSUME NEW x \in Sessions, NEW i, Live(x), sock[x] # k \/ i # id
      PROVE  /\ Calling(calls, x, sock[x], i) => Calling(calls', x, sock[x], i)
             /\ Holding(hold[x].queue, sock[x], i) => Holding(hold'[x].queue, sock[x], i)
             /\ i \in stranded[x] => i \in stranded'[x]
  <2>1. Calling(calls, x, sock[x], i) => Calling(calls', x, sock[x], i)
    <3> SUFFICES ASSUME Calling(calls, x, sock[x], i) PROVE Calling(calls', x, sock[x], i)
      OBVIOUS
    <3>1. PICK b \in ToSet(calls) :
             b.waiting /\ b.via \in {"fresh", "drain"} /\ b.sess = x /\ b.sock = sock[x] /\ b.id = i
      BY DEF Calling
    <3>2. b # c BY <1>8, <1>9, <3>1
    <3>3. b \in ToSet(calls') BY <1>5, <1>6, <3>2
    <3> QED BY <3>1, <3>3 DEF Calling
  <2>2. Holding(hold[x].queue, sock[x], i) => Holding(hold'[x].queue, sock[x], i)
    <3> SUFFICES ASSUME Holding(hold[x].queue, sock[x], i) PROVE Holding(hold'[x].queue, sock[x], i)
      OBVIOUS
    <3>1. CASE x # s \/ c.via # "drain"
      <4>1. hold'[x] = hold[x] BY <1>5, <3>1
      <4> QED BY <4>1
    <3>2. CASE x = s /\ c.via = "drain"
      <4>1. PICK e \in ToSet(q) : e.sock = sock[x] /\ e.id = i BY <3>2 DEF Holding, q
      <4>2. e # Head(q) BY <1>5, <1>9, <3>2, <4>1
      <4> DEFINE t == Tail(q)
      <4>3. t \in Seq(Entry) /\ e \in ToSet(t) BY <1>5, <1>7, <3>2, <4>2, ToSetTail
      <4>4. hold'[s].queue = Servable(t) BY <1>5, <3>2
      <4> HIDE DEF t
      <4>5. status[e.sock] = "open" BY <1>9, <4>1 DEF Live
      <4>6. e \in ToSet(Servable(t)) BY <4>3, <4>5, ServableSets
      <4> QED BY <3>2, <4>1, <4>4, <4>6 DEF Holding
    <3> QED BY <3>1, <3>2
  <2> QED BY <1>1, <2>1, <2>2
<1>10. \A x \in Sockets : \A i \in ToSet(inbox[x]) : (x = k /\ i = id) \/ i \in ToSet(inbox[x]) OBVIOUS
<1>11. Ack(Owner[k], k, id, inbox) BY <1>1, <1>4
<1> QED BY <1>1, <1>3, <1>7, <1>9, <1>10, <1>11, AckW

LEMMA RejectedW ==
  ASSUME Types, Drains, Belongs, OnWay, NEW j \in 1..Len(calls), Rejected(j)
  PROVE  OnWay'
<1> DEFINE c == calls[j] s == c.sess k == c.sock id == c.id e == [id |-> id, sock |-> k] q == hold[s].queue
<1>1. c.waiting /\ UNCHANGED <<sent, sock, status, inbox>>
  BY DEF Rejected, NextToSettle, client, wire
<1>2. PICK cs \in AfterRejection(j) :
        \/ /\ c.via = "fresh"
           /\ HoldFailed(s, e, cs, used - 1)
        \/ /\ c.via = "drain"
           /\ hold' = [hold EXCEPT ![s].draining = FALSE]
           /\ calls' = cs
           /\ UNCHANGED stranded
        \/ /\ c.via = "dropped" \/ status[k] # "open"
           /\ calls' = cs
           /\ UNCHANGED <<hold, stranded>>
  BY DEF Rejected
<1>3. c \in Call /\ calls \in Seq(Call) BY CallsAre
<1>4. s \in Sessions /\ k \in Sockets /\ e \in Entry BY <1>3 DEF Call, Entry
<1>5. /\ cs \in Seq(Call)
      /\ \A b \in ToSet(calls) : b # c => b \in ToSet(cs)
  BY <1>2, RejectionSets
<1>6. c.via = "drain" => q # <<>> /\ Head(q).id = id /\ Head(q).sock = k
  <2>1. c.via = "drain" => IsDrain(calls[j], s) BY <1>1 DEF IsDrain
  <2> QED BY <1>4, <2>1, Ends
<1>7. q \in Seq(Entry) /\ hold \in [Sessions -> Hold] BY <1>4 DEF Types, PlaneT, Hold
<1>8. e.id = id /\ e.sock = k OBVIOUS
<1> HIDE DEF c, s, k, id, e, q
<1>9. c.sess = s /\ c.sock = k /\ c.id = id BY DEF s, k, id
<1>10. ASSUME NEW x \in Sessions, NEW i, Live(x), Calling(calls, x, sock[x], i)
       PROVE  \/ Calling(cs, x, sock[x], i)
              \/ x = s /\ sock[x] = k /\ i = id /\ c.via \in {"fresh", "drain"}
  <2>1. PICK b \in ToSet(calls) :
           b.waiting /\ b.via \in {"fresh", "drain"} /\ b.sess = x /\ b.sock = sock[x] /\ b.id = i
    BY <1>10 DEF Calling
  <2>2. CASE b = c BY <1>9, <2>1, <2>2
  <2>3. CASE b # c
    <3>1. b \in ToSet(cs) BY <1>5, <2>3
    <3> QED BY <2>1, <3>1 DEF Calling
  <2> QED BY <2>2, <2>3
<1>11. ASSUME NEW x \in Sessions, NEW i \in sent[x], Live(x), Carried(x, sock[x], i)
       PROVE  \/ i \in ToSet(inbox'[sock[x]]) \/ Calling(calls', x, sock[x], i)
              \/ Holding(hold'[x].queue, sock[x], i) \/ i \in stranded'[x]
  <2>1. sock[x] \in Sockets BY <1>11, LiveIs DEF Live
  <2>2. CASE c.via = "fresh" /\ HoldFailed(s, e, cs, used - 1)
    <3>1. /\ Calling(cs, x, sock[x], i) => Calling(calls', x, sock[x], i)
          /\ Holding(hold[x].queue, sock[x], i) => Holding(hold'[x].queue, sock[x], i)
          /\ i \in stranded[x] => i \in stranded'[x]
          /\ s = x /\ e.sock = sock[x] /\ e.id = i =>
               Holding(hold'[x].queue, sock[x], i) \/ i \in stranded'[x]
      BY <1>4, <1>5, <1>11, <2>1, <2>2, HoldFailedW
    <3> QED BY <1>1, <1>8, <1>10, <1>11, <3>1 DEF Carried
  <2>3. CASE /\ c.via = "drain"
             /\ hold' = [hold EXCEPT ![s].draining = FALSE]
             /\ calls' = cs
             /\ UNCHANGED stranded
    <3>1. \A y \in Sessions : hold'[y].queue = hold[y].queue BY <1>7, <2>3 DEF Hold
    <3>2. Head(q) \in ToSet(q) BY <1>6, <1>7, <2>3, ToSetTail
    <3>3. Holding(hold[s].queue, k, id) BY <1>6, <2>3, <3>2 DEF Holding, q
    <3> QED BY <1>1, <1>10, <1>11, <2>3, <3>1, <3>3 DEF Carried
  <2>4. CASE /\ c.via = "dropped" \/ status[k] # "open"
             /\ calls' = cs
             /\ UNCHANGED <<hold, stranded>>
    <3>1. ~(sock[x] = k /\ c.via \in {"fresh", "drain"}) BY <1>11, <2>4 DEF Live
    <3> QED BY <1>1, <1>10, <1>11, <2>4, <3>1 DEF Carried
  <2> QED BY <1>2, <2>2, <2>3, <2>4
<1>12. \A x \in Sessions : Live(x)' => Live(x) BY <1>1 DEF Live
<1> QED BY <1>1, <1>11, <1>12, OnWayBy

LEMMA NextW ==
  ASSUME Types, Types', Drains, Belongs, OnWay, [Next]_vars
  PROVE  OnWay'
<1>1. CASE \E s \in Sessions : Type(s) \/ WindowFires(s) \/ PageLosesSocket(s)
  BY <1>1, TypeW, WindowFiresW, PageLosesSocketW
<1>2. CASE \E s \in Sessions, k \in Sockets : Attach(s, k) BY <1>2, AttachW
<1>3. CASE \E k \in Sockets : IgnoreFrame(k) \/ AckAgain(k) \/ JoinHold(k) \/ WriteFrame(k)
                                \/ WriteReclaiming(k) \/ RefuseFrame(k) \/ PlaneSeesClose(k)
  BY <1>3, IgnoreFrameW, AckAgainW, JoinHoldW, WriteFrameW, PlaneSeesCloseW
<1>4. CASE NodeWrites \/ ChainIsLost \/ NodeReady BY <1>4, NodeStepsW
<1>5. CASE \E j \in DOMAIN calls : Resolved(j) \/ Rejected(j)
  <2>1. DOMAIN calls = 1..Len(calls) BY CallsAre
  <2> QED BY <1>5, <2>1, ResolvedW, RejectedW
<1>6. CASE LinkDrops \/ UNCHANGED vars
  <2>1. UNCHANGED <<sent, sock, status, inbox, hold, calls, stranded>>
    BY <1>6 DEF LinkDrops, vars, client, wire, plane, history
  <2> QED BY <2>1 DEF OnWay, Live, Carried
<1> QED BY <1>1, <1>2, <1>3, <1>4, <1>5, <1>6, NextCases

\* An id the page put on its live socket and that was not acked is on the wire,
\* being written or held with that socket, unless its hold was lost under it.
THEOREM UnackedIsOnItsWay == Spec => []UnackedMeansNotYet
<1>1. Init => OnWay BY DEF Init, OnWay
<1>2. KInv /\ KInv' /\ OnWay /\ [Next]_vars => OnWay' BY NextW DEF KInv
<1>3. KInv /\ OnWay => UnackedMeansNotYet BY OnWayMeans DEF KInv
<1> QED BY <1>1, <1>2, <1>3, KInvHolds, PTL DEF Spec

-----------------------------------------------------------------------------
(* One write of each id: CopiesNeedDoubt. *)

\* At most one element of q, or none, is in X.
OneIn(q, X) == \A m, n \in 1..Len(q) : q[m] \in X /\ q[n] \in X => m = n
NoneIn(q, X) == \A n \in 1..Len(q) : q[n] \notin X

LEMMA PartOne ==
  ASSUME NEW q, NEW r, NEW X, Len(q) \in Nat, Len(r) \in Nat,
         NEW f \in [1..Len(r) -> 1..Len(q)], \A n \in 1..Len(r) : r[n] = q[f[n]],
         \A m, n \in 1..Len(r) : f[m] = f[n] => m = n
  PROVE  /\ OneIn(q, X) => OneIn(r, X)
         /\ NoneIn(q, X) => NoneIn(r, X)
BY DEF OneIn, NoneIn

LEMMA AppendOne ==
  ASSUME NEW S, NEW q \in Seq(S), NEW e \in S, NEW X
  PROVE  /\ OneIn(q, X) /\ (e \in X => NoneIn(q, X)) => OneIn(Append(q, e), X)
         /\ NoneIn(Append(q, e), X) <=> NoneIn(q, X) /\ e \notin X
<1> DEFINE r == Append(q, e)
<1>1. /\ Len(q) \in Nat /\ Len(r) = Len(q) + 1
      /\ \A n \in 1..Len(q) : r[n] = q[n]
      /\ r[Len(q) + 1] = e
  BY ToSetAppend
<1> HIDE DEF r
<1>2. \A n \in 1..Len(r) : n \in 1..Len(q) \/ n = Len(q) + 1 BY <1>1
<1>3. 1..Len(q) \subseteq 1..Len(r) /\ Len(q) + 1 \in 1..Len(r) BY <1>1
<1>4. OneIn(q, X) /\ (e \in X => NoneIn(q, X)) => OneIn(r, X) BY <1>1, <1>2 DEF OneIn, NoneIn
<1>5. NoneIn(r, X) <=> NoneIn(q, X) /\ e \notin X BY <1>1, <1>2, <1>3 DEF NoneIn
<1> QED BY <1>4, <1>5 DEF r

LEMMA RemoveOne ==
  ASSUME NEW S, NEW q \in Seq(S), NEW j \in 1..Len(q), NEW X
  PROVE  /\ OneIn(q, X) => OneIn(RemoveAt(q, j), X)
         /\ OneIn(q, X) /\ q[j] \in X => NoneIn(RemoveAt(q, j), X)
         /\ NoneIn(q, X) => NoneIn(RemoveAt(q, j), X)
         /\ q[j] \notin X /\ NoneIn(RemoveAt(q, j), X) => NoneIn(q, X)
         /\ \A n \in 1..Len(RemoveAt(q, j)) : \E m \in 1..Len(q) : RemoveAt(q, j)[n] = q[m]
<1> DEFINE r == RemoveAt(q, j)
           f == [n \in 1..Len(r) |-> IF n < j THEN n ELSE n + 1]
<1>1. /\ Len(q) \in Nat /\ Len(r) = Len(q) - 1 /\ Len(r) \in Nat
      /\ \A n \in 1..(Len(q) - 1) : r[n] = IF n < j THEN q[n] ELSE q[n + 1]
  BY RemoveAtIs
<1> HIDE DEF r
<1>2. f \in [1..Len(r) -> 1..Len(q)] BY <1>1
<1>3. \A n \in 1..Len(r) : r[n] = q[f[n]] /\ f[n] # j BY <1>1
<1>4. \A m, n \in 1..Len(r) : f[m] = f[n] => m = n BY <1>1
<1>5. \A m \in 1..Len(q) : m # j => \E n \in 1..Len(r) : f[n] = m
  <2> TAKE m \in 1..Len(q)
  <2> HAVE m # j
  <2>1. CASE m < j
    <3>1. m \in 1..Len(r) /\ f[m] = m BY <1>1, <2>1
    <3> QED BY <3>1
  <2>2. CASE m > j
    <3>1. m - 1 \in 1..Len(r) /\ f[m - 1] = m BY <1>1, <2>2
    <3> QED BY <3>1
  <2> QED BY <1>1, <2>1, <2>2
<1> HIDE DEF f
<1>6. (OneIn(q, X) => OneIn(r, X)) /\ (NoneIn(q, X) => NoneIn(r, X))
  <2>1. Len(q) \in Nat /\ Len(r) \in Nat BY <1>1
  <2>2. \A n \in 1..Len(r) : r[n] = q[f[n]] BY <1>3
  <2> QED BY <1>2, <1>4, <2>1, <2>2, PartOne
<1>7. OneIn(q, X) /\ q[j] \in X => NoneIn(r, X) BY <1>2, <1>3 DEF OneIn, NoneIn
<1>8. q[j] \notin X /\ NoneIn(r, X) => NoneIn(q, X) BY <1>3, <1>5 DEF NoneIn
<1>9. \A n \in 1..Len(r) : \E m \in 1..Len(q) : r[n] = q[m] BY <1>2, <1>3
<1> QED BY <1>6, <1>7, <1>8, <1>9 DEF r

\* The entries a drain leaves, and what is behind an entry.
LEMMA SuffixOne ==
  ASSUME NEW q \in Seq(Entry), NEW X
  PROVE  /\ OneIn(q, X) => OneIn(Servable(q), X)
         /\ NoneIn(q, X) => NoneIn(Servable(q), X)
         /\ q # <<>> => /\ OneIn(q, X) => OneIn(Tail(q), X)
                        /\ OneIn(q, X) /\ Head(q) \in X => NoneIn(Tail(q), X)
                        /\ NoneIn(q, X) => NoneIn(Tail(q), X)
<1>1. PICK d \in 0..Len(q) : /\ Servable(q) \in Seq(Entry) /\ Len(Servable(q)) = Len(q) - d
                             /\ \A n \in 1..(Len(q) - d) : Servable(q)[n] = q[n + d]
  BY ServableIs
<1>2. Len(q) \in Nat OBVIOUS
<1> DEFINE r == Servable(q) f == [n \in 1..Len(r) |-> n + d]
<1>3. /\ Len(r) \in Nat /\ f \in [1..Len(r) -> 1..Len(q)] /\ \A n \in 1..Len(r) : r[n] = q[f[n]]
      /\ \A m, n \in 1..Len(r) : f[m] = f[n] => m = n
  BY <1>1, <1>2
<1>4. (OneIn(q, X) => OneIn(r, X)) /\ (NoneIn(q, X) => NoneIn(r, X))
  <2> HIDE DEF f, r
  <2> QED BY <1>2, <1>3, PartOne
<1>5. ASSUME q # <<>>
      PROVE  /\ OneIn(q, X) => OneIn(Tail(q), X)
             /\ OneIn(q, X) /\ Head(q) \in X => NoneIn(Tail(q), X)
             /\ NoneIn(q, X) => NoneIn(Tail(q), X)
  <2> DEFINE t == Tail(q)
  <2>1. Len(t) = Len(q) - 1 /\ Head(q) = q[1] /\ \A n \in 1..(Len(q) - 1) : t[n] = q[n + 1]
    BY <1>5, ToSetTail
  <2>2. Len(q) > 0 BY <1>5
  <2> HIDE DEF t
  <2> QED BY <1>2, <2>1, <2>2 DEF OneIn, NoneIn, t
<1> QED BY <1>4, <1>5

Writes(s, i) == {c \in Call : c.sess = s /\ c.id = i}
Copies(i) == {e \in Entry : e.id = i}

\* The chain cs and the hold's queue q of s have one write of i to do, at most:
\* an entry that is being written is the one its hold's drain writes, and what
\* has landed is written again by nobody.
Fit(s, i, cs, q, landed) ==
  /\ OneIn(cs, Writes(s, i))
  /\ OneIn(q, Copies(i))
  /\ \A n \in 1..Len(cs) : cs[n] \in Writes(s, i) =>
        /\ cs[n].waiting
        /\ cs[n].via # "drain" => NoneIn(q, Copies(i))
        /\ ~cs[n].written => i \notin landed
  /\ NoneIn(cs, Writes(s, i)) /\ i \in landed => NoneIn(q, Copies(i))

LEMMA FitAppend ==
  ASSUME NEW s, NEW i, NEW cs \in Seq(Call), NEW q, NEW landed, NEW c \in Call,
         Fit(s, i, cs, q, landed),
         c \in Writes(s, i) =>
            /\ NoneIn(cs, Writes(s, i)) /\ c.waiting /\ i \notin landed
            /\ c.via # "drain" => NoneIn(q, Copies(i))
  PROVE  Fit(s, i, Append(cs, c), q, landed)
<1> DEFINE r == Append(cs, c) X == Writes(s, i)
<1>1. /\ Len(cs) \in Nat /\ Len(r) = Len(cs) + 1
      /\ \A n \in 1..Len(cs) : r[n] = cs[n]
      /\ r[Len(cs) + 1] = c
  BY ToSetAppend
<1>2. OneIn(r, X) /\ (NoneIn(r, X) <=> NoneIn(cs, X) /\ c \notin X)
  <2> HIDE DEF X
  <2> QED BY AppendOne DEF Fit, X
<1> HIDE DEF r, X
<1>3. \A n \in 1..Len(r) : n \in 1..Len(cs) \/ n = Len(cs) + 1 BY <1>1
<1>4. \A n \in 1..Len(r) : r[n] \in X =>
        /\ r[n].waiting
        /\ r[n].via # "drain" => NoneIn(q, Copies(i))
        /\ ~r[n].written => i \notin landed
  BY <1>1, <1>3 DEF Fit, X
<1> QED BY <1>2, <1>4 DEF Fit, X, r

\* A write is over, its entry is gone with it or nothing of it has landed.
LEMMA FitRemove ==
  ASSUME NEW s, NEW i, NEW cs \in Seq(Call), NEW q, NEW landed, NEW j \in 1..Len(cs),
         Fit(s, i, cs, q, landed)
  PROVE  /\ cs[j] \notin Writes(s, i) => Fit(s, i, RemoveAt(cs, j), q, landed)
         /\ cs[j] \in Writes(s, i) =>
              /\ NoneIn(RemoveAt(cs, j), Writes(s, i))
              /\ ~cs[j].written => Fit(s, i, RemoveAt(cs, j), q, landed)
<1> DEFINE r == RemoveAt(cs, j) X == Writes(s, i)
<1>1. /\ OneIn(cs, X) => OneIn(r, X)
      /\ OneIn(cs, X) /\ cs[j] \in X => NoneIn(r, X)
      /\ cs[j] \notin X /\ NoneIn(r, X) => NoneIn(cs, X)
      /\ \A n \in 1..Len(r) : \E m \in 1..Len(cs) : r[n] = cs[m]
  <2> HIDE DEF X
  <2> QED BY RemoveOne
<1> HIDE DEF r, X
<1>2. \A n \in 1..Len(r) : r[n] \in X =>
        /\ r[n].waiting
        /\ r[n].via # "drain" => NoneIn(q, Copies(i))
        /\ ~r[n].written => i \notin landed
  BY <1>1 DEF Fit, X
<1>3. OneIn(r, X) BY <1>1 DEF Fit, X
<1>4. CASE cs[j] \notin X BY <1>1, <1>2, <1>3, <1>4 DEF Fit, X, r
<1>5. CASE cs[j] \in X
  <2>1. NoneIn(r, X) BY <1>1, <1>5 DEF Fit, X
  <2>2. ~cs[j].written => i \notin landed BY <1>5 DEF Fit, X
  <2> QED BY <1>2, <1>3, <1>5, <2>1, <2>2 DEF Fit, X, r
<1> QED BY <1>4, <1>5

\* Entries leave the hold.
LEMMA FitFewer ==
  ASSUME NEW s, NEW i, NEW cs, NEW q, NEW r, NEW landed, Fit(s, i, cs, q, landed),
         OneIn(q, Copies(i)) => OneIn(r, Copies(i)), NoneIn(q, Copies(i)) => NoneIn(r, Copies(i))
  PROVE  Fit(s, i, cs, r, landed)
BY DEF Fit

\* An entry joins it.
LEMMA FitEntry ==
  ASSUME NEW s, NEW i, NEW cs, NEW q \in Seq(Entry), NEW e \in Entry, NEW landed, Fit(s, i, cs, q, landed),
         e.id = i => NoneIn(q, Copies(i)) /\ NoneIn(cs, Writes(s, i)) /\ i \notin landed
  PROVE  Fit(s, i, cs, Append(q, e), landed)
<1> DEFINE X == Copies(i) r == Append(q, e)
<1>1. e \in X <=> e.id = i BY DEF Copies
<1>2. /\ OneIn(q, X) /\ (e \in X => NoneIn(q, X)) => OneIn(r, X)
      /\ NoneIn(r, X) <=> NoneIn(q, X) /\ e \notin X
  <2> HIDE DEF X
  <2> QED BY AppendOne
<1> HIDE DEF r, X
<1>3. CASE e.id = i
  <2>1. NoneIn(cs, Writes(s, i)) /\ i \notin landed /\ OneIn(r, X) BY <1>1, <1>2, <1>3 DEF X, Fit
  <2>2. \A n \in 1..Len(cs) : cs[n] \notin Writes(s, i) BY <2>1 DEF NoneIn
  <2> QED BY <2>1, <2>2 DEF Fit, X, r
<1>4. CASE e.id # i
  <2>1. /\ OneIn(q, X) => OneIn(r, X)
        /\ NoneIn(q, X) => NoneIn(r, X)
    BY <1>1, <1>2, <1>4
  <2> QED BY <2>1, FitFewer DEF X, r
<1> QED BY <1>3, <1>4

\* A drain that moves on: nothing was being written for the hold.
LEMMA FitRefires ==
  ASSUME NEW s \in Sessions, NEW x \in Sessions, NEW i, NEW cs \in Seq(Call), NEW q \in Seq(Entry),
         NEW mine \in Seq(Entry), NEW landed,
         Fit(x, i, cs, mine, landed), NoDrain(s, cs), x = s => mine = q
  PROVE  Fit(x, i, cs \o Refires(s, q), IF x = s THEN Servable(q) ELSE mine, landed)
<1> DEFINE t == IF x = s THEN Servable(q) ELSE mine
           c == Dispatch(s, Head(Servable(q)), "drain")
<1>1. Fit(x, i, cs, t, landed)
  <2>1. /\ OneIn(q, Copies(i)) => OneIn(Servable(q), Copies(i))
        /\ NoneIn(q, Copies(i)) => NoneIn(Servable(q), Copies(i))
    BY SuffixOne
  <2> QED BY <2>1, FitFewer
<1>2. /\ Servable(q) = <<>> => cs \o Refires(s, q) = cs
      /\ Servable(q) # <<>> => c \in Call /\ cs \o Refires(s, q) = Append(cs, c)
  BY RefiresSets
<1>3. CASE Servable(q) = <<>> BY <1>1, <1>2, <1>3
<1>4. CASE Servable(q) # <<>>
  <2>1. Head(Servable(q)) \in ToSet(q) /\ Head(Servable(q)) \in Entry BY <1>4, ServableSets, ToSetIs
  <2>2. /\ c.sess = s /\ c.id = Head(Servable(q)).id /\ c.via = "drain" /\ c.waiting
    BY <2>1, DispatchIs
  <2>3. ASSUME c \in Writes(x, i)
        PROVE  NoneIn(cs, Writes(x, i)) /\ i \notin landed
    <3>1. x = s /\ Head(Servable(q)).id = i /\ mine = q BY <2>2, <2>3 DEF Writes
    <3>2. PICK m \in 1..Len(q) : q[m] = Head(Servable(q)) BY <2>1, ToSetIs
    <3>3. q[m] \in Copies(i) BY <2>1, <3>1, <3>2 DEF Copies
    <3>4. ~NoneIn(q, Copies(i)) BY <3>3 DEF NoneIn
    <3>5. \A n \in 1..Len(cs) : cs[n] \notin Writes(x, i)
      <4> SUFFICES ASSUME NEW n \in 1..Len(cs), cs[n] \in Writes(x, i) PROVE FALSE OBVIOUS
      <4>1. cs[n].waiting /\ cs[n].via = "drain" BY <3>1, <3>4 DEF Fit
      <4>2. cs[n].sess = s BY <3>1 DEF Writes
      <4> QED BY <4>1, <4>2 DEF NoDrain, IsDrain
    <3>6. NoneIn(cs, Writes(x, i)) BY <3>5 DEF NoneIn
    <3> QED BY <3>1, <3>4, <3>6 DEF Fit
  <2> HIDE DEF c, t
  <2>4. c \in Call BY <1>2, <1>4
  <2>5. Fit(x, i, Append(cs, c), t, landed) BY <1>1, <2>2, <2>3, <2>4, FitAppend
  <2>6. cs \o Refires(s, q) = Append(cs, c) BY <1>2, <1>4
  <2> QED BY <2>5, <2>6 DEF t
<1> QED BY <1>3, <1>4

\* The page may still send i, or has.
Asked(s, i) == i \in pending[s] \/ \E k \in Sockets : Owner[k] = s /\ i \in ToSet(inbox[k])

LEMMA OutstandingIs ==
  ASSUME NEW s, NEW i
  PROVE  i \in Outstanding(s) <=> Asked(s, i)
BY DEF Outstanding, Asked

LEMMA OutstandingIsNext ==
  ASSUME NEW s, NEW i
  PROVE  (i \in Outstanding(s))' <=> Asked(s, i)'
BY DEF Outstanding, Asked

\* What landed and is not being written is known by the window, or is asked for
\* no more.
Known(s, i) ==
  NoneIn(calls, Writes(s, i)) /\ i \in ToSet(pane[s]) => i \in ToSet(window[s]) \/ ~Asked(s, i)

Sound(s, i) ==
  /\ OneIn(pane[s], {i})
  /\ Fit(s, i, calls, hold[s].queue, ToSet(pane[s]))
  /\ Known(s, i)

Single == \A s \in Sessions : \A i \in Ids : i \notin doubted[s] => Sound(s, i)

\* A step of the page, the wire or the link: nobody asks again for what landed.
LEMMA QuietC ==
  ASSUME Types, Single, UNCHANGED <<window, hold, calls, pane, doubted>>,
         \A s \in Sessions : \A i \in ToSet(pane[s]) : Asked(s, i)' => Asked(s, i)
  PROVE  Single'
<1> SUFFICES ASSUME NEW s \in Sessions, NEW i \in Ids, i \notin doubted[s] PROVE Sound(s, i)'
  BY DEF Single
<1>1. Sound(s, i) BY DEF Single
<1>2. Known(s, i)' BY <1>1 DEF Sound, Known
<1> QED BY <1>1, <1>2 DEF Sound

\* Frames that go from what is pending, or are on their way, to the wire.
LEMMA NotAskedAgain ==
  ASSUME NEW s, NEW i,
         i \in pending'[s] => i \in pending[s],
         \A k \in Sockets : Owner[k] = s /\ i \in ToSet(inbox'[k]) => i \in ToSet(inbox[k]) \/ i \in pending[s]
  PROVE  Asked(s, i)' => Asked(s, i)
BY DEF Asked

LEMMA TypeC ==
  ASSUME Types, Types', Belongs, Single, NEW s \in Sessions, Type(s)
  PROVE  Single'
<1> DEFINE id  == typed[s] + 1
           all == pending[s] \cup {id}
           old == IF Cardinality(all) > MaxPending THEN Oldest(1, all) ELSE {}
           out == IF pending[s] = {} /\ sock[s] # None THEN {id} ELSE {}
<1>1. /\ sock \in [Sessions -> Sockets \cup {None}] /\ pending \in [Sessions -> SUBSET Ids]
      /\ inbox \in [Sockets -> Seq(Ids)] /\ typed \in [Sessions -> 0..MaxId] /\ MaxId \in Nat
  BY IdsAre DEF Types, PageT, WireT
<1>2. /\ typed' = [typed EXCEPT ![s] = id]
      /\ pending' = [pending EXCEPT ![s] = all \ old]
      /\ inbox' = IF out = {} THEN inbox ELSE [inbox EXCEPT ![sock[s]] = Append(@, id)]
      /\ UNCHANGED <<window, hold, calls, pane, doubted>>
  BY DEF Type, plane
<1>3. id \in Ids
  <2>1. typed'[s] \in 0..MaxId BY DEF Types, PageT
  <2>2. typed'[s] = id /\ typed[s] \in Nat BY <1>1, <1>2
  <2> QED BY <1>1, <2>1, <2>2 DEF Ids
<1>4. (out # {} => sock[s] # None) /\ id = typed[s] + 1 /\ typed[s] \in Nat BY <1>1
<1>5. \A x \in Sessions : \A i \in ToSet(pane[x]) : i <= typed[x] BY DEF Belongs, PaneOk
<1>6. pane \in [Sessions -> Seq(Ids)] BY DEF Types, NodeT
<1>7. all = pending[s] \cup {id} OBVIOUS
<1> HIDE DEF old, out, id, all
<1>8. \A k \in Sockets : \A i \in ToSet(inbox'[k]) : i \in ToSet(inbox[k]) \/ (i = id /\ k = sock[s])
  <2> SUFFICES ASSUME NEW k \in Sockets PROVE \A i \in ToSet(inbox'[k]) : i \in ToSet(inbox[k]) \/ (i = id /\ k = sock[s])
    OBVIOUS
  <2>1. CASE inbox'[k] = inbox[k] BY <2>1
  <2>2. CASE inbox'[k] # inbox[k]
    <3>1. inbox'[k] = Append(inbox[k], id) /\ k = sock[s] BY <1>1, <1>2, <2>2
    <3> QED BY <1>1, <1>3, <3>1, ToSetAppend
  <2> QED BY <2>1, <2>2
<1>9. ASSUME NEW x \in Sessions, NEW i \in ToSet(pane[x]) PROVE Asked(x, i)' => Asked(x, i)
  <2>1. i \in Ids /\ i <= typed[x] BY <1>5, <1>6, ToSetIs
  <2>2. x = s => i # id BY <1>4, <2>1 DEF Ids
  <2>3. i \in pending'[x] => i \in pending[x]
    <3>1. CASE x = s BY <1>1, <1>2, <1>7, <2>2, <3>1
    <3>2. CASE x # s BY <1>1, <1>2, <3>2
    <3> QED BY <3>1, <3>2
  <2>4. ASSUME NEW k \in Sockets, Owner[k] = x, i \in ToSet(inbox'[k]) PROVE i \in ToSet(inbox[k])
    <3>1. CASE i = id /\ k = sock[s]
      <4>1. Owner[k] = s
        <5>1. sock[s] # None BY <3>1, NoneAssumption
        <5> QED BY <3>1, <5>1, LiveIs
      <4> QED BY <2>2, <2>4, <3>1, <4>1
    <3> QED BY <1>8, <2>4, <3>1
  <2> QED BY <2>3, <2>4, NotAskedAgain
<1> QED BY <1>2, <1>9, QuietC

\* The page sends what it has pending.
LEMMA SendsC ==
  ASSUME Types, Belongs, Single, NEW s \in Sessions, NEW k \in Sockets, Owner[k] = s,
         UNCHANGED <<pending, window, hold, calls, pane, doubted>>,
         \A y \in Sockets : y # k => inbox'[y] = inbox[y],
         ToSet(inbox'[k]) \subseteq ToSet(inbox[k]) \cup pending[s]
  PROVE  Single'
<1>1. ASSUME NEW x \in Sessions, NEW i \in ToSet(pane[x]) PROVE Asked(x, i)' => Asked(x, i)
  <2>1. \A y \in Sockets : Owner[y] = x /\ i \in ToSet(inbox'[y]) => i \in ToSet(inbox[y]) \/ i \in pending[x]
    OBVIOUS
  <2> QED BY <2>1, NotAskedAgain
<1> QED BY <1>1, QuietC

LEMMA WindowFiresC ==
  ASSUME Types, Belongs, Single, NEW s \in Sessions, WindowFires(s)
  PROVE  Single'
<1> DEFINE next == Flushable(pending[s], sent[s])
<1>1. /\ inbox' = [inbox EXCEPT ![sock[s]] = @ \o InOrder(next)]
      /\ sock[s] # None
      /\ UNCHANGED <<pending, window, hold, calls, pane, doubted>>
  BY DEF WindowFires, plane, history
<1>2. next \subseteq pending[s] BY FlushIs
<1> HIDE DEF next
<1>3. pending \in [Sessions -> SUBSET Ids] /\ inbox \in [Sockets -> Seq(Ids)]
  BY DEF Types, PageT, WireT
<1>4. next \subseteq Ids /\ sock[s] \in Sockets /\ Owner[sock[s]] = s BY <1>1, <1>2, <1>3, LiveIs
<1>5. InOrder(next) \in Seq(Ids) /\ ToSet(InOrder(next)) = next BY <1>4, IdsInOrder
<1>6. ToSet(inbox[sock[s]] \o InOrder(next)) = ToSet(inbox[sock[s]]) \cup next
  BY <1>3, <1>4, <1>5, ToSetConcat
<1>7. ToSet(inbox'[sock[s]]) \subseteq ToSet(inbox[sock[s]]) \cup pending[s]
      /\ \A k \in Sockets : k # sock[s] => inbox'[k] = inbox[k]
  BY <1>1, <1>2, <1>3, <1>4, <1>6
<1> QED BY <1>1, <1>4, <1>7, SendsC

LEMMA AttachC ==
  ASSUME Types, Belongs, Single, NEW s \in Sessions, NEW k \in Sockets, Attach(s, k)
  PROVE  Single'
<1> DEFINE next == Flushable(pending[s], sent[s])
<1>1. /\ Owner[k] = s
      /\ inbox' = [inbox EXCEPT ![k] = InOrder(sent[s]) \o InOrder(next)]
      /\ UNCHANGED <<pending, window, hold, calls, pane, doubted>>
  BY DEF Attach, plane
<1>2. next \subseteq pending[s] BY FlushIs
<1> HIDE DEF next
<1>3. /\ pending \in [Sessions -> SUBSET Ids] /\ sent \in [Sessions -> SUBSET Ids]
      /\ inbox \in [Sockets -> Seq(Ids)]
  BY DEF Types, PageT, WireT
<1>4. next \subseteq Ids /\ sent[s] \subseteq Ids /\ sent[s] \subseteq pending[s]
  BY <1>2, <1>3 DEF Belongs, PageOk
<1>5. /\ InOrder(next) \in Seq(Ids) /\ ToSet(InOrder(next)) = next
      /\ InOrder(sent[s]) \in Seq(Ids) /\ ToSet(InOrder(sent[s])) = sent[s]
  BY <1>4, IdsInOrder
<1> DEFINE a == InOrder(sent[s]) b == InOrder(next)
<1>6. ToSet(a \o b) = sent[s] \cup next
  <2>1. a \in Seq(Ids) /\ b \in Seq(Ids) /\ ToSet(a) = sent[s] /\ ToSet(b) = next BY <1>5
  <2> HIDE DEF a, b
  <2> QED BY <2>1, ToSetConcat
<1>7. ToSet(inbox'[k]) \subseteq ToSet(inbox[k]) \cup pending[s]
      /\ \A y \in Sockets : y # k => inbox'[y] = inbox[y]
  BY <1>1, <1>2, <1>3, <1>4, <1>6
<1> QED BY <1>1, <1>7, SendsC

\* A frame leaves the wire.
LEMMA TakenC ==
  ASSUME Types, NEW k \in Sockets, Takes(k), UNCHANGED pending
  PROVE  \A s \in Sessions : \A i : Asked(s, i)' => Asked(s, i)
<1>1. inbox[k] # <<>> /\ inbox' = [inbox EXCEPT ![k] = Tail(@)] BY DEF Takes
<1>2. ToSet(inbox[k]) = {Frame(k).id} \cup ToSet(Tail(inbox[k])) /\ inbox \in [Sockets -> Seq(Ids)]
  BY <1>1, FrameIs DEF Types, WireT
<1>3. \A y \in Sockets : ToSet(inbox'[y]) \subseteq ToSet(inbox[y])
  <2> SUFFICES ASSUME NEW y \in Sockets PROVE ToSet(inbox'[y]) \subseteq ToSet(inbox[y]) OBVIOUS
  <2>1. CASE y = k
    <3>1. inbox'[y] = Tail(inbox[k]) BY <1>1, <1>2, <2>1
    <3> QED BY <1>2, <2>1, <3>1
  <2>2. CASE y # k
    <3>1. inbox'[y] = inbox[y] BY <1>1, <1>2, <2>2
    <3> QED BY <3>1
  <2> QED BY <2>1, <2>2
<1> QED BY <1>3, NotAskedAgain

\* An ack retires its frame, and what it lets go was pending.
LEMMA AckC ==
  ASSUME Types, NEW k \in Sockets, NEW id \in Ids, NEW box \in [Sockets -> Seq(Ids)],
         \A y \in Sockets : ToSet(box[y]) \subseteq ToSet(inbox[y]),
         Belongs, Ack(Owner[k], k, id, box)
  PROVE  \A s \in Sessions : \A i : Asked(s, i)' => Asked(s, i)
<1> DEFINE o == Owner[k]
<1>1. o \in Sessions BY OwnerAssumption
<1> HIDE DEF o
<1>2. /\ \A x \in Sessions : x # o => pending'[x] = pending[x]
      /\ \A y \in Sockets : y # k => inbox'[y] = box[y]
      /\ ~Hears(o, k) => pending' = pending /\ inbox' = box
      /\ Hears(o, k) =>
           /\ pending'[o] = pending[o] \ {id}
           /\ \A i \in sent'[o] : i # id /\ (i \in pending[o] \/ i \in sent[o])
           /\ \A i : i \in ToSet(inbox'[k]) <=> i \in ToSet(box[k]) \/ (i \in sent'[o] /\ i \notin sent[o])
  BY <1>1, AckIs DEF o
<1>3. \A x \in Sessions : pending'[x] \subseteq pending[x]
  <2> SUFFICES ASSUME NEW x \in Sessions PROVE pending'[x] \subseteq pending[x] OBVIOUS
  <2>1. CASE x # o \/ ~Hears(o, k) BY <1>2, <2>1
  <2>2. CASE x = o /\ Hears(o, k) BY <1>2, <2>2
  <2> QED BY <2>1, <2>2
<1>4. \A y \in Sockets : \A i : i \in ToSet(inbox'[y]) => i \in ToSet(inbox[y]) \/ (y = k /\ i \in pending[o])
  <2> SUFFICES ASSUME NEW y \in Sockets, NEW i, i \in ToSet(inbox'[y])
               PROVE i \in ToSet(inbox[y]) \/ (y = k /\ i \in pending[o])
    OBVIOUS
  <2>1. CASE y # k \/ ~Hears(o, k)
    <3>1. inbox'[y] = box[y] BY <1>2, <2>1
    <3> QED BY <3>1
  <2>2. CASE y = k /\ Hears(o, k) BY <1>2, <2>2
  <2> QED BY <2>1, <2>2
<1> SUFFICES ASSUME NEW s \in Sessions, NEW i PROVE Asked(s, i)' => Asked(s, i) OBVIOUS
<1>5. i \in pending'[s] => i \in pending[s] BY <1>3
<1>6. \A y \in Sockets : Owner[y] = s /\ i \in ToSet(inbox'[y]) => i \in ToSet(inbox[y]) \/ i \in pending[s]
  BY <1>4 DEF o
<1> QED BY <1>5, <1>6, NotAskedAgain

LEMMA WireStepsC ==
  ASSUME Types, Belongs, Single, NEW s \in Sessions, NEW k \in Sockets,
         PageLosesSocket(s) \/ IgnoreFrame(k) \/ AckAgain(k) \/ RefuseFrame(k) \/ LinkDrops \/ UNCHANGED vars
  PROVE  Single'
<1>1. UNCHANGED <<window, hold, calls, pane, doubted>>
  BY DEF PageLosesSocket, IgnoreFrame, AckAgain, RefuseFrame, LinkDrops, vars, client, wire, plane, history
<1>2. CASE PageLosesSocket(s) \/ LinkDrops \/ UNCHANGED vars
  <2>1. UNCHANGED <<pending, inbox>> BY <1>2 DEF PageLosesSocket, LinkDrops, vars, client, wire
  <2>2. \A x \in Sessions : \A i \in ToSet(pane[x]) : Asked(x, i)' => Asked(x, i) BY <2>1 DEF Asked
  <2> QED BY <1>1, <2>2, QuietC
<1>3. CASE IgnoreFrame(k) \/ RefuseFrame(k)
  <2>1. Takes(k) /\ UNCHANGED pending BY <1>3 DEF IgnoreFrame, RefuseFrame, Fresh, client
  <2>2. \A x \in Sessions : \A i : Asked(x, i)' => Asked(x, i) BY <2>1, TakenC
  <2> QED BY <1>1, <2>2, QuietC
<1>4. CASE AckAgain(k)
  <2> DEFINE box == [inbox EXCEPT ![k] = Tail(@)] id == Frame(k).id
  <2>1. inbox[k] # <<>> /\ Ack(Owner[k], k, id, box) BY <1>4 DEF AckAgain
  <2>2. box \in [Sockets -> Seq(Ids)] /\ id \in Ids /\ ToSet(inbox[k]) = {id} \cup ToSet(Tail(inbox[k]))
    BY <2>1, FrameIs DEF Entry
  <2>3. inbox \in [Sockets -> Seq(Ids)] BY DEF Types, WireT
  <2>4. \A y \in Sockets : ToSet(box[y]) \subseteq ToSet(inbox[y])
    <3> SUFFICES ASSUME NEW y \in Sockets PROVE ToSet(box[y]) \subseteq ToSet(inbox[y]) OBVIOUS
    <3>1. CASE y = k
      <4>1. box[y] = Tail(inbox[k]) BY <2>3, <3>1
      <4> QED BY <2>2, <3>1, <4>1
    <3>2. CASE y # k
      <4>1. box[y] = inbox[y] BY <2>3, <3>2
      <4> QED BY <4>1
    <3> QED BY <3>1, <3>2
  <2> HIDE DEF box, id
  <2>5. \A x \in Sessions : \A i : Asked(x, i)' => Asked(x, i) BY <2>1, <2>2, <2>4, AckC
  <2> QED BY <1>1, <2>5, QuietC
<1> QED BY <1>2, <1>3, <1>4

\* Nothing but a write by the node changes what landed.
LEMMA SoundBy ==
  ASSUME NEW s, NEW i, Sound(s, i), UNCHANGED <<pane, window>>,
         Fit(s, i, calls', hold'[s].queue, ToSet(pane[s])),
         NoneIn(calls', Writes(s, i)) => NoneIn(calls, Writes(s, i)) \/ i \notin ToSet(pane[s]),
         Asked(s, i)' => Asked(s, i)
  PROVE  Sound(s, i)'
BY DEF Sound, Known

LEMMA KickFit ==
  ASSUME Types, NEW s \in Sessions, NEW q \in Seq(Entry), NEW cs \in Seq(Call), NEW charge,
         Kick(s, q, cs, charge), ~hold[s].draining => NoDrain(s, cs),
         NEW x \in Sessions, NEW i, NEW landed,
         Fit(x, i, cs, IF x = s THEN q ELSE hold[x].queue, landed)
  PROVE  /\ Fit(x, i, calls', hold'[x].queue, landed)
         /\ NoneIn(calls', Writes(x, i)) => NoneIn(cs, Writes(x, i))
<1>1. hold \in [Sessions -> Hold] BY DEF Types, PlaneT
<1>2. CASE hold[s].draining
  <2>1. hold' = [hold EXCEPT ![s].queue = q] /\ calls' = cs BY <1>2 DEF Kick
  <2>2. hold'[x].queue = IF x = s THEN q ELSE hold[x].queue BY <1>1, <2>1 DEF Hold
  <2> QED BY <2>1, <2>2
<1>3. CASE ~hold[s].draining
  <2>1. hold' = [hold EXCEPT ![s] = Draining(s, q)] /\ calls' = cs \o Refires(s, q) BY <1>3 DEF Kick
  <2> DEFINE mine == IF x = s THEN q ELSE hold[x].queue
             rest == IF x = s THEN Servable(q) ELSE mine
  <2>2. hold'[x].queue = rest BY <1>1, <2>1 DEF Draining
  <2>3. mine \in Seq(Entry) /\ (x = s => mine = q) BY <1>1 DEF Hold
  <2>4. Fit(x, i, cs, mine, landed) OBVIOUS
  <2> HIDE DEF mine
  <2>5. Fit(x, i, cs \o Refires(s, q), rest, landed) BY <1>3, <2>3, <2>4, FitRefires
  <2>6. NoneIn(calls', Writes(x, i)) => NoneIn(cs, Writes(x, i))
    <3> DEFINE c == Dispatch(s, Head(Servable(q)), "drain") X == Writes(x, i)
    <3>1. /\ Servable(q) = <<>> => calls' = cs
          /\ Servable(q) # <<>> => c \in Call /\ calls' = Append(cs, c)
      BY <2>1, RefiresSets
    <3> HIDE DEF c, X
    <3>2. CASE Servable(q) = <<>> BY <3>1, <3>2
    <3>3. CASE Servable(q) # <<>>
      <4>1. c \in Call /\ calls' = Append(cs, c) BY <3>1, <3>3
      <4>2. NoneIn(Append(cs, c), X) => NoneIn(cs, X) BY <4>1, AppendOne
      <4> QED BY <4>1, <4>2 DEF X
    <3> QED BY <3>2, <3>3
  <2> QED BY <2>1, <2>2, <2>5, <2>6
<1> QED BY <1>2, <1>3

LEMMA HoldFailedFit ==
  ASSUME Types, NEW s \in Sessions, NEW e \in Entry, NEW cs \in Seq(Call), NEW charge,
         HoldFailed(s, e, cs, charge), ~hold[s].draining => NoDrain(s, cs),
         NEW x \in Sessions, NEW i, NEW landed,
         Fit(x, i, cs, hold[x].queue, landed),
         x = s /\ e.id = i /\ NoneIn(hold[s].queue, Copies(i)) =>
            NoneIn(cs, Writes(s, i)) /\ i \notin landed
  PROVE  /\ Fit(x, i, calls', hold'[x].queue, landed)
         /\ NoneIn(calls', Writes(x, i)) => NoneIn(cs, Writes(x, i))
<1> DEFINE q == hold[s].queue held == {h \in ToSet(q) : h.id = e.id}
<1>1. q \in Seq(Entry) BY DEF Types, PlaneT, Hold
<1>2. CASE held # {} /\ Kick(s, q, cs, charge)
  <2>1. Fit(x, i, cs, IF x = s THEN q ELSE hold[x].queue, landed) OBVIOUS
  <2> HIDE DEF q
  <2> QED BY <1>1, <1>2, <2>1, KickFit
<1>3. CASE held = {} /\ Kick(s, Append(q, e), cs, charge + 1)
  <2> DEFINE r == Append(q, e)
  <2>1. e.id = i => NoneIn(q, Copies(i))
    <3> SUFFICES ASSUME e.id = i, NEW n \in 1..Len(q), q[n] \in Copies(i) PROVE FALSE
      BY DEF NoneIn
    <3>1. q[n] \in ToSet(q) /\ q[n].id = i BY <1>1, ToSetIs DEF Copies
    <3>2. q[n] \in held BY <3>1
    <3> QED BY <1>3, <3>2
  <2>2. r \in Seq(Entry) BY <1>1, ToSetAppend
  <2>3. Fit(x, i, cs, IF x = s THEN r ELSE hold[x].queue, landed)
    <3>1. CASE x = s
      <4>1. e.id = i => NoneIn(q, Copies(i)) /\ NoneIn(cs, Writes(s, i)) /\ i \notin landed
        BY <2>1, <3>1
      <4>2. Fit(s, i, cs, q, landed) BY <3>1
      <4> HIDE DEF q
      <4>3. Fit(s, i, cs, r, landed) BY <1>1, <4>1, <4>2, FitEntry
      <4> QED BY <3>1, <4>3
    <3>2. CASE x # s BY <3>2
    <3> QED BY <3>1, <3>2
  <2>4. Kick(s, r, cs, charge + 1) BY <1>3
  <2> HIDE DEF r
  <2> QED BY <2>2, <2>3, <2>4, KickFit
<1> QED BY <1>2, <1>3 DEF HoldFailed

\* dropInputHolds: what is being written goes on.
LEMMA DropFit ==
  ASSUME Types, Drains, NEW s \in Sessions, DropHold(s, calls, used),
         NEW x \in Sessions, NEW i, NEW landed, Fit(x, i, calls, hold[x].queue, landed)
  PROVE  /\ Fit(x, i, calls', hold'[x].queue, landed)
         /\ NoneIn(calls', Writes(x, i)) => NoneIn(calls, Writes(x, i))
<1>1. /\ calls' \in Seq(Call) /\ Len(calls') = Len(calls)
      /\ hold'[s] = NoHold /\ \A y \in Sessions : y # s => hold'[y] = hold[y]
      /\ \A n \in 1..Len(calls) :
           calls'[n] = IF calls[n].sess = s /\ calls[n].via = "drain"
                       THEN [calls[n] EXCEPT !.via = "dropped"] ELSE calls[n]
  BY DropIs
<1>2. calls \in Seq(Call) BY CallsAre
<1>3. ASSUME NEW n \in 1..Len(calls)
      PROVE  /\ calls'[n] \in Writes(x, i) <=> calls[n] \in Writes(x, i)
             /\ calls'[n].waiting = calls[n].waiting /\ calls'[n].written = calls[n].written
             /\ x # s /\ calls[n] \in Writes(x, i) => calls'[n] = calls[n]
  <2>1. calls[n] \in Call /\ calls'[n] \in Call BY <1>1, <1>2, ElementOfSeq
  <2>2. CASE calls[n].sess = s /\ calls[n].via = "drain"
    <3>1. calls'[n] = [calls[n] EXCEPT !.via = "dropped"] BY <1>1, <2>2
    <3>2. /\ calls'[n].sess = calls[n].sess /\ calls'[n].id = calls[n].id
          /\ calls'[n].waiting = calls[n].waiting /\ calls'[n].written = calls[n].written
      BY <2>1, <3>1 DEF Call
    <3> QED BY <2>1, <2>2, <3>2 DEF Writes
  <2>3. CASE ~(calls[n].sess = s /\ calls[n].via = "drain")
    <3>1. calls'[n] = calls[n] BY <1>1, <2>3
    <3> QED BY <3>1
  <2> QED BY <2>2, <2>3
<1>4. OneIn(calls', Writes(x, i)) BY <1>1, <1>3 DEF OneIn, Fit
<1>5. NoneIn(calls', Writes(x, i)) <=> NoneIn(calls, Writes(x, i)) BY <1>1, <1>3 DEF NoneIn
<1>6. CASE x = s
  <2>1. hold'[x].queue = <<>> BY <1>1, <1>6 DEF NoHold
  <2>2. NoneIn(<<>>, Copies(i)) /\ OneIn(<<>>, Copies(i)) BY DEF NoneIn, OneIn
  <2>3. \A n \in 1..Len(calls') : calls'[n] \in Writes(x, i) =>
            calls'[n].waiting /\ (~calls'[n].written => i \notin landed)
    BY <1>1, <1>3 DEF Fit
  <2> QED BY <1>4, <1>5, <2>1, <2>2, <2>3 DEF Fit
<1>7. CASE x # s
  <2>1. hold'[x] = hold[x] BY <1>1, <1>7
  <2>2. \A n \in 1..Len(calls') : calls'[n] \in Writes(x, i) => calls'[n] = calls[n] /\ calls[n] \in Writes(x, i)
    BY <1>1, <1>3, <1>7
  <2> QED BY <1>1, <1>4, <1>5, <2>1, <2>2 DEF Fit
<1> QED BY <1>6, <1>7

LEMMA RewritesIs ==
  ASSUME Types, NEW s \in Sessions, NEW i
  PROVE  /\ Rewrites(s, i) <=> ~NoneIn(calls, Writes(s, i))
         /\ Joins(s, i) <=> NoneIn(hold[s].queue, Copies(i))
<1>1. hold[s].queue \in Seq(Entry) BY DEF Types, PlaneT, Hold
<1>2. \A n \in 1..Len(calls) : calls[n] \in Writes(s, i) <=> calls[n].sess = s /\ calls[n].id = i
  BY CallsAre DEF Writes
<1>3. DOMAIN calls = 1..Len(calls) BY CallsAre
<1>4. Rewrites(s, i) <=> ~NoneIn(calls, Writes(s, i)) BY <1>2, <1>3 DEF Rewrites, NoneIn
<1> DEFINE q == hold[s].queue
<1>5. \A n \in 1..Len(q) : q[n] \in Copies(i) <=> q[n].id = i
  <2>1. \A n \in 1..Len(q) : q[n] \in Entry BY <1>1, ElementOfSeq
  <2> QED BY <2>1 DEF Copies
<1>6. \A e : e \in ToSet(q) <=> \E n \in 1..Len(q) : q[n] = e
  <2> HIDE DEF q
  <2> QED BY <1>1, ToSetIs DEF q
<1>7. Joins(s, i) <=> NoneIn(q, Copies(i)) BY <1>5, <1>6 DEF Joins, NoneIn
<1> QED BY <1>4, <1>7

\* A frame the window does not know and that is not being written has not landed.
LEMMA FrameC ==
  ASSUME Types, Single, NEW k \in Sockets, inbox[k] # <<>>,
         ~Contains(window[Owner[k]], Frame(k).id),
         Frame(k).id \notin doubted[Owner[k]],
         NoneIn(calls, Writes(Owner[k], Frame(k).id))
  PROVE  Frame(k).id \notin ToSet(pane[Owner[k]])
<1> DEFINE s == Owner[k] i == Frame(k).id
<1>1. s \in Sessions /\ i \in Ids /\ i \in ToSet(inbox[k])
  <2>1. /\ Frame(k) \in Entry /\ Owner[k] \in Sessions
        /\ ToSet(inbox[k]) = {Frame(k).id} \cup ToSet(Tail(inbox[k]))
    BY FrameIs
  <2>2. Frame(k).id \in Ids BY <2>1 DEF Entry
  <2> QED BY <2>1, <2>2
<1>2. window[s] \in Seq(Ids) BY <1>1 DEF Types, PlaneT
<1>3. i \notin ToSet(window[s]) BY <1>2, ToSetIs DEF Contains
<1>4. Asked(s, i) BY <1>1 DEF Asked
<1>5. Known(s, i) BY <1>1 DEF Single, Sound
<1> QED BY <1>3, <1>4, <1>5 DEF Known

LEMMA JoinHoldC ==
  ASSUME Types, Drains, Belongs, Single, NEW k \in Sockets, JoinHold(k)
  PROVE  Single'
<1> DEFINE s == Owner[k] e == Frame(k)
<1>1. /\ Takes(k) /\ inbox[k] # <<>> /\ ~Contains(window[s], e.id)
      /\ UNCHANGED <<pending, window, pane>>
      /\ \/ /\ HoldFailed(s, e, calls, used)
            /\ doubted' = IF Joins(s, e.id) /\ Rewrites(s, e.id)
                          THEN [doubted EXCEPT ![s] = @ \cup {e.id}] ELSE doubted
         \/ DropHold(s, calls, used) /\ UNCHANGED doubted
  BY DEF JoinHold, Takes, HoldOverflows, client
<1>2. s \in Sessions /\ e \in Entry BY <1>1, FrameIs
<1>3. doubted \in [Sessions -> SUBSET Ids] /\ calls \in Seq(Call) BY DEF Types, HistoryT, NodeT
<1>4. \A x \in Sessions : \A i : Asked(x, i)' => Asked(x, i) BY <1>1, TakenC
<1> HIDE DEF s, e
<1> SUFFICES ASSUME NEW x \in Sessions, NEW i \in Ids, i \notin doubted'[x] PROVE Sound(x, i)'
  BY DEF Single
<1>5. i \notin doubted[x] /\ Sound(x, i)
  <2>1. doubted[x] \subseteq doubted'[x] BY <1>1, <1>2, <1>3
  <2> QED BY <2>1 DEF Single
<1>6. Fit(x, i, calls, hold[x].queue, ToSet(pane[x])) BY <1>5 DEF Sound
<1>7. Fit(x, i, calls', hold'[x].queue, ToSet(pane[x]))
      /\ (NoneIn(calls', Writes(x, i)) => NoneIn(calls, Writes(x, i)))
  <2>1. CASE HoldFailed(s, e, calls, used)
             /\ doubted' = (IF Joins(s, e.id) /\ Rewrites(s, e.id)
                            THEN [doubted EXCEPT ![s] = @ \cup {e.id}] ELSE doubted)
    <3>1. ~hold[s].draining => NoDrain(s, calls) BY <1>2 DEF Drains, DrainOf
    <3>2. ASSUME x = s, e.id = i, NoneIn(hold[s].queue, Copies(i))
          PROVE  NoneIn(calls, Writes(s, i)) /\ i \notin ToSet(pane[x])
      <4>1. Joins(s, e.id) BY <1>2, <3>2, RewritesIs
      <4>2. ~Rewrites(s, e.id) BY <1>2, <1>3, <2>1, <3>2, <4>1
      <4>3. NoneIn(calls, Writes(s, i)) BY <1>2, <3>2, <4>2, RewritesIs
      <4> QED BY <1>1, <1>5, <3>2, <4>3, FrameC DEF s, e
    <3> QED BY <1>2, <1>3, <1>6, <2>1, <3>1, <3>2, HoldFailedFit
  <2>2. CASE DropHold(s, calls, used) BY <1>2, <1>6, <2>2, DropFit
  <2> QED BY <1>1, <2>1, <2>2
<1> QED BY <1>1, <1>4, <1>5, <1>7, SoundBy

LEMMA PlaneSeesCloseC ==
  ASSUME Types, Drains, Belongs, Single, NEW k \in Sockets, PlaneSeesClose(k)
  PROVE  Single'
<1> DEFINE s == Owner[k]
<1>1. /\ inbox' = [inbox EXCEPT ![k] = <<>>]
      /\ DropHold(s, calls, used)
      /\ UNCHANGED <<pending, window, pane, doubted>>
  BY DEF PlaneSeesClose, client
<1>2. s \in Sessions BY OwnerAssumption
<1> HIDE DEF s
<1>3. \A y \in Sockets : \A i : i \in ToSet(inbox'[y]) => i \in ToSet(inbox[y])
  <2> SUFFICES ASSUME NEW y \in Sockets, NEW i, i \in ToSet(inbox'[y]) PROVE i \in ToSet(inbox[y])
    OBVIOUS
  <2>1. inbox \in [Sockets -> Seq(Ids)] BY DEF Types, WireT
  <2>2. CASE y = k
    <3>1. inbox'[y] = <<>> BY <1>1, <2>1, <2>2
    <3>2. DOMAIN <<>> = {} OBVIOUS
    <3>3. i \notin ToSet(<<>>) BY <3>2 DEF ToSet
    <3> QED BY <3>1, <3>3
  <2>3. CASE y # k
    <3>1. inbox'[y] = inbox[y] BY <1>1, <2>1, <2>3
    <3> QED BY <3>1
  <2> QED BY <2>2, <2>3
<1> SUFFICES ASSUME NEW x \in Sessions, NEW i \in Ids, i \notin doubted[x] PROVE Sound(x, i)'
  BY <1>1 DEF Single
<1>4. Sound(x, i) BY DEF Single
<1>5. Asked(x, i)' => Asked(x, i) BY <1>1, <1>3, NotAskedAgain
<1>6. Fit(x, i, calls', hold'[x].queue, ToSet(pane[x]))
      /\ (NoneIn(calls', Writes(x, i)) => NoneIn(calls, Writes(x, i)))
  BY <1>1, <1>2, <1>4, DropFit DEF Sound
<1> QED BY <1>1, <1>4, <1>5, <1>6, SoundBy

LEMMA WriteFrameC ==
  ASSUME Types, Drains, Belongs, Single, NEW k \in Sockets, WriteFrame(k) \/ WriteReclaiming(k)
  PROVE  Single'
<1> DEFINE s == Owner[k] e == Frame(k) c == Dispatch(s, e, "fresh")
<1>1. /\ Takes(k) /\ inbox[k] # <<>> /\ ~Contains(window[s], e.id) /\ hold[s].queue = <<>>
      /\ calls' = Append(calls, c)
      /\ doubted' = IF Rewrites(s, e.id) THEN [doubted EXCEPT ![s] = @ \cup {e.id}] ELSE doubted
      /\ UNCHANGED <<pending, window, pane>>
      /\ \/ UNCHANGED hold
         \/ \E r \in Sessions :
              /\ Idle(r) # {}
              /\ hold' = [hold EXCEPT ![r].queue = RemoveAt(hold[r].queue, Min(Idle(r)))]
  BY DEF WriteFrame, WriteReclaiming, Fresh, Write, Takes, client
<1>2. s \in Sessions /\ e \in Entry BY <1>1, FrameIs
<1>3. c \in Call /\ c.sess = s /\ c.id = e.id /\ c.via = "fresh" /\ c.waiting
  BY <1>2, DispatchIs
<1>4. \A x \in Sessions : \A i : Asked(x, i)' => Asked(x, i) BY <1>1, TakenC
<1>5. doubted \in [Sessions -> SUBSET Ids] /\ calls \in Seq(Call) BY DEF Types, HistoryT, NodeT
<1> HIDE DEF c, e, s
<1>6. ASSUME NEW x \in Sessions, NEW X
      PROVE  /\ OneIn(hold[x].queue, X) => OneIn(hold'[x].queue, X)
             /\ NoneIn(hold[x].queue, X) => NoneIn(hold'[x].queue, X)
  <2>1. CASE UNCHANGED hold BY <2>1
  <2>2. CASE \E r \in Sessions :
              /\ Idle(r) # {}
              /\ hold' = [hold EXCEPT ![r].queue = RemoveAt(hold[r].queue, Min(Idle(r)))]
    <3>1. PICK r \in Sessions :
              /\ Idle(r) # {}
              /\ hold' = [hold EXCEPT ![r].queue = RemoveAt(hold[r].queue, Min(Idle(r)))]
      BY <2>2
    <3> DEFINE q == hold[r].queue m == Min(Idle(r)) t == RemoveAt(q, m)
    <3>2. q \in Seq(Entry) /\ m \in 1..Len(q) BY <3>1, IdleIs
    <3>3. hold \in [Sessions -> Hold] BY DEF Types, PlaneT
    <3>4. hold' = [hold EXCEPT ![r].queue = t] BY <3>1
    <3> HIDE DEF m, q
    <3>5. (OneIn(q, X) => OneIn(t, X)) /\ (NoneIn(q, X) => NoneIn(t, X)) BY <3>2, RemoveOne
    <3> HIDE DEF t
    <3>6. hold'[r].queue = t /\ \A y \in Sessions : y # r => hold'[y] = hold[y] BY <3>3, <3>4 DEF Hold
    <3>7. CASE x = r BY <3>5, <3>6, <3>7 DEF q
    <3>8. CASE x # r
      <4>1. hold'[x] = hold[x] BY <3>6, <3>8
      <4> QED BY <4>1
    <3> QED BY <3>7, <3>8
  <2> QED BY <1>1, <2>1, <2>2
<1> SUFFICES ASSUME NEW x \in Sessions, NEW i \in Ids, i \notin doubted'[x] PROVE Sound(x, i)'
  BY DEF Single
<1>7. i \notin doubted[x] /\ Sound(x, i)
  <2>1. doubted[x] \subseteq doubted'[x] BY <1>1, <1>2, <1>5
  <2> QED BY <2>1 DEF Single
<1>8. Fit(x, i, calls, hold'[x].queue, ToSet(pane[x]))
  <2>1. /\ OneIn(hold[x].queue, Copies(i)) => OneIn(hold'[x].queue, Copies(i))
        /\ NoneIn(hold[x].queue, Copies(i)) => NoneIn(hold'[x].queue, Copies(i))
    BY <1>6
  <2>2. Fit(x, i, calls, hold[x].queue, ToSet(pane[x])) BY <1>7 DEF Sound
  <2> QED BY <2>1, <2>2, FitFewer
<1>9. ASSUME c \in Writes(x, i)
      PROVE  NoneIn(calls, Writes(x, i)) /\ i \notin ToSet(pane[x]) /\ NoneIn(hold'[x].queue, Copies(i))
  <2>1. x = s /\ i = e.id BY <1>3, <1>9 DEF Writes
  <2>2. ~Rewrites(s, e.id) BY <1>1, <1>2, <1>5, <2>1
  <2>3. NoneIn(calls, Writes(s, i)) BY <1>2, <2>1, <2>2, RewritesIs
  <2>4. i \notin ToSet(pane[s]) BY <1>1, <1>7, <2>1, <2>3, FrameC DEF s, e
  <2>5. NoneIn(hold[s].queue, Copies(i))
    <3>1. Len(<<>>) = 0 OBVIOUS
    <3> QED BY <1>1, <3>1 DEF NoneIn
  <2>6. NoneIn(hold'[s].queue, Copies(i)) BY <1>2, <1>6, <2>5
  <2> QED BY <2>1, <2>3, <2>4, <2>6
<1>10. Fit(x, i, Append(calls, c), hold'[x].queue, ToSet(pane[x]))
  BY <1>3, <1>5, <1>8, <1>9, FitAppend
<1>11. NoneIn(Append(calls, c), Writes(x, i)) => NoneIn(calls, Writes(x, i)) BY <1>3, <1>5, AppendOne
<1> QED BY <1>1, <1>4, <1>7, <1>10, <1>11, SoundBy

LEMMA FitSame ==
  ASSUME NEW s, NEW i, NEW cs, NEW q, NEW landed, NEW more, Fit(s, i, cs, q, landed),
         i \in landed <=> i \in more
  PROVE  Fit(s, i, cs, q, more)
BY DEF Fit

\* A write of another id is marked.
LEMMA FitMarked ==
  ASSUME NEW s, NEW i, NEW cs, NEW r, NEW q, NEW landed, NEW j, Fit(s, i, cs, q, landed),
         Len(r) = Len(cs), \A n \in 1..Len(cs) : n # j => r[n] = cs[n],
         cs[j] \notin Writes(s, i), r[j] \notin Writes(s, i)
  PROVE  /\ Fit(s, i, r, q, landed)
         /\ NoneIn(r, Writes(s, i)) <=> NoneIn(cs, Writes(s, i))
<1> DEFINE X == Writes(s, i)
<1>1. \A n \in 1..Len(cs) : r[n] \in X => n # j /\ r[n] = cs[n] OBVIOUS
<1>2. \A n \in 1..Len(cs) : cs[n] \in X => n # j /\ r[n] = cs[n] OBVIOUS
<1> HIDE DEF X
<1>3. OneIn(r, X) BY <1>1 DEF OneIn, Fit, X
<1>4. NoneIn(r, X) <=> NoneIn(cs, X) BY <1>1, <1>2 DEF NoneIn
<1>5. \A n \in 1..Len(r) : r[n] \in X =>
        /\ r[n].waiting
        /\ r[n].via # "drain" => NoneIn(q, Copies(i))
        /\ ~r[n].written => i \notin landed
  BY <1>1 DEF Fit, X
<1> QED BY <1>3, <1>4, <1>5 DEF Fit, X

LEMMA NodeWritesC ==
  ASSUME Types, Belongs, Single, NodeWrites
  PROVE  Single'
<1>1. PICK j \in 1..Len(calls) :
        /\ ~calls[j].written
        /\ pane' = [pane EXCEPT ![calls[j].sess] = Append(@, calls[j].id)]
        /\ calls' = IF calls[j].waiting THEN [calls EXCEPT ![j].written = TRUE] ELSE RemoveAt(calls, j)
        /\ UNCHANGED <<pending, inbox, window, hold, doubted>>
  BY CallsAre DEF NodeWrites, client, wire, plane, history
<1> DEFINE c == calls[j] s == c.sess
<1>2. c \in Call /\ calls \in Seq(Call) BY CallsAre
<1>3. s \in Sessions /\ c.id \in Ids BY <1>2 DEF Call
<1>4. pane \in [Sessions -> Seq(Ids)] BY DEF Types, NodeT
<1> DEFINE d == [calls[j] EXCEPT !.written = TRUE] marked == [calls EXCEPT ![j].written = TRUE]
<1>5. /\ Len(marked) = Len(calls) /\ marked[j] = d
      /\ \A n \in 1..Len(calls) : n # j => marked[n] = calls[n]
  BY MarkIs
<1>6. /\ d.sess = s /\ d.id = c.id /\ d.waiting = c.waiting /\ d.via = c.via /\ d.written /\ d \in Call
  BY <1>2 DEF Call
<1> HIDE DEF d, marked
<1> SUFFICES ASSUME NEW x \in Sessions, NEW i \in Ids, i \notin doubted[x] PROVE Sound(x, i)'
  BY <1>1 DEF Single
<1> DEFINE X == Writes(x, i) q == hold[x].queue L == ToSet(pane[x])
<1>7. Sound(x, i) /\ Fit(x, i, calls, q, L) /\ OneIn(pane[x], {i}) BY DEF Single, Sound
<1>8. Asked(x, i)' => Asked(x, i) BY <1>1 DEF Asked
<1>9. pane[x] \in Seq(Ids) BY <1>4
<1>10. (c \in X <=> x = s /\ i = c.id) /\ (d \in X <=> c \in X) BY <1>2, <1>6 DEF Writes
<1>11. CASE c \in X
  <2>1. x = s /\ i = c.id BY <1>10, <1>11
  <2>2. pane'[x] = Append(pane[x], i) BY <1>1, <1>3, <1>4, <2>1
  <2>3. c.waiting /\ i \notin L BY <1>1, <1>7, <1>11 DEF Fit
  <2>4. calls' = marked BY <1>1, <2>3 DEF marked
  <2>5. NoneIn(pane[x], {i})
    <3>1. \A n \in 1..Len(pane[x]) : pane[x][n] \in L BY <1>9, ToSetIs
    <3> QED BY <2>3, <3>1 DEF NoneIn
  <2>6. OneIn(pane'[x], {i}) BY <1>9, <2>2, <2>5, AppendOne DEF OneIn, NoneIn
  <2>7. \A n \in 1..Len(calls) : calls[n] \in X => n = j BY <1>7, <1>11 DEF Fit, OneIn
  <2>8. \A n \in 1..Len(calls') : calls'[n] \in X => n = j
    BY <1>5, <2>4, <2>7
  <2>9. calls'[j] = d /\ j \in 1..Len(calls') BY <1>5, <2>4
  <2>10. OneIn(calls', X) /\ ~NoneIn(calls', X)
    <3>1. d \in X BY <1>10, <1>11
    <3> HIDE DEF X
    <3> QED BY <2>8, <2>9, <3>1 DEF OneIn, NoneIn
  <2>11. c.via # "drain" => NoneIn(q, Copies(i)) BY <1>7, <1>11 DEF Fit
  <2>12. OneIn(q, Copies(i)) BY <1>7 DEF Fit
  <2>13. \A n \in 1..Len(calls') : calls'[n] \in X =>
           /\ calls'[n].waiting
           /\ calls'[n].via # "drain" => NoneIn(q, Copies(i))
           /\ calls'[n].written
    BY <1>6, <2>3, <2>8, <2>9, <2>11
  <2>14. Fit(x, i, calls', q, ToSet(pane'[x])) BY <2>10, <2>12, <2>13 DEF Fit
  <2> QED BY <1>1, <2>6, <2>10, <2>14 DEF Sound, Known
<1>12. CASE c \notin X
  <2>1. OneIn(pane'[x], {i}) /\ (i \in ToSet(pane'[x]) <=> i \in L)
    <3>1. CASE x = s
      <4>1. pane'[x] = Append(pane[x], c.id) /\ c.id # i BY <1>1, <1>3, <1>4, <1>10, <1>12, <3>1
      <4>2. OneIn(pane'[x], {i}) BY <1>3, <1>7, <1>9, <4>1, AppendOne
      <4>3. ToSet(Append(pane[x], c.id)) = L \cup {c.id} BY <1>3, <1>9, ToSetAppend
      <4> QED BY <4>1, <4>2, <4>3
    <3>2. CASE x # s
      <4>1. pane'[x] = pane[x] BY <1>1, <1>4, <3>2
      <4> QED BY <1>7, <4>1
    <3> QED BY <3>1, <3>2
  <2>2. Fit(x, i, calls', q, L) /\ (NoneIn(calls', X) => NoneIn(calls, X))
    <3>1. CASE c.waiting
      <4>1. calls' = marked BY <1>1, <3>1 DEF marked
      <4>2. d \notin X BY <1>10, <1>12
      <4> HIDE DEF q, L
      <4> QED BY <1>5, <1>7, <1>12, <4>1, <4>2, FitMarked
    <3>2. CASE ~c.waiting
      <4>1. calls' = RemoveAt(calls, j) BY <1>1, <3>2
      <4>2. Fit(x, i, RemoveAt(calls, j), q, L)
        <5> HIDE DEF q, L
        <5> QED BY <1>2, <1>7, <1>12, FitRemove
      <4>3. NoneIn(RemoveAt(calls, j), X) => NoneIn(calls, X)
        <5> HIDE DEF X
        <5> QED BY <1>2, <1>12, RemoveOne
      <4> QED BY <4>1, <4>2, <4>3
    <3> QED BY <3>1, <3>2
  <2>3. Fit(x, i, calls', q, ToSet(pane'[x]))
    <3> HIDE DEF q
    <3> QED BY <2>1, <2>2, FitSame
  <2> QED BY <1>1, <1>7, <1>8, <2>1, <2>2, <2>3 DEF Sound, Known
<1> QED BY <1>11, <1>12

LEMMA ChainIsLostC ==
  ASSUME Types, Belongs, Single, ChainIsLost
  PROVE  Single'
<1>1. PICK f \in [1..Len(calls') -> 1..Len(calls)] :
        /\ calls' \in Seq(Call) /\ Len(calls') \in Nat
        /\ \A n \in 1..Len(calls') : calls'[n] = calls[f[n]] /\ calls[f[n]].waiting
        /\ \A m, n \in 1..Len(calls') : m < n => f[m] < f[n]
        /\ \A i \in 1..Len(calls) : calls[i].waiting => \E n \in 1..Len(calls') : f[n] = i
  BY ChainIsLostIs
<1>2. UNCHANGED <<pending, inbox, window, hold, pane, doubted>>
  BY DEF ChainIsLost, client, wire, plane, history
<1>3. Len(calls) \in Nat BY CallsAre
<1>4. \A m, n \in 1..Len(calls') : f[m] = f[n] => m = n
  <2> SUFFICES ASSUME NEW m \in 1..Len(calls'), NEW n \in 1..Len(calls'), f[m] = f[n] PROVE m = n OBVIOUS
  <2>1. f[m] \in Nat /\ f[n] \in Nat BY <1>1, <1>3
  <2>2. ~(f[m] < f[n]) /\ ~(f[n] < f[m]) BY <2>1
  <2>3. ~(m < n) /\ ~(n < m) BY <1>1, <2>2
  <2> QED BY <1>1, <2>3
<1> SUFFICES ASSUME NEW x \in Sessions, NEW i \in Ids, i \notin doubted[x] PROVE Sound(x, i)'
  BY <1>2 DEF Single
<1> DEFINE X == Writes(x, i) q == hold[x].queue L == ToSet(pane[x])
<1>5. Sound(x, i) /\ Fit(x, i, calls, q, L) BY DEF Single, Sound
<1>6. Asked(x, i)' => Asked(x, i) BY <1>2 DEF Asked
<1>7. \A n \in 1..Len(calls') : calls'[n] = calls[f[n]] BY <1>1
<1>8. OneIn(calls, X) => OneIn(calls', X)
  <2> HIDE DEF X
  <2> QED BY <1>1, <1>3, <1>4, <1>7, PartOne
<1>9. NoneIn(calls', X) => NoneIn(calls, X)
  <2> SUFFICES ASSUME NoneIn(calls', X), NEW m \in 1..Len(calls), calls[m] \in X PROVE FALSE
    BY DEF NoneIn
  <2>1. calls[m].waiting BY <1>5 DEF Fit
  <2>2. PICK n \in 1..Len(calls') : f[n] = m BY <1>1, <2>1
  <2>3. calls'[n] \in X BY <1>7, <2>2
  <2> HIDE DEF X
  <2> QED BY <2>3 DEF NoneIn
<1>10. \A n \in 1..Len(calls') : calls'[n] \in X =>
         /\ calls'[n].waiting
         /\ calls'[n].via # "drain" => NoneIn(q, Copies(i))
         /\ ~calls'[n].written => i \notin L
  <2> HIDE DEF q, L
  <2> QED BY <1>1, <1>5, <1>7 DEF Fit
<1>11. Fit(x, i, calls', q, L)
  <2> HIDE DEF q, L
  <2> QED BY <1>5, <1>8, <1>9, <1>10 DEF Fit
<1> QED BY <1>2, <1>5, <1>6, <1>9, <1>11, SoundBy

\* The node is back: nothing is being written, and each hold writes its first.
LEMMA NodeReadyC ==
  ASSUME Types, Belongs, Single, NodeReady
  PROVE  Single'
<1>1. PICK R \in Seq(Call) : \E order \in [1..Len(R) -> Refired] :
        /\ calls' = calls \o R /\ Len(R) \in Nat /\ Len(R) = Cardinality(Refired)
        /\ \A n \in 1..Len(R) : R[n] = Again(order[n])
        /\ \A m, n \in 1..Len(R) : order[m] = order[n] => m = n
        /\ \A s \in Refired : \E n \in 1..Len(R) : order[n] = s
  BY NodeReadyIs
<1>2. PICK order \in [1..Len(R) -> Refired] :
        /\ calls' = calls \o R /\ Len(R) \in Nat
        /\ \A n \in 1..Len(R) : R[n] = Again(order[n])
        /\ \A m, n \in 1..Len(R) : order[m] = order[n] => m = n
  BY <1>1
<1>3. calls \in Seq(Call) /\ Len(calls) \in Nat /\ DOMAIN calls = 1..Len(calls) BY CallsAre
<1>4. /\ \A n \in 1..Len(calls) : ~calls[n].waiting
      /\ UNCHANGED <<pending, inbox, window, pane, doubted>>
  BY <1>3 DEF NodeReady, client, wire, history
<1>5. \A s \in Sessions : hold'[s].queue = Servable(hold[s].queue) BY NodeReadySets
<1>6. \A m \in 1..Len(calls') : \/ m \in 1..Len(calls) /\ calls'[m] = calls[m]
                                \/ \E n \in 1..Len(R) : m = Len(calls) + n /\ calls'[m] = R[n]
  <2> SUFFICES ASSUME NEW m \in 1..Len(calls')
               PROVE  \/ m \in 1..Len(calls) /\ calls'[m] = calls[m]
                      \/ \E n \in 1..Len(R) : m = Len(calls) + n /\ calls'[m] = R[n]
    OBVIOUS
  <2>1. /\ Len(calls') = Len(calls) + Len(R)
        /\ calls'[m] = IF m <= Len(calls) THEN calls[m] ELSE R[m - Len(calls)]
    BY <1>1, <1>3, ConcatProperties
  <2>2. CASE m <= Len(calls) BY <1>3, <2>1, <2>2
  <2>3. CASE ~(m <= Len(calls))
    <3>1. m - Len(calls) \in 1..Len(R) /\ m = Len(calls) + (m - Len(calls)) BY <1>1, <1>3, <2>1, <2>3
    <3> QED BY <2>1, <2>3, <3>1
  <2> QED BY <2>2, <2>3
<1>7. \A m \in 1..Len(calls) : m \in 1..Len(calls') /\ calls'[m] = calls[m]
  <2> TAKE m \in 1..Len(calls)
  <2>1. /\ Len(calls') = Len(calls) + Len(R)
        /\ (\A i \in 1..(Len(calls) + Len(R)) :
               calls'[i] = IF i <= Len(calls) THEN calls[i] ELSE R[i - Len(calls)])
    BY <1>1, <1>3, ConcatProperties
  <2>2. m \in 1..(Len(calls) + Len(R)) /\ m <= Len(calls) BY <1>1, <1>3
  <2> QED BY <2>1, <2>2
<1> SUFFICES ASSUME NEW x \in Sessions, NEW i \in Ids, i \notin doubted[x] PROVE Sound(x, i)'
  BY <1>4 DEF Single
<1> DEFINE X == Writes(x, i) q == hold[x].queue L == ToSet(pane[x])
<1>8. Sound(x, i) /\ Fit(x, i, calls, q, L) BY DEF Single, Sound
<1>9. Asked(x, i)' => Asked(x, i) BY <1>4 DEF Asked
<1>10. \A n \in 1..Len(calls) : calls[n] \notin X BY <1>4, <1>8 DEF Fit
<1>11. NoneIn(calls, X) BY <1>10 DEF NoneIn
<1>12. q \in Seq(Entry) BY DEF Types, PlaneT, Hold
<1>13. ASSUME NEW n \in 1..Len(R), R[n] \in X
       PROVE  order[n] = x /\ R[n].waiting /\ R[n].via = "drain" /\ i \notin L
  <2>1. order[n] \in Sessions /\ Servable(hold[order[n]].queue) # <<>> BY <1>2 DEF Refired
  <2>2. hold[order[n]].queue \in Seq(Entry) BY <2>1 DEF Types, PlaneT, Hold
  <2> DEFINE o == order[n] e == Head(Servable(hold[o].queue))
  <2>3. e \in ToSet(hold[o].queue) /\ e \in Entry BY <2>1, <2>2, ServableSets, ToSetIs
  <2>4. R[n] = Dispatch(o, e, "drain") BY <1>2 DEF Again
  <2> HIDE DEF o, e
  <2>5. R[n].sess = o /\ R[n].id = e.id /\ R[n].via = "drain" /\ R[n].waiting
    BY <2>1, <2>3, <2>4, DispatchIs DEF o
  <2>6. o = x /\ e.id = i BY <1>13, <2>5 DEF Writes
  <2>7. PICK m \in 1..Len(q) : q[m] = e BY <1>12, <2>3, <2>6, ToSetIs
  <2>8. q[m] \in Copies(i) BY <2>3, <2>6, <2>7 DEF Copies
  <2>9. ~NoneIn(q, Copies(i)) BY <2>8 DEF NoneIn
  <2>10. i \notin L BY <1>8, <1>11, <2>9 DEF Fit
  <2> QED BY <2>5, <2>6, <2>10 DEF o
<1>14. OneIn(calls', X)
  <2> SUFFICES ASSUME NEW m \in 1..Len(calls'), NEW n \in 1..Len(calls'), calls'[m] \in X, calls'[n] \in X
               PROVE  m = n
    BY DEF OneIn
  <2> HIDE DEF X, L
  <2>1. PICK a \in 1..Len(R) : m = Len(calls) + a /\ calls'[m] = R[a] BY <1>6, <1>10
  <2>2. PICK b \in 1..Len(R) : n = Len(calls) + b /\ calls'[n] = R[b] BY <1>6, <1>10
  <2>3. order[a] = x /\ order[b] = x BY <1>13, <2>1, <2>2
  <2>4. a = b BY <1>2, <2>3
  <2> QED BY <2>1, <2>2, <2>4
<1>15. OneIn(Servable(q), Copies(i)) /\ (i \in L => NoneIn(Servable(q), Copies(i)))
  <2>1. OneIn(q, Copies(i)) /\ (i \in L => NoneIn(q, Copies(i)))
    <3> HIDE DEF q, L
    <3> QED BY <1>8, <1>11 DEF Fit
  <2> HIDE DEF q, L
  <2> QED BY <1>12, <2>1, SuffixOne
<1>16. \A m \in 1..Len(calls') : calls'[m] \in X =>
         calls'[m].waiting /\ calls'[m].via = "drain" /\ i \notin L
  <2> HIDE DEF X, L
  <2> QED BY <1>6, <1>10, <1>13
<1>17. Fit(x, i, calls', Servable(q), L)
  <2> HIDE DEF q, L
  <2> QED BY <1>14, <1>15, <1>16 DEF Fit
<1> QED BY <1>4, <1>5, <1>8, <1>9, <1>11, <1>17, SoundBy

LEMMA RefiresNone ==
  ASSUME NEW s \in Sessions, NEW q \in Seq(Entry), NEW cs \in Seq(Call), NEW X, NoneIn(cs \o Refires(s, q), X)
  PROVE  NoneIn(cs, X)
<1> DEFINE c == Dispatch(s, Head(Servable(q)), "drain")
<1>1. /\ Servable(q) = <<>> => cs \o Refires(s, q) = cs
      /\ Servable(q) # <<>> => c \in Call /\ cs \o Refires(s, q) = Append(cs, c)
  BY RefiresSets
<1> HIDE DEF c
<1>2. CASE Servable(q) = <<>> BY <1>1, <1>2
<1>3. CASE Servable(q) # <<>>
  <2>1. c \in Call /\ cs \o Refires(s, q) = Append(cs, c) BY <1>1, <1>3
  <2> QED BY <2>1, AppendOne
<1> QED BY <1>2, <1>3

LEMMA ResolvedC ==
  ASSUME Types, Drains, Belongs, Single, NEW j \in 1..Len(calls), Resolved(j)
  PROVE  Single'
<1> DEFINE c == calls[j] s == c.sess q == hold[s].queue rest == RemoveAt(calls, j)
<1>1. /\ c.waiting /\ c.written
      /\ window' = [window EXCEPT ![s] = Remember(@, c.id)]
      /\ doubted' = [doubted EXCEPT ![s] = @ \cup (Forgets(window[s], c.id) \cap Outstanding(s))]
      /\ Ack(s, c.sock, c.id, inbox)
      /\ IF c.via = "drain"
         THEN hold' = [hold EXCEPT ![s] = Draining(s, Tail(q))] /\ calls' = rest \o Refires(s, Tail(q))
         ELSE hold' = hold /\ calls' = rest
      /\ UNCHANGED pane
  BY DEF Resolved, NextToSettle
<1>2. c \in Call /\ calls \in Seq(Call) BY CallsAre
<1>3. s \in Sessions /\ c.id \in Ids /\ c.sock \in Sockets BY <1>2 DEF Call
<1>4. rest \in Seq(Call) /\ q \in Seq(Entry) /\ hold \in [Sessions -> Hold]
  BY <1>2, <1>3, RemoveAtIs DEF Types, PlaneT, Hold
<1>5. /\ window \in [Sessions -> Seq(Ids)] /\ doubted \in [Sessions -> SUBSET Ids]
      /\ inbox \in [Sockets -> Seq(Ids)] /\ Len(window[s]) <= Window
  BY <1>3 DEF Types, PlaneT, HistoryT, WireT
<1>6. c.id \in ToSet(Remember(window[s], c.id)) BY <1>3, <1>5, RememberIs
<1>7. \A x \in Sessions : \A i : Asked(x, i)' => Asked(x, i)
  <2>1. c \in ToSet(calls) BY <1>2, ToSetIs
  <2>2. Owner[c.sock] = s BY <2>1 DEF Belongs, CallsOk, CallOk
  <2>3. Ack(Owner[c.sock], c.sock, c.id, inbox) BY <1>1, <2>2
  <2> HIDE DEF s, c
  <2> QED BY <1>3, <1>5, <2>3, AckC
<1>8. c.via = "drain" => q # <<>> /\ Head(q).id = c.id /\ NoDrain(s, rest)
  <2> SUFFICES ASSUME c.via = "drain" PROVE q # <<>> /\ Head(q).id = c.id /\ NoDrain(s, rest)
    OBVIOUS
  <2>1. IsDrain(calls[j], s) BY <1>1 DEF IsDrain
  <2> QED BY <1>3, <2>1, Ends
<1>9. hold'[s].queue = (IF c.via = "drain" THEN Servable(Tail(q)) ELSE q)
      /\ \A x \in Sessions : x # s => hold'[x] = hold[x]
  BY <1>1, <1>3, <1>4 DEF Draining
<1> SUFFICES ASSUME NEW x \in Sessions, NEW i \in Ids, i \notin doubted'[x] PROVE Sound(x, i)'
  BY DEF Single
<1> DEFINE X == Writes(x, i) L == ToSet(pane[x])
           mine == IF x = s /\ c.via = "drain" THEN Tail(q) ELSE hold[x].queue
<1>10. i \notin doubted[x]
  <2>1. doubted[x] \subseteq doubted'[x] BY <1>1, <1>3, <1>5
  <2> QED BY <2>1
<1>11. Sound(x, i) /\ Fit(x, i, calls, hold[x].queue, L) BY <1>10 DEF Single, Sound
<1>12. mine \in Seq(Entry) BY <1>4, <1>8, ToSetTail DEF Types, PlaneT, Hold
<1>13. c \in X <=> x = s /\ i = c.id BY <1>2 DEF Writes
<1>14. /\ OneIn(hold[x].queue, Copies(i)) => OneIn(mine, Copies(i))
       /\ NoneIn(hold[x].queue, Copies(i)) => NoneIn(mine, Copies(i))
  <2>1. CASE x = s /\ c.via = "drain"
    <3>1. q # <<>> /\ mine = Tail(q) /\ q = hold[x].queue BY <1>8, <2>1
    <3> HIDE DEF q, mine
    <3> QED BY <1>4, <3>1, SuffixOne
  <2>2. CASE ~(x = s /\ c.via = "drain")
    <3>1. mine = hold[x].queue BY <2>2
    <3> QED BY <3>1
  <2> QED BY <2>1, <2>2
<1>15. Fit(x, i, rest, mine, L) /\ (c \notin X /\ NoneIn(rest, X) => NoneIn(calls, X))
  <2>1. Fit(x, i, calls, mine, L)
    <3> HIDE DEF mine, L
    <3> QED BY <1>11, <1>14, FitFewer
  <2>2. c \notin X /\ NoneIn(rest, X) => NoneIn(calls, X)
    <3> HIDE DEF X
    <3> QED BY <1>2, RemoveOne
  <2>3. CASE c \notin X
    <3> HIDE DEF mine, L
    <3>1. Fit(x, i, RemoveAt(calls, j), mine, L) BY <1>2, <2>1, <2>3, FitRemove
    <3> QED BY <2>2, <3>1
  <2>4. CASE c \in X
    <3>1. NoneIn(rest, X) /\ OneIn(rest, X)
      <4>1. OneIn(calls, X) BY <1>11 DEF Fit
      <4> HIDE DEF X
      <4> QED BY <1>2, <2>4, <4>1, RemoveOne
    <3>2. NoneIn(mine, Copies(i))
      <4>1. CASE c.via = "drain"
        <5>1. mine = Tail(q) /\ q # <<>> /\ Head(q).id = i /\ q = hold[x].queue BY <1>8, <1>13, <2>4, <4>1
        <5>2. Head(q) \in Copies(i)
          <6>1. Head(q) \in Entry
            <7> HIDE DEF q
            <7> QED BY <1>4, <5>1, ToSetTail
          <6> QED BY <5>1, <6>1 DEF Copies
        <5>3. OneIn(q, Copies(i)) BY <1>11, <5>1 DEF Fit
        <5> HIDE DEF q, mine
        <5> QED BY <1>4, <5>1, <5>2, <5>3, SuffixOne
      <4>2. CASE c.via # "drain"
        <5>1. NoneIn(hold[x].queue, Copies(i)) BY <1>11, <2>4, <4>2 DEF Fit
        <5>2. mine = hold[x].queue BY <4>2
        <5> QED BY <5>1, <5>2
      <4> QED BY <4>1, <4>2
    <3>3. OneIn(mine, Copies(i)) BY <1>11, <1>14 DEF Fit
    <3>4. \A n \in 1..Len(rest) : rest[n] \notin X BY <3>1 DEF NoneIn
    <3> HIDE DEF mine, L
    <3> QED BY <2>4, <3>1, <3>2, <3>3, <3>4 DEF Fit
  <2> QED BY <2>3, <2>4
<1>16. Fit(x, i, calls', hold'[x].queue, L) /\ (NoneIn(calls', X) => NoneIn(rest, X))
  <2>1. CASE c.via = "drain"
    <3> DEFINE t == Tail(q)
    <3>1. t \in Seq(Entry) /\ calls' = rest \o Refires(s, t) /\ NoDrain(s, rest) /\ (x = s => mine = t)
      BY <1>1, <1>4, <1>8, <2>1, ToSetTail
    <3>2. hold'[x].queue = IF x = s THEN Servable(t) ELSE mine BY <1>9, <2>1
    <3> HIDE DEF t, mine, L, X, rest, s
    <3>3. Fit(x, i, rest \o Refires(s, t), IF x = s THEN Servable(t) ELSE mine, L)
      BY <1>3, <1>4, <1>12, <1>15, <3>1, FitRefires
    <3>4. NoneIn(calls', X) => NoneIn(rest, X) BY <1>3, <1>4, <3>1, RefiresNone
    <3> QED BY <3>1, <3>2, <3>3, <3>4
  <2>2. CASE c.via # "drain"
    <3>1. calls' = rest /\ hold'[x].queue = mine BY <1>1, <2>2
    <3> QED BY <1>15, <3>1
  <2> QED BY <2>1, <2>2
<1>17. Known(x, i)'
  <2> SUFFICES ASSUME NoneIn(calls', X), i \in L, Asked(x, i)' PROVE i \in ToSet(window'[x])
    BY <1>1 DEF Known
  <2>1. NoneIn(rest, X) /\ Asked(x, i) BY <1>7, <1>16
  <2>2. CASE c \in X BY <1>1, <1>3, <1>5, <1>6, <1>13, <2>2
  <2>3. CASE c \notin X
    <3>1. i \in ToSet(window[x]) BY <1>11, <1>15, <2>1, <2>3 DEF Sound, Known
    <3>2. CASE x = s
      <4>1. window'[x] = Remember(window[x], c.id) BY <1>1, <1>3, <1>5, <3>2
      <4>2. i \notin Forgets(window[x], c.id) \cap Outstanding(x) BY <1>1, <1>3, <1>5, <3>2
      <4>3. i \in Outstanding(x) BY <2>1, OutstandingIs
      <4> QED BY <3>1, <4>1, <4>2, <4>3 DEF Forgets
    <3>3. CASE x # s
      <4>1. window'[x] = window[x] BY <1>1, <1>5, <3>3
      <4> QED BY <3>1, <4>1
    <3> QED BY <3>2, <3>3
  <2> QED BY <2>2, <2>3
<1>18. OneIn(pane'[x], {i}) BY <1>1, <1>11 DEF Sound
<1> QED BY <1>1, <1>16, <1>17, <1>18 DEF Sound

LEMMA RejectedC ==
  ASSUME Types, Drains, Belongs, Single, NEW j \in 1..Len(calls), Rejected(j)
  PROVE  Single'
<1> DEFINE c == calls[j] s == c.sess e == [id |-> c.id, sock |-> c.sock]
<1>1. c.waiting /\ UNCHANGED <<pending, inbox, window, pane>>
  BY DEF Rejected, NextToSettle, client, wire
<1>2. PICK cs \in AfterRejection(j) :
        /\ doubted' = IF c.written \/ Len(cs) = Len(calls)
                      THEN [doubted EXCEPT ![s] = @ \cup {c.id}] ELSE doubted
        /\ \/ c.via = "fresh" /\ HoldFailed(s, e, cs, used - 1)
           \/ /\ c.via = "drain"
              /\ hold' = [hold EXCEPT ![s].draining = FALSE]
              /\ calls' = cs
           \/ c.via # "drain" /\ calls' = cs /\ hold' = hold
  BY DEF Rejected
<1>3. c \in Call /\ calls \in Seq(Call) /\ Len(calls) \in Nat BY CallsAre
<1>4. s \in Sessions /\ c.id \in Ids /\ e \in Entry BY <1>3 DEF Call, Entry
<1>5. hold \in [Sessions -> Hold] /\ doubted \in [Sessions -> SUBSET Ids] BY DEF Types, PlaneT, HistoryT
<1>6. cs \in Seq(Call) /\ (~IsDrain(calls[j], s) => Same(s, cs)) BY <1>2, AfterRejectionIs
<1>7. c.via # "drain" /\ ~hold[s].draining => NoDrain(s, cs)
  <2> SUFFICES ASSUME c.via # "drain", ~hold[s].draining PROVE NoDrain(s, cs) OBVIOUS
  <2>1. ~IsDrain(calls[j], s) BY DEF IsDrain
  <2>2. NoDrain(s, calls) BY <1>4 DEF Drains, DrainOf
  <2> QED BY <1>6, <2>1, <2>2 DEF Same
<1> DEFINE d == [calls[j] EXCEPT !.waiting = FALSE] left == [calls EXCEPT ![j].waiting = FALSE]
<1>8. /\ Len(left) = Len(calls) /\ left[j] = d
      /\ \A n \in 1..Len(calls) : n # j => left[n] = calls[n]
  BY MarkIs
<1>9. d.sess = s /\ d.id = c.id /\ d \in Call BY <1>3 DEF Call
<1>10. cs = RemoveAt(calls, j) \/ (cs = left /\ Len(cs) = Len(calls))
  BY <1>2, <1>8 DEF AfterRejection
<1> HIDE DEF d, left
<1> SUFFICES ASSUME NEW x \in Sessions, NEW i \in Ids, i \notin doubted'[x] PROVE Sound(x, i)'
  BY DEF Single
<1> DEFINE X == Writes(x, i) L == ToSet(pane[x]) q == hold[x].queue
<1>11. i \notin doubted[x]
  <2>1. doubted[x] \subseteq doubted'[x] BY <1>2, <1>4, <1>5
  <2> QED BY <2>1
<1>12. Sound(x, i) /\ Fit(x, i, calls, q, L) BY <1>11 DEF Single, Sound
<1>13. (c \in X <=> x = s /\ i = c.id) /\ (d \in X <=> c \in X) BY <1>3, <1>9 DEF Writes
<1>14. c \in X => ~c.written /\ cs = RemoveAt(calls, j) BY <1>2, <1>4, <1>5, <1>10, <1>13
<1>15. /\ Fit(x, i, cs, q, L)
       /\ c \in X => NoneIn(cs, X) /\ i \notin L
       /\ c \notin X /\ NoneIn(cs, X) => NoneIn(calls, X)
  <2>1. CASE c \in X
    <3>1. i \notin L BY <1>12, <1>14, <2>1 DEF Fit
    <3> HIDE DEF q, L
    <3> QED BY <1>3, <1>12, <1>14, <2>1, <3>1, FitRemove
  <2>2. CASE c \notin X /\ cs = RemoveAt(calls, j)
    <3>1. NoneIn(cs, X) => NoneIn(calls, X)
      <4> HIDE DEF X
      <4> QED BY <1>3, <2>2, RemoveOne
    <3> HIDE DEF q, L
    <3> QED BY <1>3, <1>12, <2>2, <3>1, FitRemove
  <2>3. CASE c \notin X /\ cs = left
    <3>1. d \notin X BY <1>13, <2>3
    <3> HIDE DEF q, L
    <3> QED BY <1>8, <1>12, <2>3, <3>1, FitMarked
  <2> QED BY <1>10, <2>1, <2>2, <2>3
<1>16. Fit(x, i, calls', hold'[x].queue, L) /\ (NoneIn(calls', X) => NoneIn(cs, X))
  <2>1. CASE c.via = "fresh" /\ HoldFailed(s, e, cs, used - 1)
    <3>1. ~hold[s].draining => NoDrain(s, cs) BY <1>7, <2>1
    <3>2. x = s /\ e.id = i => NoneIn(cs, Writes(s, i)) /\ i \notin L BY <1>13, <1>15
    <3> HIDE DEF e, L, s
    <3> QED BY <1>4, <1>6, <1>15, <2>1, <3>1, <3>2, HoldFailedFit
  <2>2. CASE hold' = [hold EXCEPT ![s].draining = FALSE] /\ calls' = cs
    <3>1. hold'[x].queue = q BY <1>4, <1>5, <2>2 DEF Hold
    <3> QED BY <1>15, <2>2, <3>1
  <2>3. CASE calls' = cs /\ hold' = hold BY <1>15, <2>3
  <2> QED BY <1>2, <2>1, <2>2, <2>3
<1>17. Asked(x, i)' => Asked(x, i) BY <1>1 DEF Asked
<1>18. NoneIn(calls', X) => NoneIn(calls, X) \/ i \notin L BY <1>15, <1>16
<1> QED BY <1>1, <1>12, <1>16, <1>17, <1>18, SoundBy

LEMMA NextC ==
  ASSUME Types, Types', Drains, Belongs, Single, [Next]_vars
  PROVE  Single'
<1>1. CASE \E s \in Sessions : Type(s) \/ WindowFires(s) BY <1>1, TypeC, WindowFiresC
<1>2. CASE \E s \in Sessions, k \in Sockets : Attach(s, k) BY <1>2, AttachC
<1>3. CASE \E k \in Sockets : JoinHold(k) \/ WriteFrame(k) \/ WriteReclaiming(k) \/ PlaneSeesClose(k)
  BY <1>3, JoinHoldC, WriteFrameC, PlaneSeesCloseC
<1>4. CASE NodeWrites \/ ChainIsLost \/ NodeReady BY <1>4, NodeWritesC, ChainIsLostC, NodeReadyC
<1>5. CASE \E j \in DOMAIN calls : Resolved(j) \/ Rejected(j)
  <2>1. DOMAIN calls = 1..Len(calls) BY CallsAre
  <2> QED BY <1>5, <2>1, ResolvedC, RejectedC
<1>6. CASE \/ \E s \in Sessions : PageLosesSocket(s)
           \/ \E k \in Sockets : IgnoreFrame(k) \/ AckAgain(k) \/ RefuseFrame(k)
           \/ LinkDrops \/ UNCHANGED vars
  <2>1. UNCHANGED <<window, hold, calls, pane, doubted>>
    BY <1>6 DEF PageLosesSocket, IgnoreFrame, AckAgain, RefuseFrame, LinkDrops, vars, client, wire, plane, history
  <2>2. CASE \E s \in Sessions : PageLosesSocket(s)
    <3>1. UNCHANGED <<pending, inbox>> BY <2>2 DEF PageLosesSocket
    <3>2. \A x \in Sessions : \A i \in ToSet(pane[x]) : Asked(x, i)' => Asked(x, i) BY <3>1 DEF Asked
    <3> QED BY <2>1, <3>2, QuietC
  <2>3. CASE \E k \in Sockets : IgnoreFrame(k) \/ AckAgain(k) \/ RefuseFrame(k)
    <3>1. PICK k \in Sockets : IgnoreFrame(k) \/ AckAgain(k) \/ RefuseFrame(k) BY <2>3
    <3>2. Owner[k] \in Sessions BY OwnerAssumption
    <3> QED BY <3>1, <3>2, WireStepsC
  <2>4. CASE LinkDrops \/ UNCHANGED vars
    <3>1. UNCHANGED <<pending, inbox>> BY <2>4 DEF LinkDrops, vars, client, wire
    <3>2. \A x \in Sessions : \A i \in ToSet(pane[x]) : Asked(x, i)' => Asked(x, i) BY <3>1 DEF Asked
    <3> QED BY <2>1, <3>2, QuietC
  <2> QED BY <1>6, <2>2, <2>3, <2>4
<1> QED BY <1>1, <1>2, <1>3, <1>4, <1>5, <1>6, NextCases

LEMMA InitC == Init => Single
<1> SUFFICES ASSUME Init, NEW s \in Sessions, NEW i \in Ids PROVE Sound(s, i)
  BY DEF Single
<1>1. calls = <<>> /\ pane[s] = <<>> /\ hold[s].queue = <<>> BY DEF Init, NoHold
<1>2. ToSet(<<>>) = {} /\ Len(<<>>) = 0
  <2>1. DOMAIN <<>> = {} OBVIOUS
  <2> QED BY <2>1 DEF ToSet
<1>3. \A X : OneIn(<<>>, X) /\ NoneIn(<<>>, X) BY <1>2 DEF OneIn, NoneIn
<1> QED BY <1>1, <1>2, <1>3 DEF Sound, Fit, Known

LEMMA SingleMeans ==
  ASSUME Types, Single
  PROVE  CopiesNeedDoubt
<1> SUFFICES ASSUME NEW s \in Sessions, NEW i \in Ids \ doubted[s]
             PROVE  Cardinality({n \in DOMAIN pane[s] : pane[s][n] = i}) <= 1
  BY DEF CopiesNeedDoubt
<1> DEFINE p == pane[s] S == {n \in DOMAIN p : p[n] = i}
<1>1. OneIn(p, {i}) BY DEF Single, Sound
<1>2. p \in Seq(Ids) /\ DOMAIN p = 1..Len(p) BY DEF Types, NodeT
<1>3. \A m, n \in S : m = n BY <1>1, <1>2 DEF OneIn
<1>4. S = {} \/ \E m : S = {m}
  <2> HIDE DEF S
  <2>1. CASE S = {} BY <2>1
  <2>2. CASE S # {}
    <3>1. PICK m : m \in S BY <2>2
    <3>2. S = {m} BY <1>3, <3>1
    <3> QED BY <3>2
  <2> QED BY <2>1, <2>2
<1>5. Cardinality(S) <= 1
  <2> HIDE DEF S
  <2>1. CASE S = {} BY <2>1, FS_EmptySet
  <2>2. CASE \E m : S = {m}
    <3>1. PICK m : S = {m} BY <2>2
    <3>2. Cardinality({m}) = 1 BY FS_Singleton
    <3> QED BY <3>1, <3>2
  <2> QED BY <1>4, <2>1, <2>2
<1> QED BY <1>5

\* A frame reaches the pane twice only if its id is named in doubted: its first
\* write was answered wrongly or not at all, was still in flight when the next
\* began or joined a hold, or its id left the window while a copy could still
\* arrive; for any in-flight, queue, budget and window sizes.
THEOREM OneCopyWithoutDoubt == Spec => []CopiesNeedDoubt
<1> DEFINE CInv == KInv /\ Single
<1>1. Init => Single BY InitC
<1>2. KInv /\ KInv' /\ Single /\ [Next]_vars => Single' BY NextC DEF KInv
<1>3. KInv /\ Single => CopiesNeedDoubt BY SingleMeans DEF KInv
<1> QED BY <1>1, <1>2, <1>3, KInvHolds, PTL DEF Spec

-----------------------------------------------------------------------------
(* The order of the frames until the first fault: HealthyPathIsExact. *)

Below(X, Y) == \A x \in X, y \in Y : x < y
Rising(q) == \A m, n \in 1..Len(q) : m < n => q[m] < q[n]

\* The calls of s that are not written yet, and their ids.
Undone(cs, s) == {n \in 1..Len(cs) : cs[n].sess = s /\ ~cs[n].written}
Due(cs, s) == {cs[n].id : n \in Undone(cs, s)}
DueRising(cs, s) == \A m, n \in Undone(cs, s) : m < n => cs[m].id < cs[n].id

\* The frames 1..t of a page on their way: in the pane, due on the chain, on
\* the wire and not sent yet, each place ahead of the next, or else forgotten.
Route(P, W, B, U, D, t) ==
  /\ Below(P, W \cup B \cup U) /\ Below(W, B \cup U) /\ Below(B, U)
  /\ P \cup W \cup B \cup U \subseteq 1..t
  /\ 1..t \subseteq P \cup W \cup B \cup U \cup D

\* What is left of it behind a refused socket: nothing is skipped.
Whole(P, W, D) ==
  /\ Below(P, W)
  /\ \A y \in P \cup W : 1..(y - 1) \subseteq P \cup W \cup D

Refused(s) == sock[s] # None /\ status[sock[s]] # "open"
OnWire(s) == IF Live(s) THEN ToSet(inbox[sock[s]]) ELSE {}
Unsent(s) == pending[s] \ sent[s]

InStep(s) ==
  /\ Rising(pane[s]) /\ DueRising(calls, s)
  /\ Live(s) => Rising(inbox[sock[s]])
  /\ IF Refused(s) THEN Whole(ToSet(pane[s]), Due(calls, s), dropped[s])
     ELSE Route(ToSet(pane[s]), Due(calls, s), OnWire(s), Unsent(s), dropped[s], typed[s])

\* A page on its first socket, or before it.
Calm(s) ==
  /\ \A k \in Sockets : Owner[k] = s /\ k # sock[s] => status[k] = "unused" /\ inbox[k] = <<>>
  /\ sock[s] = None => sent[s] = {}
  /\ sock[s] # None => status[sock[s]] \in {"open", "refused"}

\* Nothing failed yet.
Quiet ==
  /\ up
  /\ \A s \in Sessions : hold[s] = NoHold
  /\ \A n \in 1..Len(calls) : calls[n].waiting /\ calls[n].via = "fresh"

Steady == faults = 0 => Quiet /\ \A s \in Sessions \ moved : Calm(s) /\ InStep(s)

\* A step of some frames from one place to the next keeps the order.
LEMMA RouteSteps ==
  ASSUME NEW P, NEW W, NEW B, NEW U, NEW D, NEW t, Route(P, W, B, U, D, t)
  PROVE  /\ \A N : N \subseteq U /\ Below(N, U \ N) => Route(P, W, B \cup N, U \ N, D, t)
         /\ \A x \in B : Below({x}, B \ {x}) => Route(P, W \cup {x}, B \ {x}, U, D, t)
         /\ \A x \in W : Below({x}, W \ {x}) => Route(P \cup {x}, W \ {x}, B, U, D, t)
         /\ \A X : Route(P, W, B, U \ X, D \cup X, t)
<1>1. ASSUME NEW N, N \subseteq U, Below(N, U \ N) PROVE Route(P, W, B \cup N, U \ N, D, t)
  BY <1>1 DEF Route, Below
<1>2. ASSUME NEW x \in B, Below({x}, B \ {x}) PROVE Route(P, W \cup {x}, B \ {x}, U, D, t)
  BY <1>2 DEF Route, Below
<1>3. ASSUME NEW x \in W, Below({x}, W \ {x}) PROVE Route(P \cup {x}, W \ {x}, B, U, D, t)
  BY <1>3 DEF Route, Below
<1>4. ASSUME NEW X PROVE Route(P, W, B, U \ X, D \cup X, t) BY DEF Route, Below
<1> QED BY <1>1, <1>2, <1>3, <1>4

LEMMA RouteTypes ==
  ASSUME NEW P, NEW W, NEW B, NEW U, NEW D, NEW t \in Nat, Route(P, W, B, U, D, t)
  PROVE  Route(P, W, B, U \cup {t + 1}, D, t + 1)
<1>1. 1..t \subseteq 1..(t + 1) /\ 1..(t + 1) = 1..t \cup {t + 1} /\ \A x \in 1..t : x < t + 1 OBVIOUS
<1> QED BY <1>1 DEF Route, Below

LEMMA RouteWhole ==
  ASSUME NEW P, NEW W, NEW B, NEW U, NEW D, NEW t \in Nat, Route(P, W, B, U, D, t)
  PROVE  Whole(P, W, D)
<1>1. Below(P, W) BY DEF Route, Below
<1>2. ASSUME NEW y \in P \cup W, NEW x \in 1..(y - 1) PROVE x \in P \cup W \cup D
  <2>1. y \in 1..t BY DEF Route
  <2>2. x \in 1..t /\ ~(y < x) /\ y # x BY <2>1
  <2>3. x \notin B /\ x \notin U BY <2>2 DEF Route, Below
  <2> QED BY <2>2, <2>3 DEF Route
<1> QED BY <1>1, <1>2 DEF Whole

LEMMA WholeSteps ==
  ASSUME NEW P, NEW W, NEW D, Whole(P, W, D)
  PROVE  /\ \A x \in W : Below({x}, W \ {x}) => Whole(P \cup {x}, W \ {x}, D)
         /\ \A X : Whole(P, W, D \cup X)
<1>1. ASSUME NEW x \in W, Below({x}, W \ {x}) PROVE Whole(P \cup {x}, W \ {x}, D)
  <2>1. (P \cup {x}) \cup (W \ {x}) = P \cup W OBVIOUS
  <2>2. Below(P \cup {x}, W \ {x}) BY <1>1 DEF Whole, Below
  <2> QED BY <2>1, <2>2 DEF Whole
<1>2. ASSUME NEW X PROVE Whole(P, W, D \cup X) BY DEF Whole
<1> QED BY <1>1, <1>2

LEMMA RisingAppend ==
  ASSUME NEW q \in Seq(Ids), NEW e \in Ids, Rising(q), Below(ToSet(q), {e})
  PROVE  Rising(Append(q, e))
<1> DEFINE r == Append(q, e)
<1>1. /\ Len(q) \in Nat /\ Len(r) = Len(q) + 1
      /\ \A n \in 1..Len(q) : r[n] = q[n]
      /\ r[Len(q) + 1] = e
  BY ToSetAppend
<1>2. \A n \in 1..Len(q) : q[n] < e
  <2>1. \A n \in 1..Len(q) : q[n] \in ToSet(q) BY ToSetIs
  <2> QED BY <2>1 DEF Below
<1> HIDE DEF r
<1>3. ASSUME NEW m \in 1..Len(r), NEW n \in 1..Len(r), m < n PROVE r[m] < r[n]
  <2>1. m \in 1..Len(q) BY <1>1, <1>3
  <2>2. CASE n \in 1..Len(q) BY <1>1, <1>3, <2>1, <2>2 DEF Rising
  <2>3. CASE n = Len(q) + 1 BY <1>1, <1>2, <2>1, <2>3
  <2> QED BY <1>1, <2>2, <2>3
<1>4. Rising(r) BY <1>3 DEF Rising
<1> QED BY <1>4 DEF r

LEMMA RisingTail ==
  ASSUME NEW q \in Seq(Ids), q # <<>>, Rising(q)
  PROVE  /\ Rising(Tail(q)) /\ Head(q) \in ToSet(q)
         /\ ToSet(Tail(q)) = ToSet(q) \ {Head(q)} /\ Below({Head(q)}, ToSet(q) \ {Head(q)})
<1> DEFINE r == Tail(q) h == Head(q)
<1>1. /\ r \in Seq(Ids) /\ Len(r) = Len(q) - 1 /\ h \in Ids /\ h = q[1]
      /\ \A n \in 1..(Len(q) - 1) : r[n] = q[n + 1]
      /\ ToSet(q) = {h} \cup ToSet(r)
  BY ToSetTail
<1>2. Len(q) \in Nat /\ Len(q) # 0 BY EmptySeq
<1> HIDE DEF r, h
<1>3. Rising(r)
  <2> SUFFICES ASSUME NEW m \in 1..Len(r), NEW n \in 1..Len(r), m < n PROVE r[m] < r[n]
    BY DEF Rising
  <2>1. m + 1 \in 1..Len(q) /\ n + 1 \in 1..Len(q) /\ m + 1 < n + 1 BY <1>1, <1>2
  <2>2. q[m + 1] < q[n + 1] BY <2>1 DEF Rising
  <2> QED BY <1>1, <1>2, <2>2
<1>4. \A x \in ToSet(r) : h < x
  <2> SUFFICES ASSUME NEW x \in ToSet(r) PROVE h < x
    OBVIOUS
  <2>1. PICK n \in 1..Len(r) : r[n] = x BY <1>1, ToSetIs
  <2>2. n + 1 \in 1..Len(q) /\ 1 \in 1..Len(q) /\ 1 < n + 1 /\ r[n] = q[n + 1] BY <1>1, <1>2
  <2> QED BY <1>1, <2>1, <2>2 DEF Rising
<1>5. h \notin ToSet(r)
  <2>1. h \in Nat BY <1>1, IdsAre
  <2> QED BY <1>4, <2>1
<1>6. ToSet(r) = ToSet(q) \ {h} BY <1>1, <1>5
<1>7. Below({h}, ToSet(q) \ {h}) BY <1>4, <1>6 DEF Below
<1> QED BY <1>1, <1>3, <1>6, <1>7 DEF r, h

LEMMA RisingConcat ==
  ASSUME NEW q \in Seq(Ids), NEW r \in Seq(Ids), Rising(q), Rising(r), Below(ToSet(q), ToSet(r))
  PROVE  Rising(q \o r)
<1> DEFINE t == q \o r
<1>1. /\ Len(t) = Len(q) + Len(r)
      /\ \A n \in 1..(Len(q) + Len(r)) : t[n] = IF n <= Len(q) THEN q[n] ELSE r[n - Len(q)]
  BY ConcatProperties
<1>2. Len(q) \in Nat /\ Len(r) \in Nat BY LenProperties
<1>3. /\ \A n \in 1..Len(q) : q[n] \in ToSet(q)
      /\ \A n \in 1..Len(r) : r[n] \in ToSet(r)
  BY ToSetIs
<1> HIDE DEF t
<1>4. ASSUME NEW m \in 1..Len(t), NEW n \in 1..Len(t), m < n PROVE t[m] < t[n]
  <2>1. CASE n <= Len(q)
    <3>1. m \in 1..Len(q) /\ n \in 1..Len(q) /\ m <= Len(q) BY <1>1, <1>2, <1>4, <2>1
    <3>2. t[m] = q[m] /\ t[n] = q[n] BY <1>1, <2>1, <3>1
    <3> QED BY <1>4, <3>1, <3>2 DEF Rising
  <2>2. CASE ~(n <= Len(q)) /\ m <= Len(q)
    <3>1. m \in 1..Len(q) /\ n - Len(q) \in 1..Len(r) BY <1>1, <1>2, <2>2
    <3>2. t[m] = q[m] /\ t[n] = r[n - Len(q)] BY <1>1, <2>2
    <3> QED BY <1>3, <3>1, <3>2 DEF Below
  <2>3. CASE ~(n <= Len(q)) /\ ~(m <= Len(q))
    <3>1. m - Len(q) \in 1..Len(r) /\ n - Len(q) \in 1..Len(r) /\ m - Len(q) < n - Len(q)
      BY <1>1, <1>2, <1>4, <2>3
    <3>2. t[m] = r[m - Len(q)] /\ t[n] = r[n - Len(q)] BY <1>1, <2>3
    <3> QED BY <3>1, <3>2 DEF Rising
  <2> QED BY <2>1, <2>2, <2>3
<1>5. Rising(t) BY <1>4 DEF Rising
<1> QED BY <1>5 DEF t

\* What leaves the page leaves in order.
LEMMA InOrderRises ==
  ASSUME NEW N, N \subseteq Ids
  PROVE  Rising(InOrder(N))
<1> DEFINE q == InOrder(N)
<1>1. Ids \subseteq Nat /\ IsFiniteSet(Ids) BY IdsAre
<1>2. IsFiniteSet(N) /\ N \subseteq Nat BY <1>1, FS_Subset
<1>3. Len(q) = Cardinality(N) /\ \A m, n \in 1..Cardinality(N) : m < n => q[m] < q[n]
  BY <1>2, InOrderIs
<1> HIDE DEF q
<1>4. Rising(q) BY <1>3 DEF Rising
<1> QED BY <1>4 DEF q

\* The oldest leave first.
LEMMA OldestFirst ==
  ASSUME NEW u, NEW left, u \subseteq Ids, left \subseteq Ids,
         NEW V, V = u \ left, NEW N, N = Flushable(u, left)
  PROVE  N \subseteq V /\ N \subseteq Ids /\ Below(N, V \ N)
<1>1. N \subseteq u \ left BY FlushIs
<1>2. Ids \subseteq Nat /\ IsFiniteSet(Ids) BY IdsAre
<1>3. Below(N, (u \ left) \ N)
  <2> SUFFICES ASSUME NEW x \in N, NEW y \in (u \ left) \ N PROVE x < y
    BY DEF Below
  <2> DEFINE S == u \ left c == Inflight - Cardinality(left)
             A == {j \in S : j < x} C == {j \in S : j < y}
  <2>1. N = Oldest(c, S) BY DEF Flushable
  <2>2. x \in S /\ Cardinality(A) < c BY <2>1 DEF Oldest
  <2>3. ~(Cardinality(C) < c) BY <2>1 DEF Oldest
  <2>4. x \in Nat /\ y \in Nat /\ S \subseteq Nat /\ IsFiniteSet(S) BY <1>2, <2>2, FS_Subset
  <2>5. SUFFICES ASSUME ~(x < y) PROVE FALSE OBVIOUS
  <2>6. C \subseteq A
    <3> SUFFICES ASSUME NEW j \in C PROVE j \in A
      OBVIOUS
    <3>1. j \in S /\ j < y OBVIOUS
    <3>2. j \in Nat BY <2>4, <3>1
    <3>3. j < x BY <2>4, <2>5, <3>1, <3>2
    <3> QED BY <3>1, <3>3
  <2>7. IsFiniteSet(A)
    <3>1. A \subseteq S OBVIOUS
    <3> QED BY <2>4, <3>1, FS_Subset
  <2>8. Cardinality(C) <= Cardinality(A) /\ IsFiniteSet(C)
    <3> HIDE DEF A, C
    <3> QED BY <2>6, <2>7, FS_Subset
  <2>9. Cardinality(C) \in Nat /\ Cardinality(A) \in Nat
    <3> HIDE DEF A, C
    <3> QED BY <2>7, <2>8, FS_CardinalityType
  <2>10. c \in Int
    <3>1. Inflight \in Nat BY BoundsAssumption
    <3>2. IsFiniteSet(left) BY <1>2, FS_Subset
    <3>3. Cardinality(left) \in Nat BY <3>2, FS_CardinalityType
    <3> HIDE DEF c
    <3>4. c = Inflight - Cardinality(left) BY DEF c
    <3> QED BY <3>1, <3>3, <3>4
  <2> HIDE DEF A, C, c
  <2> QED BY <2>2, <2>3, <2>8, <2>9, <2>10
<1>4. N \subseteq Ids BY <1>1
<1> QED BY <1>1, <1>3, <1>4

LEMMA UndoneIs ==
  ASSUME NEW cs \in Seq(Call), NEW s
  PROVE  /\ Len(cs) \in Nat /\ Undone(cs, s) \subseteq 1..Len(cs)
         /\ \A n \in 1..Len(cs) : cs[n] \in Call /\ cs[n].id \in Ids /\ cs[n].sess \in Sessions
         /\ Due(cs, s) \subseteq Ids
<1>1. Len(cs) \in Nat /\ \A n \in 1..Len(cs) : cs[n] \in Call BY LenProperties, ElementOfSeq
<1>2. \A c \in Call : c.id \in Ids /\ c.sess \in Sessions BY DEF Call
<1> QED BY <1>1, <1>2 DEF Undone, Due

\* A new write is due behind those of its page.
LEMMA DueAppend ==
  ASSUME NEW cs \in Seq(Call), NEW c \in Call, ~c.written, NEW s
  PROVE  /\ c.sess # s => /\ Due(Append(cs, c), s) = Due(cs, s)
                          /\ DueRising(cs, s) => DueRising(Append(cs, c), s)
         /\ c.sess = s =>
              /\ Due(Append(cs, c), s) = Due(cs, s) \cup {c.id}
              /\ DueRising(cs, s) /\ Below(Due(cs, s), {c.id}) => DueRising(Append(cs, c), s)
<1> DEFINE r == Append(cs, c)
<1>1. /\ Len(cs) \in Nat /\ Len(r) = Len(cs) + 1
      /\ \A n \in 1..Len(cs) : r[n] = cs[n]
      /\ r[Len(cs) + 1] = c
  BY ToSetAppend
<1> HIDE DEF r
<1>2. CASE c.sess # s
  <2>1. Undone(r, s) = Undone(cs, s) BY <1>1, <1>2 DEF Undone
  <2>2. \A n \in Undone(cs, s) : r[n] = cs[n] BY <1>1 DEF Undone
  <2>3. Due(r, s) = Due(cs, s) BY <2>1, <2>2 DEF Due
  <2>4. DueRising(cs, s) => DueRising(r, s) BY <2>1, <2>2 DEF DueRising
  <2> QED BY <1>2, <2>3, <2>4 DEF r
<1>3. CASE c.sess = s
  <2>1. Undone(r, s) = Undone(cs, s) \cup {Len(cs) + 1}
    <3>1. \A n : n \in 1..Len(r) <=> n \in 1..Len(cs) \/ n = Len(cs) + 1 BY <1>1
    <3>2. \A n \in 1..Len(cs) : n # Len(cs) + 1 BY <1>1
    <3> QED BY <1>1, <1>3, <3>1, <3>2 DEF Undone
  <2>2. \A n \in Undone(cs, s) : r[n] = cs[n] /\ n < Len(cs) + 1 /\ n \in Nat BY <1>1 DEF Undone
  <2>3. Due(r, s) = Due(cs, s) \cup {c.id} BY <1>1, <2>1, <2>2 DEF Due
  <2>4. ASSUME DueRising(cs, s), Below(Due(cs, s), {c.id}) PROVE DueRising(r, s)
    <3> SUFFICES ASSUME NEW m \in Undone(r, s), NEW n \in Undone(r, s), m < n
                 PROVE  r[m].id < r[n].id
      BY DEF DueRising
    <3>1. m \in Undone(cs, s)
      <4>1. CASE m = Len(cs) + 1
        <5>1. n \in Nat /\ n <= Len(cs) + 1 BY <1>1, <2>1, <2>2
        <5> QED BY <1>1, <4>1, <5>1
      <4> QED BY <2>1, <4>1
    <3>2. CASE n \in Undone(cs, s) BY <2>2, <2>4, <3>1, <3>2 DEF DueRising
    <3>3. CASE n = Len(cs) + 1
      <4>1. cs[m].id \in Due(cs, s) BY <3>1 DEF Due
      <4>2. cs[m].id < c.id BY <2>4, <4>1 DEF Below
      <4> QED BY <1>1, <2>2, <3>1, <3>3, <4>2
    <3> QED BY <2>1, <3>2, <3>3
  <2> QED BY <1>3, <2>3, <2>4 DEF r
<1> QED BY <1>2, <1>3

\* A written call settles.
LEMMA DueSettled ==
  ASSUME NEW cs \in Seq(Call), NEW j \in 1..Len(cs), cs[j].written, NEW s
  PROVE  /\ Due(RemoveAt(cs, j), s) = Due(cs, s)
         /\ DueRising(cs, s) => DueRising(RemoveAt(cs, j), s)
<1> DEFINE r == RemoveAt(cs, j)
<1>1. /\ Len(cs) \in Nat /\ Len(r) = Len(cs) - 1
      /\ \A n \in 1..(Len(cs) - 1) : r[n] = IF n < j THEN cs[n] ELSE cs[n + 1]
  BY LenProperties, RemoveAtIs
<1> HIDE DEF r
<1> DEFINE up1(n) == IF n < j THEN n ELSE n + 1
<1>2. \A n \in Undone(r, s) : up1(n) \in Undone(cs, s) /\ r[n] = cs[up1(n)] /\ n \in Nat
  <2> SUFFICES ASSUME NEW n \in Undone(r, s)
               PROVE  up1(n) \in Undone(cs, s) /\ r[n] = cs[up1(n)] /\ n \in Nat
    OBVIOUS
  <2>1. n \in 1..(Len(cs) - 1) /\ r[n].sess = s /\ ~r[n].written BY <1>1 DEF Undone
  <2>2. up1(n) \in 1..Len(cs) /\ r[n] = cs[up1(n)] /\ n \in Nat BY <1>1, <2>1
  <2> QED BY <2>1, <2>2 DEF Undone
<1>3. \A m \in Undone(cs, s) : \E n \in Undone(r, s) : r[n] = cs[m]
  <2> SUFFICES ASSUME NEW m \in Undone(cs, s) PROVE \E n \in Undone(r, s) : r[n] = cs[m]
    OBVIOUS
  <2>1. m \in 1..Len(cs) /\ m # j /\ cs[m].sess = s /\ ~cs[m].written BY DEF Undone
  <2>2. CASE m < j
    <3>1. m \in 1..Len(r) /\ r[m] = cs[m] BY <1>1, <2>1, <2>2
    <3> QED BY <2>1, <3>1 DEF Undone
  <2>3. CASE ~(m < j)
    <3>1. m - 1 \in 1..(Len(cs) - 1) /\ ~(m - 1 < j) /\ (m - 1) + 1 = m BY <1>1, <2>1, <2>3
    <3>2. m - 1 \in 1..Len(r) /\ r[m - 1] = cs[m] BY <1>1, <3>1
    <3>3. m - 1 \in Undone(r, s) BY <2>1, <3>2 DEF Undone
    <3> QED BY <3>2, <3>3
  <2> QED BY <2>2, <2>3
<1>4. Due(r, s) = Due(cs, s)
  <2> HIDE DEF up1
  <2>1. \A i \in Due(r, s) : i \in Due(cs, s) BY <1>2 DEF Due
  <2>2. \A i \in Due(cs, s) : i \in Due(r, s) BY <1>3 DEF Due
  <2> QED BY <2>1, <2>2
<1>5. ASSUME DueRising(cs, s) PROVE DueRising(r, s)
  <2> SUFFICES ASSUME NEW m \in Undone(r, s), NEW n \in Undone(r, s), m < n
               PROVE  r[m].id < r[n].id
    BY DEF DueRising
  <2>1. up1(m) < up1(n) BY <1>1, <1>2
  <2> HIDE DEF up1
  <2> QED BY <1>2, <1>5, <2>1 DEF DueRising
<1> QED BY <1>4, <1>5 DEF r

\* The first unwritten call is written.
LEMMA DueWritten ==
  ASSUME NEW cs \in Seq(Call), NEW j \in 1..Len(cs), ~cs[j].written,
         \A n \in 1..(j - 1) : cs[n].written, NEW s,
         NEW r, Len(r) = Len(cs), \A n \in 1..Len(cs) : n # j => r[n] = cs[n],
         r[j].sess = cs[j].sess, r[j].id = cs[j].id, r[j].written
  PROVE  /\ DueRising(cs, s) => DueRising(r, s)
         /\ cs[j].sess # s => Due(r, s) = Due(cs, s)
         /\ cs[j].sess = s /\ DueRising(cs, s) =>
              /\ cs[j].id \in Due(cs, s)
              /\ Due(r, s) = Due(cs, s) \ {cs[j].id}
              /\ Below({cs[j].id}, Due(cs, s) \ {cs[j].id})
<1> DEFINE i == cs[j].id
<1>1. Len(cs) \in Nat /\ DOMAIN cs = 1..Len(cs) /\ \A n \in 1..Len(cs) : cs[n] \in Call
  BY LenProperties, ElementOfSeq
<1>3. Undone(r, s) = Undone(cs, s) \ {j} BY DEF Undone
<1>4. \A n \in Undone(r, s) : n \in Undone(cs, s) /\ r[n] = cs[n] BY <1>3 DEF Undone
<1>5. DueRising(cs, s) => DueRising(r, s) BY <1>4 DEF DueRising
<1>6. ASSUME cs[j].sess # s PROVE Due(r, s) = Due(cs, s)
  <2>1. Undone(r, s) = Undone(cs, s) BY <1>3, <1>6 DEF Undone
  <2> QED BY <1>4, <2>1 DEF Due
<1>7. ASSUME cs[j].sess = s, DueRising(cs, s)
      PROVE  i \in Due(cs, s) /\ Due(r, s) = Due(cs, s) \ {i} /\ Below({i}, Due(cs, s) \ {i})
  <2>1. j \in Undone(cs, s) BY <1>7 DEF Undone
  <2>2. i \in Due(cs, s) BY <2>1 DEF Due
  <2>3. \A n \in Undone(cs, s) : n # j => i < cs[n].id
    <3> SUFFICES ASSUME NEW n \in Undone(cs, s), n # j PROVE i < cs[n].id
      OBVIOUS
    <3>1. n \in 1..Len(cs) /\ ~cs[n].written BY DEF Undone
    <3>2. n \notin 1..(j - 1) BY <3>1
    <3>3. j < n BY <1>1, <3>1, <3>2
    <3> QED BY <1>7, <2>1, <3>3 DEF DueRising
  <2>4. i \in Nat /\ \A n \in Undone(cs, s) : cs[n].id \in Nat BY <1>1, IdsAre DEF Undone, Call
  <2>5. \A n \in Undone(cs, s) : n # j => cs[n].id # i BY <2>3, <2>4
  <2>6. Due(r, s) = Due(cs, s) \ {i} BY <1>3, <1>4, <2>5 DEF Due
  <2>7. Below({i}, Due(cs, s) \ {i}) BY <2>3 DEF Below, Due
  <2> QED BY <2>2, <2>6, <2>7
<1> QED BY <1>5, <1>6, <1>7

AllInStep == \A s \in Sessions \ moved : Calm(s) /\ InStep(s)

\* The places of a page's frames hold ids.
LEMMA PlacesAre ==
  ASSUME Types, Belongs, NEW s \in Sessions
  PROVE  /\ typed[s] \in Nat /\ pending[s] \subseteq Ids /\ sent[s] \subseteq pending[s]
         /\ pane[s] \in Seq(Ids) /\ calls \in Seq(Call)
         /\ sock[s] # None => sock[s] \in Sockets /\ Owner[sock[s]] = s
         /\ \A k \in Sockets : inbox[k] \in Seq(Ids)
         /\ Ids \subseteq Nat
<1>1. typed[s] \in 0..MaxId /\ MaxId \in Nat BY IdsAre DEF Types, PageT
<1>2. typed[s] \in Nat BY <1>1
<1>3. pending[s] \subseteq Ids /\ sent[s] \subseteq pending[s] BY DEF Types, PageT, Belongs, PageOk
<1>4. sock[s] # None => sock[s] \in Sockets /\ Owner[sock[s]] = s BY LiveIs
<1>5. pane[s] \in Seq(Ids) /\ calls \in Seq(Call) /\ \A k \in Sockets : inbox[k] \in Seq(Ids)
  BY DEF Types, NodeT, WireT
<1> QED BY <1>2, <1>3, <1>4, <1>5, IdsAre

\* A step that touches nothing of the page.
LEMMA StaysInStep ==
  ASSUME Types, Belongs, NEW s \in Sessions, Calm(s), InStep(s),
         sock'[s] = sock[s], typed'[s] = typed[s], pending'[s] = pending[s], sent'[s] = sent[s],
         dropped'[s] = dropped[s], pane'[s] = pane[s],
         Due(calls', s) = Due(calls, s), DueRising(calls, s) => DueRising(calls', s),
         \A k \in Sockets : Owner[k] = s => status'[k] = status[k] /\ inbox'[k] = inbox[k]
  PROVE  Calm(s)' /\ InStep(s)'
<1>1. sock[s] # None => status'[sock[s]] = status[sock[s]] /\ inbox'[sock[s]] = inbox[sock[s]]
  BY PlacesAre
<1>2. Calm(s)' BY <1>1 DEF Calm
<1>3. /\ Refused(s)' <=> Refused(s)
      /\ Live(s)' <=> Live(s)
      /\ OnWire(s)' = OnWire(s) /\ Unsent(s)' = Unsent(s)
  BY <1>1 DEF Refused, Live, OnWire, Unsent
<1>4. Live(s)' => Rising(inbox'[sock'[s]]) BY <1>1, <1>3 DEF InStep, Live
<1>5. Rising(pane'[s]) /\ DueRising(calls', s) BY DEF InStep
<1>6. IF Refused(s)' THEN Whole(ToSet(pane'[s]), Due(calls', s), dropped'[s])
      ELSE Route(ToSet(pane'[s]), Due(calls', s), OnWire(s)', Unsent(s)', dropped'[s], typed'[s])
  BY <1>3 DEF InStep
<1> QED BY <1>2, <1>4, <1>5, <1>6 DEF InStep

\* A step that touches no write, for the page s of one of its sockets.
LEMMA OthersInStep ==
  ASSUME Types, Belongs, AllInStep, NEW s \in Sessions, moved \subseteq moved',
         \A x \in Sessions : x # s =>
            /\ sock'[x] = sock[x] /\ typed'[x] = typed[x] /\ pending'[x] = pending[x] /\ sent'[x] = sent[x]
            /\ dropped'[x] = dropped[x] /\ pane'[x] = pane[x]
            /\ Due(calls', x) = Due(calls, x)
            /\ DueRising(calls, x) => DueRising(calls', x),
         \A k \in Sockets : Owner[k] # s => status'[k] = status[k] /\ inbox'[k] = inbox[k],
         s \notin moved' => Calm(s)' /\ InStep(s)'
  PROVE  AllInStep'
<1> SUFFICES ASSUME NEW x \in Sessions \ moved', x # s PROVE Calm(x)' /\ InStep(x)'
  BY DEF AllInStep
<1>1. Calm(x) /\ InStep(x) BY DEF AllInStep
<1> QED BY <1>1, StaysInStep

LEMMA TypeH ==
  ASSUME Types, Types', Belongs, AllInStep, NEW s \in Sessions, Type(s)
  PROVE  AllInStep'
<1> DEFINE id  == typed[s] + 1
           all == pending[s] \cup {id}
           old == IF Cardinality(all) > MaxPending THEN Oldest(1, all) ELSE {}
           out == IF pending[s] = {} /\ sock[s] # None THEN {id} ELSE {}
           k == sock[s]
           P == ToSet(pane[s]) W == Due(calls, s) B == OnWire(s) U == Unsent(s) D == dropped[s]
<1>1. /\ sock \in [Sessions -> Sockets \cup {None}] /\ sent \in [Sessions -> SUBSET Ids]
      /\ pending \in [Sessions -> SUBSET Ids] /\ dropped \in [Sessions -> SUBSET Ids]
      /\ inbox \in [Sockets -> Seq(Ids)] /\ typed \in [Sessions -> 0..MaxId] /\ MaxId \in Nat
  BY IdsAre DEF Types, PageT, WireT, HistoryT
<1>2. /\ typed' = [typed EXCEPT ![s] = id]
      /\ pending' = [pending EXCEPT ![s] = all \ old]
      /\ sent' = [sent EXCEPT ![s] = (@ \cup out) \ old]
      /\ dropped' = [dropped EXCEPT ![s] = @ \cup old]
      /\ inbox' = IF out = {} THEN inbox ELSE [inbox EXCEPT ![k] = Append(@, id)]
      /\ UNCHANGED <<sock, status, calls, pane, moved>>
  BY DEF Type
<1>3. /\ typed[s] \in Nat /\ pending[s] \subseteq Ids /\ sent[s] \subseteq pending[s]
      /\ k # None => k \in Sockets /\ Owner[k] = s
      /\ Ids \subseteq Nat
  BY PlacesAre
<1>4. id \in Ids
  <2>1. typed'[s] \in 0..MaxId BY DEF Types, PageT
  <2>2. typed'[s] = id BY <1>1, <1>2
  <2> QED BY <1>1, <1>3, <2>1, <2>2 DEF Ids
<1>5. id \notin sent[s]
  <2>1. \A i \in pending[s] : i <= typed[s] /\ i \in Nat BY <1>3 DEF Belongs, PageOk
  <2> QED BY <1>3, <2>1
<1>6. /\ out = {} \/ (pending[s] = {} /\ k # None /\ out = {id}) OBVIOUS
<1> HIDE DEF old, out
<1>7. /\ typed'[s] = id /\ pending'[s] = all \ old /\ sent'[s] = (sent[s] \cup out) \ old
      /\ dropped'[s] = D \cup old
      /\ \A x \in Sessions : x # s => /\ typed'[x] = typed[x] /\ pending'[x] = pending[x]
                                      /\ sent'[x] = sent[x] /\ dropped'[x] = dropped[x]
  BY <1>1, <1>2
<1>8. \A x \in Sockets : Owner[x] # s => inbox'[x] = inbox[x] BY <1>1, <1>2, <1>3, <1>6
<1>9. ASSUME s \notin moved PROVE Calm(s)' /\ InStep(s)'
  <2>1. Calm(s) /\ InStep(s) BY <1>9 DEF AllInStep
  <2>2. Calm(s)'
    <3>1. \A x \in Sockets : x # k => inbox'[x] = inbox[x] BY <1>1, <1>2
    <3>2. k = None => sent'[s] = {} BY <1>6, <1>7, <2>1 DEF Calm
    <3> QED BY <1>2, <2>1, <3>1, <3>2 DEF Calm
  <2>3. Rising(pane'[s]) /\ DueRising(calls', s) BY <1>2, <2>1 DEF InStep
  <2>4. CASE Refused(s)
    <3>1. Refused(s)' /\ ~Live(s)' BY <1>2, <2>4 DEF Refused, Live
    <3>2. Whole(P, W, D \cup old)
      <4>1. Whole(P, W, D) BY <2>1, <2>4 DEF InStep
      <4> HIDE DEF P, W, D
      <4> QED BY <4>1, WholeSteps
    <3> QED BY <1>2, <1>7, <2>2, <2>3, <3>1, <3>2 DEF InStep
  <2>5. CASE ~Refused(s)
    <3>1. ~Refused(s)' /\ (Live(s)' <=> Live(s)) BY <1>2, <2>5 DEF Refused, Live
    <3>2. Route(P, W, B, U \cup {id}, D, id)
      <4>1. Route(P, W, B, U, D, typed[s]) BY <2>1, <2>5 DEF InStep
      <4> HIDE DEF P, W, B, U, D
      <4> QED BY <1>3, <4>1, RouteTypes
    <3>3. Unsent(s)' = ((U \cup {id}) \ out) \ old BY <1>5, <1>7 DEF Unsent
    <3>4. CASE out = {}
      <4>1. Route(P, W, B, (U \cup {id}) \ old, D \cup old, id)
        <5> HIDE DEF P, W, B, U, D, id
        <5> QED BY <3>2, RouteSteps
      <4>2. inbox' = inbox BY <1>2, <3>4
      <4>3. OnWire(s)' = B BY <1>2, <4>2 DEF OnWire, Live
      <4>4. Unsent(s)' = (U \cup {id}) \ old BY <3>3, <3>4
      <4>5. Live(s)' => Rising(inbox'[sock'[s]]) BY <1>2, <2>1, <3>1, <4>2 DEF InStep
      <4> QED BY <1>2, <1>7, <2>2, <2>3, <3>1, <4>1, <4>3, <4>4, <4>5 DEF InStep
    <3>5. CASE out # {}
      <4>1. Live(s) /\ k \in Sockets /\ U = {} /\ out = {id}
        BY <1>3, <1>6, <2>5, <3>5 DEF Refused, Live, Unsent
      <4>2. inbox'[k] = Append(inbox[k], id) BY <1>1, <1>2, <3>5, <4>1
      <4>3. inbox[k] \in Seq(Ids) /\ B = ToSet(inbox[k]) BY <1>1, <4>1 DEF OnWire
      <4>4. ToSet(inbox'[k]) = B \cup {id} BY <1>4, <4>2, <4>3, ToSetAppend
      <4>5. Rising(inbox'[k])
        <5>1. Rising(inbox[k]) BY <2>1, <4>1 DEF InStep
        <5>2. Below(B, {id}) BY <3>2 DEF Route, Below
        <5> QED BY <1>4, <4>2, <4>3, <5>1, <5>2, RisingAppend
      <4>6. Route(P, W, B \cup {id}, {} \ old, D \cup old, id)
        <5>1. Route(P, W, B \cup {id}, (U \cup {id}) \ {id}, D, id)
          <6>1. {id} \subseteq U \cup {id} /\ Below({id}, (U \cup {id}) \ {id}) BY <4>1 DEF Below
          <6> HIDE DEF P, W, B, U, D, id
          <6> QED BY <3>2, <6>1, RouteSteps
        <5>2. (U \cup {id}) \ {id} = {} BY <4>1
        <5>3. Route(P, W, B \cup {id}, {}, D, id) BY <5>1, <5>2
        <5> HIDE DEF P, W, B, U, D, id
        <5> QED BY <5>3, RouteSteps
      <4>7. Unsent(s)' = {} \ old BY <3>3, <4>1
      <4>8. OnWire(s)' = B \cup {id} BY <1>2, <3>1, <4>1, <4>4 DEF OnWire
      <4> QED BY <1>2, <1>7, <2>2, <2>3, <3>1, <4>5, <4>6, <4>7, <4>8 DEF InStep
    <3> QED BY <3>4, <3>5
  <2> QED BY <2>4, <2>5
<1>10. \A x \in Sockets : status'[x] = status[x] BY <1>2
<1> QED BY <1>2, <1>7, <1>8, <1>9, <1>10, OthersInStep

\* The page fills its free slots: N leaves, behind what is on the wire.
LEMMA SendsOn ==
  ASSUME NEW P, NEW W, NEW U, NEW D, NEW t, NEW N, N \subseteq U, Below(N, U \ N),
         NEW q \in Seq(Ids), NEW r \in Seq(Ids), Rising(q), Rising(r), ToSet(r) = N,
         Route(P, W, ToSet(q), U, D, t)
  PROVE  /\ Rising(q \o r)
         /\ Route(P, W, ToSet(q \o r), U \ N, D, t)
<1>1. Below(ToSet(q), ToSet(r)) BY DEF Route, Below
<1>2. ToSet(q \o r) = ToSet(q) \cup N BY ToSetConcat
<1>3. Route(P, W, ToSet(q) \cup N, U \ N, D, t) BY RouteSteps
<1> QED BY <1>1, <1>2, <1>3, RisingConcat

LEMMA WindowFiresH ==
  ASSUME Types, Belongs, AllInStep, NEW s \in Sessions, WindowFires(s)
  PROVE  AllInStep'
<1> DEFINE N == Flushable(pending[s], sent[s]) k == sock[s]
           P == ToSet(pane[s]) W == Due(calls, s) U == Unsent(s) D == dropped[s] t == typed[s]
           q == inbox[k] r == InOrder(N)
<1>1. /\ sent' = [sent EXCEPT ![s] = @ \cup N]
      /\ inbox' = [inbox EXCEPT ![k] = @ \o r]
      /\ k # None
      /\ UNCHANGED <<typed, pending, sock, status, calls, pane, moved, dropped>>
  BY DEF WindowFires, history
<1>2. /\ pending[s] \subseteq Ids /\ sent[s] \subseteq pending[s]
      /\ k \in Sockets /\ Owner[k] = s /\ q \in Seq(Ids)
  BY <1>1, PlacesAre
<1>3. N \subseteq U /\ r \in Seq(Ids) /\ ToSet(r) = N /\ Rising(r) /\ Below(N, U \ N)
  <2>1. pending[s] \subseteq Ids /\ sent[s] \subseteq Ids BY <1>2
  <2>2. U = pending[s] \ sent[s] BY DEF Unsent
  <2>3. N = Flushable(pending[s], sent[s]) OBVIOUS
  <2>4. N \subseteq U /\ N \subseteq Ids /\ Below(N, U \ N)
    <3> HIDE DEF U, N
    <3> QED BY <2>1, <2>2, <2>3, OldestFirst
  <2> HIDE DEF U, N
  <2>5. r \in Seq(Ids) /\ ToSet(r) = N /\ Rising(r) BY <2>4, IdsInOrder, InOrderRises
  <2> QED BY <2>4, <2>5
<1> HIDE DEF N, r
<1>4. /\ inbox'[k] = q \o r /\ \A x \in Sockets : x # k => inbox'[x] = inbox[x]
      /\ sent'[s] = sent[s] \cup N /\ \A x \in Sessions : x # s => sent'[x] = sent[x]
  <2>1. inbox \in [Sockets -> Seq(Ids)] /\ sent \in [Sessions -> SUBSET Ids] BY DEF Types, WireT, PageT
  <2> QED BY <1>1, <1>2, <2>1
<1>5. ASSUME s \notin moved PROVE Calm(s)' /\ InStep(s)'
  <2>1. Calm(s) /\ InStep(s) BY <1>5 DEF AllInStep
  <2>2. Calm(s)' BY <1>1, <1>4, <2>1 DEF Calm
  <2>3. Rising(pane'[s]) /\ DueRising(calls', s) BY <1>1, <2>1 DEF InStep
  <2>4. CASE Refused(s)
    <3>1. Refused(s)' /\ ~Live(s)' BY <1>1, <2>4 DEF Refused, Live
    <3> QED BY <1>1, <2>1, <2>2, <2>3, <2>4, <3>1 DEF InStep
  <2>5. CASE ~Refused(s)
    <3>1. Live(s) /\ ~Refused(s)' /\ Live(s)' BY <1>1, <2>5 DEF Refused, Live
    <3>2. Rising(q) /\ Route(P, W, ToSet(q), U, D, t) BY <2>1, <2>5, <3>1 DEF InStep, OnWire
    <3>3. Rising(q \o r) /\ Route(P, W, ToSet(q \o r), U \ N, D, t)
      <4> HIDE DEF P, W, U, D, t, q
      <4> QED BY <1>2, <1>3, <3>2, SendsOn
    <3>4. OnWire(s)' = ToSet(q \o r) /\ Unsent(s)' = U \ N BY <1>1, <1>4, <3>1 DEF OnWire, Unsent
    <3> QED BY <1>1, <1>4, <2>2, <2>3, <3>1, <3>3, <3>4 DEF InStep
  <2> QED BY <2>4, <2>5
<1>6. \A x \in Sockets : Owner[x] # s => inbox'[x] = inbox[x] /\ status'[x] = status[x]
  BY <1>1, <1>2, <1>4
<1> QED BY <1>1, <1>4, <1>5, <1>6, OthersInStep

LEMMA AttachH ==
  ASSUME Types, Belongs, AllInStep, NEW s \in Sessions, NEW k \in Sockets, Attach(s, k)
  PROVE  AllInStep'
<1> DEFINE N == Flushable(pending[s], sent[s])
           P == ToSet(pane[s]) W == Due(calls, s) U == Unsent(s) D == dropped[s] t == typed[s]
           q == InOrder(sent[s]) r == InOrder(N)
<1>1. /\ Owner[k] = s /\ sock[s] = None /\ status[k] = "unused"
      /\ sock' = [sock EXCEPT ![s] = k]
      /\ status' = [status EXCEPT ![k] = "open"]
      /\ sent' = [sent EXCEPT ![s] = @ \cup N]
      /\ inbox' = [inbox EXCEPT ![k] = q \o r]
      /\ UNCHANGED <<typed, pending, calls, pane, moved, dropped>>
  BY DEF Attach
<1>2. pending[s] \subseteq Ids /\ sent[s] \subseteq pending[s] /\ k # None BY PlacesAre, NoneAssumption
<1>3. N \subseteq U /\ r \in Seq(Ids) /\ ToSet(r) = N /\ Rising(r) /\ Below(N, U \ N)
  <2>1. pending[s] \subseteq Ids /\ sent[s] \subseteq Ids BY <1>2
  <2>2. U = pending[s] \ sent[s] BY DEF Unsent
  <2>3. N = Flushable(pending[s], sent[s]) OBVIOUS
  <2>4. N \subseteq U /\ N \subseteq Ids /\ Below(N, U \ N)
    <3> HIDE DEF U, N
    <3> QED BY <2>1, <2>2, <2>3, OldestFirst
  <2> HIDE DEF U, N
  <2>5. r \in Seq(Ids) /\ ToSet(r) = N /\ Rising(r) BY <2>4, IdsInOrder, InOrderRises
  <2> QED BY <2>4, <2>5
<1>4. q \in Seq(Ids) /\ ToSet(q) = sent[s]
  <2>1. sent[s] \subseteq Ids BY <1>2
  <2> QED BY <2>1, IdsInOrder
<1> HIDE DEF N, q, r
<1>5. /\ inbox'[k] = q \o r /\ \A x \in Sockets : x # k => inbox'[x] = inbox[x] /\ status'[x] = status[x]
      /\ status'[k] = "open" /\ sock'[s] = k
      /\ sent'[s] = sent[s] \cup N
      /\ \A x \in Sessions : x # s => sent'[x] = sent[x] /\ sock'[x] = sock[x]
  <2>1. /\ inbox \in [Sockets -> Seq(Ids)] /\ sent \in [Sessions -> SUBSET Ids]
        /\ sock \in [Sessions -> Sockets \cup {None}]
        /\ status \in [Sockets -> {"unused", "open", "refused", "closed"}]
    BY DEF Types, WireT, PageT
  <2> QED BY <1>1, <2>1
<1>6. ASSUME s \notin moved PROVE Calm(s)' /\ InStep(s)'
  <2>1. Calm(s) /\ InStep(s) BY <1>6 DEF AllInStep
  <2>2. sent[s] = {} BY <1>1, <2>1 DEF Calm
  <2>3. Calm(s)'
    <3>1. \A x \in Sockets : x # None BY NoneAssumption
    <3> QED BY <1>1, <1>2, <1>5, <2>1, <3>1 DEF Calm
  <2>4. Rising(pane'[s]) /\ DueRising(calls', s) BY <1>1, <2>1 DEF InStep
  <2>5. ~Refused(s) /\ ~Live(s) /\ ~Refused(s)' /\ Live(s)' BY <1>1, <1>2, <1>5 DEF Refused, Live
  <2>6. Rising(q)
    <3>1. Len(q) = 0 \/ \E x : x \in ToSet(q)
      <4>1. Len(q) \in Nat /\ \A n \in 1..Len(q) : q[n] \in ToSet(q) BY <1>4, ToSetIs
      <4>2. CASE Len(q) # 0
        <5>1. 1 \in 1..Len(q) BY <4>1, <4>2
        <5> QED BY <4>1, <5>1
      <4> QED BY <4>2
    <3>2. Len(q) = 0 BY <1>4, <2>2, <3>1
    <3> QED BY <3>2 DEF Rising
  <2>7. Route(P, W, ToSet(q), U, D, t) BY <1>4, <2>1, <2>2, <2>5 DEF InStep, OnWire
  <2>8. Rising(q \o r) /\ Route(P, W, ToSet(q \o r), U \ N, D, t)
    <3> HIDE DEF P, W, U, D, t
    <3> QED BY <1>3, <1>4, <2>6, <2>7, SendsOn
  <2>9. OnWire(s)' = ToSet(q \o r) /\ Unsent(s)' = U \ N BY <1>1, <1>5, <2>5 DEF OnWire, Unsent
  <2> QED BY <1>1, <1>5, <2>3, <2>4, <2>5, <2>8, <2>9 DEF InStep
<1>7. \A x \in Sockets : Owner[x] # s => inbox'[x] = inbox[x] /\ status'[x] = status[x]
  BY <1>1, <1>5
<1> QED BY <1>1, <1>5, <1>6, <1>7, OthersInStep

LEMMA PageLosesSocketH ==
  ASSUME Types, Belongs, AllInStep, NEW s \in Sessions, PageLosesSocket(s)
  PROVE  AllInStep'
<1>1. /\ sock' = [sock EXCEPT ![s] = None]
      /\ moved' = moved \cup {s}
      /\ UNCHANGED <<typed, pending, sent, status, inbox, calls, pane, dropped>>
  BY DEF PageLosesSocket
<1>2. \A x \in Sessions : x # s => sock'[x] = sock[x]
  <2>1. sock \in [Sessions -> Sockets \cup {None}] BY DEF Types, PageT
  <2> QED BY <1>1, <2>1
<1>3. moved \subseteq moved' /\ s \in moved' BY <1>1
<1>4. \A x \in Sockets : inbox'[x] = inbox[x] /\ status'[x] = status[x] BY <1>1
<1> QED BY <1>1, <1>2, <1>3, <1>4, OthersInStep

\* A page that kept its socket has no frame on another one.
LEMMA TheOneSocket ==
  ASSUME Types, Belongs, AllInStep, NEW k \in Sockets, Owner[k] \notin moved,
         inbox[k] # <<>> \/ status[k] # "unused"
  PROVE  LET s == Owner[k] IN
         s \in Sessions /\ Calm(s) /\ InStep(s) /\ sock[s] = k /\ k # None
<1>1. Owner[k] \in Sessions /\ k # None BY OwnerAssumption, NoneAssumption
<1>2. Calm(Owner[k]) /\ InStep(Owner[k]) BY <1>1 DEF AllInStep
<1> QED BY <1>1, <1>2 DEF Calm

LEMMA IgnoreFrameH ==
  ASSUME Types, Belongs, AllInStep, NEW k \in Sockets, IgnoreFrame(k)
  PROVE  AllInStep'
<1> DEFINE s == Owner[k]
<1>1. /\ Takes(k) /\ inbox[k] # <<>> /\ status[k] # "open"
      /\ UNCHANGED <<typed, pending, sent, sock, status, calls, pane, moved, dropped>>
  BY DEF IgnoreFrame, Takes, client, history
<1>2. \A x \in Sockets : x # k => inbox'[x] = inbox[x] BY <1>1, TakesW
<1>3. s \in Sessions BY OwnerAssumption
<1>4. ASSUME s \notin moved PROVE Calm(s)' /\ InStep(s)'
  <2>1. Calm(s) /\ InStep(s) /\ sock[s] = k /\ k # None BY <1>1, <1>4, TheOneSocket
  <2>2. Calm(s)' BY <1>1, <1>2, <2>1 DEF Calm
  <2>3. Refused(s) /\ Refused(s)' /\ ~Live(s)' BY <1>1, <2>1 DEF Refused, Live
  <2> QED BY <1>1, <2>1, <2>2, <2>3 DEF InStep
<1>5. \A x \in Sockets : Owner[x] # s => inbox'[x] = inbox[x] /\ status'[x] = status[x] BY <1>1, <1>2
<1> HIDE DEF s
<1> QED BY <1>1, <1>3, <1>4, <1>5, OthersInStep

LEMMA AckAgainH ==
  ASSUME Types, Belongs, AllInStep, NEW k \in Sockets, AckAgain(k)
  PROVE  AllInStep'
<1> DEFINE s == Owner[k] i == Frame(k).id box == [inbox EXCEPT ![k] = Tail(@)]
<1>1. /\ inbox[k] # <<>> /\ status[k] = "open" /\ Contains(window[s], i) /\ Ack(s, k, i, box)
      /\ UNCHANGED <<typed, sock, status, calls, pane, moved, dropped>>
  BY DEF AckAgain, history
<1>2. /\ s \in Sessions /\ i \in Ids /\ box \in [Sockets -> Seq(Ids)]
      /\ i \in ToSet(inbox[k])
  BY <1>1, FrameIs, FrameOk
<1>3. s \in moved
  <2> SUFFICES ASSUME s \notin moved PROVE FALSE
    OBVIOUS
  <2>1. Calm(s) /\ InStep(s) /\ sock[s] = k /\ k # None BY <1>1, TheOneSocket
  <2>2. i \in ToSet(pane[s])
    <3>1. window[s] \in Seq(Ids) BY <1>2 DEF Types, PlaneT
    <3>2. i \in ToSet(window[s]) BY <1>1, <3>1 DEF Contains, ToSet
    <3> QED BY <1>2, <3>2 DEF Belongs, PaneOk
  <2>3. i \in OnWire(s) /\ ~Refused(s) BY <1>1, <1>2, <2>1 DEF OnWire, Live, Refused
  <2>4. i < i BY <2>1, <2>2, <2>3 DEF InStep, Route, Below
  <2>5. i \in Nat BY <1>2, IdsAre
  <2> HIDE DEF i
  <2> QED BY <2>4, <2>5
<1>4. \A x \in Sockets : x # k => box[x] = inbox[x] OBVIOUS
<1> HIDE DEF box, s
<1>5. /\ \A x \in Sessions : x # s => pending'[x] = pending[x] /\ sent'[x] = sent[x]
      /\ \A y \in Sockets : y # k => inbox'[y] = box[y]
  BY <1>1, <1>2, AckIs
<1>6. \A x \in Sockets : Owner[x] # s => inbox'[x] = inbox[x] /\ status'[x] = status[x]
  BY <1>1, <1>4, <1>5 DEF s
<1> QED BY <1>1, <1>2, <1>3, <1>5, <1>6, OthersInStep

LEMMA WriteFrameH ==
  ASSUME Types, Belongs, AllInStep, NEW k \in Sockets, WriteFrame(k)
  PROVE  AllInStep'
<1> DEFINE s == Owner[k] c == Dispatch(s, Frame(k), "fresh") i == Frame(k).id
           P == ToSet(pane[s]) W == Due(calls, s) B == OnWire(s) U == Unsent(s) D == dropped[s] t == typed[s]
<1>1. /\ Takes(k) /\ inbox[k] # <<>> /\ status[k] = "open" /\ calls' = Append(calls, c)
      /\ UNCHANGED <<typed, pending, sent, sock, status, pane, moved, dropped>>
  BY DEF WriteFrame, Fresh, Takes, Write, client
<1>2. inbox'[k] = Tail(inbox[k]) /\ \A x \in Sockets : x # k => inbox'[x] = inbox[x] BY <1>1, TakesW
<1>3. s \in Sessions /\ Frame(k) \in Entry /\ i = Head(inbox[k]) /\ inbox[k] \in Seq(Ids)
  BY <1>1, FrameIs
<1>4. c \in Call /\ c.sess = s /\ c.id = i /\ ~c.written BY <1>3, DispatchIs
<1>5. calls \in Seq(Call) BY <1>3, PlacesAre
<1> HIDE DEF c
<1>6. \A x \in Sessions : x # s => /\ Due(calls', x) = Due(calls, x)
                                   /\ DueRising(calls, x) => DueRising(calls', x)
  <2> HIDE DEF s, i
  <2> QED BY <1>1, <1>4, <1>5, DueAppend
<1>7. /\ Due(calls', s) = W \cup {i}
      /\ DueRising(calls, s) /\ Below(W, {i}) => DueRising(calls', s)
  <2> HIDE DEF s, i
  <2> QED BY <1>1, <1>4, <1>5, DueAppend
<1>8. ASSUME s \notin moved PROVE Calm(s)' /\ InStep(s)'
  <2>1. Calm(s) /\ InStep(s) /\ sock[s] = k /\ k # None BY <1>1, <1>8, TheOneSocket
  <2>2. Calm(s)' BY <1>1, <1>2, <2>1 DEF Calm
  <2>3. Live(s) /\ ~Refused(s) /\ Live(s)' /\ ~Refused(s)' BY <1>1, <2>1 DEF Refused, Live
  <2>4. B = ToSet(inbox[k]) /\ Rising(inbox[k]) /\ Route(P, W, B, U, D, t)
    BY <2>1, <2>3 DEF OnWire, InStep
  <2>5. /\ Rising(inbox'[k]) /\ i \in B /\ ToSet(inbox'[k]) = B \ {i} /\ Below({i}, B \ {i})
    BY <1>1, <1>2, <1>3, <2>4, RisingTail
  <2>6. Route(P, W \cup {i}, B \ {i}, U, D, t)
    <3> HIDE DEF P, W, B, U, D, t, i
    <3> QED BY <2>4, <2>5, RouteSteps
  <2>7. Below(W, {i})
    <3> HIDE DEF P, W, B, U, D, t, i
    <3> QED BY <2>4, <2>5 DEF Route, Below
  <2>8. DueRising(calls', s) /\ Rising(pane'[s]) BY <1>1, <1>7, <2>1, <2>7 DEF InStep
  <2>9. OnWire(s)' = B \ {i} /\ Unsent(s)' = U BY <1>1, <2>1, <2>3, <2>5 DEF OnWire, Unsent
  <2> QED BY <1>1, <1>7, <2>1, <2>2, <2>3, <2>5, <2>6, <2>8, <2>9 DEF InStep
<1>9. \A x \in Sockets : Owner[x] # s => inbox'[x] = inbox[x] /\ status'[x] = status[x] BY <1>1, <1>2
<1> HIDE DEF s
<1> QED BY <1>1, <1>3, <1>6, <1>8, <1>9, OthersInStep

LEMMA RefuseFrameH ==
  ASSUME Types, Belongs, AllInStep, NEW k \in Sockets, RefuseFrame(k)
  PROVE  AllInStep'
<1> DEFINE s == Owner[k]
           P == ToSet(pane[s]) W == Due(calls, s) B == OnWire(s) U == Unsent(s) D == dropped[s] t == typed[s]
<1>1. /\ Takes(k) /\ inbox[k] # <<>> /\ status[k] = "open"
      /\ status' = [status EXCEPT ![k] = "refused"]
      /\ UNCHANGED <<typed, pending, sent, sock, calls, pane, moved, dropped>>
  BY DEF RefuseFrame, Fresh, Takes, client, history
<1>2. \A x \in Sockets : x # k => inbox'[x] = inbox[x] BY <1>1, TakesW
<1>3. s \in Sessions BY OwnerAssumption
<1>4. status'[k] = "refused" /\ \A x \in Sockets : x # k => status'[x] = status[x]
  <2>1. status \in [Sockets -> {"unused", "open", "refused", "closed"}] BY DEF Types, WireT
  <2> QED BY <1>1, <2>1
<1>5. ASSUME s \notin moved PROVE Calm(s)' /\ InStep(s)'
  <2>1. Calm(s) /\ InStep(s) /\ sock[s] = k /\ k # None BY <1>1, <1>5, TheOneSocket
  <2>2. Calm(s)' BY <1>1, <1>2, <1>4, <2>1 DEF Calm
  <2>3. ~Refused(s) /\ ~Live(s)' /\ Refused(s)' BY <1>1, <1>4, <2>1 DEF Refused, Live
  <2>4. Whole(P, W, D)
    <3>1. Route(P, W, B, U, D, t) BY <2>1, <2>3 DEF InStep
    <3>2. t \in Nat BY <1>3, PlacesAre
    <3> HIDE DEF P, W, B, U, D, t
    <3> QED BY <3>1, <3>2, RouteWhole
  <2> QED BY <1>1, <2>1, <2>2, <2>3, <2>4 DEF InStep
<1>6. \A x \in Sockets : Owner[x] # s => inbox'[x] = inbox[x] /\ status'[x] = status[x] BY <1>2, <1>4
<1> HIDE DEF s
<1> QED BY <1>1, <1>3, <1>5, <1>6, OthersInStep

\* Without a failed write there is nothing to drop.
LEMMA PlaneSeesCloseH ==
  ASSUME Types, Belongs, Quiet, AllInStep, NEW k \in Sockets, PlaneSeesClose(k)
  PROVE  Quiet' /\ AllInStep'
<1> DEFINE s == Owner[k]
<1>1. /\ status[k] \in {"open", "refused"} /\ sock[s] # k
      /\ status' = [status EXCEPT ![k] = "closed"]
      /\ inbox' = [inbox EXCEPT ![k] = <<>>]
      /\ hold' = [hold EXCEPT ![s] = NoHold]
      /\ calls' = [j \in DOMAIN calls |->
                     IF calls[j].sess = s /\ calls[j].via = "drain" THEN [calls[j] EXCEPT !.via = "dropped"]
                     ELSE calls[j]]
      /\ UNCHANGED <<typed, pending, sent, sock, up, pane, moved, dropped>>
  BY DEF PlaneSeesClose, DropHold, client
<1>2. s \in Sessions /\ calls \in Seq(Call) BY OwnerAssumption, PlacesAre
<1>3. DOMAIN calls = 1..Len(calls) /\ calls = [j \in DOMAIN calls |-> calls[j]] BY <1>2
<1>4. \A j \in DOMAIN calls : calls[j].via # "drain" BY <1>3 DEF Quiet
<1>5. calls' = calls
  <2>1. calls' = [j \in DOMAIN calls |-> calls[j]] BY <1>1, <1>4
  <2> QED BY <1>3, <2>1
<1>6. Quiet'
  <2>1. hold \in [Sessions -> Hold] BY DEF Types, PlaneT
  <2>2. \A x \in Sessions : hold'[x] = NoHold BY <1>1, <1>2, <2>1 DEF Quiet
  <2> QED BY <1>1, <1>5, <2>2 DEF Quiet
<1>7. s \in moved
  <2> SUFFICES ASSUME s \notin moved PROVE FALSE
    OBVIOUS
  <2>1. status[k] # "unused" BY <1>1
  <2> QED BY <1>1, <2>1, TheOneSocket
<1>8. \A x \in Sockets : x # k => inbox'[x] = inbox[x] /\ status'[x] = status[x]
  <2>1. /\ inbox \in [Sockets -> Seq(Ids)]
        /\ status \in [Sockets -> {"unused", "open", "refused", "closed"}]
    BY DEF Types, WireT
  <2> QED BY <1>1, <2>1
<1>9. \A x \in Sockets : Owner[x] # s => inbox'[x] = inbox[x] /\ status'[x] = status[x] BY <1>8
<1> HIDE DEF s
<1> QED BY <1>1, <1>2, <1>5, <1>6, <1>7, <1>9, OthersInStep

LEMMA NodeWritesH ==
  ASSUME Types, Belongs, Quiet, AllInStep, NodeWrites
  PROVE  Quiet' /\ AllInStep'
<1>1. PICK j \in DOMAIN calls :
        /\ ~calls[j].written
        /\ \A i \in 1..(j - 1) : calls[i].written
        /\ pane' = [pane EXCEPT ![calls[j].sess] = Append(@, calls[j].id)]
        /\ calls' = IF calls[j].waiting THEN [calls EXCEPT ![j].written = TRUE] ELSE RemoveAt(calls, j)
        /\ UNCHANGED <<client, wire, plane, up, history>>
  BY DEF NodeWrites
<1>2. calls \in Seq(Call) /\ DOMAIN calls = 1..Len(calls) /\ pane \in [Sessions -> Seq(Ids)]
  BY CallsAre DEF Types, NodeT
<1>3. j \in 1..Len(calls) /\ calls[j] \in Call
  <2>1. j \in 1..Len(calls) BY <1>1, <1>2
  <2>2. calls[j] \in Call BY <1>2, <2>1, ElementOfSeq
  <2> QED BY <2>1, <2>2
<1>4. PICK s \in Sessions, i \in Ids : s = calls[j].sess /\ i = calls[j].id BY <1>3 DEF Call
<1> DEFINE P == ToSet(pane[s]) W == Due(calls, s) B == OnWire(s) U == Unsent(s) D == dropped[s] t == typed[s]
<1>5. calls' = [calls EXCEPT ![j].written = TRUE] BY <1>1, <1>3 DEF Quiet
<1>6. UNCHANGED <<typed, pending, sent, sock, status, inbox, hold, up, moved, dropped>>
  BY <1>1 DEF client, wire, plane, history
<1>7. /\ Len(calls') = Len(calls) /\ \A n \in 1..Len(calls) : n # j => calls'[n] = calls[n]
      /\ calls'[j].sess = s /\ calls'[j].id = i /\ calls'[j].written
      /\ calls'[j].waiting /\ calls'[j].via = "fresh"
  <2>1. calls' = [n \in 1..Len(calls) |-> IF n = j THEN [calls[j] EXCEPT !.written = TRUE] ELSE calls[n]]
    BY <1>2, <1>5
  <2>2. calls'[j] = [calls[j] EXCEPT !.written = TRUE] /\ \A n \in 1..Len(calls) : n # j => calls'[n] = calls[n]
    BY <1>3, <2>1
  <2>3. calls[j].waiting /\ calls[j].via = "fresh" BY <1>3 DEF Quiet
  <2>4. Len(calls') = Len(calls)
    <3>1. DOMAIN calls' = 1..Len(calls) BY <2>1
    <3>2. Len(calls) \in Nat BY <1>2, LenProperties
    <3> QED BY <3>1, <3>2
  <2> QED BY <1>3, <1>4, <2>2, <2>3, <2>4 DEF Call
<1>8. Quiet'
  <2>1. \A n \in 1..Len(calls') : calls'[n].waiting /\ calls'[n].via = "fresh" BY <1>7 DEF Quiet
  <2>2. up' /\ \A x \in Sessions : hold'[x] = NoHold BY <1>6 DEF Quiet
  <2> QED BY <2>1, <2>2 DEF Quiet
<1>9. ~calls[j].written /\ \A n \in 1..(j - 1) : calls[n].written BY <1>1
<1>10. /\ calls \in Seq(Call) /\ j \in 1..Len(calls)
       /\ calls'[j].sess = calls[j].sess /\ calls'[j].id = calls[j].id
  BY <1>2, <1>3, <1>7, <1>4
<1>11. \A x : /\ DueRising(calls, x) => DueRising(calls', x)
              /\ calls[j].sess # x => Due(calls', x) = Due(calls, x)
              /\ calls[j].sess = x /\ DueRising(calls, x) =>
                   /\ calls[j].id \in Due(calls, x)
                   /\ Due(calls', x) = Due(calls, x) \ {calls[j].id}
                   /\ Below({calls[j].id}, Due(calls, x) \ {calls[j].id})
  <2> DEFINE cs == calls r == calls'
  <2> HIDE DEF cs, r
  <2>1. /\ cs \in Seq(Call) /\ j \in 1..Len(cs) /\ ~cs[j].written
        /\ \A n \in 1..(j - 1) : cs[n].written
    BY <1>9, <1>10 DEF cs
  <2>2. /\ Len(r) = Len(cs) /\ \A n \in 1..Len(cs) : n # j => r[n] = cs[n]
        /\ r[j].sess = cs[j].sess /\ r[j].id = cs[j].id /\ r[j].written
    BY <1>7, <1>10 DEF cs, r
  <2>3. \A x : /\ DueRising(cs, x) => DueRising(r, x)
               /\ cs[j].sess # x => Due(r, x) = Due(cs, x)
               /\ cs[j].sess = x /\ DueRising(cs, x) =>
                    /\ cs[j].id \in Due(cs, x)
                    /\ Due(r, x) = Due(cs, x) \ {cs[j].id}
                    /\ Below({cs[j].id}, Due(cs, x) \ {cs[j].id})
    BY <2>1, <2>2, DueWritten
  <2> QED BY <2>3 DEF cs, r
<1>12. ASSUME NEW x
      PROVE  /\ DueRising(calls, x) => DueRising(calls', x)
             /\ s # x => Due(calls', x) = Due(calls, x)
  BY <1>4, <1>11
<1>13. DueRising(calls, s) => i \in W /\ Due(calls', s) = W \ {i} /\ Below({i}, W \ {i})
  BY <1>4, <1>11
<1>14. pane'[s] = Append(pane[s], i) /\ \A x \in Sessions : x # s => pane'[x] = pane[x]
  BY <1>1, <1>2, <1>4
<1>15. ASSUME s \notin moved PROVE Calm(s)' /\ InStep(s)'
  <2>1. Calm(s) /\ InStep(s) /\ DueRising(calls, s) /\ Rising(pane[s]) BY <1>3, <1>15 DEF AllInStep, InStep
  <2>2. Calm(s)' BY <1>6, <2>1 DEF Calm
  <2>3. i \in W /\ Due(calls', s) = W \ {i} /\ Below({i}, W \ {i}) BY <1>13, <2>1
  <2>4. pane[s] \in Seq(Ids) /\ ToSet(pane'[s]) = P \cup {i}
    <3>1. pane[s] \in Seq(Ids) BY <1>2
    <3> QED BY <1>14, <3>1, ToSetAppend DEF P
  <2>5. Below(P, W) BY <2>1 DEF InStep, Route, Whole, Below
  <2>6. Rising(pane'[s])
    <3>1. Below(P, {i}) BY <2>3, <2>5 DEF Below
    <3> QED BY <1>14, <2>1, <2>4, <3>1, RisingAppend DEF P
  <2>7. DueRising(calls', s) BY <1>12, <2>1
  <2>8. /\ Refused(s)' <=> Refused(s)
        /\ Live(s)' <=> Live(s)
        /\ OnWire(s)' = B /\ Unsent(s)' = U
    BY <1>6 DEF Refused, Live, OnWire, Unsent
  <2>9. Live(s)' => Rising(inbox'[sock'[s]]) BY <1>6, <2>1, <2>8 DEF InStep
  <2>10. CASE Refused(s)
    <3>1. Whole(P, W, D) BY <2>1, <2>10 DEF InStep
    <3>2. Whole(P \cup {i}, W \ {i}, D)
      <4> HIDE DEF P, W, D
      <4> QED BY <2>3, <3>1, WholeSteps
    <3> QED BY <1>6, <2>2, <2>3, <2>4, <2>6, <2>7, <2>8, <2>9, <2>10, <3>2 DEF InStep
  <2>11. CASE ~Refused(s)
    <3>1. Route(P, W, B, U, D, t) BY <2>1, <2>11 DEF InStep
    <3>2. Route(P \cup {i}, W \ {i}, B, U, D, t)
      <4> HIDE DEF P, W, B, U, D, t
      <4> QED BY <2>3, <3>1, RouteSteps
    <3> QED BY <1>6, <2>2, <2>3, <2>4, <2>6, <2>7, <2>8, <2>9, <2>11, <3>2 DEF InStep
  <2> QED BY <2>10, <2>11
<1>16. \A x \in Sockets : inbox'[x] = inbox[x] /\ status'[x] = status[x] BY <1>6
<1> QED BY <1>6, <1>12, <1>14, <1>15, <1>16, <1>8, OthersInStep

\* A write is answered and acked: the freed slot is used, behind the wire.
LEMMA ResolvedH ==
  ASSUME Types, Belongs, Quiet, AllInStep, NEW j \in DOMAIN calls, Resolved(j)
  PROVE  Quiet' /\ AllInStep'
<1>1. calls \in Seq(Call) /\ DOMAIN calls = 1..Len(calls) BY CallsAre
<1>2. j \in 1..Len(calls) /\ calls[j] \in Call
  <2>1. j \in 1..Len(calls) BY <1>1
  <2> QED BY <1>1, <2>1, ElementOfSeq
<1>3. PICK s \in Sessions, k \in Sockets, i \in Ids :
         s = calls[j].sess /\ k = calls[j].sock /\ i = calls[j].id
  BY <1>2 DEF Call
<1> DEFINE left == sent[s] \ {i} N == Flushable(pending[s] \ {i}, left) q == inbox[k] r == InOrder(N)
           P == ToSet(pane[s]) W == Due(calls, s) B == OnWire(s) U == Unsent(s) D == dropped[s] t == typed[s]
<1>4. /\ calls[j].written /\ Ack(s, k, i, inbox)
      /\ UNCHANGED <<typed, sock, status, up, pane, moved, dropped>>
  BY <1>3 DEF Resolved
<1>5. UNCHANGED hold /\ calls' = RemoveAt(calls, j)
  <2>1. calls[j].via = "fresh" BY <1>2 DEF Quiet
  <2> QED BY <2>1 DEF Resolved
<1>6. Quiet'
  <2>1. /\ Len(calls') = Len(calls) - 1 /\ Len(calls) \in Nat
        /\ \A n \in 1..(Len(calls) - 1) : calls'[n] = IF n < j THEN calls[n] ELSE calls[n + 1]
    BY <1>1, <1>2, <1>5, RemoveAtIs, LenProperties
  <2>2. \A n \in 1..Len(calls') : n \in 1..Len(calls) /\ n + 1 \in 1..Len(calls) BY <2>1
  <2>3. \A n \in 1..Len(calls') : calls'[n].waiting /\ calls'[n].via = "fresh"
    BY <2>1, <2>2 DEF Quiet
  <2>4. up' /\ \A x \in Sessions : hold'[x] = NoHold BY <1>4, <1>5 DEF Quiet
  <2> QED BY <2>3, <2>4 DEF Quiet
<1>7. \A x : Due(calls', x) = Due(calls, x) /\ (DueRising(calls, x) => DueRising(calls', x))
  BY <1>1, <1>2, <1>4, <1>5, DueSettled
<1>8. Owner[k] = s /\ i \in ToSet(pane[s])
  <2>1. calls[j] \in ToSet(calls) BY <1>1, <1>2, ToSetIs
  <2>2. CallOk(calls[j]) BY <2>1 DEF Belongs, CallsOk
  <2> QED BY <1>3, <1>4, <2>2 DEF CallOk
<1>9. /\ \A x \in Sessions : x # s => pending'[x] = pending[x] /\ sent'[x] = sent[x]
      /\ \A y \in Sockets : y # k => inbox'[y] = inbox[y]
      /\ ~Hears(s, k) => pending' = pending /\ sent' = sent /\ inbox' = inbox
  <2>1. inbox \in [Sockets -> Seq(Ids)] BY DEF Types, WireT
  <2> QED BY <1>3, <1>4, <2>1, AckIs
<1>10. ASSUME s \notin moved PROVE Calm(s)' /\ InStep(s)'
  <2>1. Calm(s) /\ InStep(s) BY <1>10 DEF AllInStep
  <2>2. Rising(pane'[s]) /\ DueRising(calls', s) BY <1>4, <1>7, <2>1 DEF InStep
  <2>3. CASE ~Hears(s, k)
    <3>1. pending'[s] = pending[s] /\ sent'[s] = sent[s] /\ inbox' = inbox BY <1>9, <2>3
    <3> QED BY <1>4, <1>7, <2>1, <3>1, StaysInStep
  <2>4. CASE Hears(s, k)
    <3>1. sock[s] = k /\ status[k] = "open" /\ k # None BY <2>4, NoneAssumption DEF Hears
    <3>2. /\ pending' = [pending EXCEPT ![s] = @ \ {i}]
          /\ sent' = [sent EXCEPT ![s] = left \cup N]
          /\ inbox' = [inbox EXCEPT ![k] = @ \o r]
      BY <1>4, <3>1 DEF Ack
    <3>3. /\ inbox \in [Sockets -> Seq(Ids)] /\ pending \in [Sessions -> SUBSET Ids]
          /\ sent \in [Sessions -> SUBSET Ids]
      BY DEF Types, WireT, PageT
    <3>4. inbox'[k] = q \o r /\ pending'[s] = pending[s] \ {i} /\ sent'[s] = left \cup N
      BY <3>2, <3>3
    <3>5. Live(s) /\ ~Refused(s) /\ Live(s)' /\ ~Refused(s)' BY <1>4, <3>1 DEF Live, Refused
    <3>6. q \in Seq(Ids) /\ Rising(q) /\ Route(P, W, ToSet(q), U, D, t)
      BY <2>1, <3>1, <3>3, <3>5 DEF InStep, OnWire
    <3>7. i \notin U
      <4>1. i \in U => i < i BY <1>8, <3>6 DEF Route, Below
      <4>2. i \in Nat BY IdsAre
      <4> QED BY <4>1, <4>2
    <3>8. N \subseteq U /\ r \in Seq(Ids) /\ ToSet(r) = N /\ Rising(r) /\ Below(N, U \ N)
      <4>1. pending[s] \ {i} \subseteq Ids /\ left \subseteq Ids BY <3>3
      <4>2. U = (pending[s] \ {i}) \ left BY <3>7 DEF Unsent
      <4>3. N = Flushable(pending[s] \ {i}, left) OBVIOUS
      <4>4. N \subseteq U /\ N \subseteq Ids /\ Below(N, U \ N)
        <5> DEFINE u == pending[s] \ {i}
        <5>1. u \subseteq Ids /\ U = u \ left /\ N = Flushable(u, left) BY <4>1, <4>2, <4>3
        <5> HIDE DEF u, U, N, left
        <5> QED BY <4>1, <5>1, OldestFirst
      <4> HIDE DEF U, N
      <4>5. r \in Seq(Ids) /\ ToSet(r) = N /\ Rising(r) BY <4>4, IdsInOrder, InOrderRises
      <4> QED BY <4>4, <4>5
    <3>9. Rising(q \o r) /\ Route(P, W, ToSet(q \o r), U \ N, D, t)
      <4> HIDE DEF P, W, U, D, t, q, r, N
      <4> QED BY <3>6, <3>8, SendsOn
    <3>10. Unsent(s)' = U \ N
      <4> HIDE DEF N
      <4> QED BY <3>4, <3>7 DEF Unsent
    <3>11. OnWire(s)' = ToSet(q \o r) BY <1>4, <3>1, <3>4, <3>5 DEF OnWire
    <3>12. Calm(s)' BY <1>4, <1>9, <2>1, <3>1 DEF Calm
    <3> HIDE DEF N, r
    <3> QED BY <1>4, <1>7, <2>2, <3>1, <3>4, <3>5, <3>9, <3>10, <3>11, <3>12 DEF InStep
  <2> QED BY <2>3, <2>4
<1>11. \A x \in Sockets : Owner[x] # s => inbox'[x] = inbox[x] /\ status'[x] = status[x]
  BY <1>4, <1>8, <1>9
<1> QED BY <1>4, <1>6, <1>7, <1>9, <1>10, <1>11, OthersInStep

\* Until the first fault nothing waits in a hold, so nothing joins one, nothing
\* is reclaimed, no write is left behind and the link is never away.
LEMMA QuietSteps ==
  ASSUME Types, Quiet, [Next]_vars, faults' = 0
  PROVE  /\ faults = 0
         /\ \/ \E s \in Sessions : Type(s) \/ WindowFires(s) \/ PageLosesSocket(s)
            \/ \E s \in Sessions, k \in Sockets : Attach(s, k)
            \/ \E k \in Sockets : IgnoreFrame(k) \/ AckAgain(k) \/ WriteFrame(k)
                                    \/ RefuseFrame(k) \/ PlaneSeesClose(k)
            \/ NodeWrites
            \/ \E j \in DOMAIN calls : Resolved(j)
            \/ UNCHANGED vars
<1>1. faults \in Nat BY DEF Types, HistoryT
<1>2. faults + 1 # 0 BY <1>1
<1>3. \A s \in Sessions : hold[s].queue = <<>> /\ ~hold[s].draining BY DEF Quiet, NoHold
<1>4. \A k \in Sockets : ~JoinHold(k) BY <1>3, OwnerAssumption DEF JoinHold
<1>5. \A k \in Sockets : ~WriteReclaiming(k)
  <2>1. \A s \in Sessions : Idle(s) = {}
    <3>1. DOMAIN <<>> = {} OBVIOUS
    <3> QED BY <1>3, <3>1 DEF Idle
  <2> QED BY <2>1 DEF WriteReclaiming
<1>6. ~LinkDrops BY <1>2 DEF LinkDrops
<1>7. ~ChainIsLost /\ ~NodeReady BY DEF Quiet, ChainIsLost, NodeReady
<1>8. \A j \in DOMAIN calls : ~Rejected(j) BY <1>2 DEF Quiet, Rejected
<1>9. \/ \E s \in Sessions : Type(s) \/ WindowFires(s) \/ PageLosesSocket(s)
      \/ \E s \in Sessions, k \in Sockets : Attach(s, k)
      \/ \E k \in Sockets : IgnoreFrame(k) \/ AckAgain(k) \/ WriteFrame(k)
                              \/ RefuseFrame(k) \/ PlaneSeesClose(k)
      \/ NodeWrites
      \/ \E j \in DOMAIN calls : Resolved(j)
      \/ UNCHANGED vars
  BY <1>4, <1>5, <1>6, <1>7, <1>8, NextCases
<1>10. faults' = faults
  BY <1>9 DEF Type, WindowFires, PageLosesSocket, Attach, IgnoreFrame, AckAgain, WriteFrame,
              RefuseFrame, PlaneSeesClose, NodeWrites, Resolved, vars, history
<1> QED BY <1>9, <1>10

LEMMA NextH ==
  ASSUME Types, Types', Belongs, Steady, [Next]_vars
  PROVE  Steady'
<1> SUFFICES ASSUME faults' = 0 PROVE Quiet' /\ AllInStep'
  BY DEF Steady, AllInStep
<1>1. Quiet
  <2>1. faults \in Nat BY DEF Types, HistoryT
  <2>2. faults = 0
    <3>1. faults' = faults \/ faults' = faults + 1
      BY NextCases DEF Type, WindowFires, PageLosesSocket, Attach, IgnoreFrame, AckAgain, WriteFrame, JoinHold,
           WriteReclaiming, RefuseFrame, PlaneSeesClose, NodeWrites, LinkDrops, ChainIsLost, NodeReady,
           Resolved, Rejected, vars, history
    <3> QED BY <2>1, <3>1
  <2> QED BY <2>2 DEF Steady
<1>2. /\ faults = 0
      /\ \/ \E s \in Sessions : Type(s) \/ WindowFires(s) \/ PageLosesSocket(s)
         \/ \E s \in Sessions, k \in Sockets : Attach(s, k)
         \/ \E k \in Sockets : IgnoreFrame(k) \/ AckAgain(k) \/ WriteFrame(k)
                                 \/ RefuseFrame(k) \/ PlaneSeesClose(k)
         \/ NodeWrites
         \/ \E j \in DOMAIN calls : Resolved(j)
         \/ UNCHANGED vars
  BY <1>1, QuietSteps
<1>3. AllInStep BY <1>2 DEF Steady, AllInStep
<1>4. UNCHANGED <<up, hold>> /\ calls' = calls => Quiet' BY <1>1 DEF Quiet
<1>5. CASE \E s \in Sessions : Type(s) \/ WindowFires(s) \/ PageLosesSocket(s)
  <2>1. UNCHANGED <<up, hold, calls>> BY <1>5 DEF Type, WindowFires, PageLosesSocket, plane
  <2> QED BY <1>3, <1>4, <1>5, <2>1, TypeH, WindowFiresH, PageLosesSocketH
<1>6. CASE \E s \in Sessions, k \in Sockets : Attach(s, k)
  <2>1. UNCHANGED <<up, hold, calls>> BY <1>6 DEF Attach, plane
  <2> QED BY <1>3, <1>4, <1>6, <2>1, AttachH
<1>7. CASE \E k \in Sockets : IgnoreFrame(k) \/ AckAgain(k) \/ RefuseFrame(k)
  <2>1. UNCHANGED <<up, hold, calls>> BY <1>7 DEF IgnoreFrame, AckAgain, RefuseFrame, plane
  <2> QED BY <1>3, <1>4, <1>7, <2>1, IgnoreFrameH, AckAgainH, RefuseFrameH
<1>8. CASE \E k \in Sockets : WriteFrame(k)
  <2>1. PICK k \in Sockets : WriteFrame(k) BY <1>8
  <2> DEFINE c == Dispatch(Owner[k], Frame(k), "fresh")
  <2>2. UNCHANGED <<up, hold>> /\ calls' = Append(calls, c) /\ inbox[k] # <<>>
    BY <2>1 DEF WriteFrame, Fresh, Takes, Write
  <2>3. c \in Call /\ c.waiting /\ c.via = "fresh" BY <2>2, FrameIs, DispatchIs
  <2>4. calls \in Seq(Call) BY CallsAre
  <2> HIDE DEF c
  <2>5. /\ Len(calls) \in Nat /\ Len(calls') = Len(calls) + 1 /\ calls'[Len(calls) + 1] = c
        /\ \A n \in 1..Len(calls) : calls'[n] = calls[n]
    BY <2>2, <2>3, <2>4, ToSetAppend
  <2>6. \A n \in 1..Len(calls') : n \in 1..Len(calls) \/ n = Len(calls) + 1 BY <2>5
  <2>7. \A n \in 1..Len(calls') : calls'[n].waiting /\ calls'[n].via = "fresh"
    BY <1>1, <2>3, <2>5, <2>6 DEF Quiet
  <2>8. Quiet' BY <1>1, <2>2, <2>7 DEF Quiet
  <2> QED BY <1>3, <2>1, <2>8, WriteFrameH
<1>9. CASE \E k \in Sockets : PlaneSeesClose(k) BY <1>1, <1>3, <1>9, PlaneSeesCloseH
<1>10. CASE NodeWrites BY <1>1, <1>3, <1>10, NodeWritesH
<1>11. CASE \E j \in DOMAIN calls : Resolved(j) BY <1>1, <1>3, <1>11, ResolvedH
<1>12. CASE UNCHANGED vars
  <2>1. UNCHANGED <<typed, pending, sent, sock, status, inbox, hold, up, calls, pane, moved, dropped>>
    BY <1>12 DEF vars, client, wire, plane, history
  <2>2. AllInStep'
    <3> SUFFICES ASSUME NEW s \in Sessions \ moved PROVE Calm(s)' /\ InStep(s)'
      BY <2>1 DEF AllInStep
    <3>1. Calm(s) /\ InStep(s) BY <1>3 DEF AllInStep
    <3> QED BY <2>1, <3>1, StaysInStep
  <2> QED BY <1>4, <2>1, <2>2
<1> QED BY <1>2, <1>5, <1>6, <1>7, <1>8, <1>9, <1>10, <1>11, <1>12

LEMMA InitH == Init => Steady
<1> SUFFICES ASSUME Init PROVE Quiet /\ \A s \in Sessions : Calm(s) /\ InStep(s)
  BY DEF Steady
<1>1. Len(<<>>) = 0 /\ 1..0 = {} OBVIOUS
<1>2. ToSet(<<>>) = {}
  <2>1. DOMAIN <<>> = {} OBVIOUS
  <2> QED BY <2>1 DEF ToSet
<1>3. Quiet BY <1>1 DEF Init, Quiet
<1>4. ASSUME NEW s \in Sessions PROVE Calm(s) /\ InStep(s)
  <2>1. /\ pane[s] = <<>> /\ calls = <<>> /\ sock[s] = None /\ sent[s] = {} /\ pending[s] = {}
        /\ typed[s] = 0 /\ \A k \in Sockets : status[k] = "unused" /\ inbox[k] = <<>>
    BY DEF Init
  <2>2. Calm(s) BY <2>1 DEF Calm
  <2>3. ~Live(s) /\ ~Refused(s) BY <2>1 DEF Live, Refused
  <2>4. OnWire(s) = {} /\ Unsent(s) = {} BY <2>1, <2>3 DEF OnWire, Unsent
  <2>5. Undone(calls, s) = {} BY <1>1, <2>1 DEF Undone
  <2>6. Due(calls, s) = {} /\ DueRising(calls, s) BY <2>5 DEF Due, DueRising
  <2>7. Rising(pane[s]) BY <1>1, <2>1 DEF Rising
  <2>8. \A X : Route({}, {}, {}, {}, X, 0) BY <1>1 DEF Route, Below
  <2> QED BY <1>2, <2>1, <2>2, <2>3, <2>4, <2>6, <2>7, <2>8 DEF InStep
<1> QED BY <1>3, <1>4

LEMMA SteadyMeans ==
  ASSUME Types, Belongs, Steady
  PROVE  HealthyPathIsExact
<1> SUFFICES ASSUME faults = 0, NEW s \in Sessions \ moved, NEW n \in DOMAIN pane[s]
             PROVE  LET before == {pane[s][m] : m \in 1..(n - 1)} IN
                    /\ before \subseteq 1..(pane[s][n] - 1)
                    /\ 1..(pane[s][n] - 1) \subseteq before \cup dropped[s]
  BY DEF HealthyPathIsExact
<1> DEFINE p == pane[s] before == {p[m] : m \in 1..(n - 1)} W == Due(calls, s)
<1>1. InStep(s) /\ typed[s] \in Nat /\ p \in Seq(Ids) BY PlacesAre DEF Steady
<1>2. Rising(p) BY <1>1 DEF InStep
<1>3. Whole(ToSet(p), W, dropped[s])
  <2>1. CASE Refused(s) BY <1>1, <2>1 DEF InStep
  <2>2. CASE ~Refused(s)
    <3>1. Route(ToSet(p), W, OnWire(s), Unsent(s), dropped[s], typed[s]) BY <1>1, <2>2 DEF InStep
    <3> HIDE DEF p, W
    <3> QED BY <1>1, <3>1, RouteWhole
  <2> QED BY <2>1, <2>2
<1>4. Len(p) \in Nat /\ n \in 1..Len(p) /\ \A m \in 1..Len(p) : p[m] \in ToSet(p) /\ p[m] \in Nat /\ p[m] >= 1
  <2>1. DOMAIN p = 1..Len(p) /\ Len(p) \in Nat BY <1>1, LenProperties
  <2>2. \A m \in 1..Len(p) : p[m] \in ToSet(p) /\ p[m] \in Ids BY <1>1, ToSetIs, ElementOfSeq
  <2>3. \A i \in Ids : i \in Nat /\ i >= 1 BY IdsAre DEF Ids
  <2> QED BY <2>1, <2>2, <2>3
<1>5. \A x : x \in ToSet(p) => \E m \in 1..Len(p) : p[m] = x BY <1>1, ToSetIs
<1> HIDE DEF p, W
<1>6. before \subseteq 1..(p[n] - 1)
  <2> SUFFICES ASSUME NEW m \in 1..(n - 1) PROVE p[m] \in 1..(p[n] - 1)
    OBVIOUS
  <2>1. m \in 1..Len(p) /\ m < n BY <1>4
  <2>2. p[m] < p[n] BY <1>2, <1>4, <2>1 DEF Rising
  <2> QED BY <1>4, <2>1, <2>2
<1>7. ASSUME NEW x \in 1..(p[n] - 1) PROVE x \in before \cup dropped[s]
  <2>1. p[n] \in ToSet(p) /\ x < p[n] /\ x \in Nat /\ p[n] \in Nat BY <1>4
  <2>2. x \in ToSet(p) \cup W \cup dropped[s] BY <1>3, <2>1 DEF Whole
  <2>3. x \notin W
    <3>1. x \in W => p[n] < x BY <1>3, <2>1 DEF Whole, Below
    <3> QED BY <2>1, <3>1
  <2>4. ASSUME x \in ToSet(p) PROVE x \in before
    <3>1. PICK m \in 1..Len(p) : p[m] = x BY <1>5, <2>4
    <3>2. m < n
      <4>1. n < m => p[n] < p[m] BY <1>2, <1>4 DEF Rising
      <4> QED BY <1>4, <2>1, <3>1, <4>1
    <3>3. m \in 1..(n - 1) BY <1>4, <3>1, <3>2
    <3> QED BY <3>1, <3>3
  <2> QED BY <2>2, <2>3, <2>4
<1> QED BY <1>6, <1>7 DEF p

\* Until the first fault, the pane of a page that kept its socket takes the
\* frames of the page once each, in the order they were typed, and skips only
\* what the page's own cap made it forget; for any number of pages and any
\* in-flight, queue, budget and window sizes.
THEOREM HealthyOrder == Spec => []HealthyPathIsExact
<1>1. Init => Steady BY InitH
<1>2. KInv /\ KInv' /\ Steady /\ [Next]_vars => Steady' BY NextH DEF KInv
<1>3. KInv /\ Steady => HealthyPathIsExact BY SteadyMeans DEF KInv
<1> QED BY <1>1, <1>2, <1>3, KInvHolds, PTL DEF Spec
=============================================================================
