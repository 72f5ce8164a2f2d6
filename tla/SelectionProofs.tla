--------------------------- MODULE SelectionProofs ---------------------------
(***************************************************************************)
(* What SelectAt computes, for every sequence: the sequence read through   *)
(* the increasing enumeration of the places kept.                          *)
(***************************************************************************)
EXTENDS Selection, SequenceTheorems, WellFoundedInduction, TLAPS

(* Induction. The theorems of NaturalsInduction have the predicate as a    *)
(* parameter; here an induction looks at the least number that fails.      *)

\* A set of numbers that is not empty has a least one.
LEMMA LeastNumber ==
    ASSUME NEW T \in SUBSET Nat, T # {}
    PROVE  \E m \in T : \A k \in T : m <= k
<1> DEFINE R == OpToRel(<, Nat)
<1>1. IsWellFoundedOn(R, Nat)
  BY NatLessThanWellFounded
<1>2. \A a, b \in Nat : <<a, b>> \in R <=> a < b
  BY DEF OpToRel
<1> HIDE DEF R
<1>3. PICK m \in T : \A k \in T : ~(<<k, m>> \in R)
  BY <1>1, WFMin
<1>4. ASSUME NEW k \in T PROVE m <= k
  <2>1. k \in Nat /\ m \in Nat
    OBVIOUS
  <2>2. ~(<<k, m>> \in R)
    BY <1>3
  <2>3. ~(k < m)
    BY <1>2, <2>1, <2>2
  <2> QED BY <2>1, <2>3
<1> QED BY <1>4

-----------------------------------------------------------------------------
(* What SelectAt returns.                                                  *)

\* One step of the recursion in SelectAt.
Grow(es, I, f, i) ==
    IF i = 0 THEN <<>>
    ELSE IF i \in I THEN Append(f[i - 1], es[i]) ELSE f[i - 1]

Solvable(E, es, I) ==
    \A n \in 0 .. Len(es) :
        \E f \in [0 .. n -> Seq(E)] : \A i \in 0 .. n : f[i] = Grow(es, I, f, i)

\* The recursion has a solution up to every number.
LEMMA GrowExists ==
    ASSUME NEW E, NEW es \in Seq(E), NEW I
    PROVE  Solvable(E, es, I)
<1> DEFINE Ok(k) == \E f \in [0 .. k -> Seq(E)] : \A i \in 0 .. k : f[i] = Grow(es, I, f, i)
           T == {k \in 0 .. Len(es) : ~Ok(k)}
<1>1. SUFFICES ASSUME T # {} PROVE FALSE
  BY DEF Solvable
<1>2. T \in SUBSET Nat
  OBVIOUS
<1> HIDE DEF T
<1>3. PICK m \in T : \A k \in T : m <= k
  BY <1>1, <1>2, LeastNumber
<1> USE DEF T
<1>4. m \in 0 .. Len(es) /\ ~Ok(m)
  BY <1>3
<1>5. CASE m = 0
  <2> DEFINE f == [i \in 0 .. 0 |-> <<>>]
  <2>1. f \in [0 .. 0 -> Seq(E)] /\ \A i \in 0 .. 0 : f[i] = Grow(es, I, f, i)
    BY DEF Grow
  <2> QED BY <1>4, <1>5, <2>1
<1>6. CASE m # 0
  <2>1. m - 1 \in 0 .. Len(es) /\ ~(m <= m - 1)
    BY <1>4, <1>6
  <2> HIDE DEF T
  <2>9. m - 1 \notin T
    BY <1>3, <2>1
  <2> USE DEF T
  <2>2. PICK f \in [0 .. m - 1 -> Seq(E)] : \A i \in 0 .. m - 1 : f[i] = Grow(es, I, f, i)
    BY <2>1, <2>9
  <2> DEFINE g == [i \in 0 .. m |-> IF i = m THEN Grow(es, I, f, m) ELSE f[i]]
  <2>3. es[m] \in E /\ f[m - 1] \in Seq(E)
    BY <1>4, <1>6, <2>1
  <2>4. Grow(es, I, f, m) \in Seq(E)
    BY <1>6, <2>3 DEF Grow
  <2>5. g \in [0 .. m -> Seq(E)]
    BY <1>4, <2>4
  <2>6. \A i \in 0 .. m : i # 0 => g[i - 1] = f[i - 1]
    BY <1>4
  <2>7. \A i \in 0 .. m : g[i] = Grow(es, I, f, i)
    BY <1>4, <2>2
  <2>8. \A i \in 0 .. m : g[i] = Grow(es, I, g, i)
    BY <2>6, <2>7 DEF Grow
  <2> HIDE DEF g
  <2> QED BY <1>4, <2>5, <2>8
<1> QED BY <1>5, <1>6

Walk(E, es, I) ==
    \E f \in [0 .. Len(es) -> Seq(E)] :
        /\ SelectAt(es, I) = f[Len(es)]
        /\ \A i \in 0 .. Len(es) : f[i] = Grow(es, I, f, i)

\* SelectAt walks through the sequence, appending or not.
LEMMA SelectSteps ==
    ASSUME NEW E, NEW es \in Seq(E), NEW I
    PROVE  Walk(E, es, I)
<1>1. \E h \in [0 .. Len(es) -> Seq(E)] : \A i \in 0 .. Len(es) : h[i] = Grow(es, I, h, i)
  <2>1. Solvable(E, es, I)
    BY GrowExists
  <2>2. Len(es) \in 0 .. Len(es)
    OBVIOUS
  <2> QED BY <2>1, <2>2 DEF Solvable
<1>2. PICK h \in [0 .. Len(es) -> Seq(E)] : \A i \in 0 .. Len(es) : h[i] = Grow(es, I, h, i)
  BY <1>1
<1>3. h = [i \in 0 .. Len(es) |-> Grow(es, I, h, i)]
  BY <1>2
<1> DEFINE f == CHOOSE g : g = [i \in 0 .. Len(es) |-> Grow(es, I, g, i)]
<1>4. f = [i \in 0 .. Len(es) |-> Grow(es, I, f, i)]
  BY <1>3
<1>5. SelectAt(es, I) = f[Len(es)]
  BY DEF SelectAt, Grow
<1> HIDE DEF f
<1>6. f \in [0 .. Len(es) -> Seq(E)]
  <2> DEFINE T == {k \in 0 .. Len(es) : f[k] \notin Seq(E)}
  <2>1. SUFFICES ASSUME T # {} PROVE FALSE
    BY <1>4
  <2>2. T \in SUBSET Nat
    OBVIOUS
  <2> HIDE DEF T
  <2>3. PICK m \in T : \A k \in T : m <= k
    BY <2>1, <2>2, LeastNumber
  <2> USE DEF T
  <2>4. m \in 0 .. Len(es) /\ f[m] \notin Seq(E) /\ f[m] = Grow(es, I, f, m)
    BY <1>4, <2>3
  <2>5. CASE m = 0
    BY <2>4, <2>5 DEF Grow
  <2>6. CASE m # 0
    <3>1. m - 1 \in 0 .. Len(es) /\ ~(m <= m - 1) /\ m - 1 \notin T
      BY <2>3, <2>4, <2>6
    <3>2. f[m - 1] \in Seq(E) /\ es[m] \in E
      BY <2>4, <2>6, <3>1
    <3> QED BY <2>4, <2>6, <3>2 DEF Grow
  <2> QED BY <2>5, <2>6
<1>7. \A i \in 0 .. Len(es) : f[i] = Grow(es, I, f, i)
  BY <1>4
<1> QED BY <1>5, <1>6, <1>7 DEF Walk

\* h runs through the places of I up to n, in order, and g is es read along h.
Enumerates(es, I, g, n, h) ==
    /\ \A i, j \in 1 .. Len(g) : i < j => h[i] < h[j]
    /\ \A i \in 1 .. Len(g) : h[i] \in I /\ g[i] = es[h[i]]
    /\ \A j \in 1 .. n : j \in I => \E i \in 1 .. Len(g) : h[i] = j

Picked(es, I, g, n) ==
    Len(g) <= n /\ \E h \in [1 .. Len(g) -> 1 .. n] : Enumerates(es, I, g, n, h)

\* One more place keeps it so.
LEMMA PickedGrows ==
    ASSUME NEW E, NEW es \in Seq(E), NEW I, NEW m \in 1 .. Len(es),
           NEW g \in Seq(E), Picked(es, I, g, m - 1), NEW r \in Seq(E),
           r = IF m \in I THEN Append(g, es[m]) ELSE g
    PROVE  Picked(es, I, r, m)
<1>1. PICK h \in [1 .. Len(g) -> 1 .. m - 1] : Enumerates(es, I, g, m - 1, h)
  BY DEF Picked
<1>2. Len(g) \in Nat /\ m \in Nat /\ \A j \in 1 .. m : j \in 1 .. m - 1 \/ j = m
  BY LenProperties
<1>3. \A j \in 1 .. m - 1 : j \in 1 .. m /\ j < m
  BY <1>2
<1>len. Len(g) <= m - 1
  BY DEF Picked
<1>4. CASE m \notin I
  <2>1. r = g /\ h \in [1 .. Len(r) -> 1 .. m]
    BY <1>3, <1>4
  <2>2. \A j \in 1 .. m : j \in I => \E i \in 1 .. Len(g) : h[i] = j
    BY <1>1, <1>2, <1>4 DEF Enumerates
  <2>3. Enumerates(es, I, r, m, h)
    BY <1>1, <2>1, <2>2 DEF Enumerates
  <2>4. Len(r) <= m
    BY <1>2, <1>len, <2>1
  <2> QED BY <2>1, <2>3, <2>4 DEF Picked
<1>5. CASE m \in I
  <2>1. es[m] \in E /\ r = Append(g, es[m])
    BY <1>5, ElementOfSeq
  <2>2. /\ Len(r) = Len(g) + 1 /\ \A i \in 1 .. Len(g) : r[i] = g[i]
        /\ r[Len(g) + 1] = es[m]
    BY <2>1, AppendProperties
  <2> DEFINE e == [i \in 1 .. Len(r) |-> IF i = Len(g) + 1 THEN m ELSE h[i]]
  <2>3. /\ \A i \in 1 .. Len(r) : i \in 1 .. Len(g) \/ i = Len(g) + 1
        /\ Len(g) + 1 \in 1 .. Len(r)
        /\ \A i \in 1 .. Len(g) : i \in 1 .. Len(r) /\ i # Len(g) + 1
    BY <1>2, <2>2
  <2>4. /\ \A i \in 1 .. Len(g) : e[i] = h[i] /\ h[i] \in 1 .. m - 1
        /\ e[Len(g) + 1] = m
    BY <2>3
  <2>5. e \in [1 .. Len(r) -> 1 .. m]
    BY <1>3, <2>3
  <2> HIDE DEF e
  <2>6. ASSUME NEW i \in 1 .. Len(r), NEW j \in 1 .. Len(r), i < j PROVE e[i] < e[j]
    <3>1. i \in 1 .. Len(g)
      BY <1>2, <2>2, <2>6
    <3>2. CASE j \in 1 .. Len(g)
      BY <1>1, <2>4, <2>6, <3>1, <3>2 DEF Enumerates
    <3>3. CASE j = Len(g) + 1
      BY <1>3, <2>4, <3>1, <3>3
    <3> QED BY <2>3, <3>2, <3>3
  <2>7. \A i \in 1 .. Len(r) : e[i] \in I /\ r[i] = es[e[i]]
    BY <1>1, <1>5, <2>2, <2>3, <2>4 DEF Enumerates
  <2>8. ASSUME NEW j \in 1 .. m, j \in I PROVE \E i \in 1 .. Len(r) : e[i] = j
    <3>1. CASE j = m
      BY <2>3, <2>4, <3>1
    <3>2. CASE j \in 1 .. m - 1
      <4>1. PICK i \in 1 .. Len(g) : h[i] = j
        BY <1>1, <2>8, <3>2 DEF Enumerates
      <4> QED BY <2>3, <2>4, <4>1
    <3> QED BY <1>2, <3>1, <3>2
  <2>9. Enumerates(es, I, r, m, e)
    BY <2>6, <2>7, <2>8 DEF Enumerates
  <2>10. Len(r) <= m
    BY <1>2, <1>len, <2>2
  <2> QED BY <2>5, <2>9, <2>10 DEF Picked
<1> QED BY <1>4, <1>5

\* SelectAt keeps the elements at the places in I, all of them, each once and in
\* the order of the places.
LEMMA SelectAtIsExact ==
    ASSUME NEW E, NEW es \in Seq(E), NEW I
    PROVE  SelectAt(es, I) \in Seq(E) /\ Picked(es, I, SelectAt(es, I), Len(es))
<1>1. PICK f \in [0 .. Len(es) -> Seq(E)] :
          /\ SelectAt(es, I) = f[Len(es)]
          /\ \A i \in 0 .. Len(es) : f[i] = Grow(es, I, f, i)
  <2>1. Walk(E, es, I)
    BY SelectSteps
  <2> QED BY <2>1 DEF Walk
<1>2. Len(es) \in Nat
  OBVIOUS
<1> DEFINE T == {k \in 0 .. Len(es) : ~Picked(es, I, f[k], k)}
<1>3. ASSUME T # {} PROVE FALSE
  <2>1. T \in SUBSET Nat
    BY <1>2
  <2> HIDE DEF T
  <2>2. PICK m \in T : \A k \in T : m <= k
    BY <1>3, <2>1, LeastNumber
  <2> USE DEF T
  <2>3. m \in 0 .. Len(es) /\ ~Picked(es, I, f[m], m) /\ f[m] = Grow(es, I, f, m)
    BY <1>1, <2>2
  <2>4. CASE m = 0
    <3>1. f[m] = <<>> /\ Len(f[m]) = 0
      BY <2>3, <2>4 DEF Grow
    <3>2. 1 .. Len(f[m]) = {} /\ 1 .. m = {}
      BY <2>4, <3>1
    <3>3. [i \in {} |-> i] \in [1 .. Len(f[m]) -> 1 .. m]
      BY <3>2
    <3>4. Enumerates(es, I, f[m], m, [i \in {} |-> i])
      BY <3>2 DEF Enumerates
    <3>5. Len(f[m]) <= m
      BY <2>4, <3>1
    <3> QED BY <2>3, <3>3, <3>4, <3>5 DEF Picked
  <2>5. CASE m # 0
    <3>1. m - 1 \in 0 .. Len(es) /\ ~(m <= m - 1) /\ m \in 1 .. Len(es)
      BY <1>2, <2>3, <2>5
    <3>2. m - 1 \notin T
      BY <2>2, <3>1
    <3>3. Picked(es, I, f[m - 1], m - 1)
      BY <3>1, <3>2
    <3>4. f[m - 1] \in Seq(E) /\ f[m] \in Seq(E)
      BY <2>3, <3>1
    <3>5. f[m] = IF m \in I THEN Append(f[m - 1], es[m]) ELSE f[m - 1]
      BY <2>3, <2>5 DEF Grow
    <3>6. Picked(es, I, f[m], m)
      BY <3>1, <3>3, <3>4, <3>5, PickedGrows
    <3> QED BY <2>3, <3>6
  <2> QED BY <2>4, <2>5
<1>4. Len(es) \in 0 .. Len(es)
  BY <1>2
<1>5. Picked(es, I, f[Len(es)], Len(es)) /\ f[Len(es)] \in Seq(E)
  BY <1>3, <1>4
<1> QED BY <1>1, <1>5
=============================================================================
