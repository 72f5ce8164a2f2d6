---------------------------- MODULE ListsProofs ----------------------------
(***************************************************************************)
(* Theorems about Lists, for addresses of every width, all prefixes, lines *)
(* and values, and every sequence of records.                              *)
(***************************************************************************)
EXTENDS Lists, SelectionProofs, FiniteSetTheorems

-----------------------------------------------------------------------------
(* Addresses.                                                              *)

\* One step of the recursion of Span.
Double(f, i) == IF i = 0 THEN 1 ELSE 2 * f[i - 1]

\* The widths are numbers.
LEMMA WidthsAreNumbers ==
    /\ Width4 \in Nat /\ Width6 \in Nat /\ Width4 < Width6
    /\ \A f \in {4, 6} : Widths[f] \in Nat /\ Widths[f] <= Width6
  BY ListsAssumption DEF Widths

\* The recursion of Span has a solution up to every number.
LEMMA DoublingExists ==
    \A n \in 0 .. Width6 :
        \E f \in [0 .. n -> Nat \ {0}] : \A i \in 0 .. n : f[i] = Double(f, i)
<1> DEFINE Pos == Nat \ {0}
           Ok(k) == \E f \in [0 .. k -> Pos] : \A i \in 0 .. k : f[i] = Double(f, i)
           T == {k \in 0 .. Width6 : ~Ok(k)}
<1>1. SUFFICES ASSUME T # {} PROVE FALSE
  OBVIOUS
<1>2. T \in SUBSET Nat /\ Width6 \in Nat
  BY WidthsAreNumbers
<1> HIDE DEF T
<1>3. PICK m \in T : \A k \in T : m <= k
  BY <1>1, <1>2, LeastNumber
<1>4. m \in 0 .. Width6 /\ ~Ok(m)
  BY <1>3 DEF T
<1>5. CASE m = 0
  <2> DEFINE f == [i \in 0 .. 0 |-> 1]
  <2>1. f \in [0 .. 0 -> Pos] /\ \A i \in 0 .. 0 : f[i] = Double(f, i)
    BY DEF Double
  <2> QED BY <1>4, <1>5, <2>1
<1>6. CASE m # 0
  <2>1. m - 1 \in 0 .. Width6 /\ ~(m <= m - 1)
    BY <1>2, <1>4, <1>6
  <2>2. m - 1 \notin T
    BY <1>3, <2>1
  <2>3. PICK f \in [0 .. m - 1 -> Pos] : \A i \in 0 .. m - 1 : f[i] = Double(f, i)
    BY <2>1, <2>2 DEF T
  <2> DEFINE g == [i \in 0 .. m |-> IF i = m THEN 2 * f[m - 1] ELSE f[i]]
  <2>4. f[m - 1] \in Pos
    BY <1>2, <1>4, <1>6
  <2>5. 2 * f[m - 1] \in Pos
    BY <2>4
  <2>6. g \in [0 .. m -> Pos]
    BY <1>2, <1>4, <2>5
  <2>7. \A i \in 0 .. m : g[i] = Double(g, i)
    BY <1>2, <1>4, <1>6, <2>3 DEF Double
  <2> HIDE DEF g
  <2> QED BY <1>4, <2>6, <2>7
<1> QED BY <1>5, <1>6

\* A block of addresses is never empty.
LEMMA SpanPositive == \A k \in 0 .. Width6 : Span[k] \in Nat \ {0}
<1>1. Width6 \in Nat /\ Width6 \in 0 .. Width6
  BY WidthsAreNumbers
<1>2. PICK h \in [0 .. Width6 -> Nat \ {0}] : \A i \in 0 .. Width6 : h[i] = Double(h, i)
  BY <1>1, DoublingExists
<1>3. h = [i \in 0 .. Width6 |-> Double(h, i)]
  BY <1>2
<1>4. Span = [i \in 0 .. Width6 |-> Double(Span, i)]
  <2> DEFINE f == CHOOSE g : g = [i \in 0 .. Width6 |-> Double(g, i)]
  <2>1. f = [i \in 0 .. Width6 |-> Double(f, i)]
    BY <1>3
  <2>2. Span = f
    BY DEF Span, Double
  <2> QED BY <2>1, <2>2
<1> DEFINE T == {k \in 0 .. Width6 : Span[k] \notin Nat \ {0}}
<1>5. SUFFICES ASSUME T # {} PROVE FALSE
  OBVIOUS
<1>6. T \in SUBSET Nat
  BY <1>1
<1> HIDE DEF T
<1>7. PICK m \in T : \A k \in T : m <= k
  BY <1>5, <1>6, LeastNumber
<1>8. m \in 0 .. Width6 /\ Span[m] \notin Nat \ {0} /\ Span[m] = Double(Span, m)
  BY <1>4, <1>7 DEF T
<1>9. CASE m = 0
  BY <1>8, <1>9 DEF Double
<1>10. CASE m # 0
  <2>1. m - 1 \in 0 .. Width6 /\ ~(m <= m - 1)
    BY <1>1, <1>8, <1>10
  <2>2. Span[m - 1] \in Nat \ {0}
    BY <1>7, <2>1 DEF T
  <2> QED BY <1>8, <1>10, <2>2 DEF Double
<1> QED BY <1>9, <1>10

\* Two addresses lose the same bits exactly when the rest of them is the same.
LEMMA SameQuotient ==
    ASSUME NEW n \in Nat, NEW k \in Nat, NEW m \in Nat \ {0}
    PROVE  n - (n % m) = k - (k % m) <=> n \div m = k \div m
<1>1. /\ n = m * (n \div m) + (n % m) /\ n \div m \in Int /\ n % m \in Int
      /\ k = m * (k \div m) + (k % m) /\ k \div m \in Int /\ k % m \in Int
  BY SMT
<1>2. ASSUME n - (n % m) = k - (k % m) PROVE n \div m = k \div m
  BY <1>1, <1>2, SMT
<1>3. ASSUME n \div m = k \div m PROVE n - (n % m) = k - (k % m)
  BY <1>1, <1>3, SMT
<1> QED BY <1>2, <1>3

\* An address or a prefix, as far as Masked looks at it.
IsAddress(a) == a.fam \in {4, 6} /\ a.n \in Nat

\* Unmap gives an address.
LEMMA UnmapAddress ==
    ASSUME NEW ip \in Addresses
    PROVE  IsAddress(Unmap(ip))
<1>1. PICK f \in {4, 6} : ip \in [fam : {f}, n : 0 .. Span[Widths[f]] - 1]
  BY DEF Addresses
<1>2. ip.fam \in {4, 6} /\ ip.n \in Nat
  BY <1>1
<1>3. CASE ip.fam = 6 /\ ip.n \in MappedAt .. MappedAt + Span[Width4] - 1
  <2>1. Span[Width6] \in Nat /\ Span[Width4] \in Nat
    BY SpanPositive, WidthsAreNumbers
  <2>2. MappedAt \in Nat
    BY <2>1, ListsAssumption
  <2>3. ip.n - MappedAt \in Nat
    BY <1>2, <1>3, <2>1, <2>2
  <2> QED BY <1>3, <2>3 DEF Unmap, IsAddress
<1>4. CASE ~(ip.fam = 6 /\ ip.n \in MappedAt .. MappedAt + Span[Width4] - 1)
  BY <1>2, <1>4 DEF Unmap, IsAddress
<1> QED BY <1>3, <1>4

\* What Masked returns.
LEMMA MaskedIs ==
    ASSUME NEW a, IsAddress(a), NEW b \in Nat
    PROVE  /\ b > Widths[a.fam] => Masked(a, b) = NoPrefix
           /\ b <= Widths[a.fam] =>
                 /\ Masked(a, b) = [fam |-> a.fam, n |-> a.n - (a.n % Span[Widths[a.fam] - b]),
                                    bits |-> b]
                 /\ Masked(a, b) # NoPrefix
                 /\ Masked(a, b).fam = a.fam /\ Masked(a, b).bits = b
<1>1. Widths[a.fam] \in Nat
  BY WidthsAreNumbers DEF IsAddress
<1>2. ASSUME b > Widths[a.fam] PROVE Masked(a, b) = NoPrefix
  BY <1>2 DEF Masked
<1>3. ASSUME b <= Widths[a.fam]
      PROVE  Masked(a, b) = [fam |-> a.fam, n |-> a.n - (a.n % Span[Widths[a.fam] - b]), bits |-> b]
  BY <1>1, <1>3 DEF Masked
<1>4. ASSUME b <= Widths[a.fam]
      PROVE  Masked(a, b).fam = a.fam /\ Masked(a, b).bits = b /\ Masked(a, b) # NoPrefix
  <2>1. Masked(a, b).fam = a.fam /\ Masked(a, b).bits = b
    BY <1>3, <1>4
  <2>2. NoPrefix.bits = -1 /\ b # -1
    BY DEF NoPrefix
  <2> QED BY <2>1, <2>2
<1> QED BY <1>2, <1>3, <1>4

\* Masking tells the same as comparing bit by bit: a begins with the first b bits
\* of c exactly when both have the same prefix of this length.
LEMMA SameBlock ==
    ASSUME NEW a, NEW c, IsAddress(a), IsAddress(c), NEW b \in Nat, b <= Widths[c.fam]
    PROVE  Begins(a, c.fam, c.n, b) <=> b <= Widths[a.fam] /\ Masked(a, b) = Masked(c, b)
<1>1. ASSUME a.fam # c.fam, b <= Widths[a.fam] PROVE Masked(a, b) # Masked(c, b)
  <2>1. Masked(a, b).fam = a.fam
    BY <1>1, MaskedIs
  <2>2. Masked(c, b).fam = c.fam
    BY MaskedIs
  <2> QED BY <1>1, <2>1, <2>2
<1>2. ASSUME a.fam = c.fam
      PROVE  Begins(a, c.fam, c.n, b) <=> Masked(a, b) = Masked(c, b)
  <2> DEFINE m == Span[Widths[c.fam] - b]
  <2>1. Widths[c.fam] \in Nat /\ Widths[c.fam] - b \in 0 .. Width6
    BY WidthsAreNumbers DEF IsAddress
  <2>2. m \in Nat \ {0}
    BY <2>1, SpanPositive
  <2>3. /\ Masked(a, b) = [fam |-> c.fam, n |-> a.n - (a.n % m), bits |-> b]
        /\ Masked(c, b) = [fam |-> c.fam, n |-> c.n - (c.n % m), bits |-> b]
    BY <1>2, MaskedIs
  <2>4. Begins(a, c.fam, c.n, b) <=> a.n \div m = c.n \div m
    BY <1>2 DEF Begins
  <2> HIDE DEF m
  <2>5. Masked(a, b) = Masked(c, b) <=> a.n - (a.n % m) = c.n - (c.n % m)
    BY <2>3
  <2>6. a.n \in Nat /\ c.n \in Nat
    BY DEF IsAddress
  <2> QED BY <2>2, <2>4, <2>5, <2>6, SameQuotient
<1>3. Begins(a, c.fam, c.n, b) => a.fam = c.fam
  BY DEF Begins
<1> QED BY <1>1, <1>2, <1>3

-----------------------------------------------------------------------------
(* The inductive invariant.                                                *)

\* The lengths that have a counter.
Lengths == {4, 6} \X (0 .. Width6)

\* The members of c of one length.
OfLength(c, f, b) == {p \in DOMAIN c.members : p.fam = f /\ p.bits = b}

\* A prefix that has a counter.
Counted(x) == x.fam \in {4, 6} /\ x.bits \in 0 .. Width6

\* What add and remove keep of a composition: the hash is that of the members,
\* and the counters count them.
Sound(c) ==
    /\ c = [members |-> c.members, lens |-> c.lens, hash |-> c.hash]
    /\ c.members \in [DOMAIN c.members -> Nat]
    /\ IsFiniteSet(DOMAIN c.members)
    /\ c.hash = DOMAIN c.members
    /\ c.lens \in [Lengths -> Int]
    /\ typ = "cidr" =>
          \A f \in {4, 6}, b \in 0 .. Width6 : c.lens[<<f, b>>] = Cardinality(OfLength(c, f, b))

Record == [op : {"add", "remove"}, x : IF typ = "cidr" THEN Published ELSE Values, exp : Nat]

\* A mirrored list holds what the records declare.
Mirrored ==
    /\ state = "ready" /\ log \in Seq(Record)
    /\ DOMAIN comp.members = Declared
    /\ \A x \in Declared : comp.members[x] = LastOf(x).exp

\* A static list holds the lines read so far, and each way to stop has its line.
ReadLines ==
    /\ log \in Seq(IF typ = "cidr" THEN Lines ELSE Values)
    /\ typ = "string" =>
          /\ state \in {"reading", "ready"}
          /\ DOMAIN comp.members = {log[i] : i \in DOMAIN log}
    /\ typ = "cidr" =>
          /\ state \in {"reading", "ready", "refused", "panic"}
          /\ state \in {"reading", "ready"} =>
                DOMAIN comp.members = {LinePrefix(log[i]) : i \in DOMAIN log}
          /\ state \in {"reading", "ready"} => \A i \in DOMAIN log : LinePrefix(log[i]) # NoPrefix
          /\ state # "refused" => \A i \in DOMAIN log : log[i].kind # "neither"
          /\ state = "refused" => \E i \in DOMAIN log : log[i].kind = "neither"

Content ==
    /\ form \in {"mirror", "static"} /\ typ \in {"cidr", "string"} /\ now \in Nat
    /\ Sound(comp)
    /\ form = "mirror" => Mirrored
    /\ form = "static" => ReadLines

-----------------------------------------------------------------------------
(* add and remove.                                                         *)

\* A new list.
LEMMA EmptySound == Sound(Empty) /\ DOMAIN Empty.members = {}
<1>1. /\ Empty = [members |-> Empty.members, lens |-> Empty.lens, hash |-> Empty.hash]
      /\ Empty.members = [x \in {} |-> 0] /\ Empty.hash = {}
      /\ Empty.lens = [fb \in Lengths |-> 0]
  BY DEF Empty, Lengths
<1>2. DOMAIN Empty.members = {} /\ Empty.members \in [{} -> Nat]
  BY <1>1
<1>3. \A f, b : OfLength(Empty, f, b) = {}
  BY <1>2 DEF OfLength
<1>4. IsFiniteSet({}) /\ Cardinality({}) = 0
  BY FS_EmptySet
<1>5. Empty.lens \in [Lengths -> Int]
  BY <1>1
<1>6. ASSUME NEW f \in {4, 6}, NEW b \in 0 .. Width6
      PROVE  Empty.lens[<<f, b>>] = Cardinality(OfLength(Empty, f, b))
  <2>1. <<f, b>> \in Lengths
    BY DEF Lengths
  <2>2. Empty.lens[<<f, b>>] = 0
    BY <1>1, <2>1
  <2> QED BY <1>3, <1>4, <2>2
<1> QED BY <1>1, <1>2, <1>4, <1>5, <1>6 DEF Sound

\* l are the counters of c with that of x changed by d.
Moved(l, c, x, d) ==
    \A f \in {4, 6}, b \in 0 .. Width6 :
        l[<<f, b>>] = IF x.fam = f /\ x.bits = b THEN c.lens[<<f, b>>] + d ELSE c.lens[<<f, b>>]

\* One counter moves with one member.
LEMMA CounterMoves ==
    ASSUME NEW c, Sound(c), typ = "cidr", NEW x, Counted(x), NEW by \in Int
    PROVE  Count(c, x, by) \in [Lengths -> Int] /\ Moved(Count(c, x, by), c, x, by)
<1> DEFINE k == <<x.fam, x.bits>>
<1>1. k \in Lengths
  BY DEF Counted, Lengths
<1>2. c.lens \in [Lengths -> Int] /\ Count(c, x, by) = [c.lens EXCEPT ![k] = c.lens[k] + by]
  BY DEF Sound, Count
<1>3. \A f \in {4, 6}, b \in 0 .. Width6 : <<f, b>> \in Lengths /\ (<<f, b>> = k <=> x.fam = f /\ x.bits = b)
  BY DEF Lengths
<1> HIDE DEF k
<1>4. c.lens[k] + by \in Int
  BY <1>1, <1>2
<1>5. /\ Count(c, x, by) \in [Lengths -> Int]
      /\ \A j \in Lengths : Count(c, x, by)[j] = IF j = k THEN c.lens[k] + by ELSE c.lens[j]
  BY <1>1, <1>2, <1>4
<1> QED BY <1>3, <1>5 DEF Moved

\* A composition is given by its three parts.
LEMMA SoundParts ==
    ASSUME NEW m, NEW l, NEW h, NEW D,
           m \in [D -> Nat], IsFiniteSet(D), h = D,
           l \in [Lengths -> Int],
           typ = "cidr" => \A f \in {4, 6}, b \in 0 .. Width6 :
               l[<<f, b>>] = Cardinality({p \in D : p.fam = f /\ p.bits = b})
    PROVE  Sound([members |-> m, lens |-> l, hash |-> h])
<1> DEFINE c == [members |-> m, lens |-> l, hash |-> h]
<1>1. c.members = m /\ c.lens = l /\ c.hash = h /\ DOMAIN c.members = D
  OBVIOUS
<1>2. c = [members |-> c.members, lens |-> c.lens, hash |-> c.hash]
  OBVIOUS
<1> HIDE DEF c
<1>3. \A f, b : OfLength(c, f, b) = {p \in D : p.fam = f /\ p.bits = b}
  BY <1>1 DEF OfLength
<1>4. Sound(c)
  BY <1>1, <1>2, <1>3 DEF Sound
<1> QED BY <1>4 DEF c

\* A record that adds x, whether x is there or not.
LEMMA AddSound ==
    ASSUME NEW c, Sound(c), NEW x, typ = "cidr" => Counted(x), NEW exp \in Nat
    PROVE  /\ Sound(add(c, x, exp))
           /\ add(c, x, exp).members = Put(c.members, x, exp)
           /\ DOMAIN add(c, x, exp).members = DOMAIN c.members \cup {x}
<1> DEFINE D == DOMAIN c.members
           E == D \cup {x}
           m == Put(c.members, x, exp)
<1>1. /\ c = [members |-> c.members, lens |-> c.lens, hash |-> c.hash]
      /\ c.members \in [D -> Nat] /\ IsFiniteSet(D) /\ c.hash = D
      /\ c.lens \in [Lengths -> Int]
  BY DEF Sound
<1>2. m \in [E -> Nat] /\ DOMAIN m = E
  BY <1>1 DEF Put
<1>3. IsFiniteSet(E)
  BY <1>1, FS_AddElement
<1>4. CASE x \in D
  <2>1. E = D
    BY <1>4
  <2>2. add(c, x, exp) = [members |-> m, lens |-> c.lens, hash |-> c.hash]
    BY <1>1, <1>4 DEF add
  <2>3. typ = "cidr" => \A f \in {4, 6}, b \in 0 .. Width6 :
            c.lens[<<f, b>>] = Cardinality({p \in D : p.fam = f /\ p.bits = b})
    BY DEF Sound, OfLength
  <2> HIDE DEF D, E, m
  <2>4. Sound([members |-> m, lens |-> c.lens, hash |-> c.hash])
    BY <1>1, <1>2, <1>3, <2>1, <2>3, SoundParts
  <2>5. add(c, x, exp).members = m
    BY <2>2
  <2> QED BY <1>2, <2>2, <2>4, <2>5 DEF D, E, m
<1>5. CASE x \notin D
  <2> DEFINE l == Count(c, x, 1)
             h == Flip(c, x)
  <2>1. add(c, x, exp) = [members |-> m, lens |-> l, hash |-> h]
    BY <1>5 DEF add
  <2>2. h = E
    BY <1>1, <1>5 DEF Flip, SymDiff
  <2>3. l \in [Lengths -> Int]
    <3>1. CASE typ = "cidr"
      BY <3>1, CounterMoves
    <3>2. CASE typ # "cidr"
      BY <1>1, <3>2 DEF Count
    <3> QED BY <3>1, <3>2
  <2>4. ASSUME typ = "cidr", NEW f \in {4, 6}, NEW b \in 0 .. Width6
        PROVE  l[<<f, b>>] = Cardinality({p \in E : p.fam = f /\ p.bits = b})
    <3> DEFINE S == {p \in D : p.fam = f /\ p.bits = b}
    <3>1. c.lens[<<f, b>>] = Cardinality(S)
      BY <2>4 DEF Sound, OfLength
    <3>2. l[<<f, b>>] = IF x.fam = f /\ x.bits = b THEN c.lens[<<f, b>>] + 1 ELSE c.lens[<<f, b>>]
      <4>1. Moved(l, c, x, 1)
        BY <2>4, CounterMoves
      <4> QED BY <4>1 DEF Moved
    <3>3. IsFiniteSet(S) /\ x \notin S
      BY <1>1, <1>5, FS_Subset
    <3>4. {p \in E : p.fam = f /\ p.bits = b} = IF x.fam = f /\ x.bits = b THEN S \cup {x} ELSE S
      OBVIOUS
    <3>5. Cardinality(S \cup {x}) = Cardinality(S) + 1
      BY <3>3, FS_AddElement
    <3> HIDE DEF S, l, E
    <3> QED BY <3>1, <3>2, <3>4, <3>5
  <2> HIDE DEF D, E, m, l, h
  <2>5. Sound([members |-> m, lens |-> l, hash |-> h])
    BY <1>2, <1>3, <2>2, <2>3, <2>4, SoundParts
  <2>6. add(c, x, exp).members = m
    BY <2>1
  <2> QED BY <1>2, <2>1, <2>5, <2>6 DEF D, E, m
<1> QED BY <1>4, <1>5

\* A record that removes x, whether x is there or not.
LEMMA RemoveSound ==
    ASSUME NEW c, Sound(c), NEW x, typ = "cidr" => Counted(x)
    PROVE  /\ Sound(remove(c, x))
           /\ DOMAIN remove(c, x).members = DOMAIN c.members \ {x}
           /\ \A y \in DOMAIN c.members \ {x} : remove(c, x).members[y] = c.members[y]
<1> DEFINE D == DOMAIN c.members
           E == D \ {x}
           m == Restrict(c.members, E)
           l == Count(c, x, -1)
           h == Flip(c, x)
<1>1. CASE x \notin D
  BY <1>1 DEF remove
<1>2. CASE x \in D
  <2>1. /\ c.members \in [D -> Nat] /\ IsFiniteSet(D) /\ c.hash = D
        /\ c.lens \in [Lengths -> Int]
    BY DEF Sound
  <2>2. remove(c, x) = [members |-> m, lens |-> l, hash |-> h]
    BY <1>2 DEF remove
  <2>3. m \in [E -> Nat] /\ DOMAIN m = E /\ \A y \in E : m[y] = c.members[y]
    BY <2>1 DEF Restrict
  <2>4. IsFiniteSet(E)
    BY <2>1, FS_RemoveElement
  <2>5. h = E
    BY <1>2, <2>1 DEF Flip, SymDiff
  <2>6. l \in [Lengths -> Int]
    <3>1. CASE typ = "cidr"
      BY <3>1, CounterMoves
    <3>2. CASE typ # "cidr"
      BY <2>1, <3>2 DEF Count
    <3> QED BY <3>1, <3>2
  <2>7. ASSUME typ = "cidr", NEW f \in {4, 6}, NEW b \in 0 .. Width6
        PROVE  l[<<f, b>>] = Cardinality({p \in E : p.fam = f /\ p.bits = b})
    <3> DEFINE S == {p \in D : p.fam = f /\ p.bits = b}
    <3>1. c.lens[<<f, b>>] = Cardinality(S)
      BY <2>7 DEF Sound, OfLength
    <3>2. l[<<f, b>>] = IF x.fam = f /\ x.bits = b THEN c.lens[<<f, b>>] + (-1) ELSE c.lens[<<f, b>>]
      <4>1. Moved(l, c, x, -1)
        BY <2>7, CounterMoves
      <4> QED BY <4>1 DEF Moved
    <3>3. IsFiniteSet(S)
      BY <2>1, FS_Subset
    <3>4. {p \in E : p.fam = f /\ p.bits = b} = IF x.fam = f /\ x.bits = b THEN S \ {x} ELSE S
      OBVIOUS
    <3>5. x.fam = f /\ x.bits = b => Cardinality(S \ {x}) = Cardinality(S) - 1
      BY <1>2, <3>3, FS_RemoveElement
    <3>6. Cardinality(S) \in Nat
      BY <3>3, FS_CardinalityType
    <3> HIDE DEF S, l, E
    <3> QED BY <3>1, <3>2, <3>4, <3>5, <3>6
  <2> HIDE DEF D, E, m, l, h
  <2>8. Sound([members |-> m, lens |-> l, hash |-> h])
    BY <2>3, <2>4, <2>5, <2>6, <2>7, SoundParts
  <2>9. remove(c, x).members = m
    BY <2>2
  <2> QED BY <2>2, <2>3, <2>8, <2>9 DEF D, E
<1> QED BY <1>1, <1>2

-----------------------------------------------------------------------------
(* The history.                                                            *)

\* The last of some places of a sequence.
LEMMA LastPlace ==
    ASSUME NEW n \in Nat, NEW S \in SUBSET (1 .. n), S # {}
    PROVE  Max(S) \in S /\ \A i \in S : i <= Max(S)
<1> DEFINE T == {n - i : i \in S}
<1>1. T \in SUBSET Nat /\ T # {}
  OBVIOUS
<1> HIDE DEF T
<1>2. PICK d \in T : \A k \in T : d <= k
  BY <1>1, LeastNumber
<1>3. PICK j \in S : d = n - j
  BY <1>2 DEF T
<1>4. \A i \in S : n - i \in T
  BY DEF T
<1>5. \A i \in S : n - j <= n - i /\ i \in Int /\ j \in Int
  BY <1>2, <1>3, <1>4
<1>6. \A i \in S : j >= i
  BY <1>5
<1>7. Max(S) \in S /\ \A i \in S : Max(S) >= i
  BY <1>3, <1>6 DEF Max
<1> QED BY <1>5, <1>7

\* A record more: it is the last of its member, and the others keep theirs.
LEMMA LogGrows ==
    ASSUME NEW R, log \in Seq(R), NEW r \in R, log' = Append(log, r)
    PROVE  /\ LastOf(r.x)' = r
           /\ \A y \in {log[i].x : i \in DOMAIN log} : y # r.x => LastOf(y)' = LastOf(y)
           /\ {log[i].x : i \in DOMAIN log}' = {log[i].x : i \in DOMAIN log} \cup {r.x}
           /\ Declared' = IF r.op = "add" THEN Declared \cup {r.x} ELSE Declared \ {r.x}
<1> DEFINE n == Len(log)
           X == {log[i].x : i \in DOMAIN log}
<1>1. /\ n \in Nat /\ DOMAIN log = 1 .. n /\ DOMAIN log' = 1 .. n + 1
      /\ log'[n + 1] = r /\ \A i \in 1 .. n : log'[i] = log[i]
  BY AppendProperties, LenProperties
<1>2. X' = X \cup {r.x}
  <2>1. 1 .. n + 1 = (1 .. n) \cup {n + 1}
    BY <1>1
  <2> HIDE DEF n
  <2> QED BY <1>1, <2>1
<1> HIDE DEF n
<1>3. LastOf(r.x)' = r
  <2> DEFINE S == {i \in 1 .. n + 1 : log'[i].x = r.x}
  <2>1. n + 1 \in S /\ n + 1 \in Nat /\ S \in SUBSET (1 .. n + 1)
    BY <1>1
  <2>2. LastOf(r.x)' = log'[Max(S)]
    BY <1>1 DEF LastOf
  <2> HIDE DEF S
  <2>3. Max(S) \in 1 .. n + 1 /\ n + 1 <= Max(S)
    BY <2>1, LastPlace
  <2>4. Max(S) = n + 1
    BY <1>1, <2>3
  <2> QED BY <1>1, <2>2, <2>4
<1>4. ASSUME NEW y \in X, y # r.x PROVE LastOf(y)' = LastOf(y)
  <2> DEFINE S == {i \in 1 .. n : log[i].x = y}
  <2>1. S \in SUBSET (1 .. n) /\ S # {}
    BY <1>1, <1>4
  <2>2. {i \in 1 .. n + 1 : log'[i].x = y} = S
    <3>1. \A i \in 1 .. n + 1 : i \in 1 .. n \/ i = n + 1
      BY <1>1
    <3>2. \A i \in 1 .. n : i \in 1 .. n + 1
      BY <1>1
    <3> QED BY <1>1, <1>4, <3>1, <3>2
  <2>3. LastOf(y) = log[Max(S)] /\ LastOf(y)' = log'[Max(S)]
    BY <1>1, <2>2 DEF LastOf
  <2> HIDE DEF S
  <2>4. Max(S) \in 1 .. n
    BY <1>1, <2>1, LastPlace
  <2> QED BY <1>1, <2>3, <2>4
<1>5. Declared = {y \in X : LastOf(y).op = "add"}
  BY DEF Declared
<1>6. Declared' = {y \in X' : LastOf(y)'.op = "add"}
  BY DEF Declared
<1> QED BY <1>2, <1>3, <1>4, <1>5, <1>6

-----------------------------------------------------------------------------
(* Published prefixes and lines.                                           *)

\* A published prefix has a counter and is masked.
LEMMA PublishedPrefix ==
    ASSUME NEW p \in Published
    PROVE  /\ Counted(p) /\ IsAddress(p)
           /\ p.bits \in Nat /\ p.bits <= Widths[p.fam] /\ Masked(p, p.bits) = p
<1>1. p \in Prefixes /\ p.n % Span[Widths[p.fam] - p.bits] = 0
  BY PublishedAssumption
<1>2. PICK f \in {4, 6} : p \in [fam : {f}, n : 0 .. Span[Widths[f]] - 1, bits : 0 .. Widths[f]]
  BY <1>1 DEF Prefixes
<1>3. Widths[f] \in Nat /\ Widths[f] <= Width6 /\ Width6 \in Nat
  BY WidthsAreNumbers
<1>4. /\ p.fam = f /\ p.n \in Nat /\ p.bits \in 0 .. Widths[f]
      /\ p = [fam |-> p.fam, n |-> p.n, bits |-> p.bits]
  BY <1>2
<1>5. p.bits \in 0 .. Width6 /\ p.bits \in Nat /\ p.bits <= Widths[p.fam]
  BY <1>3, <1>4
<1>6. Counted(p) /\ IsAddress(p)
  BY <1>4, <1>5 DEF Counted, IsAddress
<1>7. Masked(p, p.bits) = [fam |-> p.fam, n |-> p.n - (p.n % Span[Widths[p.fam] - p.bits]),
                           bits |-> p.bits]
  BY <1>5, <1>6, MaskedIs
<1>8. p.n - 0 = p.n
  BY <1>4
<1> QED BY <1>1, <1>4, <1>5, <1>6, <1>7, <1>8

\* How many bits of a line count.
LineBits(line) == IF line.kind = "address" THEN Widths[Unmap(line.addr).fam] ELSE line.bits

\* A line of a static list that names a prefix.
LEMMA LineIs ==
    ASSUME NEW line \in Lines
    PROVE  /\ IsAddress(Unmap(line.addr)) /\ LineBits(line) \in 0 .. Width6
           /\ LinePrefix(line) = Masked(Unmap(line.addr), LineBits(line))
           /\ LinePrefix(line) # NoPrefix => LineBits(line) <= Widths[Unmap(line.addr).fam]
<1> DEFINE a == Unmap(line.addr)
           k == LineBits(line)
<1>1. line.addr \in Addresses /\ line.bits \in 0 .. Width6
  BY LinesAssumption
<1>2. IsAddress(a)
  BY <1>1, UnmapAddress
<1>3. Widths[a.fam] \in Nat /\ Widths[a.fam] <= Width6 /\ Width6 \in Nat
  BY <1>2, WidthsAreNumbers DEF IsAddress
<1>4. k \in 0 .. Width6 /\ k \in Nat
  <2>1. k = Widths[a.fam] \/ k = line.bits
    BY DEF LineBits
  <2> QED BY <1>1, <1>3, <2>1
<1>5. LinePrefix(line) = Masked(a, k)
  BY DEF LinePrefix, LineBits
<1> HIDE DEF a, k
<1>6. LinePrefix(line) # NoPrefix => ~(k > Widths[a.fam])
  BY <1>2, <1>4, <1>5, MaskedIs
<1>7. ~(k > Widths[a.fam]) => k <= Widths[a.fam]
  BY <1>3, <1>4
<1> QED BY <1>2, <1>4, <1>5, <1>6, <1>7 DEF a, k

\* Its prefix has a counter.
LEMMA LineCounted ==
    ASSUME NEW line \in Lines, LinePrefix(line) # NoPrefix
    PROVE  Counted(LinePrefix(line))
<1> DEFINE a == Unmap(line.addr)
           k == LineBits(line)
<1>1. IsAddress(a) /\ k \in 0 .. Width6 /\ k <= Widths[a.fam] /\ LinePrefix(line) = Masked(a, k)
  BY LineIs
<1> HIDE DEF a, k
<1>2. k \in Nat
  BY <1>1, WidthsAreNumbers
<1>3. Masked(a, k).fam = a.fam /\ Masked(a, k).bits = k
  BY <1>1, <1>2, MaskedIs
<1> QED BY <1>1, <1>3 DEF Counted, IsAddress

-----------------------------------------------------------------------------
(* Every step keeps the invariant.                                         *)

\* A new list.
LEMMA InitContent == Init => Content
<1> SUFFICES ASSUME Init PROVE Content
  OBVIOUS
<1>1. Sound(comp) /\ DOMAIN comp.members = {} /\ log = <<>> /\ now = 1
      /\ form \in {"mirror", "static"} /\ typ \in {"cidr", "string"}
      /\ state = IF form = "mirror" THEN "ready" ELSE "reading"
  BY EmptySound DEF Init
<1>2. DOMAIN log = {} /\ \A R : log \in Seq(R)
  BY <1>1
<1>3. Declared = {}
  BY <1>2 DEF Declared
<1>4. form = "mirror" => Mirrored
  BY <1>1, <1>2, <1>3 DEF Mirrored
<1>5. form = "static" => ReadLines
  BY <1>1, <1>2 DEF ReadLines
<1> QED BY <1>1, <1>4, <1>5 DEF Content

\* The composition after a step.
LEMMA SoundNext ==
    ASSUME NEW d, Sound(d), comp' = d, typ' = typ
    PROVE  Sound(comp)'
  BY DEF Sound, OfLength

\* One record of a package.
LEMMA ApplyKeeps ==
    ASSUME Content, NEW op \in {"add", "remove"},
           NEW x \in IF typ = "cidr" THEN Published ELSE Values, NEW exp \in Nat,
           apply(op, x, exp)
    PROVE  Content'
<1> DEFINE r == [op |-> op, x |-> x, exp |-> exp]
<1>1. /\ form = "mirror" /\ log' = Append(log, r)
      /\ comp' = IF op = "add" THEN add(comp, x, exp) ELSE remove(comp, x)
      /\ form' = form /\ typ' = typ /\ state' = state /\ now' = now
  BY DEF apply
<1>2. /\ Sound(comp) /\ state = "ready" /\ log \in Seq(Record)
      /\ DOMAIN comp.members = Declared
      /\ \A y \in Declared : comp.members[y] = LastOf(y).exp
  BY <1>1 DEF Content, Mirrored
<1>3. typ = "cidr" => Counted(x)
  BY PublishedPrefix
<1>4. r \in Record /\ r.op = op /\ r.x = x /\ r.exp = exp
  BY DEF Record
<1>5. log' \in Seq(Record) /\ Record' = Record
  <2>1. Append(log, r) \in Seq(Record)
    BY <1>2, <1>4, AppendProperties
  <2> QED BY <1>1, <2>1 DEF Record
<1> HIDE DEF r
<1> DEFINE X == {log[i].x : i \in DOMAIN log}
<1>6. /\ LastOf(x)' = r
      /\ \A y \in X : y # x => LastOf(y)' = LastOf(y)
      /\ Declared' = IF op = "add" THEN Declared \cup {x} ELSE Declared \ {x}
  BY <1>1, <1>2, <1>4, LogGrows
<1>7. Declared \subseteq X
  BY DEF Declared
<1> HIDE DEF X
<1>8. /\ Sound(comp)' /\ DOMAIN comp'.members = Declared'
      /\ \A y \in Declared' : comp'.members[y] = LastOf(y)'.exp
  <2>1. CASE op = "add"
    <3>1. comp' = add(comp, x, exp)
      BY <1>1, <2>1
    <3>2. /\ Sound(add(comp, x, exp))
          /\ add(comp, x, exp).members = Put(comp.members, x, exp)
          /\ DOMAIN add(comp, x, exp).members = DOMAIN comp.members \cup {x}
      BY <1>2, <1>3, AddSound
    <3>3. Sound(comp)'
      BY <1>1, <3>1, <3>2, SoundNext
    <3>4. \A y \in DOMAIN comp.members \cup {x} :
              comp'.members[y] = IF y = x THEN exp ELSE comp.members[y]
      BY <3>1, <3>2 DEF Put
    <3> QED BY <1>2, <1>4, <1>6, <1>7, <2>1, <3>1, <3>2, <3>3, <3>4
  <2>2. CASE op = "remove"
    <3>1. comp' = remove(comp, x)
      BY <1>1, <2>2
    <3>2. /\ Sound(remove(comp, x))
          /\ DOMAIN remove(comp, x).members = DOMAIN comp.members \ {x}
          /\ \A y \in DOMAIN comp.members \ {x} : remove(comp, x).members[y] = comp.members[y]
      BY <1>2, <1>3, RemoveSound
    <3>3. Sound(comp)'
      BY <1>1, <3>1, <3>2, SoundNext
    <3> QED BY <1>2, <1>6, <1>7, <2>2, <3>1, <3>2, <3>3
  <2> QED BY <2>1, <2>2
<1>9. Mirrored'
  BY <1>1, <1>2, <1>5, <1>8 DEF Mirrored
<1> QED BY <1>1, <1>8, <1>9 DEF Content

\* A line more.
LEMMA LineAppended ==
    ASSUME NEW R, log \in Seq(R), NEW line \in R, log' = Append(log, line)
    PROVE  /\ log' \in Seq(R)
           /\ DOMAIN log' = DOMAIN log \cup {Len(log) + 1} /\ log'[Len(log) + 1] = line
           /\ Len(log) + 1 \notin DOMAIN log
           /\ \A i \in DOMAIN log : log'[i] = log[i]
<1>1. /\ Len(log) \in Nat /\ DOMAIN log = 1 .. Len(log) /\ DOMAIN log' = 1 .. Len(log) + 1
      /\ log' \in Seq(R)
      /\ log'[Len(log) + 1] = line /\ \A i \in 1 .. Len(log) : log'[i] = log[i]
  BY AppendProperties, LenProperties
<1>2. /\ 1 .. Len(log) + 1 = (1 .. Len(log)) \cup {Len(log) + 1}
      /\ Len(log) + 1 \notin 1 .. Len(log)
  BY <1>1
<1> QED BY <1>1, <1>2

\* One line of readStatic.
LEMMA ReadLineKeeps ==
    ASSUME Content, NEW line \in IF typ = "cidr" THEN Lines ELSE Values, readLine(line)
    PROVE  Content'
<1> DEFINE R == IF typ = "cidr" THEN Lines ELSE Values
           n == Len(log) + 1
<1>1. /\ state = "reading" /\ log' = Append(log, line)
      /\ form' = form /\ typ' = typ /\ now' = now
  BY DEF readLine
<1>2. form = "static" /\ Sound(comp) /\ typ \in {"cidr", "string"} /\ ReadLines
  BY <1>1 DEF Content, Mirrored
<1>3. log \in Seq(R)
  BY <1>2 DEF ReadLines
<1>4. /\ log' \in Seq(R) /\ DOMAIN log' = DOMAIN log \cup {n} /\ log'[n] = line
      /\ \A i \in DOMAIN log : log'[i] = log[i]
  <2> HIDE DEF R
  <2>1. line \in R
    BY DEF R
  <2> QED BY <1>1, <1>3, <2>1, LineAppended
<1>5. R' = R
  BY <1>1
<1> HIDE DEF n
<1>6. CASE typ = "string"
  <2>1. comp' = add(comp, line, 0) /\ state' = state
    BY <1>6 DEF readLine
  <2>2. /\ Sound(add(comp, line, 0))
        /\ DOMAIN add(comp, line, 0).members = DOMAIN comp.members \cup {line}
    BY <1>2, <1>6, AddSound
  <2>3. Sound(comp)'
    BY <1>1, <2>1, <2>2, SoundNext
  <2>4. DOMAIN comp.members = {log[i] : i \in DOMAIN log}
    BY <1>2, <1>6 DEF ReadLines
  <2>5. {log'[i] : i \in DOMAIN log'} = {log[i] : i \in DOMAIN log} \cup {line}
    BY <1>4
  <2>6. DOMAIN comp'.members = {log'[i] : i \in DOMAIN log'}
    BY <2>1, <2>2, <2>4, <2>5
  <2>7. ReadLines'
    BY <1>1, <1>4, <1>5, <1>6, <2>1, <2>6 DEF ReadLines
  <2> QED BY <1>1, <1>2, <2>3, <2>7 DEF Content
<1>7. CASE typ = "cidr"
  <2>1. /\ DOMAIN comp.members = {LinePrefix(log[i]) : i \in DOMAIN log}
        /\ \A i \in DOMAIN log : LinePrefix(log[i]) # NoPrefix
        /\ \A i \in DOMAIN log : log[i].kind # "neither"
    BY <1>1, <1>2, <1>7 DEF ReadLines
  <2>2. line \in Lines
    BY <1>7
  <2>3. CASE line.kind = "neither"
    <3>1. comp' = comp /\ state' = "refused"
      BY <1>7, <2>3 DEF readLine
    <3>2. Sound(comp)'
      BY <1>1, <1>2, <3>1, SoundNext
    <3>3. \E i \in DOMAIN log' : log'[i].kind = "neither"
      BY <1>4, <2>3
    <3>4. ReadLines'
      BY <1>1, <1>4, <1>5, <1>7, <3>1, <3>3 DEF ReadLines
    <3> QED BY <1>1, <1>2, <1>7, <3>2, <3>4 DEF Content
  <2>4. CASE line.kind # "neither"
    <3>1. \A i \in DOMAIN log' : log'[i].kind # "neither"
      BY <1>4, <2>1, <2>4
    <3>2. CASE LinePrefix(line) = NoPrefix
      <4>1. comp' = comp /\ state' = "panic"
        BY <1>7, <2>4, <3>2 DEF readLine
      <4>2. Sound(comp)'
        BY <1>1, <1>2, <4>1, SoundNext
      <4>3. ReadLines'
        BY <1>1, <1>4, <1>5, <1>7, <3>1, <4>1 DEF ReadLines
      <4> QED BY <1>1, <1>2, <1>7, <4>2, <4>3 DEF Content
    <3>3. CASE LinePrefix(line) # NoPrefix
      <4> DEFINE x == LinePrefix(line)
      <4>1. comp' = add(comp, x, 0) /\ state' = state
        BY <1>7, <2>4, <3>3 DEF readLine
      <4>2. Counted(x)
        BY <2>2, <3>3, LineCounted
      <4> HIDE DEF x
      <4>3. /\ Sound(add(comp, x, 0))
            /\ DOMAIN add(comp, x, 0).members = DOMAIN comp.members \cup {x}
        BY <1>2, <4>2, AddSound
      <4>4. Sound(comp)'
        BY <1>1, <4>1, <4>3, SoundNext
      <4>5. {LinePrefix(log'[i]) : i \in DOMAIN log'} = {LinePrefix(log[i]) : i \in DOMAIN log} \cup {x}
        BY <1>4 DEF x
      <4>6. DOMAIN comp'.members = {LinePrefix(log'[i]) : i \in DOMAIN log'}
        BY <2>1, <4>1, <4>3, <4>5
      <4>7. \A i \in DOMAIN log' : LinePrefix(log'[i]) # NoPrefix
        BY <1>4, <2>1, <3>3
      <4>8. {LinePrefix(log[i]) : i \in DOMAIN log}' = {LinePrefix(log'[i]) : i \in DOMAIN log'}
            /\ (\A i \in DOMAIN log : LinePrefix(log[i]) # NoPrefix)'
        BY <4>7 DEF LinePrefix, Masked, Unmap, NoPrefix
      <4>9. ReadLines'
        BY <1>1, <1>4, <1>5, <1>7, <3>1, <4>1, <4>6, <4>8 DEF ReadLines
      <4> QED BY <1>1, <1>2, <1>7, <4>4, <4>9 DEF Content
    <3> QED BY <3>2, <3>3
  <2> QED BY <2>3, <2>4
<1> QED BY <1>2, <1>6, <1>7

\* The end of the file, the clock, and steps of the environment.
LEMMA OtherKeeps ==
    ASSUME Content, readEnd \/ Tick \/ UNCHANGED vars
    PROVE  Content'
<1>1. /\ form' = form /\ typ' = typ /\ comp' = comp /\ log' = log
      /\ state' = state \/ (state = "reading" /\ state' = "ready")
      /\ now' = now \/ now' = now + 1
  BY DEF readEnd, Tick, vars
<1>2. /\ Sound(comp) /\ form \in {"mirror", "static"} /\ typ \in {"cidr", "string"} /\ now \in Nat
      /\ form = "mirror" => Mirrored
      /\ form = "static" => ReadLines
  BY DEF Content
<1>3. Sound(comp)' /\ now' \in Nat
  BY <1>1, <1>2, SoundNext
<1>4. Declared' = Declared /\ \A y : LastOf(y)' = LastOf(y)
  BY <1>1 DEF Declared, LastOf
<1>5. form = "mirror" => Mirrored'
  BY <1>1, <1>2, <1>4 DEF Mirrored, Record
<1>6. \A i : LinePrefix(log[i])' = LinePrefix(log[i])
  BY <1>1 DEF LinePrefix, Masked, Unmap, NoPrefix
<1>7. form = "static" => ReadLines'
  BY <1>1, <1>2, <1>6 DEF ReadLines, NoPrefix
<1> QED BY <1>1, <1>2, <1>3, <1>5, <1>7 DEF Content

\* The invariant holds in every state of a list.
LEMMA ContentInvariant == Spec => []Content
<1>1. ASSUME Content, [Next]_vars PROVE Content'
  <2>1. ASSUME NEW x \in IF typ = "cidr" THEN Published ELSE Values,
               (\E exp \in Expiries : apply("add", x, exp)) \/ apply("remove", x, 0)
        PROVE  Content'
    <3>1. 0 \in Nat /\ \A exp \in Expiries : exp \in Nat
      BY ListsAssumption
    <3> QED BY <1>1, <2>1, <3>1, ApplyKeeps
  <2>2. ASSUME NEW line \in IF typ = "cidr" THEN Lines ELSE Values, readLine(line) PROVE Content'
    BY <1>1, <2>2, ReadLineKeeps
  <2>3. CASE readEnd \/ Tick \/ UNCHANGED vars
    BY <1>1, <2>3, OtherKeeps
  <2> QED BY <1>1, <2>1, <2>2, <2>3 DEF Next
<1> QED BY <1>1, InitContent, PTL DEF Spec

-----------------------------------------------------------------------------
(* The theorems.                                                           *)

\* The hash verify compares with the keeper's is that of the declared members,
\* and the counters count them, whatever records came.
THEOREM HashAndCounters == Spec => []HashAndCountersExact
<1>1. Content => HashAndCountersExact
  BY DEF Content, Mirrored, Sound, OfLength, HashAndCountersExact
<1> QED BY <1>1, ContentInvariant, PTL

\* A counter lets containsAddr see every member of its length.
LEMMA MemberCounted ==
    ASSUME Sound(comp), typ = "cidr", NEW p \in DOMAIN comp.members, Counted(p)
    PROVE  comp.lens[<<p.fam, p.bits>>] # 0
<1> DEFINE S == OfLength(comp, p.fam, p.bits)
<1>1. p \in S /\ S \subseteq DOMAIN comp.members
  BY DEF OfLength
<1>2. IsFiniteSet(S)
  BY <1>1, FS_Subset DEF Sound
<1>3. Cardinality(S) # 0
  BY <1>1, <1>2, FS_EmptySet
<1>4. comp.lens[<<p.fam, p.bits>>] = Cardinality(S)
  BY DEF Sound, Counted
<1> QED BY <1>3, <1>4

\* The search by lengths finds a member exactly when one covers the address.
LEMMA SearchIsExact ==
    ASSUME NEW a, IsAddress(a), NEW p, IsAddress(p), NEW b \in Nat, b <= Widths[p.fam]
    PROVE  Begins(a, p.fam, p.n, b)
              <=> b \in 0 .. Widths[a.fam] /\ Masked(a, b) = Masked(p, b)
<1>1. Widths[a.fam] \in Nat
  BY WidthsAreNumbers DEF IsAddress
<1>2. b \in 0 .. Widths[a.fam] <=> b <= Widths[a.fam]
  BY <1>1
<1> QED BY <1>2, SameBlock

\* A lookup in a mirrored list is the lookup in the declared content.
THEOREM MirrorLookups == Spec => []LookupExact
<1>1. ASSUME Content, form = "mirror", typ = "string", NEW v \in Values
      PROVE  Lookup(v) <=> Live(v)
  BY <1>1 DEF Content, Mirrored, Lookup, Live
<1>2. ASSUME Content, form = "mirror", typ = "cidr", NEW ip \in Addresses
      PROVE  /\ containsAddr(ip) <=> \E p \in Declared :
                    Live(p) /\ Begins(Unmap(ip), p.fam, p.n, p.bits)
             /\ \A b \in 0 .. Width6 : containsPrefix(ip, b) <=>
                    \E p \in Declared : Live(p) /\ p.bits = b
                                        /\ Begins(Unmap(ip), p.fam, p.n, b)
  <2> DEFINE a == Unmap(ip)
             M == DOMAIN comp.members
  <2>1. Sound(comp) /\ Mirrored /\ IsAddress(a)
    BY <1>2, UnmapAddress DEF Content
  <2>2. /\ M = Declared
        /\ \A p \in Declared : Live(p) <=> alive(comp.members[p])
    BY <2>1 DEF Mirrored, Live
  <2>3. Declared \subseteq Published
    <3>1. log \in Seq(Record)
      BY <2>1 DEF Mirrored
    <3>2. \A i \in DOMAIN log : log[i] \in Record
      BY <3>1
    <3>3. \A i \in DOMAIN log : log[i].x \in Published
      BY <1>2, <3>2 DEF Record
    <3> QED BY <3>3 DEF Declared
  <2> HIDE DEF a
  <2>4. ASSUME NEW p \in Declared
        PROVE  /\ Counted(p) /\ IsAddress(p) /\ p.bits \in Nat /\ p.bits <= Widths[p.fam]
               /\ Masked(p, p.bits) = p
    BY <2>3, PublishedPrefix
  <2>5. ASSUME NEW p \in Declared
        PROVE  Begins(a, p.fam, p.n, p.bits) <=> p.bits \in 0 .. Widths[a.fam] /\ Masked(a, p.bits) = p
    <3>1. Masked(p, p.bits) = p
      BY <2>4
    <3>2. Begins(a, p.fam, p.n, p.bits)
              <=> p.bits \in 0 .. Widths[a.fam] /\ Masked(a, p.bits) = Masked(p, p.bits)
      BY <2>1, <2>4, SearchIsExact
    <3> QED BY <3>1, <3>2
  <2>6. ASSUME NEW b \in 0 .. Widths[a.fam], Masked(a, b) \in M
        PROVE  Masked(a, b).bits = b /\ Masked(a, b).fam = a.fam
    <3>1. b \in Nat /\ b <= Widths[a.fam]
      BY <2>1, WidthsAreNumbers DEF IsAddress
    <3> QED BY <2>1, <3>1, MaskedIs
  <2>7. containsAddr(ip) <=> \E p \in Declared : Live(p) /\ Begins(a, p.fam, p.n, p.bits)
    <3>1. ASSUME containsAddr(ip)
          PROVE  \E p \in Declared : Live(p) /\ Begins(a, p.fam, p.n, p.bits)
      <4>1. PICK b \in 0 .. Widths[a.fam] : Masked(a, b) \in M /\ alive(comp.members[Masked(a, b)])
        BY <3>1 DEF containsAddr, a
      <4> DEFINE p == Masked(a, b)
      <4>2. p \in Declared /\ Live(p) /\ p.bits = b
        BY <2>2, <2>6, <4>1
      <4>3. Begins(a, p.fam, p.n, p.bits)
        BY <2>5, <4>2
      <4> QED BY <4>2, <4>3
    <3>2. ASSUME NEW p \in Declared, Live(p), Begins(a, p.fam, p.n, p.bits)
          PROVE  containsAddr(ip)
      <4>1. p.bits \in 0 .. Widths[a.fam] /\ Masked(a, p.bits) = p
        BY <2>5, <3>2
      <4>2. p \in M /\ alive(comp.members[p])
        BY <2>2, <3>2
      <4>3. a.fam = p.fam
        BY <3>2 DEF Begins
      <4>4. comp.lens[<<a.fam, p.bits>>] # 0
        BY <1>2, <2>1, <2>4, <4>2, <4>3, MemberCounted
      <4> QED BY <4>1, <4>2, <4>4 DEF containsAddr, a
    <3> QED BY <3>1, <3>2
  <2>8. ASSUME NEW b \in 0 .. Width6
        PROVE  containsPrefix(ip, b) <=>
                   \E p \in Declared : Live(p) /\ p.bits = b /\ Begins(a, p.fam, p.n, b)
    <3> DEFINE p == Masked(a, b)
    <3>1. containsPrefix(ip, b) <=> p \in M /\ alive(comp.members[p])
      BY DEF containsPrefix, a
    <3>2. b \in Nat /\ Widths[a.fam] \in Nat
      BY <2>1, WidthsAreNumbers DEF IsAddress
    <3>3. ASSUME p \in Declared PROVE p.bits = b /\ b \in 0 .. Widths[a.fam]
      <4>1. p # NoPrefix
        <5>1. NoPrefix.fam = 0
          BY DEF NoPrefix
        <5>2. p.fam # 0
          BY <2>4, <3>3 DEF IsAddress
        <5> QED BY <5>1, <5>2
      <4>2. ~(b > Widths[a.fam])
        BY <2>1, <3>2, <4>1, MaskedIs
      <4>3. b <= Widths[a.fam]
        BY <3>2, <4>2
      <4> QED BY <2>1, <3>2, <4>3, MaskedIs
    <3> HIDE DEF p
    <3>4. ASSUME p \in M, alive(comp.members[p])
          PROVE  p \in Declared /\ Live(p) /\ p.bits = b /\ Begins(a, p.fam, p.n, b)
      <4>1. p \in Declared /\ Live(p) /\ p.bits = b /\ b \in 0 .. Widths[a.fam]
        BY <2>2, <3>3, <3>4
      <4>2. Begins(a, p.fam, p.n, p.bits)
        BY <2>5, <4>1 DEF p
      <4> QED BY <4>1, <4>2
    <3>5. ASSUME NEW u \in Declared, Live(u), u.bits = b, Begins(a, u.fam, u.n, b)
          PROVE  p \in M /\ alive(comp.members[p])
      <4>1. Masked(a, u.bits) = u
        BY <2>5, <3>5
      <4>2. u = p
        BY <3>5, <4>1 DEF p
      <4> QED BY <2>2, <3>5, <4>2
    <3> QED BY <3>1, <3>4, <3>5
  <2> QED BY <2>7, <2>8 DEF a
<1>3. Content => LookupExact
  BY <1>1, <1>2 DEF LookupExact, Content
<1> QED BY <1>3, ContentInvariant, PTL

\* A static list that was loaded holds exactly what its lines name, and a line
\* that is neither an address nor a prefix refuses it.
THEOREM StaticListsExact == Spec => []StaticExact
<1>1. ASSUME Content, form = "static"
      PROVE  state = "refused" <=> typ = "cidr" /\ \E i \in DOMAIN log : log[i].kind = "neither"
  BY <1>1 DEF Content, ReadLines
<1>2. ASSUME Content, form = "static", state = "ready", typ = "string", NEW v \in Values
      PROVE  v \in DOMAIN comp.members <=> \E i \in DOMAIN log : log[i] = v
  BY <1>2 DEF Content, ReadLines
<1>3. ASSUME Content, form = "static", state = "ready", typ = "cidr", NEW ip \in Addresses
      PROVE  staticContainsAddr(ip) <=> \E i \in DOMAIN log : Names(log[i], Unmap(ip))
  <2> DEFINE a == Unmap(ip)
             M == DOMAIN comp.members
             base(i) == Unmap(log[i].addr)
             k(i) == LineBits(log[i])
  <2>1. /\ Sound(comp) /\ IsAddress(a) /\ log \in Seq(Lines)
        /\ M = {LinePrefix(log[i]) : i \in DOMAIN log}
        /\ \A i \in DOMAIN log : LinePrefix(log[i]) # NoPrefix
    BY <1>3, UnmapAddress DEF Content, ReadLines
  <2>2. ASSUME NEW i \in DOMAIN log
        PROVE  /\ IsAddress(base(i)) /\ k(i) \in Nat /\ k(i) <= Widths[base(i).fam]
               /\ LinePrefix(log[i]) = Masked(base(i), k(i)) /\ Counted(LinePrefix(log[i]))
               /\ LinePrefix(log[i]).bits = k(i)
    <3>1. log[i] \in Lines /\ LinePrefix(log[i]) # NoPrefix
      BY <2>1
    <3>2. /\ IsAddress(base(i)) /\ k(i) \in 0 .. Width6 /\ k(i) <= Widths[base(i).fam]
          /\ LinePrefix(log[i]) = Masked(base(i), k(i))
      BY <3>1, LineIs
    <3>3. k(i) \in Nat
      BY <3>2, WidthsAreNumbers
    <3> HIDE DEF base, k
    <3>4. Masked(base(i), k(i)).bits = k(i)
      BY <3>2, <3>3, MaskedIs
    <3> QED BY <3>1, <3>2, <3>3, <3>4, LineCounted
  <2>3. ASSUME NEW i \in DOMAIN log
        PROVE  Names(log[i], a) <=> k(i) \in 0 .. Widths[a.fam] /\ Masked(a, k(i)) = LinePrefix(log[i])
    <3>1. Names(log[i], a) <=> Begins(a, base(i).fam, base(i).n, k(i))
      BY DEF Names, LineBits
    <3> HIDE DEF base, k, a
    <3>2. Begins(a, base(i).fam, base(i).n, k(i))
              <=> k(i) \in 0 .. Widths[a.fam] /\ Masked(a, k(i)) = Masked(base(i), k(i))
      BY <2>1, <2>2, SearchIsExact
    <3> QED BY <2>2, <3>1, <3>2
  <2> HIDE DEF a, k
  <2>4. ASSUME NEW b \in 0 .. Widths[a.fam]
        PROVE  Masked(a, b).bits = b /\ Masked(a, b).fam = a.fam
    <3>1. b \in Nat /\ b <= Widths[a.fam]
      BY <2>1, WidthsAreNumbers DEF IsAddress
    <3> QED BY <2>1, <3>1, MaskedIs
  <2>5. ASSUME staticContainsAddr(ip) PROVE \E i \in DOMAIN log : Names(log[i], a)
    <3>1. PICK b \in 0 .. Widths[a.fam] : Masked(a, b) \in M
      BY <2>5 DEF staticContainsAddr, a
    <3>2. PICK i \in DOMAIN log : Masked(a, b) = LinePrefix(log[i])
      BY <2>1, <3>1
    <3>3. k(i) = b
      BY <2>2, <2>4, <3>2
    <3> QED BY <2>3, <3>2, <3>3
  <2>6. ASSUME NEW i \in DOMAIN log, Names(log[i], a) PROVE staticContainsAddr(ip)
    <3> DEFINE p == LinePrefix(log[i])
    <3>1. k(i) \in 0 .. Widths[a.fam] /\ Masked(a, k(i)) = p
      BY <2>3, <2>6
    <3>2. p \in M /\ Counted(p) /\ p.bits = k(i)
      BY <2>1, <2>2
    <3>3. p.fam = a.fam
      BY <2>4, <3>1
    <3> HIDE DEF p, M
    <3>4. comp.lens[<<p.fam, p.bits>>] # 0
      BY <1>3, <2>1, <3>2, MemberCounted DEF M
    <3> QED BY <3>1, <3>2, <3>3, <3>4 DEF staticContainsAddr, a, M
  <2> QED BY <2>5, <2>6 DEF a
<1>4. Content => StaticExact
  BY <1>1, <1>2, <1>3 DEF StaticExact
<1> QED BY <1>4, ContentInvariant, PTL
=============================================================================
