-------------------------- MODULE EvaluatorProofs --------------------------
(***************************************************************************)
(* Theorems about Evaluator, for every loadable profile, every request and *)
(* any number of changes of the mirror; about ConditionGraph, for every    *)
(* graph of references: which profiles are loaded, and that those are the  *)
(* loadable ones; and about Profiles: which entries are accepted.          *)
(***************************************************************************)
EXTENDS Evaluator, Profiles, SelectionProofs, FiniteSetTheorems

-----------------------------------------------------------------------------
(* Types.                                                                  *)

Frame == [cond : Cond, at : Nat, read : BOOLEAN, left : SUBSET Value]

ClausesOf(c) == profile.conds[c].clauses

Types ==
    /\ profile \in Profile /\ locator \in Locator /\ content \in Content
    /\ changes \in Nat
    /\ rule \in Nat /\ rule > 0 /\ rule <= Len(profile.rules) + 1
    /\ loaded \in [Object -> {"no", "ok", "missing"}]
    /\ fetches \in [Object -> Nat]
    /\ fired \in Seq(Nat)

-----------------------------------------------------------------------------
(* A condition is evaluated once.                                          *)

\* The orders of the names in which every reference comes before.
Ranks ==
    {rank \in [Cond -> 1 .. Cardinality(Cond)] :
        \A c \in Cond : \A i \in 1 .. Len(ClausesOf(c)) :
            ClausesOf(c)[i].ref # NoCond => rank[ClausesOf(c)[i].ref] < rank[c]}

\* The calls in progress go down in every such order.
Nested ==
    \A rank \in Ranks : \A i, j \in 1 .. Len(stack) :
        i < j => rank[stack[i].cond] < rank[stack[j].cond]

\* A condition was begun once when it has a value or is being evaluated, and
\* it is not both.
Once ==
    \A c \in Cond : begun[c] = IF c \in done \cup Busy THEN 1 ELSE 0

Calls ==
    /\ stack \in Seq(Frame)
    /\ \A k \in 1 .. Len(stack) :
          stack[k].at \in 1 .. Len(ClausesOf(stack[k].cond)) /\ stack[k].cond \notin done
    /\ done \subseteq Cond /\ holds \subseteq done
    /\ begun \in [Cond -> Nat]
    /\ Nested /\ Once

Fetched ==
    \A o \in Object : fetches[o] <= 1 /\ (loaded[o] = "no" => fetches[o] = 0)

-----------------------------------------------------------------------------
(* The rules decided so far.                                               *)

Decided ==
    /\ \A j, k \in 1 .. Len(fired) : j < k => fired[j] < fired[k]
    /\ Fired \subseteq 1 .. rule - 1
    /\ \A i \in 1 .. rule - 1 :
          LET r == profile.rules[i]
          IN  IF r.applies /\ r.cond # NoCond
              THEN /\ r.cond \in done
                   /\ i \in Fired <=> (r.cond \in holds) # r.negate
              ELSE i \in Fired <=> r.applies

-----------------------------------------------------------------------------
(* The values found are the declared ones.                                 *)

Truth(cl, f, s) ==
    IF cl.ref # NoCond THEN f[cl.ref]
    ELSE \E v \in Values(cl.operand, s) : Hit(cl.test, v)

Agrees(f) == \A c \in done : f[c] <=> c \in holds

\* The clauses before the current one left the condition open, and so did the
\* values of the current one that were looked up.
Open(fr, f, s) ==
    /\ \A i \in 1 .. fr.at - 1 :
          ClauseHolds(ClausesOf(fr.cond)[i], f, s) <=> ~profile.conds[fr.cond].any
    /\ fr.read =>
          LET cl == ClausesOf(fr.cond)[fr.at]
          IN  /\ cl.ref = NoCond /\ fr.left \subseteq Values(cl.operand, s)
              /\ \A v \in Values(cl.operand, s) : v \in fr.left \/ ~Hit(cl.test, v)

Exact ==
    changes = 0 =>
        \A s \in Completions, f \in [Cond -> BOOLEAN] :
            Meaning(f, s) => Agrees(f) /\ \A k \in 1 .. Len(stack) : Open(stack[k], f, s)

Inv == Types /\ Calls /\ Fetched /\ Decided /\ Exact

-----------------------------------------------------------------------------
(* Profiles and stacks.                                                    *)

\* A loaded profile has rules, conditions with clauses, and a rank.
LEMMA ProfileFacts ==
    ASSUME Types
    PROVE  /\ profile.rules \in Seq(Rule)
           /\ \A c \in Cond : /\ profile.conds[c].any \in BOOLEAN
                              /\ ClausesOf(c) \in Seq(Clause) /\ Len(ClausesOf(c)) > 0
           /\ Ranks # {}
<1>1. Loadable(profile)
  BY EvaluatorAssumption DEF Types
<1>2. profile.rules \in Seq(Rule)
  BY <1>1 DEF Loadable
<1>3. ASSUME NEW c \in Cond
      PROVE  /\ profile.conds[c].any \in BOOLEAN
             /\ ClausesOf(c) \in Seq(Clause) /\ ClausesOf(c) # <<>>
  <2>1. profile.conds[c] \in Condition /\ profile.conds[c].clauses # <<>>
    BY <1>1 DEF Loadable
  <2> QED BY <2>1 DEF Condition, ClausesOf
<1>4. \A c \in Cond : Len(ClausesOf(c)) > 0
  BY <1>3, EmptySeq, LenProperties
<1>5. Ranks # {}
  <2>1. PICK rank \in [Cond -> 1 .. Cardinality(Cond)] :
            \A c \in Cond : \A i \in DOMAIN profile.conds[c].clauses :
               profile.conds[c].clauses[i].ref # NoCond =>
                   rank[profile.conds[c].clauses[i].ref] < rank[c]
    BY <1>1 DEF Loadable
  <2>2. \A c \in Cond : DOMAIN ClausesOf(c) = 1 .. Len(ClausesOf(c))
    BY <1>3, LenProperties
  <2>3. \A c \in Cond : \A i \in 1 .. Len(ClausesOf(c)) :
            ClausesOf(c)[i].ref # NoCond => rank[ClausesOf(c)[i].ref] < rank[c]
    BY <2>1, <2>2 DEF ClausesOf
  <2> QED BY <2>3 DEF Ranks
<1> QED BY <1>2, <1>3, <1>4, <1>5

\* Ranks are numbers.
LEMMA RankNumbers ==
    ASSUME NEW rank \in Ranks, NEW c \in Cond PROVE rank[c] \in Int
<1>1. Cardinality(Cond) \in Nat
  BY EvaluatorAssumption, FS_CardinalityType
<1> QED BY <1>1 DEF Ranks

\* A call puts one activation on the stack.
LEMMA Pushed ==
    ASSUME NEW S, NEW s \in Seq(S), NEW e \in S
    PROVE  /\ <<e>> \o s \in Seq(S) /\ Len(<<e>> \o s) = Len(s) + 1
           /\ (<<e>> \o s)[1] = e
           /\ \A k \in 2 .. Len(s) + 1 : (<<e>> \o s)[k] = s[k - 1] /\ k - 1 \in 1 .. Len(s)
<1>1. <<e>> \in Seq(S) /\ Len(<<e>>) = 1 /\ <<e>>[1] = e
  OBVIOUS
<1>2. Len(s) \in Nat
  OBVIOUS
<1> QED BY <1>1, <1>2, ConcatProperties

\* A return takes the last activation off.
LEMMA Popped ==
    ASSUME NEW S, NEW s \in Seq(S), s # <<>>
    PROVE  /\ Tail(s) \in Seq(S) /\ Len(s) \in Nat /\ Len(s) > 0 /\ Len(Tail(s)) = Len(s) - 1
           /\ Head(s) = s[1] /\ s[1] \in S /\ 1 \in 1 .. Len(s)
           /\ \A k \in 1 .. Len(s) - 1 : Tail(s)[k] = s[k + 1] /\ k + 1 \in 1 .. Len(s)
<1>1. Len(s) \in Nat /\ Len(s) > 0
  BY EmptySeq, LenProperties
<1>2. Head(s) = s[1] /\ 1 \in 1 .. Len(s) /\ s[1] \in S
  BY <1>1, ElementOfSeq
<1>3. Tail(s) \in Seq(S) /\ Len(Tail(s)) = Len(s) - 1 /\ \A k \in 1 .. Len(Tail(s)) : Tail(s)[k] = s[k + 1]
  BY HeadTailProperties
<1> QED BY <1>1, <1>2, <1>3

\* A step within an activation changes only that one.
LEMMA Replaced ==
    ASSUME NEW S, NEW s \in Seq(S), s # <<>>, NEW e \in S
    PROVE  /\ <<e>> \o Tail(s) \in Seq(S) /\ Len(<<e>> \o Tail(s)) = Len(s)
           /\ (<<e>> \o Tail(s))[1] = e
           /\ \A k \in 2 .. Len(s) : (<<e>> \o Tail(s))[k] = s[k]
<1>1. /\ Tail(s) \in Seq(S) /\ Len(s) \in Nat /\ Len(Tail(s)) = Len(s) - 1
      /\ \A k \in 1 .. Len(s) - 1 : Tail(s)[k] = s[k + 1]
  BY Popped
<1> DEFINE t == Tail(s)
<1>2. /\ <<e>> \o t \in Seq(S) /\ Len(<<e>> \o t) = Len(t) + 1
      /\ (<<e>> \o t)[1] = e
      /\ \A k \in 2 .. Len(t) + 1 : (<<e>> \o t)[k] = t[k - 1] /\ k - 1 \in 1 .. Len(t)
  <2> HIDE DEF t
  <2> QED BY <1>1, Pushed DEF t
<1>3. ASSUME NEW k \in 2 .. Len(s) PROVE (<<e>> \o t)[k] = s[k]
  <2>1. k - 1 \in 1 .. Len(s) - 1 /\ (k - 1) + 1 = k /\ k \in 2 .. Len(t) + 1
    BY <1>1
  <2> QED BY <1>1, <1>2, <2>1
<1> QED BY <1>1, <1>2, <1>3

-----------------------------------------------------------------------------
(* Calls, returns and the innermost call.                                  *)

\* The activation on top is one of a condition, at one of its clauses.
LEMMA TopFacts ==
    ASSUME Types, Calls, Evaluating
    PROVE  /\ Top = stack[1] /\ Top \in Frame /\ Top.cond \in Cond /\ Top.cond \notin done
           /\ Top.at \in 1 .. Len(ClausesOf(Top.cond))
           /\ Cl = ClausesOf(Top.cond)[Top.at] /\ Cl \in Clause
           /\ Len(stack) \in Nat /\ Len(stack) > 0
<1>1. stack \in Seq(Frame) /\ stack # <<>>
  BY DEF Calls, Evaluating
<1>2. Len(stack) \in Nat /\ Len(stack) > 0 /\ Head(stack) = stack[1] /\ stack[1] \in Frame
      /\ 1 \in 1 .. Len(stack)
  BY <1>1, Popped
<1>3. Top = stack[1] /\ Top \in Frame
  BY <1>2 DEF Top
<1>4. Top.cond \in Cond
  BY <1>3 DEF Frame
<1>5. Top.at \in 1 .. Len(ClausesOf(Top.cond)) /\ Top.cond \notin done
  BY <1>2, <1>3 DEF Calls
<1>6. Cl = ClausesOf(Top.cond)[Top.at]
  BY DEF Cl, Cur, ClausesOf
<1>7. ClausesOf(Top.cond) \in Seq(Clause)
  BY <1>4, ProfileFacts
<1> QED BY <1>2, <1>3, <1>4, <1>5, <1>6, <1>7, ElementOfSeq

\* What a clause refers to comes before every condition being evaluated.
LEMMA RefIsLower ==
    ASSUME Types, Calls, Evaluating, Cl.ref # NoCond
    PROVE  /\ Cl.ref \in Cond
           /\ \A rank \in Ranks : \A k \in 1 .. Len(stack) : rank[Cl.ref] < rank[stack[k].cond]
<1>1. /\ Top = stack[1] /\ Top.cond \in Cond /\ Top.at \in 1 .. Len(ClausesOf(Top.cond))
      /\ Cl = ClausesOf(Top.cond)[Top.at] /\ Cl \in Clause
      /\ Len(stack) \in Nat /\ Len(stack) > 0
  BY TopFacts
<1>2. Cl.ref \in Cond
  BY <1>1 DEF Clause
<1>3. ASSUME NEW rank \in Ranks, NEW k \in 1 .. Len(stack)
      PROVE  rank[Cl.ref] < rank[stack[k].cond]
  <2>1. rank[Cl.ref] < rank[Top.cond]
    BY <1>1 DEF Ranks
  <2>2. stack[k].cond \in Cond
    <3>1. stack[k] \in Frame
      BY ElementOfSeq DEF Calls
    <3> QED BY <3>1 DEF Frame
  <2>3. rank[Cl.ref] \in Int /\ rank[Top.cond] \in Int /\ rank[stack[k].cond] \in Int
    BY <1>1, <1>2, <2>2, RankNumbers
  <2>4. k = 1 \/ (1 < k /\ 1 \in 1 .. Len(stack))
    BY <1>1
  <2>5. k # 1 => rank[Top.cond] < rank[stack[k].cond]
    BY <1>1, <2>4 DEF Calls, Nested
  <2> QED BY <1>1, <2>1, <2>3, <2>5
<1> QED BY <1>2, <1>3

\* A condition that a clause refers to is not being evaluated.
LEMMA RefIsNotBusy ==
    ASSUME Types, Calls, Evaluating, Cl.ref # NoCond
    PROVE  Cl.ref \notin Busy
<1>1. SUFFICES ASSUME NEW k \in DOMAIN stack, stack[k].cond = Cl.ref PROVE FALSE
  BY DEF Busy
<1>2. k \in 1 .. Len(stack)
  BY LenProperties DEF Calls
<1>3. PICK rank \in Ranks : TRUE
  BY ProfileFacts
<1>4. rank[Cl.ref] < rank[Cl.ref] /\ rank[Cl.ref] \in Int
  BY <1>1, <1>2, <1>3, RefIsLower, RankNumbers
<1> QED BY <1>4

\* A call keeps the stack descending and the memo apart from it.
LEMMA CallKeeps ==
    ASSUME Types, Calls, NEW c \in Cond, c \notin done \cup Busy, Call(c),
           UNCHANGED <<env, done, holds>>,
           \A rank \in Ranks : \A k \in 1 .. Len(stack) : rank[c] < rank[stack[k].cond]
    PROVE  Calls'
<1> DEFINE fr == [cond |-> c, at |-> 1, read |-> FALSE, left |-> {}]
<1>1. fr \in Frame /\ fr.cond = c /\ fr.at = 1
  BY DEF Frame
<1>2. stack' = <<fr>> \o stack /\ stack \in Seq(Frame)
  BY DEF Call, Calls
<1> HIDE DEF fr
<1>3. /\ stack' \in Seq(Frame) /\ Len(stack') = Len(stack) + 1 /\ stack'[1] = fr
      /\ \A k \in 2 .. Len(stack) + 1 : stack'[k] = stack[k - 1] /\ k - 1 \in 1 .. Len(stack)
      /\ Len(stack) \in Nat
  BY <1>1, <1>2, Pushed, LenProperties
<1>4. \A k \in 1 .. Len(stack') : k = 1 \/ k \in 2 .. Len(stack) + 1
  BY <1>3
<1>5. profile' = profile /\ Ranks' = Ranks
  BY DEF env, ClausesOf, Ranks
<1>6. ASSUME NEW k \in 1 .. Len(stack')
      PROVE  /\ stack'[k].at \in 1 .. Len(ClausesOf(stack'[k].cond))
             /\ stack'[k].cond \notin done'
  <2>1. CASE k = 1
    <3>1. Len(ClausesOf(c)) > 0 /\ Len(ClausesOf(c)) \in Nat
      BY ProfileFacts, LenProperties
    <3> QED BY <1>1, <1>3, <2>1, <3>1
  <2>2. CASE k \in 2 .. Len(stack) + 1
    BY <1>3, <2>2 DEF Calls
  <2> QED BY <1>4, <2>1, <2>2
<1>7. Nested'
  <2> SUFFICES ASSUME NEW rank \in Ranks, NEW i \in 1 .. Len(stack'), NEW j \in 1 .. Len(stack'),
                      i < j
               PROVE  rank[stack'[i].cond] < rank[stack'[j].cond]
    BY <1>5 DEF Nested
  <2>1. j \in 2 .. Len(stack) + 1 /\ stack'[j] = stack[j - 1] /\ j - 1 \in 1 .. Len(stack)
    BY <1>3
  <2>2. CASE i = 1
    BY <1>1, <1>3, <2>1, <2>2
  <2>3. CASE i \in 2 .. Len(stack) + 1
    <3>1. stack'[i] = stack[i - 1] /\ i - 1 \in 1 .. Len(stack) /\ i - 1 < j - 1
      BY <1>3, <2>3
    <3> QED BY <2>1, <3>1 DEF Calls, Nested
  <2> QED BY <1>4, <2>2, <2>3
<1>8. Busy' = Busy \cup {c}
  <2>1. DOMAIN stack = 1 .. Len(stack) /\ DOMAIN stack' = 1 .. Len(stack')
    BY <1>2, <1>3, LenProperties
  <2>2. ASSUME NEW k \in 1 .. Len(stack) PROVE stack'[k + 1] = stack[k] /\ k + 1 \in 1 .. Len(stack')
    <3>1. k + 1 \in 2 .. Len(stack) + 1 /\ (k + 1) - 1 = k
      BY <1>3
    <3> QED BY <1>3, <3>1
  <2>3. 1 \in 1 .. Len(stack')
    BY <1>3
  <2>4. Busy' \subseteq Busy \cup {c}
    <3> SUFFICES ASSUME NEW k \in DOMAIN stack' PROVE stack'[k].cond \in Busy \cup {c}
      BY DEF Busy
    <3>1. k \in 1 .. Len(stack')
      BY <2>1
    <3>2. CASE k = 1
      BY <1>1, <1>3, <3>2
    <3>3. CASE k \in 2 .. Len(stack) + 1
      BY <1>3, <2>1, <3>3 DEF Busy
    <3> QED BY <1>4, <3>1, <3>2, <3>3
  <2>5. Busy \subseteq Busy'
    BY <2>1, <2>2 DEF Busy
  <2>6. c \in Busy'
    BY <1>1, <1>3, <2>1, <2>3 DEF Busy
  <2> QED BY <2>4, <2>5, <2>6
<1>9. begun' \in [Cond -> Nat] /\ Once'
  <2>1. begun[c] = 0 /\ begun \in [Cond -> Nat]
    BY DEF Calls, Once
  <2>2. begun' = [begun EXCEPT ![c] = 1]
    BY <2>1 DEF Call
  <2> QED BY <1>8, <2>1, <2>2 DEF Calls, Once
<1>10. \A k \in 1 .. Len(stack') : stack'[k].at \in 1 .. Len(profile'.conds[stack'[k].cond].clauses)
  BY <1>5, <1>6 DEF ClausesOf
<1>11. done' \subseteq Cond /\ holds' \subseteq done'
  BY DEF Calls
<1> QED BY <1>3, <1>6, <1>7, <1>9, <1>10, <1>11 DEF Calls, ClausesOf

\* A return moves the condition from the stack to the memo.
LEMMA ReturnKeeps ==
    ASSUME Types, Calls, Evaluating, NEW v, Return(v), UNCHANGED <<env, begun>>
    PROVE  Calls'
<1>1. Top = stack[1] /\ Top.cond \in Cond /\ Top.cond \notin done
  BY TopFacts
<1>2. stack' = Tail(stack) /\ stack \in Seq(Frame) /\ stack # <<>>
  BY DEF Return, Calls, Evaluating
<1>3. /\ stack' \in Seq(Frame) /\ Len(stack) \in Nat /\ Len(stack) > 0
      /\ Len(stack') = Len(stack) - 1 /\ 1 \in 1 .. Len(stack)
      /\ \A k \in 1 .. Len(stack) - 1 : stack'[k] = stack[k + 1] /\ k + 1 \in 1 .. Len(stack)
  BY <1>2, Popped
<1>4. done' = done \cup {Top.cond} /\ holds' \subseteq done'
  BY DEF Return, Calls
<1>5. profile' = profile /\ Ranks' = Ranks
  BY DEF env, ClausesOf, Ranks
<1>6. ASSUME NEW k \in 1 .. Len(stack')
      PROVE  /\ stack'[k].at \in 1 .. Len(ClausesOf(stack'[k].cond))
             /\ stack'[k].cond \notin done'
  <2>1. stack'[k] = stack[k + 1] /\ k + 1 \in 1 .. Len(stack) /\ 1 < k + 1
    BY <1>3
  <2>2. PICK rank \in Ranks : TRUE
    BY ProfileFacts
  <2>3. rank[Top.cond] < rank[stack[k + 1].cond] /\ rank[Top.cond] \in Int
    BY <1>1, <1>3, <2>1, <2>2, RankNumbers DEF Calls, Nested
  <2>4. Top.cond # stack[k + 1].cond
    BY <2>3
  <2> QED BY <1>4, <2>1, <2>4 DEF Calls
<1>7. Nested'
  <2> SUFFICES ASSUME NEW rank \in Ranks, NEW i \in 1 .. Len(stack'), NEW j \in 1 .. Len(stack'),
                      i < j
               PROVE  rank[stack'[i].cond] < rank[stack'[j].cond]
    BY <1>5 DEF Nested
  <2>1. /\ stack'[i] = stack[i + 1] /\ i + 1 \in 1 .. Len(stack)
        /\ stack'[j] = stack[j + 1] /\ j + 1 \in 1 .. Len(stack) /\ i + 1 < j + 1
    BY <1>3
  <2> QED BY <2>1 DEF Calls, Nested
<1>8. Busy = Busy' \cup {Top.cond}
  <2>1. DOMAIN stack = 1 .. Len(stack) /\ DOMAIN stack' = 1 .. Len(stack')
    BY <1>2, <1>3, LenProperties
  <2>2. ASSUME NEW k \in 1 .. Len(stack), k # 1
        PROVE  stack'[k - 1] = stack[k] /\ k - 1 \in 1 .. Len(stack')
    <3>1. k - 1 \in 1 .. Len(stack) - 1 /\ (k - 1) + 1 = k
      BY <1>3, <2>2
    <3> QED BY <1>3, <3>1
  <2>3. Busy \subseteq Busy' \cup {Top.cond}
    <3> SUFFICES ASSUME NEW k \in DOMAIN stack PROVE stack[k].cond \in Busy' \cup {Top.cond}
      BY DEF Busy
    <3>1. CASE k = 1
      BY <1>1, <3>1
    <3>2. CASE k # 1
      BY <2>1, <2>2, <3>2 DEF Busy
    <3> QED BY <3>1, <3>2
  <2>4. Busy' \subseteq Busy
    BY <1>3, <2>1 DEF Busy
  <2>5. Top.cond \in Busy
    BY <1>1, <1>3, <2>1 DEF Busy
  <2> QED BY <2>3, <2>4, <2>5
<1>9. begun' \in [Cond -> Nat] /\ Once'
  <2>1. done' \cup Busy' = done \cup Busy
    BY <1>4, <1>8
  <2> QED BY <2>1 DEF Calls, Once
<1>10. \A k \in 1 .. Len(stack') : stack'[k].at \in 1 .. Len(profile'.conds[stack'[k].cond].clauses)
  BY <1>5, <1>6 DEF ClausesOf
<1>11. done' \subseteq Cond /\ holds' \subseteq done'
  BY <1>1, <1>4 DEF Calls
<1> QED BY <1>3, <1>6, <1>7, <1>9, <1>10, <1>11 DEF Calls, ClausesOf

\* The innermost call goes on.
LEMMA TopKeeps ==
    ASSUME Types, Calls, Evaluating, NEW fr \in Frame, fr.cond = Top.cond,
           fr.at \in 1 .. Len(ClausesOf(Top.cond)), stack' = <<fr>> \o Tail(stack),
           UNCHANGED <<env, begun, done, holds>>
    PROVE  Calls'
<1>1. Top = stack[1] /\ Top.cond \in Cond /\ Top.cond \notin done
  BY TopFacts
<1>2. stack \in Seq(Frame) /\ stack # <<>>
  BY DEF Calls, Evaluating
<1>3. /\ stack' \in Seq(Frame) /\ Len(stack') = Len(stack) /\ stack'[1] = fr
      /\ \A k \in 2 .. Len(stack) : stack'[k] = stack[k]
      /\ Len(stack) \in Nat /\ Len(stack) > 0
  BY <1>2, Replaced, Popped
<1>4. ASSUME NEW k \in 1 .. Len(stack) PROVE stack'[k].cond = stack[k].cond
  BY <1>1, <1>3
<1>5. profile' = profile /\ Ranks' = Ranks
  BY DEF env, ClausesOf, Ranks
<1>6. ASSUME NEW k \in 1 .. Len(stack')
      PROVE  /\ stack'[k].at \in 1 .. Len(ClausesOf(stack'[k].cond))
             /\ stack'[k].cond \notin done'
  <2>1. CASE k = 1
    BY <1>1, <1>3, <2>1
  <2>2. CASE k # 1
    <3>1. k \in 2 .. Len(stack) /\ k \in 1 .. Len(stack)
      BY <1>3, <2>2
    <3> QED BY <1>3, <3>1 DEF Calls
  <2> QED BY <2>1, <2>2
<1>7. Nested'
  BY <1>3, <1>4, <1>5 DEF Calls, Nested
<1>8. Busy' = Busy
  <2>1. DOMAIN stack = 1 .. Len(stack) /\ DOMAIN stack' = 1 .. Len(stack)
    BY <1>2, <1>3, LenProperties
  <2> QED BY <1>4, <2>1 DEF Busy
<1>9. begun' \in [Cond -> Nat] /\ Once'
  BY <1>8 DEF Calls, Once
<1>10. \A k \in 1 .. Len(stack') : stack'[k].at \in 1 .. Len(profile'.conds[stack'[k].cond].clauses)
  BY <1>5, <1>6 DEF ClausesOf
<1>11. done' \subseteq Cond /\ holds' \subseteq done'
  BY DEF Calls
<1> QED BY <1>3, <1>6, <1>7, <1>9, <1>10, <1>11 DEF Calls, ClausesOf

\* A clause is decided: the next one, or the end of the condition.
Advanced == [Top EXCEPT !.at = @ + 1, !.read = FALSE, !.left = {}]

\* Deciding a clause goes on to the next one or returns.
LEMMA DecideKeeps ==
    ASSUME Types, Calls, Evaluating, NEW hit, Decide(hit), UNCHANGED <<env, begun>>
    PROVE  Calls'
<1>1. CASE \E v : Return(v)
  BY <1>1, ReturnKeeps
<1>2. CASE /\ Top.at # Len(Cur.clauses) /\ stack' = <<Advanced>> \o Tail(stack)
           /\ UNCHANGED <<done, holds>>
  <2>1. Top \in Frame /\ Top.at \in 1 .. Len(ClausesOf(Top.cond)) /\ Top.cond \in Cond
    BY TopFacts
  <2>2. ClausesOf(Top.cond) \in Seq(Clause) /\ Len(ClausesOf(Top.cond)) \in Nat
    BY <2>1, ProfileFacts, LenProperties
  <2>3. Top.at + 1 \in 1 .. Len(ClausesOf(Top.cond)) /\ Top.at + 1 \in Nat
    BY <1>2, <2>1, <2>2 DEF Cur, ClausesOf
  <2>4. Advanced \in Frame /\ Advanced.cond = Top.cond /\ Advanced.at = Top.at + 1
    BY <2>1, <2>3 DEF Frame, Advanced
  <2> QED BY <1>2, <2>3, <2>4, TopKeeps
<1> QED BY <1>1, <1>2 DEF Decide, Advanced

\* The values of an operand, and what asking for an object gives.
LEMMA ValuesType ==
    ASSUME Types, NEW x \in Operand, NEW state PROVE Values(x, state) \subseteq Value
<1>1. content \in [Operand -> SUBSET Value]
  BY EvaluatorAssumption DEF Types
<1>2. "uri" \in Operand
  BY DEF Operand
<1>3. content["uri"] \subseteq Value /\ content[x] \subseteq Value
  BY <1>1, <1>2
<1> QED BY <1>3 DEF Values

\* An object that was asked for is known as there or missing.
LEMMA OutcomesType ==
    ASSUME NEW o, NEW r \in Outcomes(o) PROVE r[1] \in {"ok", "missing"}
<1>1. r \in {<<"missing", FALSE>>, <<"ok", FALSE>>, <<"missing", TRUE>>}
  <2>1. CASE locator[o] = "unavailable"
    BY <2>1 DEF Outcomes
  <2>2. CASE locator[o] = "empty"
    BY <2>2 DEF Outcomes
  <2>3. CASE locator[o] = "none"
    BY <2>3 DEF Outcomes
  <2>4. CASE locator[o] \notin {"unavailable", "empty", "none"}
    BY <2>4 DEF Outcomes
  <2> QED BY <2>1, <2>2, <2>3, <2>4
<1>2. CASE r = <<"missing", FALSE>>
  BY <1>2
<1>3. CASE r = <<"ok", FALSE>>
  BY <1>3
<1>4. CASE r = <<"missing", TRUE>>
  BY <1>4
<1> QED BY <1>1, <1>2, <1>3, <1>4

\* A new evaluator has an empty stack and memo.
LEMMA InitCalls == Init => Types /\ Calls /\ Fetched
<1> SUFFICES ASSUME Init PROVE Types /\ Calls /\ Fetched
  OBVIOUS
<1>1. /\ profile \in Profile /\ locator \in Locator /\ content \in Content
      /\ changes = 0 /\ rule = 1 /\ stack = <<>> /\ done = {} /\ holds = {}
      /\ loaded = [o \in Object |-> "no"] /\ fired = <<>>
      /\ begun = [c \in Cond |-> 0] /\ fetches = [o \in Object |-> 0]
  BY DEF Init
<1>2. Loadable(profile)
  BY <1>1, EvaluatorAssumption
<1>3. Len(profile.rules) \in Nat
  BY <1>2, LenProperties DEF Loadable
<1>4. fired \in Seq(Nat) /\ stack \in Seq(Frame) /\ Len(stack) = 0 /\ DOMAIN stack = {}
  BY <1>1, EmptySeq
<1>5. loaded \in [Object -> {"no", "ok", "missing"}] /\ fetches \in [Object -> Nat]
      /\ begun \in [Cond -> Nat]
  BY <1>1
<1>6. Types
  BY <1>1, <1>3, <1>4, <1>5 DEF Types
<1>7. Busy = {}
  BY <1>4 DEF Busy
<1>8. Nested /\ Once
  BY <1>1, <1>4, <1>7 DEF Nested, Once
<1>9. Calls
  BY <1>1, <1>4, <1>5, <1>8 DEF Calls
<1> QED BY <1>1, <1>6, <1>9 DEF Fetched

\* Every step keeps the types, and no object is fetched twice.
LEMMA TypesInductive == Types /\ Calls /\ Fetched /\ [Next]_vars => Types' /\ Fetched'
<1> SUFFICES ASSUME Types, Calls, Fetched, [Next]_vars PROVE Types' /\ Fetched'
  OBVIOUS
<1>len. Len(profile.rules) \in Nat /\ profile.rules \in Seq(Rule)
  BY ProfileFacts, LenProperties
<1>env. UNCHANGED env
  BY DEF Next, Step, PlainRule, Fire, CallRule, DecideRule, RefClause, CallClause, ReadKnown,
     NoValueLeft, ReadObject, TestValue, MirrorChanges, Done, vars
<1>1. CASE PlainRule \/ DecideRule
  <2>1. /\ rule' = rule + 1 /\ rule <= Len(profile.rules) /\ UNCHANGED <<loaded, fetches, changes>>
        /\ fired' = fired \/ fired' = Append(fired, rule)
    BY <1>1 DEF PlainRule, DecideRule, Fire, Collecting, mirror
  <2>2. rule' \in Nat /\ rule' > 0 /\ rule' <= Len(profile.rules) + 1
    BY <1>len, <2>1 DEF Types
  <2>3. fired' \in Seq(Nat)
    <3>1. fired \in Seq(Nat) /\ rule \in Nat
      BY DEF Types
    <3>2. Append(fired, rule) \in Seq(Nat)
      BY <3>1, AppendProperties
    <3> QED BY <2>1, <3>1, <3>2
  <2> QED BY <1>env, <2>1, <2>2, <2>3 DEF Types, Fetched, env
<1>2. CASE \/ CallRule \/ RefClause \/ CallClause \/ ReadKnown \/ NoValueLeft
           \/ (\E v \in Value : TestValue(v)) \/ Done \/ UNCHANGED vars
  <2>1. UNCHANGED <<rule, loaded, fetches, changes, fired>>
    BY <1>2 DEF CallRule, RefClause, CallClause, ReadKnown, NoValueLeft, TestValue, Done, vars, mirror
  <2> QED BY <1>env, <2>1 DEF Types, Fetched, env
<1>3. ASSUME NEW o \in Object, ReadObject(o) PROVE Types' /\ Fetched'
  <2>1. /\ loaded[o] = "no" /\ UNCHANGED <<rule, changes, fired>>
        /\ fetches' = fetches \/ fetches' = [fetches EXCEPT ![o] = @ + 1]
    BY <1>3 DEF ReadObject, mirror
  <2>2. PICK r \in Outcomes(o) : loaded' = [x \in Object |-> IF x \in {o} THEN r[1] ELSE loaded[x]]
    BY <1>3 DEF ReadObject, Keep
  <2>3. r[1] \in {"ok", "missing"}
    BY OutcomesType
  <2>4. loaded \in [Object -> {"no", "ok", "missing"}] /\ fetches \in [Object -> Nat]
    BY DEF Types
  <2>5. loaded' \in [Object -> {"no", "ok", "missing"}] /\ loaded'[o] # "no"
        /\ \A x \in Object \ {o} : loaded'[x] = loaded[x]
    BY <2>2, <2>3, <2>4
  <2>6. fetches[o] = 0
    BY <2>1 DEF Fetched
  <2>7. fetches' \in [Object -> Nat] /\ fetches'[o] <= 1
        /\ \A x \in Object \ {o} : fetches'[x] = fetches[x]
    BY <2>1, <2>4, <2>6
  <2>8. Fetched'
    BY <2>5, <2>7 DEF Fetched
  <2> QED BY <1>env, <2>1, <2>5, <2>7, <2>8 DEF Types, env
<1>4. CASE MirrorChanges
  <2>1. UNCHANGED <<rule, loaded, fetches, fired>> /\ changes' = changes + 1
    BY <1>4 DEF MirrorChanges
  <2> QED BY <1>env, <2>1 DEF Types, Fetched, env
<1> QED BY <1>1, <1>2, <1>3, <1>4 DEF Next, Step

\* Every step keeps what relates stack and memo.
LEMMA CallsInductive == Types /\ Calls /\ [Next]_vars => Calls'
<1> SUFFICES ASSUME Types, Calls, [Next]_vars PROVE Calls'
  OBVIOUS
<1>same. ASSUME UNCHANGED <<profile, stack, done, holds, begun>> PROVE Calls'
  <2>1. Nested' /\ Once'
    BY <1>same DEF Calls, Nested, Ranks, ClausesOf, Once, Busy
  <2> QED BY <1>same, <2>1 DEF Calls, ClausesOf
<1>1. CASE PlainRule \/ DecideRule \/ MirrorChanges \/ Done \/ UNCHANGED vars
  BY <1>1, <1>same DEF PlainRule, DecideRule, Fire, MirrorChanges, Done, vars, env
<1>2. CASE CallRule
  <2> DEFINE c == profile.rules[rule].cond
  <2>1. /\ stack = <<>> /\ rule <= Len(profile.rules) /\ c # NoCond /\ c \notin done /\ Call(c)
        /\ UNCHANGED <<env, done, holds>>
    BY <1>2 DEF CallRule, Collecting
  <2>2. Len(stack) = 0 /\ Busy = {}
    BY <2>1 DEF Busy
  <2>3. c \in Cond
    <3>1. rule \in 1 .. Len(profile.rules) /\ profile.rules \in Seq(Rule)
      BY <2>1, ProfileFacts, LenProperties DEF Types
    <3>2. profile.rules[rule] \in Rule
      BY <3>1, ElementOfSeq
    <3> QED BY <2>1, <3>2 DEF Rule
  <2> HIDE DEF c
  <2> QED BY <2>1, <2>2, <2>3, CallKeeps
<1>3. CASE CallClause
  <2>1. /\ Evaluating /\ Cl.ref # NoCond /\ Cl.ref \notin done \cup Busy /\ Call(Cl.ref)
        /\ UNCHANGED <<env, done, holds>>
    BY <1>3 DEF CallClause
  <2> QED BY <2>1, RefIsLower, CallKeeps
<1>4. CASE RefClause \/ NoValueLeft \/ \E v \in Value : TestValue(v) /\ Hit(Cl.test, v)
  <2>1. Evaluating /\ UNCHANGED <<env, begun>> /\ \E hit : Decide(hit)
    BY <1>4 DEF RefClause, NoValueLeft, TestValue
  <2> QED BY <2>1, DecideKeeps
<1>5. CASE ReadKnown \/ (\E o \in Object : ReadObject(o))
           \/ \E v \in Value : TestValue(v) /\ ~Hit(Cl.test, v)
  <2> DEFINE Goes == /\ Evaluating /\ UNCHANGED <<env, begun, done, holds>>
                     /\ \E L \in SUBSET Value, b \in BOOLEAN :
                           stack' = <<[Top EXCEPT !.read = b, !.left = L]>> \o Tail(stack)
  <2>1. Goes
    <3>1. CASE ReadKnown \/ (\E o \in Object : ReadObject(o))
      <4>1. Evaluating /\ UNCHANGED <<env, begun, done, holds>> /\ Read
        BY <3>1 DEF ReadKnown, ReadObject
      <4>2. Cl \in Clause
        BY <4>1, TopFacts
      <4>3. Values(Cl.operand, loaded') \in SUBSET Value
        BY <4>2, ValuesType DEF Clause
      <4> QED BY <4>1, <4>3 DEF Read
    <3>2. ASSUME NEW v \in Value, TestValue(v), ~Hit(Cl.test, v)
          PROVE  Goes
      <4>1. /\ Evaluating /\ UNCHANGED <<env, begun, done, holds>> /\ Top.read
            /\ stack' = <<[Top EXCEPT !.left = @ \ {v}]>> \o Tail(stack)
        BY <3>2 DEF TestValue
      <4>2. Top \in Frame
        BY <4>1, TopFacts
      <4>3. Top.left \in SUBSET Value /\ Top.read = TRUE
        BY <4>1, <4>2 DEF Frame
      <4>4. [Top EXCEPT !.left = @ \ {v}] = [Top EXCEPT !.read = TRUE, !.left = Top.left \ {v}]
        BY <4>2, <4>3 DEF Frame
      <4> QED BY <4>1, <4>3, <4>4
    <3> QED BY <1>5, <3>1, <3>2
  <2>2. PICK L \in SUBSET Value, b \in BOOLEAN :
            stack' = <<[Top EXCEPT !.read = b, !.left = L]>> \o Tail(stack)
    BY <2>1
  <2> DEFINE fr == [Top EXCEPT !.read = b, !.left = L]
  <2>3. Top \in Frame /\ Top.at \in 1 .. Len(ClausesOf(Top.cond))
    BY <2>1, TopFacts
  <2>4. fr \in Frame /\ fr.cond = Top.cond /\ fr.at = Top.at
    BY <2>3 DEF Frame
  <2> HIDE DEF fr
  <2> QED BY <2>1, <2>2, <2>3, <2>4, TopKeeps DEF fr
<1> QED BY <1>1, <1>2, <1>3, <1>4, <1>5 DEF Next, Step

\* A condition is evaluated at most once and never inside itself, and an object
\* of the buffer is read at most once.
THEOREM EvaluatedOnce == Spec => []DoneOnce
<1> DEFINE I == Types /\ Calls /\ Fetched
<1>1. Init => I
  BY InitCalls
<1>2. I /\ [Next]_vars => I'
  BY TypesInductive, CallsInductive
<1>3. I => DoneOnce
  <2> SUFFICES ASSUME I PROVE DoneOnce
    OBVIOUS
  <2>1. \A c \in Cond : begun[c] <= 1
    BY DEF Calls, Once
  <2>2. \A o \in Object : fetches[o] <= 1
    BY DEF Fetched
  <2>3. Evaluating /\ Cl.ref # NoCond => Cl.ref \notin Busy
    BY RefIsNotBusy
  <2> QED BY <2>1, <2>2, <2>3 DEF DoneOnce
<1> QED BY <1>1, <1>2, <1>3, PTL DEF Spec

-----------------------------------------------------------------------------
(* Rules on one condition see one value.                                   *)

\* What Decided says of a rule that is done with.
Settled(i, yes) ==
    LET r == profile.rules[i]
    IN  IF r.applies /\ r.cond # NoCond
        THEN r.cond \in done /\ (yes <=> (r.cond \in holds) # r.negate)
        ELSE yes <=> r.applies

\* Rules decided stay decided while the memo keeps its values.
LEMMA MemoKept ==
    ASSUME Decided, UNCHANGED <<profile, rule, fired>>,
           \A c \in done : c \in done' /\ (c \in holds' <=> c \in holds)
    PROVE  Decided'
<1>1. Fired' = Fired
  BY DEF Fired
<1>2. ASSUME NEW i \in 1 .. rule - 1
      PROVE  LET r == profile.rules[i]
             IN  IF r.applies /\ r.cond # NoCond
                 THEN r.cond \in done' /\ (i \in Fired <=> (r.cond \in holds') # r.negate)
                 ELSE i \in Fired <=> r.applies
  BY DEF Decided
<1> QED BY <1>1, <1>2 DEF Decided

\* Going on to the next rule, fired or not, extends what is decided.
LEMMA FireKeeps ==
    ASSUME Types, Decided, NEW yes \in BOOLEAN, Fire(yes), Settled(rule, yes)
    PROVE  Decided'
<1>1. rule \in Nat /\ rule > 0 /\ fired \in Seq(Nat) /\ Len(fired) \in Nat
  BY LenProperties DEF Types
<1>2. rule' = rule + 1 /\ UNCHANGED <<profile, done, holds>>
  BY DEF Fire, env
<1>3. Fired \subseteq 1 .. rule - 1
  BY DEF Decided
<1>4. /\ Fired' = IF yes THEN Fired \cup {rule} ELSE Fired
      /\ \A j, k \in 1 .. Len(fired') : j < k => fired'[j] < fired'[k]
  <2>1. CASE yes = FALSE
    BY <2>1 DEF Fire, Fired, Decided
  <2>2. CASE yes = TRUE
    <3>1. fired' = Append(fired, rule)
      BY <2>2 DEF Fire
    <3>2. /\ fired' \in Seq(Nat) /\ Len(fired') = Len(fired) + 1
          /\ \A k \in 1 .. Len(fired) : fired'[k] = fired[k]
          /\ fired'[Len(fired) + 1] = rule
      BY <1>1, <3>1, AppendProperties
    <3>3. DOMAIN fired = 1 .. Len(fired) /\ DOMAIN fired' = 1 .. Len(fired) + 1
      BY <1>1, <3>2, LenProperties
    <3>4. \A k \in 1 .. Len(fired) + 1 : k \in 1 .. Len(fired) \/ k = Len(fired) + 1
      BY <1>1
    <3>5. \A k \in 1 .. Len(fired) : k \in 1 .. Len(fired) + 1
      BY <1>1
    <3>6. Len(fired) + 1 \in 1 .. Len(fired) + 1
      BY <1>1
    <3>7. Fired' = Fired \cup {rule}
      <4>1. Fired' \subseteq Fired \cup {rule}
        BY <3>2, <3>3, <3>4 DEF Fired
      <4>2. Fired \subseteq Fired'
        BY <3>2, <3>3, <3>5 DEF Fired
      <4>3. rule \in Fired'
        BY <3>2, <3>3, <3>6 DEF Fired
      <4> QED BY <4>1, <4>2, <4>3
    <3>8. ASSUME NEW j \in 1 .. Len(fired'), NEW k \in 1 .. Len(fired'), j < k
          PROVE  fired'[j] < fired'[k]
      <4>1. j \in 1 .. Len(fired)
        BY <1>1, <3>2, <3>8
      <4>2. CASE k \in 1 .. Len(fired)
        BY <3>2, <3>8, <4>1, <4>2 DEF Decided
      <4>3. CASE k = Len(fired) + 1
        <5>1. fired[j] \in 1 .. rule - 1
          BY <1>3, <3>3, <4>1 DEF Fired
        <5> QED BY <1>1, <3>2, <4>1, <4>3, <5>1
      <4> QED BY <3>2, <3>4, <4>2, <4>3
    <3> QED BY <2>2, <3>7, <3>8
  <2> QED BY <2>1, <2>2
<1>5. Fired' \subseteq 1 .. rule' - 1
  BY <1>1, <1>2, <1>3, <1>4
<1>6. rule \notin Fired
  BY <1>1, <1>3
<1>7. ASSUME NEW i \in 1 .. rule' - 1
      PROVE  LET r == profile.rules[i]
             IN  IF r.applies /\ r.cond # NoCond
                 THEN r.cond \in done /\ (i \in Fired' <=> (r.cond \in holds) # r.negate)
                 ELSE i \in Fired' <=> r.applies
  <2>1. i \in 1 .. rule - 1 \/ i = rule
    BY <1>1, <1>2
  <2>2. CASE i = rule
    <3>1. i \in Fired' <=> yes
      BY <1>4, <1>6, <2>2
    <3> QED BY <2>2, <3>1 DEF Settled
  <2>3. CASE i \in 1 .. rule - 1
    <3>1. i # rule
      BY <1>1, <2>3
    <3>2. i \in Fired' <=> i \in Fired
      BY <1>4, <3>1
    <3> QED BY <2>3, <3>2 DEF Decided
  <2> QED BY <2>1, <2>2, <2>3
<1> QED BY <1>2, <1>4, <1>5, <1>7 DEF Decided

\* What the memo holds stays: a condition gets its value when it returns, and it
\* had none before.
LEMMA MemoGrows ==
    ASSUME Types, Calls, Evaluating, NEW hit, Decide(hit)
    PROVE  \A c \in done : c \in done' /\ (c \in holds' <=> c \in holds)
<1>1. Top.cond \notin done
  BY TopFacts
<1>2. CASE \E v : Return(v)
  BY <1>1, <1>2 DEF Return
<1>3. CASE UNCHANGED <<done, holds>>
  BY <1>3
<1> QED BY <1>2, <1>3 DEF Decide

\* Every step keeps what is decided.
LEMMA DecidedInductive == Types /\ Calls /\ Decided /\ [Next]_vars => Decided'
<1> SUFFICES ASSUME Types, Calls, Decided, [Next]_vars PROVE Decided'
  OBVIOUS
<1>rule. rule <= Len(profile.rules) => profile.rules[rule] \in Rule
  <2>1. rule <= Len(profile.rules) => rule \in 1 .. Len(profile.rules)
    BY ProfileFacts, LenProperties DEF Types
  <2> QED BY <2>1, ProfileFacts, ElementOfSeq
<1>1. CASE PlainRule
  <2> DEFINE r == profile.rules[rule]
  <2>1. rule <= Len(profile.rules) /\ (~r.applies \/ r.cond = NoCond) /\ Fire(r.applies)
    BY <1>1 DEF PlainRule, Collecting
  <2>2. r.applies \in BOOLEAN
    BY <1>rule, <2>1 DEF Rule
  <2>3. Settled(rule, r.applies)
    BY <2>1 DEF Settled
  <2> QED BY <2>1, <2>2, <2>3, FireKeeps
<1>2. CASE DecideRule
  <2> DEFINE r == profile.rules[rule]
             yes == (r.cond \in holds) # r.negate
  <2>1. r.applies /\ r.cond \in done /\ Fire(yes)
    BY <1>2 DEF DecideRule
  <2>2. r.cond # NoCond
    BY <2>1, EvaluatorAssumption DEF Calls
  <2>3. Settled(rule, yes)
    BY <2>1, <2>2 DEF Settled
  <2>4. yes \in BOOLEAN
    OBVIOUS
  <2> HIDE DEF yes
  <2> QED BY <2>1, <2>3, <2>4, FireKeeps
<1>3. CASE \/ CallRule \/ CallClause \/ ReadKnown \/ MirrorChanges \/ Done \/ UNCHANGED vars
           \/ (\E o \in Object : ReadObject(o))
           \/ \E v \in Value : TestValue(v) /\ ~Hit(Cl.test, v)
  <2>1. UNCHANGED <<profile, rule, fired, done, holds>>
    BY <1>3 DEF CallRule, CallClause, ReadKnown, MirrorChanges, Done, vars, ReadObject, TestValue, env
  <2> QED BY <2>1, MemoKept
<1>4. CASE RefClause \/ NoValueLeft \/ \E v \in Value : TestValue(v) /\ Hit(Cl.test, v)
  <2>1. Evaluating /\ UNCHANGED <<profile, rule, fired>> /\ \E hit : Decide(hit)
    BY <1>4 DEF RefClause, NoValueLeft, TestValue, env
  <2> QED BY <2>1, MemoGrows, MemoKept
<1> QED BY <1>1, <1>2, <1>3, <1>4 DEF Next, Step

\* Of "if c" and "unless c" exactly one fires, whatever the mirror does meanwhile.
THEOREM OneValue == Spec => []OneValuePerCondition
<1> DEFINE I == Types /\ Calls /\ Fetched /\ Decided
<1>1. Init => I
  <2> SUFFICES ASSUME Init PROVE Decided
    BY InitCalls
  <2>1. rule = 1 /\ fired = <<>>
    BY DEF Init
  <2>2. Len(fired) = 0 /\ DOMAIN fired = {}
    BY <2>1
  <2>3. Fired = {} /\ 1 .. rule - 1 = {}
    BY <2>1, <2>2 DEF Fired
  <2> QED BY <2>2, <2>3 DEF Decided
<1>2. I /\ [Next]_vars => I'
  BY TypesInductive, CallsInductive, DecidedInductive
<1>3. I => OneValuePerCondition
  <2> SUFFICES ASSUME I, Finished, NEW i \in DOMAIN profile.rules, NEW j \in DOMAIN profile.rules,
                      profile.rules[i].applies, profile.rules[j].applies,
                      profile.rules[i].cond = profile.rules[j].cond,
                      profile.rules[i].cond # NoCond
               PROVE  i \in Fired <=> (j \in Fired <=> profile.rules[i].negate = profile.rules[j].negate)
    BY DEF OneValuePerCondition
  <2>1. profile.rules \in Seq(Rule) /\ rule = Len(profile.rules) + 1
    BY ProfileFacts DEF Finished
  <2>2. DOMAIN profile.rules = 1 .. Len(profile.rules) /\ Len(profile.rules) \in Nat
    BY <2>1, LenProperties
  <2>3. i \in 1 .. rule - 1 /\ j \in 1 .. rule - 1
    BY <2>1, <2>2
  <2>4. profile.rules[i].negate \in BOOLEAN /\ profile.rules[j].negate \in BOOLEAN
    <3>1. profile.rules[i] \in Rule /\ profile.rules[j] \in Rule
      BY <2>1, <2>2, ElementOfSeq
    <3> QED BY <3>1 DEF Rule
  <2>5. /\ i \in Fired <=> (profile.rules[i].cond \in holds) # profile.rules[i].negate
        /\ j \in Fired <=> (profile.rules[i].cond \in holds) # profile.rules[j].negate
    BY <2>3 DEF Decided
  <2> QED BY <2>4, <2>5
<1> QED BY <1>1, <1>2, <1>3, PTL DEF Spec

-----------------------------------------------------------------------------
(* Laziness is exact.                                                      *)

\* The condition's definition, connective by connective.
LEMMA MeaningOf ==
    ASSUME Types, NEW c \in Cond, NEW f \in [Cond -> BOOLEAN], NEW s, Meaning(f, s)
    PROVE  /\ profile.conds[c].any = TRUE =>
                 (f[c] <=> \E i \in 1 .. Len(ClausesOf(c)) : ClauseHolds(ClausesOf(c)[i], f, s))
           /\ profile.conds[c].any = FALSE =>
                 (f[c] <=> \A i \in 1 .. Len(ClausesOf(c)) : ClauseHolds(ClausesOf(c)[i], f, s))
<1>1. DOMAIN ClausesOf(c) = 1 .. Len(ClausesOf(c)) /\ profile.conds[c].any \in BOOLEAN
      /\ f[c] \in BOOLEAN
  BY ProfileFacts, LenProperties
<1>2. f[c] = IF profile.conds[c].any
             THEN \E i \in 1 .. Len(ClausesOf(c)) : ClauseHolds(ClausesOf(c)[i], f, s)
             ELSE \A i \in 1 .. Len(ClausesOf(c)) : ClauseHolds(ClausesOf(c)[i], f, s)
  BY <1>1 DEF Meaning, ClausesOf
<1> QED BY <1>1, <1>2

Right(f, s) == Agrees(f) /\ \A k \in 1 .. Len(stack) : Open(stack[k], f, s)
RightNext(f, s) ==
    /\ \A c \in done' : f[c] <=> c \in holds'
    /\ \A k \in 1 .. Len(stack') : Open(stack'[k], f, s)

\* A clause whose truth is found decides the condition, or leaves it open.
LEMMA DecideExact ==
    ASSUME Types, Calls, Evaluating, NEW f \in [Cond -> BOOLEAN], NEW s, Meaning(f, s),
           Right(f, s), NEW hit \in BOOLEAN, hit <=> Truth(Cl, f, s), Decide(hit)
    PROVE  RightNext(f, s)
<1>1. /\ Top = stack[1] /\ Top \in Frame /\ Top.cond \in Cond /\ Top.cond \notin done
      /\ Top.at \in 1 .. Len(ClausesOf(Top.cond))
      /\ Cl = ClausesOf(Top.cond)[Top.at] /\ Cl \in Clause
      /\ Len(stack) \in Nat /\ Len(stack) > 0
  BY TopFacts
<1> DEFINE c == Top.cond
           h == hit # Cl.negated
           any == profile.conds[c].any
<1>2. any \in BOOLEAN /\ ClausesOf(c) \in Seq(Clause) /\ Len(ClausesOf(c)) \in Nat
  BY <1>1, ProfileFacts, LenProperties
<1>3. h <=> ClauseHolds(ClausesOf(c)[Top.at], f, s)
  <2>1. Cl.negated \in BOOLEAN
    BY <1>1 DEF Clause
  <2>2. ClauseHolds(Cl, f, s) <=> Truth(Cl, f, s) # Cl.negated
    BY DEF ClauseHolds, Truth
  <2>bool. Truth(Cl, f, s) \in BOOLEAN
    <3>1. Cl.ref # NoCond => f[Cl.ref] \in BOOLEAN
      BY <1>1 DEF Clause
    <3> QED BY <3>1 DEF Truth
  <2>3. CASE hit = TRUE
    BY <1>1, <2>1, <2>2, <2>3
  <2>4. CASE hit = FALSE
    <3>1. CASE Cl.negated = TRUE
      BY <1>1, <2>2, <2>4, <3>1
    <3>2. CASE Cl.negated = FALSE
      BY <1>1, <2>2, <2>4, <2>bool, <3>2
    <3> QED BY <2>1, <3>1, <3>2
  <2> QED BY <2>3, <2>4
<1>4. \A i \in 1 .. Top.at - 1 : ClauseHolds(ClausesOf(c)[i], f, s) <=> ~any
  <2>1. Open(Top, f, s)
    BY <1>1 DEF Right
  <2> QED BY <2>1 DEF Open
<1>5. /\ any = TRUE => (f[c] <=> \E i \in 1 .. Len(ClausesOf(c)) : ClauseHolds(ClausesOf(c)[i], f, s))
      /\ any = FALSE => (f[c] <=> \A i \in 1 .. Len(ClausesOf(c)) : ClauseHolds(ClausesOf(c)[i], f, s))
  BY <1>1, MeaningOf
<1>ret. ASSUME NEW v \in BOOLEAN, Return(v), f[c] <=> v PROVE RightNext(f, s)
  <2>1. stack \in Seq(Frame) /\ stack # <<>> /\ stack' = Tail(stack)
    BY <1>ret DEF Calls, Evaluating, Return
  <2>2. /\ Len(stack') = Len(stack) - 1
        /\ \A k \in 1 .. Len(stack) - 1 : stack'[k] = stack[k + 1] /\ k + 1 \in 1 .. Len(stack)
    BY <2>1, Popped
  <2>3. \A k \in 1 .. Len(stack') : Open(stack'[k], f, s)
    BY <2>2 DEF Right
  <2>4. /\ done' = done \cup {c}
        /\ holds' = IF v THEN holds \cup {c} ELSE holds \ {c}
    BY <1>ret DEF Return
  <2>5. ASSUME NEW x \in done' PROVE f[x] <=> x \in holds'
    <3>1. CASE x = c
      BY <1>ret, <2>4, <3>1
    <3>2. CASE x # c
      BY <2>4, <2>5, <3>2 DEF Right, Agrees
    <3> QED BY <3>1, <3>2
  <2> QED BY <2>3, <2>5 DEF RightNext
<1>6. CASE h = any
  <2>1. Return(h)
    BY <1>6 DEF Decide, Cur
  <2>2. f[c] <=> h
    <3>1. CASE any = TRUE
      BY <1>1, <1>3, <1>5, <1>6, <3>1
    <3>2. CASE any = FALSE
      BY <1>1, <1>3, <1>5, <1>6, <3>2
    <3> QED BY <1>2, <3>1, <3>2
  <2>3. h \in BOOLEAN
    OBVIOUS
  <2> HIDE DEF h
  <2> QED BY <1>ret, <2>1, <2>2, <2>3
<1>7. CASE h # any
  <2>1. ClauseHolds(ClausesOf(c)[Top.at], f, s) <=> ~any
    BY <1>2, <1>3, <1>7
  <2>2. \A i \in 1 .. Top.at : ClauseHolds(ClausesOf(c)[i], f, s) <=> ~any
    <3>1. \A i \in 1 .. Top.at : i \in 1 .. Top.at - 1 \/ i = Top.at
      BY <1>1, <1>2
    <3> QED BY <1>4, <2>1, <3>1
  <2>3. CASE Top.at = Len(ClausesOf(c))
    <3>1. Return(~any)
      BY <1>7, <2>3 DEF Decide, Cur, ClausesOf
    <3>2. f[c] <=> ~any
      <4>1. CASE any = TRUE
        BY <1>5, <2>2, <2>3, <4>1
      <4>2. CASE any = FALSE
        BY <1>5, <2>2, <2>3, <4>2
      <4> QED BY <1>2, <4>1, <4>2
    <3>3. (~any) \in BOOLEAN
      OBVIOUS
    <3> HIDE DEF any
    <3> QED BY <1>ret, <3>1, <3>2, <3>3
  <2>4. CASE Top.at # Len(ClausesOf(c))
    <3>1. stack' = <<Advanced>> \o Tail(stack) /\ UNCHANGED <<done, holds>>
      BY <1>7, <2>4 DEF Decide, Cur, ClausesOf, Advanced
    <3>2. Top.at \in Nat /\ Top.at + 1 \in Nat
      BY <1>1 DEF Frame
    <3>3. /\ Advanced \in Frame /\ Advanced.cond = c /\ Advanced.at = Top.at + 1
          /\ Advanced.read = FALSE
      BY <1>1, <3>2 DEF Frame, Advanced
    <3>4. Advanced.at - 1 = Top.at
      BY <3>2, <3>3
    <3>5. Open(Advanced, f, s)
      BY <2>2, <3>3, <3>4 DEF Open
    <3>6. stack \in Seq(Frame) /\ stack # <<>>
      BY DEF Calls, Evaluating
    <3>7. /\ Len(stack') = Len(stack) /\ stack'[1] = Advanced
          /\ \A k \in 2 .. Len(stack) : stack'[k] = stack[k]
      BY <3>1, <3>3, <3>6, Replaced
    <3>8. \A k \in 1 .. Len(stack') : Open(stack'[k], f, s)
      <4>1. \A k \in 1 .. Len(stack') : k = 1 \/ (k \in 2 .. Len(stack) /\ k \in 1 .. Len(stack))
        BY <1>1, <3>7
      <4> QED BY <3>5, <3>7, <4>1 DEF Right
    <3> QED BY <3>1, <3>8 DEF RightNext, Right, Agrees
  <2> QED BY <2>3, <2>4
<1> QED BY <1>6, <1>7

\* With the request and the mirror as they were, only the calls, the memo and the
\* objects read matter.
LEMMA ExactKept ==
    ASSUME UNCHANGED <<env, list, ready>>, Completions' \subseteq Completions,
           changes' = 0 =>
             \A s \in Completions', f \in [Cond -> BOOLEAN] : Meaning(f, s) => RightNext(f, s)
    PROVE  Exact'
<1>1. SUFFICES ASSUME changes' = 0, NEW s \in Completions', NEW f \in [Cond -> BOOLEAN],
                      Meaning(f, s)'
               PROVE  /\ Agrees(f)'
                      /\ \A k \in 1 .. Len(stack') : Open(stack[k], f, s)'
  BY DEF Exact
<1>2. UNCHANGED <<profile, locator, content, list, ready>>
  BY DEF env
<1>3. /\ \A x, t : Values(x, t)' = Values(x, t)
      /\ \A x, v : Hit(x, v)' <=> Hit(x, v)
  BY <1>2 DEF Values, Hit
<1>4. \A cl : ClauseHolds(cl, f, s)' <=> ClauseHolds(cl, f, s)
  BY <1>2 DEF ClauseHolds, Values, Hit
<1>5. Meaning(f, s)
  BY <1>1, <1>2, <1>4 DEF Meaning
<1>6. RightNext(f, s)
  BY <1>1, <1>5
<1>7. Agrees(f)'
  BY <1>6 DEF RightNext, Agrees
<1>8. ASSUME NEW k \in 1 .. Len(stack') PROVE Open(stack[k], f, s)'
  <2>1. Open(stack'[k], f, s)
    BY <1>6 DEF RightNext
  <2> QED BY <1>2, <1>3, <1>4, <2>1 DEF Open, ClausesOf
<1> QED BY <1>7, <1>8

\* The values of an operand depend on the objects it needs, and on no other.
LEMMA ValuesOfNeeds ==
    ASSUME NEW x \in Operand, NEW s, NEW t, \A o \in Needs(x) : s[o] = t[o]
    PROVE  Values(x, s) = Values(x, t)
<1>1. CASE x = "arg" \/ x = "request_uri"
  <2>1. x \notin FromHeaders
    BY <1>1 DEF FromHeaders
  <2>2. CASE locator.args = "empty"
    BY <1>1, <2>1, <2>2 DEF Values
  <2>3. CASE locator.args # "empty"
    <3>1. Needs(x) = {"args"}
      BY <1>1, <2>1, <2>3 DEF Needs
    <3> QED BY <1>1, <2>1, <2>3, <3>1 DEF Values
  <2> QED BY <2>2, <2>3
<1>2. CASE x \in FromHeaders
  <2>1. Needs(x) = {"headers"} /\ x # "arg" /\ x # "request_uri"
    BY <1>2 DEF Needs, FromHeaders
  <2> QED BY <1>2, <2>1 DEF Values
<1>3. CASE x \notin FromHeaders /\ x # "arg" /\ x # "request_uri"
  <2>1. x # "cookie"
    BY <1>3 DEF FromHeaders
  <2> QED BY <1>3, <2>1 DEF Values
<1> QED BY <1>1, <1>2, <1>3

\* Every step keeps the agreement with the declared meaning.
LEMMA ExactInductive == Types /\ Calls /\ Exact /\ [Next]_vars => Exact'
<1> SUFFICES ASSUME Types, Calls, Exact, [Next]_vars PROVE Exact'
  OBVIOUS
<1>mir. CASE MirrorChanges
  <2>1. changes' # 0
    BY <1>mir DEF MirrorChanges, Types
  <2> QED BY <2>1 DEF Exact
<1>right. ASSUME changes = 0, NEW s \in Completions, NEW f \in [Cond -> BOOLEAN], Meaning(f, s)
          PROVE  Right(f, s)
  BY <1>right DEF Exact, Right
<1>same. ASSUME UNCHANGED loaded PROVE Completions' \subseteq Completions
  BY <1>same DEF Completions
<1>1. CASE PlainRule \/ DecideRule \/ Done \/ UNCHANGED vars
  <2>1. UNCHANGED <<env, list, ready, changes, loaded, stack, done, holds>>
    BY <1>1 DEF PlainRule, DecideRule, Fire, Done, vars, mirror
  <2>2. Completions' \subseteq Completions
    BY <1>same, <2>1
  <2>3. ASSUME changes' = 0, NEW s \in Completions', NEW f \in [Cond -> BOOLEAN], Meaning(f, s)
        PROVE  RightNext(f, s)
    <3>1. Right(f, s)
      BY <1>right, <2>1, <2>2, <2>3
    <3> QED BY <2>1, <3>1 DEF Right, RightNext, Agrees
  <2> QED BY <2>1, <2>2, <2>3, ExactKept
<1>2. ASSUME NEW c \in Cond, Call(c), UNCHANGED <<env, list, ready, changes, loaded, done, holds>>
      PROVE  Exact'
  <2>1. Completions' \subseteq Completions
    BY <1>same, <1>2
  <2> DEFINE fr == [cond |-> c, at |-> 1, read |-> FALSE, left |-> {}]
  <2>2. fr \in Frame /\ fr.at = 1 /\ fr.read = FALSE
    BY DEF Frame
  <2>3. stack' = <<fr>> \o stack /\ stack \in Seq(Frame)
    BY <1>2 DEF Call, Calls
  <2> HIDE DEF fr
  <2>4. /\ Len(stack') = Len(stack) + 1 /\ stack'[1] = fr /\ Len(stack) \in Nat
        /\ \A k \in 2 .. Len(stack) + 1 : stack'[k] = stack[k - 1] /\ k - 1 \in 1 .. Len(stack)
    BY <2>2, <2>3, Pushed, LenProperties
  <2>5. \A k \in 1 .. Len(stack') : k = 1 \/ k \in 2 .. Len(stack) + 1
    BY <2>4
  <2>6. ASSUME changes' = 0, NEW s \in Completions', NEW f \in [Cond -> BOOLEAN], Meaning(f, s)
        PROVE  RightNext(f, s)
    <3>1. Right(f, s)
      BY <1>2, <1>right, <2>1, <2>6
    <3>2. Open(fr, f, s)
      BY <2>2 DEF Open
    <3>3. \A k \in 1 .. Len(stack') : Open(stack'[k], f, s)
      BY <2>4, <2>5, <3>1, <3>2 DEF Right
    <3> QED BY <1>2, <3>1, <3>3 DEF Right, RightNext, Agrees
  <2> QED BY <1>2, <2>1, <2>6, ExactKept
<1>3. CASE CallRule
  <2> DEFINE c == profile.rules[rule].cond
  <2>1. /\ rule <= Len(profile.rules) /\ c # NoCond /\ Call(c)
        /\ UNCHANGED <<env, list, ready, changes, loaded, done, holds>>
    BY <1>3 DEF CallRule, Collecting, mirror
  <2>2. c \in Cond
    <3>1. rule \in 1 .. Len(profile.rules) /\ profile.rules \in Seq(Rule)
      BY <2>1, ProfileFacts, LenProperties DEF Types
    <3>2. profile.rules[rule] \in Rule
      BY <3>1, ElementOfSeq
    <3> QED BY <2>1, <3>2 DEF Rule
  <2> HIDE DEF c
  <2> QED BY <1>2, <2>1, <2>2
<1>4. CASE CallClause
  <2>1. /\ Evaluating /\ Cl.ref # NoCond /\ Call(Cl.ref)
        /\ UNCHANGED <<env, list, ready, changes, loaded, done, holds>>
    BY <1>4 DEF CallClause, mirror
  <2> QED BY <1>2, <2>1, RefIsLower
<1>dec. ASSUME Evaluating, NEW hit \in BOOLEAN, Decide(hit),
               UNCHANGED <<env, list, ready, changes, loaded>>,
               \A s, f : Right(f, s) => (hit <=> Truth(Cl, f, s))
        PROVE  Exact'
  <2>1. Completions' \subseteq Completions
    BY <1>same, <1>dec
  <2>2. ASSUME changes' = 0, NEW s \in Completions', NEW f \in [Cond -> BOOLEAN], Meaning(f, s)
        PROVE  RightNext(f, s)
    <3>1. Right(f, s)
      BY <1>dec, <1>right, <2>1, <2>2
    <3>2. hit <=> Truth(Cl, f, s)
      BY <1>dec, <3>1
    <3> QED BY <1>dec, <2>2, <3>1, <3>2, DecideExact
  <2> QED BY <1>dec, <2>1, <2>2, ExactKept
<1>open. ASSUME Evaluating, NEW s, NEW f, Right(f, s) PROVE Open(Top, f, s)
  <2>1. Top = stack[1] /\ 1 \in 1 .. Len(stack)
    BY <1>open, TopFacts
  <2> QED BY <1>open, <2>1 DEF Right
<1>5. CASE RefClause
  <2>1. /\ Evaluating /\ Cl.ref # NoCond /\ Cl.ref \in done \cup Busy /\ Decide(Cl.ref \in holds)
        /\ UNCHANGED <<env, list, ready, changes, loaded>>
    BY <1>5 DEF RefClause, mirror
  <2>2. Cl.ref \in done
    BY <2>1, RefIsNotBusy
  <2> DEFINE hit == Cl.ref \in holds
  <2>3. \A s, f : Right(f, s) => (hit <=> Truth(Cl, f, s))
    BY <2>1, <2>2 DEF Right, Agrees, Truth
  <2>4. hit \in BOOLEAN /\ Decide(hit)
    BY <2>1
  <2> HIDE DEF hit
  <2> QED BY <1>dec, <2>1, <2>3, <2>4
<1>6. CASE NoValueLeft
  <2>1. /\ Evaluating /\ Cl.ref = NoCond /\ Top.read /\ Top.left = {} /\ Decide(FALSE)
        /\ UNCHANGED <<env, list, ready, changes, loaded>>
    BY <1>6 DEF NoValueLeft, mirror
  <2>2. Cl = ClausesOf(Top.cond)[Top.at]
    BY <2>1, TopFacts
  <2>3. ASSUME NEW s, NEW f, Right(f, s) PROVE FALSE <=> Truth(Cl, f, s)
    <3>1. Open(Top, f, s)
      BY <1>open, <2>1, <2>3
    <3>2. \A v \in Values(Cl.operand, s) : ~Hit(Cl.test, v)
      BY <2>1, <2>2, <3>1 DEF Open
    <3> QED BY <2>1, <3>2 DEF Truth
  <2> QED BY <1>dec, <2>1, <2>3
<1>7. ASSUME NEW v \in Value, TestValue(v), Hit(Cl.test, v) PROVE Exact'
  <2>1. /\ Evaluating /\ Cl.ref = NoCond /\ Top.read /\ v \in Top.left /\ Decide(TRUE)
        /\ UNCHANGED <<env, list, ready, changes, loaded>>
    BY <1>7 DEF TestValue, mirror
  <2>2. Cl = ClausesOf(Top.cond)[Top.at]
    BY <2>1, TopFacts
  <2>3. ASSUME NEW s, NEW f, Right(f, s) PROVE TRUE <=> Truth(Cl, f, s)
    <3>1. Open(Top, f, s)
      BY <1>open, <2>1, <2>3
    <3>2. v \in Values(Cl.operand, s)
      BY <2>1, <2>2, <3>1 DEF Open
    <3> QED BY <1>7, <2>1, <3>2 DEF Truth
  <2> QED BY <1>dec, <2>1, <2>3
\* The innermost call reads its operand, or looks a value up in vain.
<1>top. ASSUME Evaluating, NEW fr \in Frame, stack' = <<fr>> \o Tail(stack),
               UNCHANGED <<env, list, ready, changes, done, holds>>,
               Completions' \subseteq Completions,
               \A s \in Completions', f \in [Cond -> BOOLEAN] : Right(f, s) => Open(fr, f, s)
        PROVE  Exact'
  <2>1. stack \in Seq(Frame) /\ stack # <<>>
    BY <1>top DEF Calls, Evaluating
  <2>2. /\ Len(stack') = Len(stack) /\ stack'[1] = fr /\ Len(stack) \in Nat
        /\ \A k \in 2 .. Len(stack) : stack'[k] = stack[k]
    BY <1>top, <2>1, Replaced, Popped
  <2>3. \A k \in 1 .. Len(stack') : k = 1 \/ (k \in 2 .. Len(stack) /\ k \in 1 .. Len(stack))
    BY <2>2
  <2>4. ASSUME changes' = 0, NEW s \in Completions', NEW f \in [Cond -> BOOLEAN], Meaning(f, s)
        PROVE  RightNext(f, s)
    <3>1. Right(f, s)
      BY <1>top, <1>right, <2>4
    <3>2. \A k \in 1 .. Len(stack') : Open(stack'[k], f, s)
      BY <1>top, <2>2, <2>3, <3>1 DEF Right
    <3> QED BY <1>top, <3>1, <3>2 DEF Right, RightNext, Agrees
  <2> QED BY <1>top, <2>4, ExactKept
<1>8. ASSUME NEW v \in Value, TestValue(v), ~Hit(Cl.test, v) PROVE Exact'
  <2> DEFINE fr == [Top EXCEPT !.left = @ \ {v}]
  <2>1. /\ Evaluating /\ Cl.ref = NoCond /\ Top.read /\ stack' = <<fr>> \o Tail(stack)
        /\ UNCHANGED <<env, list, ready, changes, loaded, done, holds>>
    BY <1>8 DEF TestValue, mirror
  <2>2. Cl = ClausesOf(Top.cond)[Top.at] /\ Top \in Frame
    BY <2>1, TopFacts
  <2>3. /\ fr \in Frame /\ fr.cond = Top.cond /\ fr.at = Top.at /\ fr.read = Top.read
        /\ fr.left = Top.left \ {v}
    BY <2>2 DEF Frame
  <2> HIDE DEF fr
  <2>4. ASSUME NEW s, NEW f, Right(f, s) PROVE Open(fr, f, s)
    <3>1. Open(Top, f, s)
      BY <1>open, <2>1, <2>4
    <3>2. /\ Top.left \subseteq Values(Cl.operand, s)
          /\ \A x \in Values(Cl.operand, s) : x \in Top.left \/ ~Hit(Cl.test, x)
      BY <2>1, <2>2, <3>1 DEF Open
    <3>3. /\ fr.left \subseteq Values(Cl.operand, s)
          /\ \A x \in Values(Cl.operand, s) : x \in fr.left \/ ~Hit(Cl.test, x)
      BY <1>8, <2>3, <3>2
    <3> QED BY <2>1, <2>2, <2>3, <3>1, <3>3 DEF Open
  <2> QED BY <1>same, <1>top, <2>1, <2>3, <2>4
<1>read. ASSUME Evaluating, Cl.ref = NoCond, Read,
                UNCHANGED <<env, list, ready, changes, done, holds>>,
                Completions' \subseteq Completions,
                \A s \in Completions' : \A o \in Needs(Cl.operand) : s[o] = loaded'[o]
         PROVE  Exact'
  <2> DEFINE L == Values(Cl.operand, loaded')
             fr == [Top EXCEPT !.read = TRUE, !.left = L]
  <2>1. stack' = <<fr>> \o Tail(stack)
    BY <1>read DEF Read
  <2>2. Cl = ClausesOf(Top.cond)[Top.at] /\ Top \in Frame /\ Cl.operand \in Operand
    <3>1. Cl = ClausesOf(Top.cond)[Top.at] /\ Top \in Frame /\ Cl \in Clause
      BY <1>read, TopFacts
    <3> QED BY <3>1 DEF Clause
  <2>3. L \subseteq Value
    BY <2>2, ValuesType
  <2>4. \A s \in Completions' : Values(Cl.operand, s) = L
    BY <1>read, <2>2, ValuesOfNeeds
  <2> HIDE DEF L
  <2>5. /\ fr \in Frame /\ fr.cond = Top.cond /\ fr.at = Top.at /\ fr.left = L
    BY <2>2, <2>3 DEF Frame
  <2> HIDE DEF fr
  <2>6. ASSUME NEW s \in Completions', NEW f \in [Cond -> BOOLEAN], Right(f, s) PROVE Open(fr, f, s)
    <3>1. Open(Top, f, s)
      BY <1>open, <1>read, <2>6
    <3> QED BY <1>read, <2>2, <2>4, <2>5, <3>1 DEF Open
  <2> QED BY <1>read, <1>top, <2>1, <2>5, <2>6
<1>9. CASE ReadKnown
  <2>1. /\ Evaluating /\ Cl.ref = NoCond /\ Read
        /\ \A o \in Needs(Cl.operand) : loaded[o] # "no"
        /\ UNCHANGED <<env, list, ready, changes, loaded, done, holds>>
    BY <1>9 DEF ReadKnown, mirror
  <2>2. \A x : Needs(x) \subseteq Object
    BY DEF Needs, Object
  <2>3. \A s \in Completions' : \A o \in Needs(Cl.operand) : s[o] = loaded'[o]
    BY <2>1, <2>2 DEF Completions
  <2> QED BY <1>read, <1>same, <2>1, <2>3
<1>10. ASSUME NEW o \in Object, ReadObject(o) PROVE Exact'
  <2>1. /\ Evaluating /\ Cl.ref = NoCond /\ Read /\ o \in Needs(Cl.operand) /\ loaded[o] = "no"
        /\ UNCHANGED <<env, list, ready, changes, done, holds>>
    BY <1>10 DEF ReadObject, mirror
  <2>2. PICK r \in Outcomes(o) : loaded' = [x \in Object |-> IF x \in {o} THEN r[1] ELSE loaded[x]]
    BY <1>10 DEF ReadObject, Keep
  <2>3. r[1] # "no"
    BY OutcomesType
  <2>4. loaded'[o] # "no" /\ \A x \in Object : loaded[x] # "no" => loaded'[x] = loaded[x]
    BY <2>1, <2>2, <2>3
  <2>5. Completions' \subseteq Completions
    BY <2>4 DEF Completions
  <2>6. Needs(Cl.operand) = {o}
    BY <2>1 DEF Needs
  <2>7. \A s \in Completions' : \A x \in Needs(Cl.operand) : s[x] = loaded'[x]
    BY <2>4, <2>6 DEF Completions
  <2> QED BY <1>read, <2>1, <2>5, <2>7
<1> QED BY <1>mir, <1>1, <1>3, <1>4, <1>5, <1>6, <1>7, <1>8, <1>9, <1>10 DEF Next, Step

\* Without a change of the mirror Collect fires, in order, exactly the rules that
\* the declared meaning of the conditions asks for.
THEOREM LazyExact == Spec => []LazyIsExact
<1>1. Init => Inv
  <2> SUFFICES ASSUME Init PROVE Decided /\ Exact
    BY InitCalls DEF Inv
  <2>1. rule = 1 /\ fired = <<>> /\ stack = <<>> /\ done = {}
    BY DEF Init
  <2>2. Len(fired) = 0 /\ DOMAIN fired = {} /\ Len(stack) = 0
    BY <2>1
  <2>3. Fired = {} /\ 1 .. rule - 1 = {}
    BY <2>1, <2>2 DEF Fired
  <2>4. Decided
    BY <2>2, <2>3 DEF Decided
  <2> QED BY <2>1, <2>2, <2>4 DEF Exact, Agrees
<1>2. Inv /\ [Next]_vars => Inv'
  BY TypesInductive, CallsInductive, DecidedInductive, ExactInductive DEF Inv
<1>3. Inv => LazyIsExact
  <2> SUFFICES ASSUME Inv, Finished, changes = 0
               PROVE  /\ \A j, k \in DOMAIN fired : j < k => fired[j] < fired[k]
                      /\ \A s \in Completions : \A f \in [Cond -> BOOLEAN] : Meaning(f, s) =>
                            Fired = {i \in DOMAIN profile.rules :
                                        LET r == profile.rules[i]
                                        IN  r.applies /\ (r.cond # NoCond => f[r.cond] # r.negate)}
    BY DEF LazyIsExact
  <2>1. profile.rules \in Seq(Rule) /\ rule = Len(profile.rules) + 1
    BY ProfileFacts DEF Finished, Inv
  <2>2. DOMAIN profile.rules = 1 .. Len(profile.rules) /\ Len(profile.rules) \in Nat
    BY <2>1, LenProperties
  <2>3. 1 .. rule - 1 = DOMAIN profile.rules
    BY <2>1, <2>2
  <2>4. \A j, k \in DOMAIN fired : j < k => fired[j] < fired[k]
    <3>1. DOMAIN fired = 1 .. Len(fired)
      BY LenProperties DEF Inv, Types
    <3> QED BY <3>1 DEF Inv, Decided
  <2>5. ASSUME NEW s \in Completions, NEW f \in [Cond -> BOOLEAN], Meaning(f, s),
               NEW i \in DOMAIN profile.rules
        PROVE  LET r == profile.rules[i]
               IN  i \in Fired <=> r.applies /\ (r.cond # NoCond => f[r.cond] # r.negate)
    <3> DEFINE r == profile.rules[i]
    <3>1. r.applies \in BOOLEAN /\ r.negate \in BOOLEAN /\ r.cond \in Cond \cup {NoCond}
      <4>1. r \in Rule
        BY <2>1, <2>2, ElementOfSeq
      <4> QED BY <4>1 DEF Rule
    <3>2. Agrees(f)
      BY <2>5 DEF Inv, Exact
    <3>3. IF r.applies /\ r.cond # NoCond
          THEN r.cond \in done /\ (i \in Fired <=> (r.cond \in holds) # r.negate)
          ELSE i \in Fired <=> r.applies
      BY <2>3 DEF Inv, Decided
    <3>4. CASE r.applies /\ r.cond # NoCond
      <4>1. f[r.cond] \in BOOLEAN /\ (f[r.cond] <=> r.cond \in holds)
        BY <3>1, <3>2, <3>3, <3>4 DEF Agrees
      <4>2. i \in Fired <=> f[r.cond] # r.negate
        BY <3>1, <3>3, <3>4, <4>1
      <4> QED BY <3>4, <4>2
    <3>5. CASE ~(r.applies /\ r.cond # NoCond)
      BY <3>1, <3>3, <3>5
    <3> QED BY <3>4, <3>5
  <2>6. Fired \subseteq DOMAIN profile.rules
    BY <2>3 DEF Inv, Decided
  <2> QED BY <2>4, <2>5, <2>6
<1> QED BY <1>1, <1>2, <1>3, PTL DEF Spec

-----------------------------------------------------------------------------
(* The conditions have one meaning.                                        *)

\* The value that the definition of c asks for when its references have those of f.
Declares(c, f, s) ==
    IF profile.conds[c].any
    THEN \E i \in DOMAIN profile.conds[c].clauses :
            ClauseHolds(profile.conds[c].clauses[i], f, s)
    ELSE \A i \in DOMAIN profile.conds[c].clauses :
            ClauseHolds(profile.conds[c].clauses[i], f, s)

\* f and g give the references of c the same values.
SameRefs(c, f, g) ==
    \A i \in DOMAIN profile.conds[c].clauses :
       LET r == profile.conds[c].clauses[i].ref IN r # NoCond => f[r] = g[r]

\* A definition looks at the references of the condition and at nothing else of f.
LEMMA DeclaresOfRefs ==
    ASSUME NEW c, NEW f, NEW g, NEW s, SameRefs(c, f, g)
    PROVE  Declares(c, f, s) = Declares(c, g, s)
<1>1. \A i \in DOMAIN profile.conds[c].clauses :
         ClauseHolds(profile.conds[c].clauses[i], f, s)
            = ClauseHolds(profile.conds[c].clauses[i], g, s)
  BY DEF SameRefs, ClauseHolds
<1> QED BY <1>1 DEF Declares

\* A definition has a truth value.
LEMMA DeclaresTruth ==
    ASSUME NEW c, NEW f, NEW s
    PROVE  Declares(c, f, s) \in BOOLEAN
<1>1. CASE profile.conds[c].any
  BY <1>1 DEF Declares
<1>2. CASE ~profile.conds[c].any
  BY <1>2 DEF Declares
<1> QED BY <1>1, <1>2

\* f gives the conditions of the first n ranks their declared values.
MeansBelow(f, s, rank, n) ==
    \A c \in Cond : rank[c] < n => f[c] = Declares(c, f, s)

\* The references of a condition are conditions of a lower rank.
LEMMA RanksBelow ==
    ASSUME Types, NEW rank \in Ranks, NEW c \in Cond, NEW i \in DOMAIN profile.conds[c].clauses,
           profile.conds[c].clauses[i].ref # NoCond
    PROVE  /\ profile.conds[c].clauses[i].ref \in Cond
           /\ rank[profile.conds[c].clauses[i].ref] < rank[c]
<1>1. ClausesOf(c) \in Seq(Clause) /\ DOMAIN ClausesOf(c) = 1 .. Len(ClausesOf(c))
  BY ProfileFacts, LenProperties
<1>2. i \in 1 .. Len(ClausesOf(c)) /\ ClausesOf(c)[i] \in Clause
  BY <1>1, ElementOfSeq DEF ClausesOf
<1>3. ClausesOf(c)[i].ref \in Cond \cup {NoCond}
  BY <1>2 DEF Clause
<1> QED BY <1>2, <1>3 DEF Ranks, ClausesOf

\* The meaning of the first n ranks extends to the next one.
LEMMA MeaningGrows ==
    ASSUME Types, NEW rank \in Ranks, NEW n \in Nat, NEW s,
           NEW f \in [Cond -> BOOLEAN], MeansBelow(f, s, rank, n)
    PROVE  \E g \in [Cond -> BOOLEAN] : MeansBelow(g, s, rank, n + 1)
<1> DEFINE g == [c \in Cond |-> IF rank[c] < n THEN f[c] ELSE Declares(c, f, s)]
<1>1. g \in [Cond -> BOOLEAN]
  BY DeclaresTruth
<1>2. ASSUME NEW c \in Cond, rank[c] < n + 1
      PROVE  g[c] = Declares(c, g, s)
  <2>1. SameRefs(c, f, g)
    <3> SUFFICES ASSUME NEW i \in DOMAIN profile.conds[c].clauses,
                        profile.conds[c].clauses[i].ref # NoCond
                 PROVE  f[profile.conds[c].clauses[i].ref] = g[profile.conds[c].clauses[i].ref]
      BY DEF SameRefs
    <3> DEFINE r == profile.conds[c].clauses[i].ref
    <3>1. r \in Cond /\ rank[r] < rank[c]
      BY RanksBelow
    <3> HIDE DEF r
    <3>2. rank[r] \in Int /\ rank[c] \in Int
      BY <3>1, RankNumbers
    <3>3. rank[r] < n
      BY <1>2, <3>1, <3>2
    <3>4. f[r] = g[r]
      BY <3>1, <3>3
    <3> QED BY <3>4 DEF r
  <2>2. Declares(c, g, s) = Declares(c, f, s)
    BY <2>1, DeclaresOfRefs
  <2>3. g[c] = IF rank[c] < n THEN f[c] ELSE Declares(c, f, s)
    OBVIOUS
  <2>4. rank[c] < n => f[c] = Declares(c, f, s)
    BY DEF MeansBelow
  <2> HIDE DEF g
  <2> QED BY <2>2, <2>3, <2>4
<1> HIDE DEF g
<1>3. MeansBelow(g, s, rank, n + 1)
  BY <1>2 DEF MeansBelow
<1> QED BY <1>1, <1>3

\* A loaded profile gives its conditions values as declared.
LEMMA MeaningExists ==
    ASSUME Types, NEW s
    PROVE  \E f \in [Cond -> BOOLEAN] : Meaning(f, s)
<1>1. PICK rank \in Ranks : TRUE
  BY ProfileFacts
<1>2. Cardinality(Cond) \in Nat
  BY EvaluatorAssumption, FS_CardinalityType
<1> DEFINE Means(n) == \E f \in [Cond -> BOOLEAN] : MeansBelow(f, s, rank, n)
           T == {n \in Nat : ~Means(n)}
<1>3. T = {}
  <2> SUFFICES ASSUME T # {} PROVE FALSE
    OBVIOUS
  <2>1. T \in SUBSET Nat
    OBVIOUS
  <2> HIDE DEF T
  <2>2. PICK k \in T : \A j \in T : k <= j
    BY <2>1, LeastNumber
  <2>3. k \in Nat /\ ~Means(k)
    BY <2>2 DEF T
  <2>4. k # 0
    <3>1. Means(0)
      <4>1. [c \in Cond |-> TRUE] \in [Cond -> BOOLEAN]
        OBVIOUS
      <4>2. \A c \in Cond : ~(rank[c] < 0)
        BY <1>2 DEF Ranks
      <4> QED BY <4>1, <4>2 DEF MeansBelow
    <3> QED BY <2>3, <3>1
  <2>5. k - 1 \in Nat /\ k - 1 < k /\ (k - 1) + 1 = k /\ ~(k <= k - 1)
    BY <2>3, <2>4
  <2>6. k - 1 \notin T
    BY <2>2, <2>5
  <2>7. Means(k - 1)
    BY <2>5, <2>6 DEF T
  <2>8. PICK f \in [Cond -> BOOLEAN] : MeansBelow(f, s, rank, k - 1)
    BY <2>7
  <2>9. \E g \in [Cond -> BOOLEAN] : MeansBelow(g, s, rank, (k - 1) + 1)
    BY <2>5, <2>8, MeaningGrows
  <2> QED BY <2>3, <2>5, <2>9
<1>4. Means(Cardinality(Cond) + 1)
  BY <1>2, <1>3
<1>5. PICK f \in [Cond -> BOOLEAN] : MeansBelow(f, s, rank, Cardinality(Cond) + 1)
  BY <1>4
<1>6. \A c \in Cond : rank[c] < Cardinality(Cond) + 1
  BY <1>2 DEF Ranks
<1>7. \A c \in Cond : f[c] = Declares(c, f, s)
  BY <1>5, <1>6 DEF MeansBelow
<1> QED BY <1>7, Zenon DEF Meaning, Declares

\* There is no second meaning: of two the least rank at which they differ would have
\* a condition whose references agree.
LEMMA MeaningUnique ==
    ASSUME Types, NEW s, NEW f \in [Cond -> BOOLEAN], NEW g \in [Cond -> BOOLEAN],
           Meaning(f, s), Meaning(g, s)
    PROVE  f = g
<1>1. PICK rank \in Ranks : TRUE
  BY ProfileFacts
<1>2. \A c \in Cond : rank[c] \in Nat
  <2>1. Cardinality(Cond) \in Nat
    BY EvaluatorAssumption, FS_CardinalityType
  <2> QED BY <2>1 DEF Ranks
<1>3. \A c \in Cond : f[c] = Declares(c, f, s) /\ g[c] = Declares(c, g, s)
  BY Zenon DEF Meaning, Declares
<1> DEFINE D == {c \in Cond : f[c] # g[c]}
           T == {rank[c] : c \in D}
<1>4. D = {}
  <2> SUFFICES ASSUME D # {} PROVE FALSE
    OBVIOUS
  <2>1. T \in SUBSET Nat /\ T # {}
    BY <1>2
  <2> HIDE DEF T
  <2>2. PICK k \in T : \A j \in T : k <= j
    BY <2>1, LeastNumber
  <2>3. PICK c \in D : rank[c] = k
    BY <2>2 DEF T
  <2>4. \A d \in D : rank[c] <= rank[d]
    BY <2>2, <2>3 DEF T
  <2>5. SameRefs(c, f, g)
    <3> SUFFICES ASSUME NEW i \in DOMAIN profile.conds[c].clauses,
                        profile.conds[c].clauses[i].ref # NoCond
                 PROVE  f[profile.conds[c].clauses[i].ref] = g[profile.conds[c].clauses[i].ref]
      BY DEF SameRefs
    <3> DEFINE r == profile.conds[c].clauses[i].ref
    <3>1. r \in Cond /\ rank[r] < rank[c]
      BY RanksBelow
    <3> HIDE DEF r
    <3>2. r \notin D
      BY <1>2, <2>4, <3>1
    <3>3. f[r] = g[r]
      BY <3>1, <3>2
    <3> QED BY <3>3 DEF r
  <2>6. Declares(c, f, s) = Declares(c, g, s)
    BY <2>5, DeclaresOfRefs
  <2>7. f[c] # g[c]
    OBVIOUS
  <2> QED BY <1>3, <2>6, <2>7
<1> QED BY <1>4

\* However the objects were read, the conditions have exactly one meaning.
OneMeaning ==
    \A s \in [Object -> {"ok", "missing"}] : \E f \in [Cond -> BOOLEAN] :
       Meaning(f, s) /\ \A g \in [Cond -> BOOLEAN] : Meaning(g, s) => g = f

\* In a profile without cycles the declared values of the conditions exist and are
\* unique, so that LazyIsExact compares Collect with exactly one result.
THEOREM ConditionsMeanOneThing == Spec => []OneMeaning
<1>1. Types => OneMeaning
  BY MeaningExists, MeaningUnique DEF OneMeaning
<1>2. Types /\ Calls /\ Fetched /\ [Next]_vars => (Types /\ Calls /\ Fetched)'
  BY TypesInductive, CallsInductive
<1> QED BY <1>1, <1>2, InitCalls, PTL DEF Spec

-----------------------------------------------------------------------------
(* Which graphs of references are loaded.                                  *)

Declared == DOMAIN conds
Visit == [name : Declared, at : Nat \ {0}]

GraphTypes ==
    /\ Declared \subseteq Name
    /\ \A n \in Declared : conds[n] \in Seq(Name \cup {NoRef}) /\ conds[n] # <<>>
    /\ order \in Seq(Declared)
    /\ \A n \in Declared : \E i \in 1 .. Len(order) : order[i] = n
    /\ place \in Nat \ {0} /\ place <= Len(order) + 1
    /\ path \in Seq(Visit)
    /\ walked \in [Name -> {0, 1, 2}]
    /\ result \in {"unread", "checking", "accepted", "rejected", "panic"}

\* No conditions of F refer to each other in a cycle.
Acyclic(F) == \A C \in SUBSET F : C # {} => \E n \in C : Refs(n) \cap C = {}

\* Declared conditions without a cycle that refer to nothing but each other.
Grounded(F) ==
    F \subseteq Declared /\ (\A n \in F : Refs(n) \subseteq F) /\ Acyclic(F)

FullyWalked == {n \in Name : walked[n] = 2}

\* The calls in progress are those for the names on the path, each in the
\* clause that refers to the next, with the clauses before it through.
Path ==
    /\ \A n \in Name : walked[n] = 1 => \E k \in 1 .. Len(path) : path[k].name = n
    /\ \A k \in 1 .. Len(path) :
          /\ walked[path[k].name] = 1
          /\ path[k].at <= Len(conds[path[k].name]) + 1
          /\ \A i \in 1 .. path[k].at - 1 : conds[path[k].name][i] \in FullyWalked \cup {NoRef}
    /\ \A k \in 1 .. Len(path) - 1 :
          /\ path[k].at <= Len(conds[path[k].name])
          /\ conds[path[k].name][path[k].at] = path[k + 1].name
    /\ \A j, k \in 1 .. Len(path) : path[j].name = path[k].name => j = k
    /\ path # <<>> => place <= Len(order) /\ path[1].name = order[place]

\* The names before the one that is checked reach no cycle.
Cleared ==
    \A j \in 1 .. place - 1 : \E F \in SUBSET Name : order[j] \in F /\ Grounded(F)

GraphInv ==
    /\ GraphTypes /\ Path /\ Grounded(FullyWalked) /\ Cleared
    /\ result = "accepted" => place = Len(order) + 1
    /\ result \in {"rejected", "panic"} => Undeclared \/ Cyclic

\* A finished condition joins those finished before.
LEMMA GroundedGrows ==
    ASSUME NEW F, Grounded(F), NEW n \in Declared, Refs(n) \subseteq F, n \notin F
    PROVE  Grounded(F \cup {n})
<1> DEFINE G == F \cup {n}
<1>1. G \subseteq Declared /\ \A m \in G : Refs(m) \subseteq G
  BY DEF Grounded
<1>2. ASSUME NEW C \in SUBSET G, C # {} PROVE \E m \in C : Refs(m) \cap C = {}
  <2>1. CASE C \ {n} = {}
    <3>1. C = {n}
      BY <1>2, <2>1
    <3>2. Refs(n) \cap C = {}
      BY <3>1
    <3> QED BY <3>1, <3>2
  <2>2. CASE C \ {n} # {}
    <3>1. C \ {n} \in SUBSET F
      BY <1>2
    <3>2. PICK m \in C \ {n} : Refs(m) \cap (C \ {n}) = {}
      BY <2>2, <3>1 DEF Grounded, Acyclic
    <3>3. Refs(m) \subseteq F
      BY <3>1, <3>2 DEF Grounded
    <3>4. Refs(m) \cap C = {}
      BY <3>2, <3>3
    <3> QED BY <3>2, <3>4
  <2> QED BY <2>1, <2>2
<1> QED BY <1>1, <1>2 DEF Grounded, Acyclic

\* The innermost loop goes on; the other calls stay where they are.
LEMMA Advances ==
    ASSUME NEW S, NEW p \in Seq([name : S, at : Nat \ {0}])
    PROVE  /\ Advance(p) \in Seq([name : S, at : Nat \ {0}])
           /\ Len(Advance(p)) = Len(p)
           /\ \A k \in 1 .. Len(p) :
                 /\ Advance(p)[k].name = p[k].name
                 /\ Advance(p)[k].at = IF k = Len(p) THEN p[k].at + 1 ELSE p[k].at
<1>1. CASE p = <<>>
  BY <1>1 DEF Advance
<1>2. CASE p # <<>>
  <2> DEFINE R == [name : S, at : Nat \ {0}]
             n == Len(p)
             v == [p[n] EXCEPT !.at = p[n].at + 1]
  <2>1. p \in Seq(R)
    OBVIOUS
  <2>2. Advance(p) = [p EXCEPT ![n] = v]
    BY <1>2, Zenon DEF Advance
  <2> HIDE DEF R
  <2>3. n \in Nat /\ n \in 1 .. n /\ p \in [1 .. n -> R]
    <3>1. n \in Nat /\ p \in [1 .. n -> R]
      BY <2>1, LenProperties
    <3>2. n # 0
      BY <1>2, <2>1, EmptySeq
    <3> QED BY <3>1, <3>2
  <2> HIDE DEF n
  <2>4. v \in R /\ v.name = p[n].name /\ v.at = p[n].at + 1
    <3>1. p[n] \in R
      BY <2>3
    <3> QED BY <3>1 DEF R
  <2> HIDE DEF v
  <2>5. [p EXCEPT ![n] = v] \in Seq(R) /\ Len([p EXCEPT ![n] = v]) = n
    BY <2>1, <2>3, <2>4, ExceptSeq DEF n
  <2>6. \A k \in 1 .. n : [p EXCEPT ![n] = v][k] = IF k = n THEN v ELSE p[k]
    BY <2>3
  <2> QED BY <2>2, <2>4, <2>5, <2>6 DEF R, n
<1> QED BY <1>1, <1>2

\* Nothing that Path and Grounded speak of changes with the references.
LEMMA SameGraph ==
    ASSUME UNCHANGED conds
    PROVE  /\ Declared' = Declared
           /\ \A n : Refs(n)' = Refs(n)
           /\ \A F : Grounded(F) <=> Grounded(F)'
           /\ Undeclared' <=> Undeclared
           /\ Cyclic' <=> Cyclic
  BY DEF Declared, Refs, Grounded, Acyclic, Undeclared, Cyclic

\* A reference to a condition on the path closes a cycle.
LEMMA BackReference ==
    ASSUME GraphTypes, Path, path # <<>>, Deepest.at <= Len(conds[Deepest.name]),
           NEW m \in Name, conds[Deepest.name][Deepest.at] = m, walked[m] = 1
    PROVE  Cyclic
<1> DEFINE n == Len(path)
<1>1. n \in Nat \ {0} /\ Deepest = path[n]
  <2>1. path \in Seq(Visit)
    BY DEF GraphTypes
  <2> QED BY <2>1, LenProperties, EmptySeq DEF Deepest
<1>2. \A k \in 1 .. n : path[k] \in Visit
  BY ElementOfSeq DEF GraphTypes
<1>3. PICK b \in 1 .. n : path[b].name = m
  BY DEF Path
<1> DEFINE C == {path[j].name : j \in b .. n}
<1>4. C \in SUBSET Declared /\ C # {}
  BY <1>1, <1>2, <1>3 DEF Visit
<1>5. ASSUME NEW j \in b .. n PROVE Refs(path[j].name) \cap C # {}
  <2>1. j \in 1 .. n /\ path[j].name \in Declared /\ path[j].at \in Nat \ {0}
    BY <1>1, <1>2, <1>3 DEF Visit
  <2>2. path[j].at <= Len(conds[path[j].name]) /\ conds[path[j].name][path[j].at] \in C
    <3>1. CASE j = n
      BY <1>1, <1>3, <3>1
    <3>2. CASE j # n
      <4>1. j \in 1 .. n - 1 /\ j + 1 \in b .. n
        BY <1>1, <2>1, <3>2
      <4>2. /\ path[j].at <= Len(conds[path[j].name])
            /\ conds[path[j].name][path[j].at] = path[j + 1].name
        BY <4>1 DEF Path
      <4> QED BY <4>1, <4>2
    <3> QED BY <3>1, <3>2
  <2>3. conds[path[j].name] \in Seq(Name \cup {NoRef})
    BY <2>1 DEF GraphTypes
  <2>4. path[j].at \in DOMAIN conds[path[j].name]
    BY <2>1, <2>2, <2>3
  <2>5. NoRef \notin C
    BY <1>4, GraphAssumption DEF GraphTypes
  <2> HIDE DEF C
  <2> QED BY <2>2, <2>4, <2>5 DEF Refs
<1>6. \A r \in C : Refs(r) \cap C # {}
  BY <1>5
<1> QED BY <1>4, <1>6 DEF Cyclic, Declared

\* The invariant says what the verdict means.
LEMMA VerdictMeans ==
    ASSUME GraphInv
    PROVE  AcceptsWellFormed
<1>1. ASSUME result = "accepted" PROVE ~Undeclared /\ ~Cyclic
  <2>1. \A n \in Declared : \E F \in SUBSET Name : n \in F /\ Grounded(F)
    <3>1. place = Len(order) + 1 /\ order \in Seq(Declared)
      BY <1>1 DEF GraphInv, GraphTypes
    <3>2. Len(order) \in Nat
      BY <3>1
    <3>3. \A j \in 1 .. Len(order) : \E F \in SUBSET Name : order[j] \in F /\ Grounded(F)
      <4>1. \A j \in 1 .. place - 1 : \E F \in SUBSET Name : order[j] \in F /\ Grounded(F)
        BY Zenon DEF GraphInv, Cleared
      <4>2. place - 1 = Len(order)
        BY <3>1, <3>2
      <4> QED BY <4>1, <4>2, Zenon
    <3>4. \A n \in Declared : \E i \in 1 .. Len(order) : order[i] = n
      BY DEF GraphInv, GraphTypes
    <3> QED BY <3>3, <3>4, Zenon
  <2>2. ~Undeclared
    BY <2>1 DEF Undeclared, Grounded, Declared
  <2>3. ASSUME NEW C \in SUBSET Declared, C # {}, \A n \in C : Refs(n) \cap C # {}
        PROVE  FALSE
    <3>1. PICK n \in C : TRUE
      BY <2>3
    <3>2. PICK F \in SUBSET Name : n \in F /\ Grounded(F)
      BY <2>1
    <3>3. PICK m \in C \cap F : Refs(m) \cap (C \cap F) = {}
      BY <3>2 DEF Grounded, Acyclic
    <3>4. Refs(m) \subseteq F
      BY <3>2 DEF Grounded
    <3> QED BY <2>3, <3>3, <3>4
  <2> QED BY <2>2, <2>3 DEF Cyclic, Declared
<1> QED BY <1>1 DEF AcceptsWellFormed, Ended, GraphInv

\* The graph of a file that is about to be read.
LEMMA GraphInit == InitGraph => GraphInv
<1> SUFFICES ASSUME InitGraph PROVE GraphInv
  OBVIOUS
<1>1. PICK D \in SUBSET Name :
        order \in Bijection(1 .. Cardinality(D), D) /\ conds \in [D -> Clauses]
  BY DEF InitGraph
<1> DEFINE N == Cardinality(D)
<1>2. N \in Nat
  BY GraphAssumption, FS_Subset, FS_CardinalityType
<1>3. order \in [1 .. N -> D] /\ \A n \in D : \E i \in 1 .. N : order[i] = n
  BY <1>1 DEF Bijection, Surjection, Injection
<1> HIDE DEF N
<1>4. order \in Seq(D) /\ Len(order) = N
  BY <1>2, <1>3, SeqDef
<1>5. Declared = D
  BY <1>1 DEF Declared
<1>6. ASSUME NEW n \in D PROVE conds[n] \in Seq(Name \cup {NoRef}) /\ conds[n] # <<>>
  <2>1. conds[n] \in Clauses
    BY <1>1
  <2>2. PICK k \in 1 .. MaxClauses : conds[n] \in [1 .. k -> Name \cup {NoRef}]
    BY <2>1 DEF Clauses
  <2>3. k \in Nat \ {0}
    BY GraphAssumption
  <2>4. conds[n] \in Seq(Name \cup {NoRef}) /\ Len(conds[n]) = k
    BY <2>2, <2>3, SeqDef
  <2> QED BY <2>3, <2>4, EmptySeq
<1>7. path = <<>>
  BY DEF InitGraph
<1>8. place = 1
  BY DEF InitGraph
<1>9. result = "unread"
  BY DEF InitGraph
<1>10. walked \in [Name -> {0, 1, 2}] /\ \A n \in Name : walked[n] = 0
  BY DEF InitGraph, Unwalked
<1>11. path \in Seq(Visit) /\ Len(path) = 0
  BY <1>7, EmptySeq
<1>12. place \in Nat \ {0} /\ place <= Len(order) + 1
  BY <1>2, <1>4, <1>8
<1>13. GraphTypes
  BY <1>3, <1>4, <1>5, <1>6, <1>10, <1>11, <1>12, <1>9 DEF GraphTypes
<1>14. Path
  BY <1>7, <1>10, <1>11 DEF Path
<1>15. FullyWalked = {}
  BY <1>10 DEF FullyWalked
<1>16. Grounded(FullyWalked) /\ Cleared
  BY <1>15, <1>8 DEF Grounded, Acyclic, Cleared
<1> QED BY <1>13, <1>14, <1>16, <1>9 DEF GraphInv

\* The types after a step of the walk.
LEMMA TypesStay ==
    ASSUME GraphTypes, UNCHANGED <<order, conds, place, result>>,
           path' \in Seq(Visit), walked' \in [Name -> {0, 1, 2}]
    PROVE  GraphTypes'
<1>1. Declared' = Declared /\ Visit' = Visit
  BY DEF Declared, Visit
<1> QED BY <1>1 DEF GraphTypes

\* A step that only gives the verdict.
LEMMA Verdict ==
    ASSUME GraphInv, UNCHANGED <<order, conds, place, path, walked>>,
           result' \in {"unread", "checking", "accepted", "rejected", "panic"},
           result' = "accepted" => place = Len(order) + 1,
           result' \in {"rejected", "panic"} => Undeclared \/ Cyclic
    PROVE  GraphInv'
<1>1. GraphTypes' /\ Path'
  BY DEF GraphInv, GraphTypes, Path, FullyWalked, Visit, Declared
<1>2. FullyWalked' = FullyWalked
  BY DEF FullyWalked
<1>3. Grounded(FullyWalked)' /\ Cleared'
  BY <1>2, SameGraph DEF GraphInv, Cleared
<1> QED BY <1>1, <1>3, SameGraph DEF GraphInv

\* The first loop.
LEMMA ReadStep ==
    ASSUME GraphInv, readConditions
    PROVE  GraphInv'
<1>1. ASSUME NEW n \in DOMAIN conds, n \in Refs(n) PROVE Cyclic
  <2>1. {n} \in SUBSET DOMAIN conds /\ {n} # {} /\ \A m \in {n} : Refs(m) \cap {n} # {}
    BY <1>1
  <2> QED BY <2>1 DEF Cyclic
<1> QED BY <1>1, Verdict DEF readConditions

\* A name begins.
LEMMA CheckStep ==
    ASSUME GraphInv, checkName
    PROVE  GraphInv'
<1> DEFINE n == order[place]
<1>1. n \in Declared /\ place \in 1 .. Len(order) /\ order \in Seq(Declared)
  <2>1. /\ order \in Seq(Declared) /\ place \in Nat \ {0} /\ place <= Len(order)
        /\ Len(order) \in Nat
    BY LenProperties DEF GraphInv, GraphTypes, checkName
  <2>2. place \in 1 .. Len(order)
    BY <2>1
  <2> QED BY <2>1, <2>2, ElementOfSeq
<1>2. CASE Refs(n) \subseteq DOMAIN conds
  <2>1. /\ path' = <<[name |-> n, at |-> 1]>> /\ walked' = [Unwalked EXCEPT ![n] = 1]
        /\ UNCHANGED <<result, order, conds, place>>
    BY <1>2 DEF checkName
  <2>2. n \in Name
    BY <1>1 DEF GraphInv, GraphTypes
  <2> HIDE DEF n
  <2>3. walked' \in [Name -> {0, 1, 2}] /\ \A m \in Name : walked'[m] = IF m = n THEN 1 ELSE 0
    BY <2>1, <2>2 DEF Unwalked
  <2>4. FullyWalked' = {}
    BY <2>3 DEF FullyWalked
  <2>5. /\ path' \in Seq(Visit') /\ Len(path') = 1
        /\ path'[1].name = n /\ path'[1].at = 1
    <3>1. Declared' = Declared
      BY <2>1 DEF Declared
    <3>2. [name |-> n, at |-> 1] \in Visit'
      BY <1>1, <3>1 DEF Visit
    <3> QED BY <2>1, <3>2
  <2>6. GraphTypes'
    BY <2>1, <2>3, <2>5 DEF GraphInv, GraphTypes, Declared
  <2>7. conds'[n] \in Seq(Name \cup {NoRef}) /\ Len(conds'[n]) \in Nat
    <3>1. conds[n] \in Seq(Name \cup {NoRef})
      BY <1>1 DEF GraphInv, GraphTypes
    <3> QED BY <2>1, <3>1, LenProperties
  <2>8. Path'
    BY <1>1, <2>1, <2>3, <2>4, <2>5, <2>7 DEF Path, n
  <2>9. Grounded(FullyWalked)' /\ Cleared'
    <3>1. Grounded({})
      BY DEF Grounded, Acyclic
    <3> QED BY <2>1, <2>4, <3>1, SameGraph DEF GraphInv, Cleared
  <2> QED BY <2>1, <2>6, <2>8, <2>9, SameGraph DEF GraphInv, checkName, Checking
<1>3. CASE ~(Refs(n) \subseteq DOMAIN conds)
  <2>1. result' = "rejected" /\ UNCHANGED <<order, conds, place, path, walked>>
    BY <1>3 DEF checkName
  <2>2. Undeclared
    BY <1>1, <1>3 DEF Undeclared, Declared
  <2> QED BY <2>1, <2>2, Verdict
<1> QED BY <1>2, <1>3

\* The innermost call and the clause it is at.
LEMMA Innermost ==
    ASSUME GraphInv, path # <<>>
    PROVE  /\ Len(path) \in Nat \ {0} /\ Deepest = path[Len(path)] /\ Deepest \in Visit
           /\ \A k \in 1 .. Len(path) : path[k] \in Visit
           /\ conds[Deepest.name] \in Seq(Name \cup {NoRef})
           /\ Deepest.name \in Name /\ walked[Deepest.name] = 1
<1>1. path \in Seq(Visit)
  BY DEF GraphInv, GraphTypes
<1>2. Len(path) \in Nat \ {0} /\ Deepest = path[Len(path)]
  BY <1>1, EmptySeq DEF Deepest
<1>3. \A k \in 1 .. Len(path) : path[k] \in Visit
  BY <1>1, ElementOfSeq
<1>4. Len(path) \in 1 .. Len(path)
  BY <1>2
<1>5. Deepest \in Visit
  BY <1>2, <1>3, <1>4
<1>6. Deepest.name \in Declared
  BY <1>5 DEF Visit
<1>7. conds[Deepest.name] \in Seq(Name \cup {NoRef}) /\ Deepest.name \in Name
  BY <1>6 DEF GraphInv, GraphTypes
<1>8. walked[Deepest.name] = 1
  BY <1>2, <1>4 DEF GraphInv, Path
<1> QED BY <1>2, <1>3, <1>5, <1>7, <1>8

\* A clause that compares a value, or refers to a finished condition, is through.
LEMMA AdvanceStep ==
    ASSUME GraphInv, path # <<>>, Deepest.at <= Len(conds[Deepest.name]),
           conds[Deepest.name][Deepest.at] \in FullyWalked \cup {NoRef},
           path' = Advance(path), UNCHANGED <<order, conds, place, walked, result>>
    PROVE  GraphInv'
<1> DEFINE n == Len(path)
<1>1. n \in Nat \ {0} /\ Deepest = path[n] /\ \A k \in 1 .. n : path[k] \in Visit
  BY Innermost
<1>2. /\ path' \in Seq(Visit) /\ Len(path') = n
      /\ \A k \in 1 .. n :
            /\ path'[k].name = path[k].name
            /\ path'[k].at = IF k = n THEN path[k].at + 1 ELSE path[k].at
  BY Advances DEF GraphInv, GraphTypes, Visit
<1>3. Declared' = Declared /\ Visit' = Visit /\ FullyWalked' = FullyWalked
  BY DEF Declared, Visit, FullyWalked
<1>4. GraphTypes'
  BY <1>2, <1>3 DEF GraphInv, GraphTypes
<1> HIDE DEF n
<1>5. \A k \in 1 .. n : path[k].at \in Nat \ {0}
  BY <1>1 DEF Visit
<1>6. ASSUME NEW k \in 1 .. n
      PROVE  /\ walked[path'[k].name] = 1
             /\ path'[k].at <= Len(conds[path'[k].name]) + 1
             /\ \A i \in 1 .. path'[k].at - 1 :
                   conds[path'[k].name][i] \in FullyWalked \cup {NoRef}
  <2>1. /\ walked[path[k].name] = 1
        /\ path[k].at <= Len(conds[path[k].name]) + 1
        /\ \A i \in 1 .. path[k].at - 1 : conds[path[k].name][i] \in FullyWalked \cup {NoRef}
    BY DEF GraphInv, Path, n
  <2>2. CASE k # n
    BY <1>2, <2>1, <2>2
  <2>3. CASE k = n
    <3>1. conds[Deepest.name] \in Seq(Name \cup {NoRef})
      BY Innermost
    <3>2. Len(conds[Deepest.name]) \in Nat
      BY <3>1, LenProperties
    <3>3. path'[k].name = Deepest.name /\ path'[k].at = Deepest.at + 1 /\ Deepest.at \in Nat \ {0}
      BY <1>1, <1>2, <1>5, <2>3
    <3>4. path'[k].at <= Len(conds[Deepest.name]) + 1
      BY <3>2, <3>3
    <3>5. ASSUME NEW i \in 1 .. path'[k].at - 1
          PROVE  conds[Deepest.name][i] \in FullyWalked \cup {NoRef}
      <4>1. i = Deepest.at \/ i \in 1 .. Deepest.at - 1
        BY <3>3
      <4> QED BY <1>1, <2>1, <2>3, <4>1
    <3> QED BY <1>1, <2>1, <2>3, <3>3, <3>4, <3>5
  <2> QED BY <2>2, <2>3
<1>7. ASSUME NEW k \in 1 .. n - 1
      PROVE  /\ path'[k].at <= Len(conds[path'[k].name])
             /\ conds[path'[k].name][path'[k].at] = path'[k + 1].name
  <2>1. k \in 1 .. n /\ k + 1 \in 1 .. n /\ k # n
    BY <1>1
  <2>2. /\ path[k].at <= Len(conds[path[k].name])
        /\ conds[path[k].name][path[k].at] = path[k + 1].name
    BY DEF GraphInv, Path, n
  <2>3. path'[k].name = path[k].name /\ path'[k].at = path[k].at
        /\ path'[k + 1].name = path[k + 1].name
    BY <1>2, <2>1
  <2> QED BY <2>2, <2>3
<1>8. \A m \in Name : walked[m] = 1 => \E k \in 1 .. n : path'[k].name = m
  <2>1. \A m \in Name : walked[m] = 1 => \E k \in 1 .. n : path[k].name = m
    BY DEF GraphInv, Path, n
  <2> QED BY <1>2, <2>1
<1>9. \A j, k \in 1 .. n : path'[j].name = path'[k].name => j = k
  <2>1. \A j, k \in 1 .. n : path[j].name = path[k].name => j = k
    BY DEF GraphInv, Path, n
  <2> QED BY <1>2, <2>1
<1>10. place <= Len(order) /\ path'[1].name = order[place]
  BY <1>1, <1>2 DEF GraphInv, Path
<1>11. Path'
  BY <1>2, <1>3, <1>6, <1>7, <1>8, <1>9, <1>10 DEF Path
<1>12. Grounded(FullyWalked)' /\ Cleared'
  BY <1>3, SameGraph DEF GraphInv, Cleared
<1> QED BY <1>4, <1>11, <1>12, SameGraph DEF GraphInv

\* A condition that was not met before is entered.
LEMMA EnterStep ==
    ASSUME GraphInv, path # <<>>, Deepest.at <= Len(conds[Deepest.name]),
           NEW m \in Declared, conds[Deepest.name][Deepest.at] = m, walked[m] = 0,
           NEW e \in Visit, e.name = m, e.at = 1, path' = Append(path, e),
           walked' = [walked EXCEPT ![m] = 1],
           UNCHANGED <<order, conds, place, result>>
    PROVE  GraphInv'
<1> DEFINE n == Len(path)
<1>1. n \in Nat \ {0} /\ Deepest = path[n]
  BY Innermost
<1>2. m \in Name /\ walked \in [Name -> {0, 1, 2}]
  BY DEF GraphInv, GraphTypes
<1>3. Declared' = Declared /\ Visit' = Visit
  BY DEF Declared, Visit
<1>4. walked' \in [Name -> {0, 1, 2}]
      /\ \A r \in Name : walked'[r] = IF r = m THEN 1 ELSE walked[r]
  BY <1>2
<1>5. FullyWalked' = FullyWalked
  BY <1>4 DEF FullyWalked
<1>7. /\ path' \in Seq(Visit) /\ Len(path') = n + 1 /\ path'[n + 1] = e
      /\ \A k \in 1 .. n : path'[k] = path[k]
  <2>1. path \in Seq(Visit)
    BY DEF GraphInv, GraphTypes
  <2> QED BY <2>1, AppendProperties
<1>8. GraphTypes'
  BY <1>3, <1>4, <1>7, TypesStay DEF GraphInv
<1> HIDE DEF n
<1>9. \A k \in 1 .. n : path[k].name \in Name /\ walked[path[k].name] = 1 /\ path[k].name # m
  <2>1. \A k \in 1 .. n : path[k].name \in Name
    BY Innermost DEF n, Visit, GraphInv, GraphTypes
  <2> QED BY <2>1 DEF GraphInv, Path, n
<1>10. ASSUME NEW k \in 1 .. n + 1
       PROVE  /\ walked'[path'[k].name] = 1
              /\ path'[k].at <= Len(conds[path'[k].name]) + 1
              /\ \A i \in 1 .. path'[k].at - 1 :
                    conds[path'[k].name][i] \in FullyWalked \cup {NoRef}
  <2>1. CASE k = n + 1
    <3>1. Len(conds[m]) \in Nat
      BY LenProperties DEF GraphInv, GraphTypes
    <3>2. path'[k].name = m /\ path'[k].at = 1
      BY <1>7, <2>1
    <3>3. walked'[m] = 1
      BY <1>2, <1>4
    <3> QED BY <3>1, <3>2, <3>3
  <2>2. CASE k # n + 1
    <3>1. k \in 1 .. n
      BY <1>1, <2>2
    <3>2. path'[k] = path[k] /\ walked'[path[k].name] = 1
      BY <1>4, <1>7, <1>9, <3>1
    <3>3. /\ path[k].at <= Len(conds[path[k].name]) + 1
          /\ \A i \in 1 .. path[k].at - 1 : conds[path[k].name][i] \in FullyWalked \cup {NoRef}
      BY <3>1 DEF GraphInv, Path, n
    <3> QED BY <3>2, <3>3
  <2> QED BY <2>1, <2>2
<1>11. ASSUME NEW k \in 1 .. n
       PROVE  /\ path'[k].at <= Len(conds[path'[k].name])
              /\ conds[path'[k].name][path'[k].at] = path'[k + 1].name
  <2>1. path'[k] = path[k]
    BY <1>7
  <2>2. CASE k = n
    BY <1>1, <1>7, <2>1, <2>2
  <2>3. CASE k # n
    <3>1. k \in 1 .. n - 1 /\ k + 1 \in 1 .. n
      BY <1>1, <2>3
    <3>2. /\ path[k].at <= Len(conds[path[k].name])
          /\ conds[path[k].name][path[k].at] = path[k + 1].name
      BY <3>1 DEF GraphInv, Path, n
    <3> QED BY <1>7, <2>1, <3>1, <3>2
  <2> QED BY <2>2, <2>3
<1>12. ASSUME NEW r \in Name, walked'[r] = 1 PROVE \E k \in 1 .. n + 1 : path'[k].name = r
  <2>1. CASE r = m
    BY <1>1, <1>7, <2>1
  <2>2. CASE r # m
    <3>1. PICK k \in 1 .. n : path[k].name = r
      BY <1>4, <1>12, <2>2 DEF GraphInv, Path, n
    <3> QED BY <1>1, <1>7, <3>1
  <2> QED BY <2>1, <2>2
<1>13. ASSUME NEW j \in 1 .. n + 1, NEW k \in 1 .. n + 1, path'[j].name = path'[k].name
       PROVE  j = k
  <2>1. \A i \in 1 .. n + 1 : i = n + 1 \/ i \in 1 .. n
    BY <1>1
  <2>2. \A i, l \in 1 .. n : path[i].name = path[l].name => i = l
    BY DEF GraphInv, Path, n
  <2> QED BY <1>7, <1>9, <1>13, <2>1, <2>2
<1>14. place <= Len(order) /\ path'[1].name = order[place]
  BY <1>1, <1>7 DEF GraphInv, Path
<1>15. Path'
  <2>1. Len(path') = n + 1 /\ Len(path') - 1 = n
    BY <1>1, <1>7
  <2>2. \A r \in Name : walked'[r] = 1 => \E k \in 1 .. Len(path') : path'[k].name = r
    BY <1>12, <2>1
  <2>3. \A k \in 1 .. Len(path') :
          /\ walked'[path'[k].name] = 1
          /\ path'[k].at <= Len(conds'[path'[k].name]) + 1
          /\ \A i \in 1 .. path'[k].at - 1 : conds'[path'[k].name][i] \in FullyWalked' \cup {NoRef}
    <3> TAKE k \in 1 .. Len(path')
    <3>1. k \in 1 .. n + 1
      BY <2>1
    <3>2. /\ walked'[path'[k].name] = 1
          /\ path'[k].at <= Len(conds[path'[k].name]) + 1
          /\ \A i \in 1 .. path'[k].at - 1 :
                conds[path'[k].name][i] \in FullyWalked \cup {NoRef}
      BY <1>10, <3>1
    <3>3. conds' = conds
      OBVIOUS
    <3> QED BY <1>5, <3>2, <3>3, Zenon
  <2>4. \A k \in 1 .. Len(path') - 1 :
          /\ path'[k].at <= Len(conds'[path'[k].name])
          /\ conds'[path'[k].name][path'[k].at] = path'[k + 1].name
    BY <1>11, <2>1
  <2>5. \A j, k \in 1 .. Len(path') : path'[j].name = path'[k].name => j = k
    BY <1>13, <2>1
  <2>6. place' <= Len(order') /\ path'[1].name = order'[place']
    BY <1>14
  <2> QED BY <2>2, <2>3, <2>4, <2>5, <2>6, Zenon DEF Path
<1>16. Grounded(FullyWalked)' /\ Cleared'
  BY <1>5, SameGraph DEF GraphInv, Cleared
<1> QED BY <1>8, <1>15, <1>16, SameGraph DEF GraphInv

\* One round of the loop over the clauses.
LEMMA ClauseStep ==
    ASSUME GraphInv, nextClause
    PROVE  GraphInv'
<1> DEFINE m == conds[Deepest.name][Deepest.at]
<1>1. path # <<>> /\ Deepest.at <= Len(conds[Deepest.name]) /\ UNCHANGED <<order, conds, place>>
  BY DEF nextClause, Walking
<1>2. m \in Name \cup {NoRef} /\ m = conds[Deepest.name][Deepest.at] /\ Deepest.name \in Declared
  <2>1. Deepest.at \in Nat \ {0} /\ conds[Deepest.name] \in Seq(Name \cup {NoRef}) /\ Deepest.name \in Declared
    BY <1>1, Innermost DEF Visit
  <2>2. Deepest.at \in 1 .. Len(conds[Deepest.name])
    BY <1>1, <2>1, LenProperties
  <2> QED BY <2>1, <2>2, ElementOfSeq
<1>3. (IF m = NoRef THEN path' = Advance(path) /\ UNCHANGED <<walked, result>> ELSE findCycle(m))
  BY DEF nextClause
<1> HIDE DEF m
<1>4. CASE m = NoRef \/ (walked[m] = 2 /\ path' = Advance(path) /\ UNCHANGED <<walked, result>>)
  <2>1. m \in FullyWalked \cup {NoRef}
    BY <1>2, <1>4 DEF FullyWalked
  <2> QED BY <1>1, <1>2, <1>3, <1>4, <2>1, AdvanceStep
<1>5. CASE m # NoRef /\ walked[m] = 1 /\ result' = "rejected" /\ UNCHANGED <<path, walked>>
  <2>1. Cyclic
    BY <1>1, <1>2, <1>5, BackReference DEF GraphInv
  <2> QED BY <1>1, <1>5, <2>1, Verdict
<1>6. CASE m # NoRef /\ m \notin DOMAIN conds /\ result' = "panic" /\ UNCHANGED <<path, walked>>
  <2>1. m \in Refs(Deepest.name)
    <3>1. Deepest.at \in DOMAIN conds[Deepest.name]
      BY <1>1, Innermost, LenProperties DEF Visit
    <3> QED BY <1>2, <1>6, <3>1 DEF Refs
  <2>2. Undeclared
    BY <1>2, <1>6, <2>1 DEF Undeclared, Declared
  <2> QED BY <1>1, <1>6, <2>2, Verdict
<1>7. CASE /\ m # NoRef /\ m \in DOMAIN conds /\ walked[m] = 0 /\ UNCHANGED result
           /\ path' = Append(path, [name |-> m, at |-> 1]) /\ walked' = [walked EXCEPT ![m] = 1]
  <2> DEFINE e == [name |-> m, at |-> 1]
  <2>1. m \in Declared
    BY <1>7 DEF Declared
  <2>2. e \in Visit /\ e.name = m /\ e.at = 1 /\ path' = Append(path, e)
    BY <1>7, <2>1 DEF Visit
  <2> HIDE DEF e
  <2> QED BY <1>1, <1>2, <1>7, <2>1, <2>2, EnterStep
<1> QED BY <1>3, <1>4, <1>5, <1>6, <1>7 DEF findCycle

\* A condition whose clauses are through refers to finished conditions only.
LEMMA AllFinished ==
    ASSUME GraphInv, path # <<>>, Deepest.at > Len(conds[Deepest.name])
    PROVE  Refs(Deepest.name) \subseteq FullyWalked
<1> DEFINE n == Len(path)
           c == Deepest.name
<1>1. n \in 1 .. n /\ Deepest = path[n] /\ Deepest \in Visit /\ conds[c] \in Seq(Name \cup {NoRef})
  BY Innermost
<1>2. Deepest.at \in Nat /\ Len(conds[c]) \in Nat /\ DOMAIN conds[c] = 1 .. Len(conds[c])
  BY <1>1, LenProperties DEF Visit
<1>3. /\ Deepest.at <= Len(conds[c]) + 1
      /\ \A i \in 1 .. Deepest.at - 1 : conds[c][i] \in FullyWalked \cup {NoRef}
  BY <1>1 DEF GraphInv, Path
<1>4. Deepest.at - 1 = Len(conds[c])
  BY <1>2, <1>3
<1> HIDE DEF c
<1>5. \A i \in DOMAIN conds[c] : conds[c][i] \in FullyWalked \cup {NoRef}
  BY <1>2, <1>3, <1>4
<1> QED BY <1>5 DEF Refs, c

\* The path without its last call, the one before gone on.
LEMMA Pop ==
    ASSUME GraphInv, path # <<>>, path' = Advance(SubSeq(path, 1, Len(path) - 1))
    PROVE  /\ path' \in Seq(Visit) /\ Len(path') = Len(path) - 1
           /\ \A k \in 1 .. Len(path) - 1 :
                 /\ path'[k].name = path[k].name
                 /\ path'[k].at = IF k = Len(path) - 1 THEN path[k].at + 1 ELSE path[k].at
<1> DEFINE n == Len(path)
           p == SubSeq(path, 1, n - 1)
<1>1. n \in Nat \ {0} /\ path \in Seq(Visit)
  BY Innermost DEF GraphInv, GraphTypes
<1>2. p \in Seq(Visit) /\ Len(p) = n - 1 /\ \A k \in 1 .. n - 1 : p[k] = path[k]
  <2> HIDE DEF n
  <2>1. n - 1 \in Nat /\ n \in Nat
    BY <1>1
  <2>2. \A k \in 1 .. n - 1 : k \in 1 .. n
    BY <2>1
  <2>3. \A k \in 1 .. n - 1 : path[k] \in Visit
    BY <1>1, <2>2, ElementOfSeq DEF n
  <2>4. p = [k \in 1 .. n - 1 |-> path[k]]
    BY <1>1, <2>1
  <2>5. p \in [1 .. n - 1 -> Visit]
    BY <2>3, <2>4
  <2> HIDE DEF p
  <2>6. p \in Seq(Visit) /\ Len(p) = n - 1
    BY <2>1, <2>5, SeqDef
  <2> QED BY <2>4, <2>6
<1> HIDE DEF p
<1>3. /\ Advance(p) \in Seq(Visit) /\ Len(Advance(p)) = Len(p)
      /\ \A k \in 1 .. Len(p) :
            /\ Advance(p)[k].name = p[k].name
            /\ Advance(p)[k].at = IF k = Len(p) THEN p[k].at + 1 ELSE p[k].at
  BY <1>2, Advances DEF Visit
<1>4. path' = Advance(p)
  BY DEF p
<1> QED BY <1>2, <1>3, <1>4

\* A call returns.
LEMMA ReturnStep ==
    ASSUME GraphInv, path # <<>>, Deepest.at > Len(conds[Deepest.name]),
           walked' = [walked EXCEPT ![Deepest.name] = 2],
           path' = Advance(SubSeq(path, 1, Len(path) - 1)),
           place' = IF Len(path) = 1 THEN place + 1 ELSE place,
           UNCHANGED <<order, conds, result>>, result = "checking"
    PROVE  GraphInv'
<1> DEFINE n == Len(path)
           c == Deepest.name
<1>1. /\ n \in Nat \ {0} /\ Deepest = path[n] /\ Deepest \in Visit /\ c \in Name /\ walked[c] = 1
      /\ \A k \in 1 .. n : path[k] \in Visit
  BY Innermost
<1>2. c \in Declared /\ c \notin FullyWalked /\ Refs(c) \subseteq FullyWalked
  BY <1>1, AllFinished DEF Visit, FullyWalked
<1>3. walked \in [Name -> {0, 1, 2}]
  BY DEF GraphInv, GraphTypes
<1>4. walked' \in [Name -> {0, 1, 2}]
      /\ \A r \in Name : walked'[r] = IF r = c THEN 2 ELSE walked[r]
  BY <1>1, <1>3
<1> HIDE DEF c
<1>5. FullyWalked' = FullyWalked \cup {c}
  BY <1>1, <1>4 DEF FullyWalked
<1>6. Grounded(FullyWalked)'
  <2>1. Grounded(FullyWalked \cup {c})
    BY <1>2, GroundedGrows DEF GraphInv
  <2> QED BY <1>5, <2>1, SameGraph
<1>7. /\ path' \in Seq(Visit) /\ Len(path') = n - 1
      /\ \A k \in 1 .. n - 1 :
            /\ path'[k].name = path[k].name
            /\ path'[k].at = IF k = n - 1 THEN path[k].at + 1 ELSE path[k].at
  BY Pop
<1>8. place <= Len(order) /\ path[1].name = order[place] /\ place \in Nat \ {0}
      /\ Len(order) \in Nat
  BY LenProperties DEF GraphInv, Path, GraphTypes
<1>9. place' \in Nat \ {0} /\ place' <= Len(order) + 1
  BY <1>8
<1> HIDE DEF n
<1>10. GraphTypes'
  <2>1. Declared' = Declared /\ Visit' = Visit
    BY DEF Declared, Visit
  <2> QED BY <1>4, <1>7, <1>9, <2>1 DEF GraphInv, GraphTypes
<1>11. \A k \in 1 .. n - 1 : k \in 1 .. n /\ path[k].name # c /\ path[k].name \in Name
                            /\ path[k].at \in Nat \ {0}
  <2>1. \A k \in 1 .. n - 1 : k \in 1 .. n /\ k # n
    BY <1>1
  <2>2. \A j, k \in 1 .. n : path[j].name = path[k].name => j = k
    BY DEF GraphInv, Path, n
  <2>3. n \in 1 .. n /\ path[n].name = c
    BY <1>1 DEF c
  <2>4. \A k \in 1 .. n : path[k].name \in Name /\ path[k].at \in Nat \ {0}
    BY <1>1 DEF Visit, GraphInv, GraphTypes
  <2> QED BY <2>1, <2>2, <2>3, <2>4
<1>12. ASSUME NEW k \in 1 .. n - 1
       PROVE  /\ walked'[path'[k].name] = 1
              /\ path'[k].at <= Len(conds[path'[k].name]) + 1
              /\ \A i \in 1 .. path'[k].at - 1 :
                    conds[path'[k].name][i] \in FullyWalked' \cup {NoRef}
  <2>1. /\ walked[path[k].name] = 1
        /\ path[k].at <= Len(conds[path[k].name]) + 1
        /\ \A i \in 1 .. path[k].at - 1 : conds[path[k].name][i] \in FullyWalked \cup {NoRef}
    BY <1>11 DEF GraphInv, Path, n
  <2>2. walked'[path[k].name] = 1 /\ path'[k].name = path[k].name
    BY <1>4, <1>7, <1>11, <2>1
  <2>3. CASE k # n - 1
    BY <1>5, <1>7, <2>1, <2>2, <2>3
  <2>4. CASE k = n - 1
    <3>1. path[k].at <= Len(conds[path[k].name]) /\ conds[path[k].name][path[k].at] = c
      <4>1. /\ path[k].at <= Len(conds[path[k].name])
            /\ conds[path[k].name][path[k].at] = path[k + 1].name
        BY DEF GraphInv, Path, n
      <4>2. k + 1 = n
        BY <1>1, <2>4
      <4> QED BY <1>1, <4>1, <4>2 DEF c
    <3>2. path'[k].at = path[k].at + 1 /\ path[k].at \in Nat \ {0}
      BY <1>7, <1>11, <2>4
    <3>3. path'[k].at <= Len(conds[path[k].name]) + 1
      <4>1. path[k].name \in Declared
        BY <1>1, <1>11 DEF Visit
      <4>2. Len(conds[path[k].name]) \in Nat
        BY <4>1, LenProperties DEF GraphInv, GraphTypes
      <4> QED BY <3>1, <3>2, <4>2
    <3>4. ASSUME NEW i \in 1 .. path'[k].at - 1
          PROVE  conds[path[k].name][i] \in FullyWalked' \cup {NoRef}
      <4>1. i = path[k].at \/ i \in 1 .. path[k].at - 1
        BY <3>2
      <4> QED BY <1>5, <2>1, <3>1, <4>1
    <3> QED BY <2>2, <3>3, <3>4
  <2> QED BY <2>3, <2>4
<1>13. ASSUME NEW k \in 1 .. n - 2
       PROVE  /\ path'[k].at <= Len(conds[path'[k].name])
              /\ conds[path'[k].name][path'[k].at] = path'[k + 1].name
  <2>1. k \in 1 .. n - 1 /\ k + 1 \in 1 .. n - 1 /\ k # n - 1
    BY <1>1
  <2>2. /\ path[k].at <= Len(conds[path[k].name])
        /\ conds[path[k].name][path[k].at] = path[k + 1].name
    BY <2>1 DEF GraphInv, Path, n
  <2> QED BY <1>7, <2>1, <2>2
<1>14. ASSUME NEW r \in Name, walked'[r] = 1 PROVE \E k \in 1 .. n - 1 : path'[k].name = r
  <2>1. r # c /\ walked[r] = 1
    BY <1>4, <1>14
  <2>2. PICK k \in 1 .. n : path[k].name = r
    BY <2>1 DEF GraphInv, Path, n
  <2>3. k \in 1 .. n - 1
    <3>1. k # n
      BY <1>1, <2>1, <2>2 DEF c
    <3> QED BY <1>1, <3>1
  <2> QED BY <1>7, <2>2, <2>3
<1>15. \A j, k \in 1 .. n - 1 : path'[j].name = path'[k].name => j = k
  <2>1. \A j, k \in 1 .. n : path[j].name = path[k].name => j = k
    BY DEF GraphInv, Path, n
  <2> QED BY <1>7, <1>11, <2>1
<1>16. ASSUME path' # <<>> PROVE place' <= Len(order) /\ path'[1].name = order[place']
  <2>1. n # 1
    <3>1. ASSUME n = 1 PROVE FALSE
      <4>1. Len(path') = 0
        BY <1>7, <3>1
      <4> QED BY <1>7, <1>16, <4>1, EmptySeq
    <3> QED BY <3>1
  <2>2. place' = place
    BY <2>1 DEF n
  <2>3. 1 \in 1 .. n - 1
    BY <1>1, <2>1
  <2> QED BY <1>7, <1>8, <2>2, <2>3
<1>17. Path'
  <2>1. Len(path') = n - 1 /\ Len(path') - 1 = n - 2
    BY <1>1, <1>7
  <2>2. \A r \in Name : walked'[r] = 1 => \E k \in 1 .. Len(path') : path'[k].name = r
    BY <1>14, <2>1
  <2>3. \A k \in 1 .. Len(path') :
          /\ walked'[path'[k].name] = 1
          /\ path'[k].at <= Len(conds'[path'[k].name]) + 1
          /\ \A i \in 1 .. path'[k].at - 1 : conds'[path'[k].name][i] \in FullyWalked' \cup {NoRef}
    BY <1>12, <2>1
  <2>4. \A k \in 1 .. Len(path') - 1 :
          /\ path'[k].at <= Len(conds'[path'[k].name])
          /\ conds'[path'[k].name][path'[k].at] = path'[k + 1].name
    BY <1>13, <2>1
  <2>5. \A j, k \in 1 .. Len(path') : path'[j].name = path'[k].name => j = k
    BY <1>15, <2>1
  <2>6. path' # <<>> => place' <= Len(order') /\ path'[1].name = order'[place']
    BY <1>16
  <2> QED BY <2>2, <2>3, <2>4, <2>5, <2>6, Zenon DEF Path
<1>18. Cleared'
  <2>1. ASSUME NEW j \in 1 .. place' - 1
        PROVE  \E F \in SUBSET Name : order[j] \in F /\ Grounded(F)'
    <3>1. CASE j \in 1 .. place - 1
      BY <3>1, SameGraph DEF GraphInv, Cleared
    <3>2. CASE j \notin 1 .. place - 1
      <4>1. n = 1 /\ j = place
        BY <1>8, <3>2 DEF n
      <4>2. order[j] = c
        BY <1>1, <1>8, <4>1 DEF c
      <4>3. FullyWalked \cup {c} \in SUBSET Name /\ order[j] \in FullyWalked \cup {c}
        BY <1>1, <4>2 DEF FullyWalked
      <4>4. Grounded(FullyWalked \cup {c})
        BY <1>2, GroundedGrows DEF GraphInv
      <4>5. \E F \in SUBSET Name : order[j] \in F /\ Grounded(F)
        BY <4>3, <4>4
      <4> QED BY <4>5, SameGraph
    <3> QED BY <3>1, <3>2
  <2> QED BY <2>1 DEF Cleared
<1> QED BY <1>6, <1>10, <1>17, <1>18 DEF GraphInv

\* Loading keeps the invariant.
LEMMA GraphNext == GraphInv /\ [NextGraph]_graphVars => GraphInv'
<1> SUFFICES ASSUME GraphInv, [NextGraph]_graphVars PROVE GraphInv'
  OBVIOUS
<1>1. CASE readConditions
  BY <1>1, ReadStep
<1>2. CASE checkName
  BY <1>2, CheckStep
<1>3. CASE nextClause
  BY <1>3, ClauseStep
<1>4. CASE finish
  BY <1>4, ReturnStep DEF finish, Walking
<1>5. CASE accept
  <2>1. place = Len(order) + 1
    <3>1. place \in Nat /\ place <= Len(order) + 1 /\ order \in Seq(Declared)
      BY DEF GraphInv, GraphTypes
    <3>2. Len(order) \in Nat /\ place > Len(order)
      BY <1>5, <3>1, LenProperties DEF accept
    <3> QED BY <3>1, <3>2
  <2> QED BY <1>5, <2>1, Verdict DEF accept
<1>6. CASE UNCHANGED graphVars
  BY <1>6, Verdict DEF graphVars, GraphInv, GraphTypes
<1> QED BY <1>1, <1>2, <1>3, <1>4, <1>5, <1>6 DEF NextGraph, parseConditions, Parsed

\* Whatever the graph of references and the order of the file: accepted are
\* exactly the profiles without an undeclared reference and without a cycle.
THEOREM LoadsWellFormed == SpecGraph => []AcceptsWellFormed
<1>1. SpecGraph => []GraphInv
  BY GraphInit, GraphNext, PTL DEF SpecGraph
<1> QED BY <1>1, VerdictMeans, PTL

\* F is k conditions that refer to each other only, downwards in
\* some numbering.
Numbered(F, k) ==
    /\ F \subseteq Declared /\ IsFiniteSet(F) /\ Cardinality(F) = k
    /\ \A n \in F : Refs(n) \subseteq F
    /\ \E rank \in [F -> 1 .. k] : \A n \in F : \A m \in Refs(n) : rank[m] < rank[n]

\* Without a cycle there is always a condition to number next.
LEMMA NumberNext ==
    ASSUME ~Undeclared, ~Cyclic, NEW k \in Nat, NEW F, Numbered(F, k), F # Declared
    PROVE  \E G : Numbered(G, k + 1)
<1> DEFINE C == Declared \ F
<1>1. C \in SUBSET Declared /\ C # {}
  BY DEF Numbered
<1>2. PICK n \in C : Refs(n) \cap C = {}
  BY <1>1 DEF Cyclic, Declared
<1>3. n \in Declared /\ n \notin F /\ Refs(n) \subseteq F
  BY <1>2 DEF Undeclared, Declared
<1> HIDE DEF C
<1> DEFINE G == F \cup {n}
<1>4. PICK rank \in [F -> 1 .. k] : \A a \in F : \A m \in Refs(a) : rank[m] < rank[a]
  BY DEF Numbered
<1> DEFINE r == [a \in G |-> IF a = n THEN k + 1 ELSE rank[a]]
<1>5. r \in [G -> 1 .. k + 1]
  BY <1>4
<1>6. F \subseteq Declared /\ \A a \in F : Refs(a) \subseteq F
  BY DEF Numbered
<1>7. ASSUME NEW a \in G, NEW m \in Refs(a) PROVE m \in F /\ r[m] < r[a]
  <2>1. m \in F /\ m # n
    BY <1>3, <1>6, <1>7
  <2>2. r[m] = rank[m] /\ rank[m] \in 1 .. k
    BY <1>4, <2>1
  <2>3. CASE a = n
    BY <2>1, <2>2, <2>3
  <2>4. CASE a # n
    BY <1>4, <2>1, <2>2, <2>4
  <2> QED BY <2>3, <2>4
<1>8. IsFiniteSet(G) /\ Cardinality(G) = k + 1
  BY <1>3, FS_AddElement DEF Numbered
<1> HIDE DEF r
<1>9. Numbered(G, k + 1)
  BY <1>3, <1>5, <1>6, <1>7, <1>8 DEF Numbered
<1> QED BY <1>9

\* Conditions without a cycle can be numbered downwards along the references.
LEMMA RankExists ==
    ASSUME GraphInv, ~Undeclared, ~Cyclic
    PROVE  \E rank \in [Declared -> 1 .. Cardinality(Declared)] :
               \A n \in Declared : \A m \in Refs(n) : m \in Declared /\ rank[m] < rank[n]
<1> DEFINE N == Cardinality(Declared)
<1>1. IsFiniteSet(Declared) /\ N \in Nat
  BY GraphAssumption, FS_Subset, FS_CardinalityType DEF GraphInv, GraphTypes
<1> HIDE DEF N
<1> DEFINE T == {k \in 0 .. N : ~\E F : Numbered(F, k)}
<1>2. T = {}
  <2> SUFFICES ASSUME T # {} PROVE FALSE
    OBVIOUS
  <2>1. T \in SUBSET Nat
    BY <1>1
  <2> HIDE DEF T
  <2>2. PICK k \in T : \A j \in T : k <= j
    BY <2>1, LeastNumber
  <2> USE DEF T
  <2>3. k \in 0 .. N /\ ~\E F : Numbered(F, k)
    BY <2>2
  <2>4. k # 0
    <3>1. Numbered({}, 0)
      <4>1. [a \in {} |-> a] \in [{} -> 1 .. 0]
        OBVIOUS
      <4> QED BY <4>1, FS_EmptySet DEF Numbered
    <3> QED BY <2>3, <3>1
  <2>5. k - 1 \in 0 .. N /\ k - 1 \in Nat /\ k - 1 < k /\ (k - 1) + 1 = k
    BY <1>1, <2>3, <2>4
  <2>6. k - 1 \notin T
    BY <2>2, <2>5
  <2>7. PICK F : Numbered(F, k - 1)
    BY <2>5, <2>6
  <2>8. F # Declared
    BY <1>1, <2>3, <2>5, <2>7 DEF Numbered, N
  <2>9. \E G : Numbered(G, (k - 1) + 1)
    BY <2>5, <2>7, <2>8, NumberNext
  <2> QED BY <2>3, <2>5, <2>9
<1>3. N \in 0 .. N
  BY <1>1
<1>4. PICK F : Numbered(F, N)
  BY <1>2, <1>3
<1>5. F = Declared
  BY <1>1, <1>4, FS_Subset DEF Numbered, N
<1> QED BY <1>4, <1>5 DEF Numbered, N

-----------------------------------------------------------------------------
(* What is loaded is loadable.                                             *)

\* The profile p has the conditions of the file that was loaded.
Holding(p) ==
    /\ p.conds \in [Cond -> Condition] /\ p.rules \in Seq(Rule)
    /\ Cond = Declared /\ NoCond = NoRef
    /\ \A c \in Cond :
          /\ Len(p.conds[c].clauses) = Len(conds[c])
          /\ \A i \in 1 .. Len(conds[c]) : p.conds[c].clauses[i].ref = conds[c][i]

\* What the theorems about Evaluator assume of a profile is what loading checks.
LEMMA AcceptedLoadable ==
    ASSUME GraphInv, result = "accepted", NEW p, Holding(p)
    PROVE  Loadable(p)
<1>1. ~Undeclared /\ ~Cyclic
  BY VerdictMeans DEF AcceptsWellFormed, Ended
<1>2. PICK rank \in [Declared -> 1 .. Cardinality(Declared)] :
        \A n \in Declared : \A m \in Refs(n) : m \in Declared /\ rank[m] < rank[n]
  BY <1>1, RankExists
<1>3. ASSUME NEW c \in Cond
      PROVE  /\ p.conds[c].clauses \in Seq(Clause) /\ conds[c] \in Seq(Name \cup {NoRef})
             /\ conds[c] # <<>> /\ c \in Declared
  <2>1. p.conds[c] \in Condition /\ c \in Declared
    BY DEF Holding
  <2> QED BY <2>1 DEF Condition, GraphInv, GraphTypes
<1>4. ASSUME NEW c \in Cond PROVE p.conds[c].clauses # <<>>
  <2>1. Len(conds[c]) # 0
    BY <1>3, EmptySeq
  <2>2. Len(p.conds[c].clauses) # 0
    BY <2>1 DEF Holding
  <2> QED BY <2>2, EmptySeq
<1>5. ASSUME NEW c \in Cond, NEW i \in DOMAIN p.conds[c].clauses, p.conds[c].clauses[i].ref # NoCond
      PROVE  rank[p.conds[c].clauses[i].ref] < rank[c]
  <2>1. i \in 1 .. Len(conds[c])
    <3>1. DOMAIN p.conds[c].clauses = 1 .. Len(p.conds[c].clauses)
      BY <1>3, LenProperties
    <3> QED BY <1>5, <3>1 DEF Holding
  <2>2. p.conds[c].clauses[i].ref = conds[c][i] /\ conds[c][i] # NoRef
    BY <1>5, <2>1 DEF Holding
  <2>3. i \in DOMAIN conds[c]
    BY <1>3, <2>1, LenProperties
  <2>4. conds[c][i] \in Refs(c)
    BY <2>2, <2>3 DEF Refs
  <2> QED BY <1>2, <1>3, <2>2, <2>4
<1>6. Cond = Declared
  BY DEF Holding
<1>7. rank \in [Cond -> 1 .. Cardinality(Cond)]
  BY <1>2, <1>6
<1> QED BY <1>4, <1>5, <1>7 DEF Loadable, Holding

\* Every profile whose conditions parseConditions has accepted is one that Evaluator
\* assumes: its conditions have clauses, and its references go down in some order.
THEOREM AcceptedIsLoadable ==
    SpecGraph => [](result = "accepted" => \A p : Holding(p) => Loadable(p))
<1>1. GraphInv => (result = "accepted" => \A p : Holding(p) => Loadable(p))
  BY AcceptedLoadable
<1> QED BY <1>1, GraphInit, GraphNext, PTL DEF SpecGraph

-----------------------------------------------------------------------------
(* The grammar of the entries.                                             *)

\* The fields of an action or a write by name.
ActionNames == {"apply", "phase", "code", "delta", "value", "counter", "group", "set",
                "marker", "ttl", "when", "headers", "args", "body", "list", "write"}

\* The fields of a rule, by name.
LEMMA ActionNamed ==
    /\ ActionFields = ActionNames
    /\ DOMAIN RuleFields = ActionNames \cup {"on", "at", "match", "if", "unless"}
  BY DEF ActionFields, RuleFields, ActionNames

\* The texts that a rule can have in its fields.
RuleEntry ==
    /\ DOMAIN entry = ActionNames \cup {"on", "at", "match", "if", "unless",
                                       "actions", "do", "to"}
    /\ entry.actions \in {"none", "one"}
    /\ entry.on \in {"-", "overload", "other"}
    /\ entry.at \in {"-", "24", "25", "100", "101"}
    /\ entry.match \in {"-", "ok", "empty"}
    /\ entry.if \in Name \cup {"-"} /\ entry.unless \in Name \cup {"-"}
    /\ entry.apply \in {"-", "request", "session", "conn", "ip", "response"}
    /\ entry.phase \in {"-", "request", "frame", "other"}
    /\ entry.code \in {"-", "ok", "bad"}
    /\ entry.delta \in {"-", "-101", "-100", "900", "901"}
    /\ entry.value \in {"-", "-101", "-100", "0", "100", "101"}
    /\ entry.counter \in {"-", "ok", "bad"} /\ entry.group \in {"-", "ok", "bad"}
    /\ entry.set \in {"-", "on", "off", "other"} /\ entry.marker \in {"-", "ok", "bad"}
    /\ entry.ttl \in {"-", "0s", "1m", "bad"} /\ entry.when \in {"-", "deny", "deny deny"}
    /\ entry.headers \in {"-", "ok", "bad"} /\ entry.args \in {"-", "ok"}
    /\ entry.body \in {"-", "ok"} /\ entry.list \in {"-", "ok", "bad"}
    /\ entry.write \in {"-", "net", "other"} /\ entry.to \in {"-", "*", "peer"}

\* The fields given to an action are those that were written.
LEMMA GivenAre ==
    ASSUME RuleEntry, NEW f
    PROVE  f \in Written \cap ActionFields <=> f \in ActionNames /\ entry[f] # "-"
  BY ActionNamed DEF Written, RuleEntry, ActionNames


\* Of the texts that can be written the wrong ones are these.
RightTexts ==
    /\ entry.phase # "other" /\ entry.code # "bad" /\ entry.delta \notin {"-101", "901"}
    /\ entry.value \notin {"-101", "101"} /\ entry.counter # "bad" /\ entry.group # "bad"
    /\ entry.set # "other" /\ entry.marker # "bad" /\ entry.ttl # "bad"
    /\ entry.when # "deny deny" /\ entry.headers # "bad" /\ entry.list # "bad"
    /\ entry.write # "other"

\* Which texts are wrong, field by field.
LEMMA TextsRight ==
    ASSUME RuleEntry
    PROVE  (\A f \in ActionNames : entry[f] \notin Wrong) <=> RightTexts
<1>1. /\ \A t \in {"-", "ok", "bad"} : t \notin Wrong <=> t # "bad"
      /\ \A t \in {"-", "0s", "1m", "bad"} : t \notin Wrong <=> t # "bad"
      /\ \A t \in {"-", "request", "frame", "other"} : t \notin Wrong <=> t # "other"
      /\ \A t \in {"-", "on", "off", "other"} : t \notin Wrong <=> t # "other"
      /\ \A t \in {"-", "net", "other"} : t \notin Wrong <=> t # "other"
  BY DEF Wrong
<1>2. /\ \A t \in {"-", "-101", "-100", "900", "901"} :
            t \notin Wrong <=> t \notin {"-101", "901"}
      /\ \A t \in {"-", "-101", "-100", "0", "100", "101"} :
            t \notin Wrong <=> t \notin {"-101", "101"}
      /\ \A t \in {"-", "deny", "deny deny"} : t \notin Wrong <=> t # "deny deny"
      /\ \A t \in {"-", "request", "session", "conn", "ip", "response"} : t \notin Wrong
      /\ "ok" \notin Wrong /\ "-" \notin Wrong
  BY DEF Wrong
<1>3. /\ entry.code \notin Wrong <=> entry.code # "bad"
      /\ entry.counter \notin Wrong <=> entry.counter # "bad"
      /\ entry.group \notin Wrong <=> entry.group # "bad"
      /\ entry.marker \notin Wrong <=> entry.marker # "bad"
      /\ entry.headers \notin Wrong <=> entry.headers # "bad"
      /\ entry.list \notin Wrong <=> entry.list # "bad"
      /\ entry.ttl \notin Wrong <=> entry.ttl # "bad"
  BY <1>1 DEF RuleEntry
<1>4. /\ entry.phase \notin Wrong <=> entry.phase # "other"
      /\ entry.set \notin Wrong <=> entry.set # "other"
      /\ entry.write \notin Wrong <=> entry.write # "other"
  BY <1>1 DEF RuleEntry
<1>5. /\ entry.delta \notin Wrong <=> entry.delta \notin {"-101", "901"}
      /\ entry.value \notin Wrong <=> entry.value \notin {"-101", "101"}
      /\ entry.when \notin Wrong <=> entry.when # "deny deny"
      /\ entry.apply \notin Wrong /\ entry.args \notin Wrong /\ entry.body \notin Wrong
  BY <1>2 DEF RuleEntry
<1> HIDE DEF RuleEntry
<1> QED BY <1>3, <1>4, <1>5 DEF ActionNames, RightTexts

\* The fields given, one by one.
LEMMA GivenFields ==
    ASSUME RuleEntry, NEW N, NEW A
    PROVE  /\ N \subseteq Written \cap ActionFields
                  <=> N \subseteq ActionNames /\ \A f \in N : entry[f] # "-"
           /\ Written \cap ActionFields \subseteq A
                  <=> \A f \in ActionNames : entry[f] # "-" => f \in A
           /\ (\A f \in Written \cap ActionFields : entry[f] \notin Wrong) <=> RightTexts
<1>1. "-" \notin Wrong
  BY DEF Wrong
<1>2. (\A f \in Written \cap ActionFields : entry[f] \notin Wrong)
          <=> \A f \in ActionNames : entry[f] \notin Wrong
  BY <1>1, GivenAre
<1> QED BY <1>2, GivenAre, TextsRight

-----------------------------------------------------------------------------
\* The verbs by their axes.
OneAxis == {"challenge", "threshold", "skip", "mutate", "mark", "score"}
Control == {"active", "passive", "off", "vote"}
Recording == {"audit", "archive"}

\* The axes of the verbs.
LEMMA Axes ==
    /\ DOMAIN verbs = OneAxis \cup Control \cup Recording \cup {"reauth", "note"}
    /\ \A v \in OneAxis : verbs[v] = <<"request">>
    /\ \A v \in Control : verbs[v] = <<"request", "conn">>
    /\ \A v \in Recording : verbs[v] = <<"request", "response">>
    /\ verbs["reauth"] = <<"session">>
    /\ verbs["note"] = <<"request", "ip", "asn", "session">>
  BY DEF verbs, OneAxis, Control, Recording

\* The axes that an action may name.
AxisFits ==
    /\ entry.do \in OneAxis => entry.apply \in {"-", "request"}
    /\ entry.do \in Control => entry.apply \in {"request", "conn"}
    /\ entry.do \in Recording => entry.apply \in {"-", "request", "response"}
    /\ entry.do = "reauth" => entry.apply \in {"-", "session"}
    /\ entry.do = "note" => entry.apply \in {"request", "ip", "session"}

\* The axes of the verb.
AxesOf == {verbs[entry.do][i] : i \in DOMAIN verbs[entry.do]}

\* The axes of the verb of the entry, and the first of them.
LEMMA AxesAre ==
    ASSUME entry.do \in DOMAIN verbs
    PROVE  /\ entry.do \in OneAxis =>
                AxesOf = {"request"} /\ Len(verbs[entry.do]) = 1 /\ verbs[entry.do][1] = "request"
           /\ entry.do \in Control =>
                AxesOf = {"request", "conn"} /\ Len(verbs[entry.do]) = 2
           /\ entry.do \in Recording =>
                AxesOf = {"request", "response"} /\ verbs[entry.do][1] = "request"
           /\ entry.do = "reauth" =>
                AxesOf = {"session"} /\ Len(verbs[entry.do]) = 1 /\ verbs[entry.do][1] = "session"
           /\ entry.do = "note" =>
                AxesOf = {"request", "ip", "asn", "session"} /\ Len(verbs[entry.do]) = 4
<1>1. ASSUME entry.do \in OneAxis
      PROVE  AxesOf = {"request"} /\ Len(verbs[entry.do]) = 1 /\ verbs[entry.do][1] = "request"
  BY <1>1, Axes DEF AxesOf
<1>2. ASSUME entry.do \in Control
      PROVE  AxesOf = {"request", "conn"} /\ Len(verbs[entry.do]) = 2
  BY <1>2, Axes DEF AxesOf
<1>3. ASSUME entry.do \in Recording
      PROVE  AxesOf = {"request", "response"} /\ verbs[entry.do][1] = "request"
  BY <1>3, Axes DEF AxesOf
<1>4. ASSUME entry.do = "reauth"
      PROVE  AxesOf = {"session"} /\ Len(verbs[entry.do]) = 1 /\ verbs[entry.do][1] = "session"
  BY <1>4, Axes DEF AxesOf
<1>5. ASSUME entry.do = "note"
      PROVE  AxesOf = {"request", "ip", "asn", "session"} /\ Len(verbs[entry.do]) = 4
  BY <1>5, Axes DEF AxesOf
<1> QED BY <1>1, <1>2, <1>3, <1>4, <1>5

\* The axis that parseAction takes, the default included, is one of the verb.
LEMMA ApplyIs ==
    ASSUME RuleEntry, entry.do \in DOMAIN verbs
    PROVE  /\ Apply \in AxesOf <=> AxisFits
           /\ entry.do \in Control => Apply = entry.apply
           /\ entry.do \in Recording => (Apply = "response" <=> entry.apply = "response")
<1>1. entry.apply \in {"-", "request", "session", "conn", "ip", "response"}
  BY DEF RuleEntry
<1>2. CASE entry.do \in OneAxis
  <2>1. /\ entry.do \notin Control /\ entry.do \notin Recording
        /\ entry.do # "reauth" /\ entry.do # "note"
    BY <1>2 DEF OneAxis, Control, Recording
  <2>2. Apply = IF entry.apply = "-" THEN "request" ELSE entry.apply
    BY <1>2, AxesAre DEF Apply
  <2> QED BY <1>1, <1>2, <2>1, <2>2, AxesAre DEF AxisFits
<1>3. CASE entry.do \in Control
  <2>1. /\ entry.do \notin OneAxis /\ entry.do \notin Recording
        /\ entry.do # "reauth" /\ entry.do # "note"
    BY <1>3 DEF OneAxis, Control, Recording
  <2>2. Apply = entry.apply
    BY <1>3, AxesAre DEF Apply, recordVerb, auditVerb, Control
  <2> QED BY <1>1, <1>3, <2>1, <2>2, AxesAre DEF AxisFits
<1>4. CASE entry.do \in Recording
  <2>1. /\ entry.do \notin OneAxis /\ entry.do \notin Control
        /\ entry.do # "reauth" /\ entry.do # "note"
    BY <1>4 DEF OneAxis, Control, Recording
  <2>2. Apply = IF entry.apply = "-" THEN "request" ELSE entry.apply
    BY <1>4, AxesAre DEF Apply, recordVerb, auditVerb, Recording
  <2> QED BY <1>1, <1>4, <2>1, <2>2, AxesAre DEF AxisFits
<1>5. CASE entry.do = "reauth"
  <2>1. entry.do \notin OneAxis /\ entry.do \notin Control /\ entry.do \notin Recording
    BY <1>5 DEF OneAxis, Control, Recording
  <2>2. Apply = IF entry.apply = "-" THEN "session" ELSE entry.apply
    BY <1>5, AxesAre DEF Apply
  <2> QED BY <1>1, <1>5, <2>1, <2>2, AxesAre DEF AxisFits
<1>6. CASE entry.do = "note"
  <2>1. entry.do \notin OneAxis /\ entry.do \notin Control /\ entry.do \notin Recording
    BY <1>6 DEF OneAxis, Control, Recording
  <2>2. Apply = entry.apply
    BY <1>6, AxesAre DEF Apply, recordVerb, auditVerb
  <2> QED BY <1>1, <1>6, <2>1, <2>2, AxesAre DEF AxisFits
<1> QED BY <1>2, <1>3, <1>4, <1>5, <1>6, Axes

-----------------------------------------------------------------------------
\* What parseAction asks for, field by field.
Passes ==
    /\ entry.write = "-" /\ entry.ttl # "bad" /\ entry.when # "deny deny"
    /\ entry.to # "-" \/ entry.do \in Recording \cup {"mark", "score"}
    /\ AxisFits
    /\ entry.phase # "-" => /\ entry.do \in Control /\ entry.phase # "other"
                            /\ entry.apply = "conn" => entry.phase = "frame"
    /\ entry.code # "bad"
    /\ IF entry.do = "threshold" THEN entry.delta \in {"-100", "900"} ELSE entry.delta = "-"
    /\ entry.do = "score" =>
          /\ entry.value \in {"-100", "100"} /\ entry.to \in {"-", "*"}
          /\ entry.counter = "-"
    /\ entry.do = "note" => entry.value \notin {"-101", "101"} /\ entry.counter # "bad"
    /\ entry.do \notin {"score", "note"} => entry.value = "-" /\ entry.counter = "-"
    /\ checkNames
    /\ entry.do \in Recording =>
          /\ entry.to \in {"-", "*"} /\ entry.set \in {"on", "off"}
          /\ entry.set = "off" =>
                /\ entry.ttl # "1m" /\ entry.when = "-" /\ entry.headers = "-"
                /\ entry.args = "-" /\ entry.body = "-"
          /\ entry.do = "audit" => entry.ttl # "1m" /\ entry.when = "-"
          /\ entry.apply = "response" => entry.args = "-"
          /\ entry.headers # "bad"
    /\ entry.do \notin Recording =>
          /\ entry.ttl = "-" /\ entry.when = "-" /\ entry.headers = "-"
          /\ entry.args = "-" /\ entry.body = "-"

\* The checks of parseAction, one after the other, ask for just that.
LEMMA ActionPasses ==
    ASSUME RuleEntry, entry.do \in DOMAIN verbs
    PROVE  parseAction <=> Passes
<1>1. /\ auditVerb <=> entry.do \in Recording
      /\ recordVerb <=> entry.do \in Recording \cup {"mark", "score"}
      /\ controlVerb <=> entry.do \in Control
  BY DEF auditVerb, recordVerb, controlVerb, Recording, Control
<1>2. checkPhaseAsk <=>
        (entry.phase # "-" => /\ entry.do \in Control /\ entry.phase # "other"
                              /\ entry.apply = "conn" => entry.phase = "frame")
  BY <1>1, ApplyIs DEF checkPhaseAsk
<1>3. checkNumbers <=>
        /\ IF entry.do = "threshold" THEN entry.delta \in {"-100", "900"} ELSE entry.delta = "-"
        /\ entry.do = "score" =>
              /\ entry.value \in {"-100", "100"} /\ entry.to \in {"-", "*"}
              /\ entry.counter = "-"
        /\ entry.do = "note" => entry.value \notin {"-101", "101"} /\ entry.counter # "bad"
        /\ entry.do \notin {"score", "note"} => entry.value = "-" /\ entry.counter = "-"
  BY DEF checkNumbers, Blank
<1>4. checkRecord <=>
        /\ entry.do \in Recording =>
              /\ entry.to \in {"-", "*"} /\ entry.set \in {"on", "off"}
              /\ entry.set = "off" =>
                    /\ entry.ttl # "1m" /\ entry.when = "-" /\ entry.headers = "-"
                    /\ entry.args = "-" /\ entry.body = "-"
              /\ entry.do = "audit" => entry.ttl # "1m" /\ entry.when = "-"
              /\ entry.apply = "response" => entry.args = "-"
              /\ entry.headers # "bad"
        /\ entry.do \notin Recording =>
              /\ entry.ttl = "-" /\ entry.when = "-" /\ entry.headers = "-"
              /\ entry.args = "-" /\ entry.body = "-"
  <2>1. CASE entry.do \in Recording
    <3>1. Apply = "response" <=> entry.apply = "response"
      BY <2>1, ApplyIs
    <3> QED BY <1>1, <2>1, <3>1 DEF checkRecord, Blank
  <2>2. CASE entry.do \notin Recording
    BY <1>1, <2>2 DEF checkRecord, Blank
  <2> QED BY <2>1, <2>2
<1>5. Apply \in {verbs[entry.do][i] : i \in DOMAIN verbs[entry.do]} <=> AxisFits
  BY ApplyIs DEF AxesOf
<1> QED BY <1>1, <1>2, <1>3, <1>4, <1>5, Zenon DEF parseAction, Passes

\* What the grammar asks for besides the fields of the verb.
Fitting ==
    /\ entry.apply # "-" => entry.apply \in AxesOf
    /\ entry.do = "score" => entry.value # "0"
    /\ entry.do = "score" => entry.to = "-"
    /\ entry.do \in Recording \cup {"mark"} => entry.to # "peer"
    /\ entry.do \notin Recording \cup {"mark", "score"} => entry.to # "-"
    /\ entry.apply = "conn" => entry.phase \in {"-", "frame"}
    /\ entry.set = "off" /\ entry.do # "mutate" =>
          /\ entry.ttl # "1m" /\ entry.when = "-" /\ entry.headers = "-"
          /\ entry.args = "-" /\ entry.body = "-"
    /\ entry.apply = "response" => entry.args = "-"

\* The fields of an action are those the verb needs, may have or always has.
Spelled(N, M) ==
    /\ N \subseteq ActionNames /\ \A f \in N : entry[f] # "-"
    /\ \A f \in ActionNames : entry[f] # "-" =>
          \/ f \in N \cup M \cup {"apply", "code"}
          \/ f = "ttl" /\ entry.do = "audit" /\ entry.ttl = "0s"

\* What the grammar asks for, field by field, of a verb with these fields.
LEMMA ActionFollows ==
    ASSUME RuleEntry, entry.do \in DOMAIN verbs, NEW N, NEW M,
           VerbNeeds[entry.do] = N, VerbMay[entry.do] = M
    PROVE  WellFormedAction <=>
             Spelled(N, M) /\ RightTexts /\ Fitting
<1> DEFINE A == N \cup M \cup {"apply", "code"}
                \cup (IF entry.do = "audit" /\ entry.ttl = "0s" THEN {"ttl"} ELSE {})
           G == Written \cap ActionFields
<1>1. /\ N \subseteq G <=> N \subseteq ActionNames /\ \A f \in N : entry[f] # "-"
      /\ G \subseteq A <=> \A f \in ActionNames : entry[f] # "-" => f \in A
      /\ (\A f \in G : entry[f] \notin Wrong) <=> RightTexts
  BY GivenFields
<1>2. \A f : f \in A <=> \/ f \in N \cup M \cup {"apply", "code"}
                         \/ f = "ttl" /\ entry.do = "audit" /\ entry.ttl = "0s"
  OBVIOUS
<1>3. WellFormedAction <=>
        /\ N \subseteq G /\ G \subseteq A /\ \A f \in G : entry[f] \notin Wrong
        /\ entry.apply \in {"-", "request", "conn", "ip", "session", "response"}
        /\ entry.apply # "-" => entry.apply \in AxesOf
        /\ entry.do = "score" => entry.value # "0"
        /\ entry.do = "score" => entry.to = "-"
        /\ (entry.do \in {"mark", "audit", "archive"}) => entry.to # "peer"
        /\ (entry.do \notin {"score", "mark", "audit", "archive"}) => entry.to # "-"
        /\ entry.apply = "conn" => entry.phase \in {"-", "frame"}
        /\ entry.set = "off" /\ entry.do # "mutate" =>
              entry.ttl # "1m" /\ Blank({"when", "headers", "args", "body"})
        /\ entry.apply = "response" => entry.args = "-"
  <2>1. (\E i \in DOMAIN verbs[entry.do] : verbs[entry.do][i] = entry.apply)
           <=> entry.apply \in AxesOf
    BY DEF AxesOf
  <2> QED BY <2>1, Zenon DEF WellFormedAction
<1>4. Blank({"when", "headers", "args", "body"}) <=>
        entry.when = "-" /\ entry.headers = "-" /\ entry.args = "-" /\ entry.body = "-"
  BY DEF Blank
<1>5. /\ entry.do \in {"score", "mark", "audit", "archive"}
            <=> entry.do \in Recording \cup {"mark", "score"}
      /\ entry.do \in {"mark", "audit", "archive"} <=> entry.do \in Recording \cup {"mark"}
  BY DEF Recording
<1>6. entry.apply \in {"-", "request", "conn", "ip", "session", "response"}
  BY DEF RuleEntry
<1> HIDE DEF A, G
<1>7. G \subseteq A <=> \A f \in ActionNames : entry[f] # "-" =>
                   \/ f \in N \cup M \cup {"apply", "code"}
                   \/ f = "ttl" /\ entry.do = "audit" /\ entry.ttl = "0s"
  BY <1>1, <1>2
<1> QED BY <1>1, <1>3, <1>4, <1>5, <1>6, <1>7, Zenon DEF Spelled, Fitting

-----------------------------------------------------------------------------
\* The fields of each verb.
LEMMA NeedsAre ==
    /\ \A v \in {"challenge", "skip", "reauth"} : VerbNeeds[v] = {} /\ VerbMay[v] = {}
    /\ VerbNeeds["threshold"] = {"delta"} /\ VerbMay["threshold"] = {}
    /\ VerbNeeds["mutate"] = {"group", "set"} /\ VerbMay["mutate"] = {}
    /\ VerbNeeds["mark"] = {"marker"} /\ VerbMay["mark"] = {}
    /\ VerbNeeds["score"] = {"value"} /\ VerbMay["score"] = {}
    /\ \A v \in Control : VerbNeeds[v] = {"apply"} /\ VerbMay[v] = {"phase"}
    /\ VerbNeeds["note"] = {"apply"} /\ VerbMay["note"] = {"value", "counter"}
    /\ VerbNeeds["audit"] = {"set"} /\ VerbMay["audit"] = {"headers", "args", "body"}
    /\ VerbNeeds["archive"] = {"set"}
    /\ VerbMay["archive"] = {"headers", "args", "body", "ttl", "when"}
  BY Axes DEF VerbNeeds, VerbMay, OneAxis, Control, Recording


\* A challenge or skip has no fields of its own.
LEMMA PlainAction ==
    ASSUME RuleEntry, entry.list = "-", entry.do \in {"challenge", "skip"}
    PROVE  parseAction <=> WellFormedAction
<1>1. /\ entry.do \in DOMAIN verbs /\ entry.do \in OneAxis
      /\ entry.do \notin Control /\ entry.do \notin Recording
  BY Axes DEF OneAxis, Control, Recording
<1>2. WellFormedAction <=> Spelled({}, {}) /\ RightTexts /\ Fitting
  BY <1>1, ActionFollows, NeedsAre
<1>3. parseAction <=> Passes
  BY <1>1, ActionPasses
<1>4. Spelled({}, {}) <=>
        /\ entry.phase = "-" /\ entry.delta = "-" /\ entry.value = "-"
        /\ entry.counter = "-" /\ entry.group = "-" /\ entry.set = "-"
        /\ entry.marker = "-" /\ entry.ttl = "-" /\ entry.when = "-"
        /\ entry.headers = "-" /\ entry.args = "-" /\ entry.body = "-"
        /\ entry.list = "-" /\ entry.write = "-"
  BY <1>1 DEF Spelled, ActionNames
<1>5. /\ entry.apply \in {"-", "request", "session", "conn", "ip", "response"}
  BY DEF RuleEntry
<1>6. AxesOf = {"request"}
  BY <1>1, AxesAre
<1>7. Spelled({}, {}) =>
        (Fitting <=>
        /\ entry.apply \in {"-", "request"} /\ entry.to # "-")
  BY <1>1, <1>4, <1>5, <1>6 DEF Fitting, Recording
<1>8. Passes <=>
        /\ entry.phase = "-" /\ entry.delta = "-" /\ entry.value = "-"
        /\ entry.counter = "-" /\ entry.group = "-" /\ entry.set = "-"
        /\ entry.marker = "-" /\ entry.ttl = "-" /\ entry.when = "-"
        /\ entry.headers = "-" /\ entry.args = "-" /\ entry.body = "-"
        /\ entry.write = "-" /\ entry.code # "bad"
        /\ entry.apply \in {"-", "request"}
        /\ entry.to # "-"
  BY <1>1, <1>5 DEF Passes, AxisFits, checkNames, auditVerb, Recording
<1>9. Spelled({}, {}) => (RightTexts <=> entry.code # "bad")
  BY <1>4 DEF RightTexts
<1> HIDE DEF RuleEntry
<1> QED BY <1>2, <1>3, <1>4, <1>5, <1>7, <1>8, <1>9

\* A threshold has its delta.
LEMMA ThresholdAction ==
    ASSUME RuleEntry, entry.list = "-", entry.do = "threshold"
    PROVE  parseAction <=> WellFormedAction
<1>1. /\ entry.do \in DOMAIN verbs /\ entry.do \in OneAxis
      /\ entry.do \notin Control /\ entry.do \notin Recording
  BY Axes DEF OneAxis, Control, Recording
<1>2. WellFormedAction <=> Spelled({"delta"}, {}) /\ RightTexts /\ Fitting
  BY <1>1, ActionFollows, NeedsAre
<1>3. parseAction <=> Passes
  BY <1>1, ActionPasses
<1>4. Spelled({"delta"}, {}) <=>
        /\ entry.phase = "-" /\ entry.value = "-" /\ entry.counter = "-"
        /\ entry.group = "-" /\ entry.set = "-" /\ entry.marker = "-"
        /\ entry.ttl = "-" /\ entry.when = "-" /\ entry.headers = "-"
        /\ entry.args = "-" /\ entry.body = "-" /\ entry.list = "-"
        /\ entry.write = "-" /\ entry.delta # "-"
  BY <1>1 DEF Spelled, ActionNames
<1>5. /\ entry.apply \in {"-", "request", "session", "conn", "ip", "response"}
      /\ entry.delta \in {"-", "-101", "-100", "900", "901"}
  BY DEF RuleEntry
<1>6. AxesOf = {"request"}
  BY <1>1, AxesAre
<1>7. Spelled({"delta"}, {}) =>
        (Fitting <=>
        /\ entry.apply \in {"-", "request"} /\ entry.to # "-")
  BY <1>1, <1>4, <1>5, <1>6 DEF Fitting, Recording
<1>8. Passes <=>
        /\ entry.phase = "-" /\ entry.value = "-" /\ entry.counter = "-"
        /\ entry.group = "-" /\ entry.set = "-" /\ entry.marker = "-"
        /\ entry.ttl = "-" /\ entry.when = "-" /\ entry.headers = "-"
        /\ entry.args = "-" /\ entry.body = "-" /\ entry.write = "-"
        /\ entry.code # "bad" /\ entry.apply \in {"-", "request"}
        /\ entry.delta \in {"-100", "900"} /\ entry.to # "-"
  BY <1>1, <1>5 DEF Passes, AxisFits, checkNames, auditVerb, Recording
<1>9. Spelled({"delta"}, {}) =>
        (RightTexts <=> entry.code # "bad" /\ entry.delta \notin {"-101", "901"})
  BY <1>4 DEF RightTexts
<1> HIDE DEF RuleEntry
<1> QED BY <1>2, <1>3, <1>4, <1>5, <1>7, <1>8, <1>9

\* A mutate has its group and set.
LEMMA MutateAction ==
    ASSUME RuleEntry, entry.list = "-", entry.do = "mutate"
    PROVE  parseAction <=> WellFormedAction
<1>1. /\ entry.do \in DOMAIN verbs /\ entry.do \in OneAxis
      /\ entry.do \notin Control /\ entry.do \notin Recording
  BY Axes DEF OneAxis, Control, Recording
<1>2. WellFormedAction <=> Spelled({"group", "set"}, {}) /\ RightTexts /\ Fitting
  BY <1>1, ActionFollows, NeedsAre
<1>3. parseAction <=> Passes
  BY <1>1, ActionPasses
<1>4. Spelled({"group", "set"}, {}) <=>
        /\ entry.phase = "-" /\ entry.delta = "-" /\ entry.value = "-"
        /\ entry.counter = "-" /\ entry.marker = "-" /\ entry.ttl = "-"
        /\ entry.when = "-" /\ entry.headers = "-" /\ entry.args = "-"
        /\ entry.body = "-" /\ entry.list = "-" /\ entry.write = "-"
        /\ entry.group # "-" /\ entry.set # "-"
  BY <1>1 DEF Spelled, ActionNames
<1>5. /\ entry.apply \in {"-", "request", "session", "conn", "ip", "response"}
      /\ entry.group \in {"-", "ok", "bad"}
      /\ entry.set \in {"-", "on", "off", "other"}
  BY DEF RuleEntry
<1>6. AxesOf = {"request"}
  BY <1>1, AxesAre
<1>7. Spelled({"group", "set"}, {}) =>
        (Fitting <=>
        /\ entry.apply \in {"-", "request"} /\ entry.to # "-")
  BY <1>1, <1>4, <1>5, <1>6 DEF Fitting, Recording
<1>8. Passes <=>
        /\ entry.phase = "-" /\ entry.delta = "-" /\ entry.value = "-"
        /\ entry.counter = "-" /\ entry.marker = "-" /\ entry.ttl = "-"
        /\ entry.when = "-" /\ entry.headers = "-" /\ entry.args = "-"
        /\ entry.body = "-" /\ entry.write = "-" /\ entry.code # "bad"
        /\ entry.apply \in {"-", "request"}
        /\ entry.group = "ok" /\ entry.set \in {"on", "off"} /\ entry.to # "-"
  BY <1>1, <1>5 DEF Passes, AxisFits, checkNames, auditVerb, Recording
<1>9. Spelled({"group", "set"}, {}) =>
        (RightTexts <=> entry.code # "bad" /\ entry.group # "bad" /\ entry.set # "other")
  BY <1>4 DEF RightTexts
<1> HIDE DEF RuleEntry
<1> QED BY <1>2, <1>3, <1>4, <1>5, <1>7, <1>8, <1>9

\* A mark has its marker.
LEMMA MarkAction ==
    ASSUME RuleEntry, entry.list = "-", entry.do = "mark"
    PROVE  parseAction <=> WellFormedAction
<1>1. /\ entry.do \in DOMAIN verbs /\ entry.do \in OneAxis
      /\ entry.do \notin Control /\ entry.do \notin Recording
  BY Axes DEF OneAxis, Control, Recording
<1>2. WellFormedAction <=> Spelled({"marker"}, {}) /\ RightTexts /\ Fitting
  BY <1>1, ActionFollows, NeedsAre
<1>3. parseAction <=> Passes
  BY <1>1, ActionPasses
<1>4. Spelled({"marker"}, {}) <=>
        /\ entry.phase = "-" /\ entry.delta = "-" /\ entry.value = "-"
        /\ entry.counter = "-" /\ entry.group = "-" /\ entry.set = "-"
        /\ entry.ttl = "-" /\ entry.when = "-" /\ entry.headers = "-"
        /\ entry.args = "-" /\ entry.body = "-" /\ entry.list = "-"
        /\ entry.write = "-" /\ entry.marker # "-"
  BY <1>1 DEF Spelled, ActionNames
<1>5. /\ entry.apply \in {"-", "request", "session", "conn", "ip", "response"}
      /\ entry.marker \in {"-", "ok", "bad"} /\ entry.to \in {"-", "*", "peer"}
  BY DEF RuleEntry
<1>6. AxesOf = {"request"}
  BY <1>1, AxesAre
<1>7. Spelled({"marker"}, {}) =>
        (Fitting <=>
        /\ entry.apply \in {"-", "request"} /\ entry.to # "peer")
  BY <1>1, <1>4, <1>5, <1>6 DEF Fitting, Recording
<1>8. Passes <=>
        /\ entry.phase = "-" /\ entry.delta = "-" /\ entry.value = "-"
        /\ entry.counter = "-" /\ entry.group = "-" /\ entry.set = "-"
        /\ entry.ttl = "-" /\ entry.when = "-" /\ entry.headers = "-"
        /\ entry.args = "-" /\ entry.body = "-" /\ entry.write = "-"
        /\ entry.code # "bad" /\ entry.apply \in {"-", "request"}
        /\ entry.marker = "ok" /\ entry.to \in {"-", "*"}
  BY <1>1, <1>5 DEF Passes, AxisFits, checkNames, auditVerb, Recording
<1>9. Spelled({"marker"}, {}) => (RightTexts <=> entry.code # "bad" /\ entry.marker # "bad")
  BY <1>4 DEF RightTexts
<1> HIDE DEF RuleEntry
<1> QED BY <1>2, <1>3, <1>4, <1>5, <1>7, <1>8, <1>9

\* A score has its value, which is not zero, and no recipient; that every one is
\* refused is disputed.
LEMMA ScoreAction ==
    ASSUME RuleEntry, entry.list = "-", entry.do = "score", entry.to # "*"
    PROVE  parseAction <=> WellFormedAction
<1>1. /\ entry.do \in DOMAIN verbs /\ entry.do \in OneAxis
      /\ entry.do \notin Control /\ entry.do \notin Recording
  BY Axes DEF OneAxis, Control, Recording
<1>2. WellFormedAction <=> Spelled({"value"}, {}) /\ RightTexts /\ Fitting
  BY <1>1, ActionFollows, NeedsAre
<1>3. parseAction <=> Passes
  BY <1>1, ActionPasses
<1>4. Spelled({"value"}, {}) <=>
        /\ entry.phase = "-" /\ entry.delta = "-" /\ entry.counter = "-"
        /\ entry.group = "-" /\ entry.set = "-" /\ entry.marker = "-"
        /\ entry.ttl = "-" /\ entry.when = "-" /\ entry.headers = "-"
        /\ entry.args = "-" /\ entry.body = "-" /\ entry.list = "-"
        /\ entry.write = "-" /\ entry.value # "-"
  BY <1>1 DEF Spelled, ActionNames
<1>5. /\ entry.apply \in {"-", "request", "session", "conn", "ip", "response"}
      /\ entry.value \in {"-", "-101", "-100", "0", "100", "101"}
      /\ entry.to \in {"-", "*", "peer"}
  BY DEF RuleEntry
<1>6. AxesOf = {"request"}
  BY <1>1, AxesAre
<1>7. Spelled({"value"}, {}) =>
        (Fitting <=>
        /\ entry.apply \in {"-", "request"} /\ entry.to = "-" /\ entry.value # "0")
  BY <1>1, <1>4, <1>5, <1>6 DEF Fitting, Recording
<1>8. Passes <=>
        /\ entry.phase = "-" /\ entry.delta = "-" /\ entry.counter = "-"
        /\ entry.group = "-" /\ entry.set = "-" /\ entry.marker = "-"
        /\ entry.ttl = "-" /\ entry.when = "-" /\ entry.headers = "-"
        /\ entry.args = "-" /\ entry.body = "-" /\ entry.write = "-"
        /\ entry.code # "bad" /\ entry.apply \in {"-", "request"}
        /\ entry.value \in {"-100", "100"} /\ entry.to \in {"-", "*"}
  BY <1>1, <1>5 DEF Passes, AxisFits, checkNames, auditVerb, Recording
<1>9. Spelled({"value"}, {}) =>
        (RightTexts <=> entry.code # "bad" /\ entry.value \notin {"-101", "101"})
  BY <1>4 DEF RightTexts
<1> HIDE DEF RuleEntry
<1> QED BY <1>2, <1>3, <1>4, <1>5, <1>7, <1>8, <1>9

\* A reauth has no fields of its own and the session axis.
LEMMA ReauthAction ==
    ASSUME RuleEntry, entry.list = "-", entry.do = "reauth"
    PROVE  parseAction <=> WellFormedAction
<1>1. /\ entry.do \in DOMAIN verbs
      /\ entry.do \notin OneAxis /\ entry.do \notin Control /\ entry.do \notin Recording
  BY Axes DEF OneAxis, Control, Recording
<1>2. WellFormedAction <=> Spelled({}, {}) /\ RightTexts /\ Fitting
  BY <1>1, ActionFollows, NeedsAre
<1>3. parseAction <=> Passes
  BY <1>1, ActionPasses
<1>4. Spelled({}, {}) <=>
        /\ entry.phase = "-" /\ entry.delta = "-" /\ entry.value = "-"
        /\ entry.counter = "-" /\ entry.group = "-" /\ entry.set = "-"
        /\ entry.marker = "-" /\ entry.ttl = "-" /\ entry.when = "-"
        /\ entry.headers = "-" /\ entry.args = "-" /\ entry.body = "-"
        /\ entry.list = "-" /\ entry.write = "-"
  BY <1>1 DEF Spelled, ActionNames
<1>5. /\ entry.apply \in {"-", "request", "session", "conn", "ip", "response"}
  BY DEF RuleEntry
<1>6. AxesOf = {"session"}
  BY <1>1, AxesAre
<1>7. Spelled({}, {}) =>
        (Fitting <=>
        /\ entry.apply \in {"-", "session"} /\ entry.to # "-")
  BY <1>1, <1>4, <1>5, <1>6 DEF Fitting, Recording
<1>8. Passes <=>
        /\ entry.phase = "-" /\ entry.delta = "-" /\ entry.value = "-"
        /\ entry.counter = "-" /\ entry.group = "-" /\ entry.set = "-"
        /\ entry.marker = "-" /\ entry.ttl = "-" /\ entry.when = "-"
        /\ entry.headers = "-" /\ entry.args = "-" /\ entry.body = "-"
        /\ entry.write = "-" /\ entry.code # "bad"
        /\ entry.apply \in {"-", "session"}
        /\ entry.to # "-"
  BY <1>1, <1>5 DEF Passes, AxisFits, checkNames, auditVerb, Recording
<1>9. Spelled({}, {}) => (RightTexts <=> entry.code # "bad")
  BY <1>4 DEF RightTexts
<1> HIDE DEF RuleEntry
<1> QED BY <1>2, <1>3, <1>4, <1>5, <1>7, <1>8, <1>9

\* A control verb has its axis and may have a phase.
LEMMA ControlAction ==
    ASSUME RuleEntry, entry.list = "-", entry.do \in Control
    PROVE  parseAction <=> WellFormedAction
<1>1. /\ entry.do \in DOMAIN verbs /\ entry.do \in Control
      /\ entry.do \notin OneAxis /\ entry.do \notin Recording
  BY Axes DEF OneAxis, Control, Recording
<1>2. WellFormedAction <=> Spelled({"apply"}, {"phase"}) /\ RightTexts /\ Fitting
  BY <1>1, ActionFollows, NeedsAre
<1>3. parseAction <=> Passes
  BY <1>1, ActionPasses
<1>4. Spelled({"apply"}, {"phase"}) <=>
        /\ entry.delta = "-" /\ entry.value = "-" /\ entry.counter = "-"
        /\ entry.group = "-" /\ entry.set = "-" /\ entry.marker = "-"
        /\ entry.ttl = "-" /\ entry.when = "-" /\ entry.headers = "-"
        /\ entry.args = "-" /\ entry.body = "-" /\ entry.list = "-"
        /\ entry.write = "-" /\ entry.apply # "-"
  BY <1>1 DEF Spelled, ActionNames, Control
<1>5. /\ entry.apply \in {"-", "request", "session", "conn", "ip", "response"}
      /\ entry.phase \in {"-", "request", "frame", "other"}
  BY DEF RuleEntry
<1>6. AxesOf = {"request", "conn"}
  BY <1>1, AxesAre
<1>7. Spelled({"apply"}, {"phase"}) =>
        (Fitting <=>
        /\ entry.apply \in {"-", "request", "conn"} /\ entry.to # "-"
        /\ entry.apply = "conn" => entry.phase \in {"-", "frame"})
  BY <1>1, <1>4, <1>5, <1>6 DEF Fitting, Recording, Control
<1>8. Passes <=>
        /\ entry.delta = "-" /\ entry.value = "-" /\ entry.counter = "-"
        /\ entry.group = "-" /\ entry.set = "-" /\ entry.marker = "-"
        /\ entry.ttl = "-" /\ entry.when = "-" /\ entry.headers = "-"
        /\ entry.args = "-" /\ entry.body = "-" /\ entry.write = "-"
        /\ entry.code # "bad" /\ entry.apply \in {"-", "request", "conn"}
        /\ entry.apply # "-" /\ entry.to # "-"
        /\ entry.phase # "-" =>
              entry.phase # "other" /\ (entry.apply = "conn" => entry.phase = "frame")
  BY <1>1, <1>5 DEF Passes, AxisFits, checkNames, auditVerb, Recording, Control
<1>9. Spelled({"apply"}, {"phase"}) =>
        (RightTexts <=> entry.code # "bad" /\ entry.phase # "other")
  BY <1>4 DEF RightTexts
<1> HIDE DEF RuleEntry
<1> QED BY <1>2, <1>3, <1>4, <1>5, <1>7, <1>8, <1>9

\* A note has its axis and may have a value and a counter.
LEMMA NoteAction ==
    ASSUME RuleEntry, entry.list = "-", entry.do = "note"
    PROVE  parseAction <=> WellFormedAction
<1>1. /\ entry.do \in DOMAIN verbs
      /\ entry.do \notin OneAxis /\ entry.do \notin Control /\ entry.do \notin Recording
  BY Axes DEF OneAxis, Control, Recording
<1>2. WellFormedAction <=> Spelled({"apply"}, {"value", "counter"}) /\ RightTexts /\ Fitting
  BY <1>1, ActionFollows, NeedsAre
<1>3. parseAction <=> Passes
  BY <1>1, ActionPasses
<1>4. Spelled({"apply"}, {"value", "counter"}) <=>
        /\ entry.phase = "-" /\ entry.delta = "-" /\ entry.group = "-"
        /\ entry.set = "-" /\ entry.marker = "-" /\ entry.ttl = "-"
        /\ entry.when = "-" /\ entry.headers = "-" /\ entry.args = "-"
        /\ entry.body = "-" /\ entry.list = "-" /\ entry.write = "-"
        /\ entry.apply # "-"
  BY <1>1 DEF Spelled, ActionNames
<1>5. /\ entry.apply \in {"-", "request", "session", "conn", "ip", "response"}
      /\ entry.value \in {"-", "-101", "-100", "0", "100", "101"}
      /\ entry.counter \in {"-", "ok", "bad"}
  BY DEF RuleEntry
<1>6. AxesOf = {"request", "ip", "asn", "session"}
  BY <1>1, AxesAre
<1>7. Spelled({"apply"}, {"value", "counter"}) =>
        (Fitting <=>
        /\ entry.apply \in {"-", "request", "ip", "session"} /\ entry.to # "-")
  BY <1>1, <1>4, <1>5, <1>6 DEF Fitting, Recording
<1>8. Passes <=>
        /\ entry.phase = "-" /\ entry.delta = "-" /\ entry.group = "-"
        /\ entry.set = "-" /\ entry.marker = "-" /\ entry.ttl = "-"
        /\ entry.when = "-" /\ entry.headers = "-" /\ entry.args = "-"
        /\ entry.body = "-" /\ entry.write = "-" /\ entry.code # "bad"
        /\ entry.apply \in {"-", "request", "ip", "session"}
        /\ entry.apply # "-" /\ entry.to # "-" /\ entry.value \notin {"-101", "101"}
        /\ entry.counter # "bad"
  BY <1>1, <1>5 DEF Passes, AxisFits, checkNames, auditVerb, Recording
<1>9. Spelled({"apply"}, {"value", "counter"}) =>
        (RightTexts <=> entry.code # "bad" /\ entry.value \notin {"-101", "101"}
                        /\ entry.counter # "bad")
  BY <1>4 DEF RightTexts
<1> HIDE DEF RuleEntry
<1> QED BY <1>2, <1>3, <1>4, <1>5, <1>7, <1>8, <1>9

\* An audit has its set and may have the objects, and a ttl that counts as none.
LEMMA AuditAction ==
    ASSUME RuleEntry, entry.list = "-", entry.do = "audit"
    PROVE  parseAction <=> WellFormedAction
<1>1. /\ entry.do \in DOMAIN verbs /\ entry.do \in Recording
      /\ entry.do \notin OneAxis /\ entry.do \notin Control
  BY Axes DEF OneAxis, Control, Recording
<1>2. WellFormedAction <=>
        Spelled({"set"}, {"headers", "args", "body"}) /\ RightTexts /\ Fitting
  BY <1>1, ActionFollows, NeedsAre
<1>3. parseAction <=> Passes
  BY <1>1, ActionPasses
<1>4. Spelled({"set"}, {"headers", "args", "body"}) <=>
        /\ entry.phase = "-" /\ entry.delta = "-" /\ entry.value = "-"
        /\ entry.counter = "-" /\ entry.group = "-" /\ entry.marker = "-"
        /\ entry.when = "-" /\ entry.list = "-" /\ entry.write = "-"
        /\ entry.set # "-" /\ entry.ttl \in {"-", "0s"}
  BY <1>1 DEF Spelled, ActionNames
<1>5. /\ entry.apply \in {"-", "request", "session", "conn", "ip", "response"}
      /\ entry.set \in {"-", "on", "off", "other"}
      /\ entry.ttl \in {"-", "0s", "1m", "bad"} /\ entry.to \in {"-", "*", "peer"}
  BY DEF RuleEntry
<1>6. AxesOf = {"request", "response"}
  BY <1>1, AxesAre
<1>7. Spelled({"set"}, {"headers", "args", "body"}) =>
        (Fitting <=>
        /\ entry.apply \in {"-", "request", "response"} /\ entry.to # "peer"
        /\ entry.apply = "response" => entry.args = "-"
        /\ entry.set = "off" =>
              /\ entry.ttl # "1m" /\ entry.when = "-" /\ entry.headers = "-"
              /\ entry.args = "-" /\ entry.body = "-")
  BY <1>1, <1>4, <1>5, <1>6 DEF Fitting, Recording
<1>8. Passes <=>
        /\ entry.phase = "-" /\ entry.delta = "-" /\ entry.value = "-"
        /\ entry.counter = "-" /\ entry.group = "-" /\ entry.marker = "-"
        /\ entry.when = "-" /\ entry.write = "-" /\ entry.code # "bad"
        /\ entry.apply \in {"-", "request", "response"}
        /\ entry.to \in {"-", "*"} /\ entry.set \in {"on", "off"}
        /\ entry.ttl \notin {"bad", "1m"} /\ entry.headers # "bad"
        /\ entry.apply = "response" => entry.args = "-"
        /\ entry.set = "off" =>
              /\ entry.ttl # "1m" /\ entry.when = "-" /\ entry.headers = "-"
              /\ entry.args = "-" /\ entry.body = "-"
  BY <1>1, <1>5 DEF Passes, AxisFits, checkNames, auditVerb, Recording
<1>9. Spelled({"set"}, {"headers", "args", "body"}) =>
        (RightTexts <=> entry.code # "bad" /\ entry.set # "other" /\ entry.headers # "bad")
  BY <1>4 DEF RightTexts
<1> HIDE DEF RuleEntry
<1> QED BY <1>2, <1>3, <1>4, <1>5, <1>7, <1>8, <1>9

\* An archive has its set and may have the objects, a ttl and when.
LEMMA ArchiveAction ==
    ASSUME RuleEntry, entry.list = "-", entry.do = "archive"
    PROVE  parseAction <=> WellFormedAction
<1>1. /\ entry.do \in DOMAIN verbs /\ entry.do \in Recording
      /\ entry.do \notin OneAxis /\ entry.do \notin Control
  BY Axes DEF OneAxis, Control, Recording
<1>2. WellFormedAction <=>
        Spelled({"set"}, {"headers", "args", "body", "ttl", "when"}) /\ RightTexts /\ Fitting
  BY <1>1, ActionFollows, NeedsAre
<1>3. parseAction <=> Passes
  BY <1>1, ActionPasses
<1>4. Spelled({"set"}, {"headers", "args", "body", "ttl", "when"}) <=>
        /\ entry.phase = "-" /\ entry.delta = "-" /\ entry.value = "-"
        /\ entry.counter = "-" /\ entry.group = "-" /\ entry.marker = "-"
        /\ entry.list = "-" /\ entry.write = "-" /\ entry.set # "-"
  BY <1>1 DEF Spelled, ActionNames
<1>5. /\ entry.apply \in {"-", "request", "session", "conn", "ip", "response"}
      /\ entry.set \in {"-", "on", "off", "other"}
      /\ entry.to \in {"-", "*", "peer"}
  BY DEF RuleEntry
<1>6. AxesOf = {"request", "response"}
  BY <1>1, AxesAre
<1>7. Spelled({"set"}, {"headers", "args", "body", "ttl", "when"}) =>
        (Fitting <=>
        /\ entry.apply \in {"-", "request", "response"} /\ entry.to # "peer"
        /\ entry.apply = "response" => entry.args = "-"
        /\ entry.set = "off" =>
              /\ entry.ttl # "1m" /\ entry.when = "-" /\ entry.headers = "-"
              /\ entry.args = "-" /\ entry.body = "-")
  BY <1>1, <1>4, <1>5, <1>6 DEF Fitting, Recording
<1>8. Passes <=>
        /\ entry.phase = "-" /\ entry.delta = "-" /\ entry.value = "-"
        /\ entry.counter = "-" /\ entry.group = "-" /\ entry.marker = "-"
        /\ entry.write = "-" /\ entry.code # "bad"
        /\ entry.apply \in {"-", "request", "response"}
        /\ entry.to \in {"-", "*"} /\ entry.set \in {"on", "off"}
        /\ entry.ttl # "bad" /\ entry.when # "deny deny" /\ entry.headers # "bad"
        /\ entry.apply = "response" => entry.args = "-"
        /\ entry.set = "off" =>
              /\ entry.ttl # "1m" /\ entry.when = "-" /\ entry.headers = "-"
              /\ entry.args = "-" /\ entry.body = "-"
  BY <1>1, <1>5 DEF Passes, AxisFits, checkNames, auditVerb, Recording
<1>9. Spelled({"set"}, {"headers", "args", "body", "ttl", "when"}) =>
        (RightTexts <=> entry.code # "bad" /\ entry.set # "other" /\ entry.headers # "bad"
                        /\ entry.ttl # "bad" /\ entry.when # "deny deny")
  BY <1>4 DEF RightTexts
<1> HIDE DEF RuleEntry
<1> QED BY <1>2, <1>3, <1>4, <1>5, <1>7, <1>8, <1>9

\* parseAction accepts what the grammar of the verb allows.
LEMMA ActionExact ==
    ASSUME RuleEntry, entry.list = "-", entry.do = "score" => entry.to # "*"
    PROVE  parseAction <=> WellFormedAction
<1>1. CASE entry.do \in DOMAIN verbs
  <2>1. entry.do \in {"challenge", "skip", "threshold", "mutate", "mark", "score",
                      "audit", "archive", "reauth", "note"} \/ entry.do \in Control
    BY <1>1, Axes DEF OneAxis, Recording
  <2> QED BY <2>1, PlainAction, ThresholdAction, MutateAction, MarkAction, ScoreAction,
             ReauthAction, ControlAction, NoteAction, AuditAction, ArchiveAction
<1>2. CASE entry.do \notin DOMAIN verbs
  BY <1>2 DEF parseAction, WellFormedAction
<1> QED BY <1>1, <1>2

\* parseWrite accepts what the grammar of the writes to a list allows.
LEMMA WriteExact ==
    ASSUME RuleEntry, entry.list # "-"
    PROVE  parseWrite <=> WellFormedWrite
<1> DEFINE Own == {"list", "write", "ttl", "code"}
<1>1. Blank({"do", "to"} \cup (ActionFields \ Own))
        <=> /\ entry.do = "-" /\ entry.to = "-"
            /\ \A f \in ActionNames : entry[f] # "-" => f \in Own
  BY ActionNamed DEF Blank
<1>2. Written \cap ActionFields \subseteq Own
        <=> \A f \in ActionNames : entry[f] # "-" => f \in Own
  BY GivenFields
<1>3. /\ entry.list \in {"-", "ok", "bad"} /\ entry.write \in {"-", "net", "other"}
      /\ entry.code \in {"-", "ok", "bad"}
  BY DEF RuleEntry
<1>4. (\A f \in {"list", "write", "code"} : entry[f] \notin Wrong)
        <=> entry.list # "bad" /\ entry.write # "other" /\ entry.code # "bad"
  BY <1>3 DEF Wrong
<1> HIDE DEF RuleEntry, Own
<1>5. WellFormedWrite <=>
        /\ entry.do = "-" /\ entry.to = "-" /\ entry.ttl = "1m"
        /\ Written \cap ActionFields \subseteq Own
        /\ \A f \in {"list", "write", "code"} : entry[f] \notin Wrong
  BY Zenon DEF WellFormedWrite, Own
<1>6. parseWrite <=>
        /\ entry.list # "bad" /\ entry.write # "other"
        /\ Blank({"do", "to"} \cup (ActionFields \ Own))
        /\ entry.ttl = "1m" /\ entry.code # "bad"
  BY Zenon DEF parseWrite, Own
<1> QED BY <1>1, <1>2, <1>4, <1>5, <1>6, Zenon

\* parseRule accepts what the grammar of the rules allows.
LEMMA RuleExact ==
    ASSUME RuleEntry, part = "rule", ~Disputed
    PROVE  parseRule <=> WellFormedRule
<1>1. (IF entry.list # "-" THEN parseWrite ELSE parseAction)
         <=> (IF entry.list = "-" THEN WellFormedAction ELSE WellFormedWrite)
  BY ActionExact, WriteExact DEF Disputed
<1>2. /\ entry.actions \in {"none", "one"}
      /\ entry.on \in {"-", "overload", "other"}
      /\ entry.at \in {"-", "24", "25", "100", "101"}
      /\ entry.match \in {"-", "ok", "empty"}
      /\ entry.if \in Name \cup {"-"} /\ entry.unless \in Name \cup {"-"}
  BY DEF RuleEntry
<1>3. ({entry.if, entry.unless} \ {"-"}) \subseteq DOMAIN conds
         <=> \A n \in Name : n \in {entry.if, entry.unless} => n \in DOMAIN conds
  BY <1>2, NamesAssumption
<1>4. /\ \/ entry.on = "-" /\ entry.at = "-"
         \/ /\ entry.on = "overload" /\ entry.at \notin {"24", "101"}
            /\ Blank({"match", "if", "unless"})
      <=>
      /\ entry.on = "overload" => Blank({"match", "if", "unless"})
      /\ entry.on # "other"
      /\ entry.at # "-" => entry.on = "overload" /\ entry.at \in {"25", "100"}
  BY <1>2
<1>5. entry.actions # "none" <=> entry.actions = "one"
  BY <1>2
<1> HIDE DEF RuleEntry
<1> QED BY <1>1, <1>3, <1>4, <1>5, Zenon DEF parseRule, WellFormedRule

-----------------------------------------------------------------------------
\* The texts that a clause can have in its fields.
ClauseEntry ==
    /\ DOMAIN entry = {"cond", "op", "value", "dataset", "text", "type", "hash", "static"}
    /\ entry.cond \in {"-", "ok", "bad"}
    /\ entry.op \in {"-", "in", "not_in", "eq", "ne", "is", "is_not", "other"}
    /\ entry.value \in {"-", "remote_addr", "uri", "header", "cookie", "bad"}
    /\ entry.dataset \in {"-", "ok"} /\ entry.text \in {"-", "ok"}
    /\ entry.type \in {"-", "string", "cidr", "other"}
    /\ entry.hash \in {"-", "md5", "other"}
    /\ entry.static \in {"-", "true"}

\* parseClause accepts what the grammar of the clauses allows.
LEMMA ClauseExact ==
    ASSUME ClauseEntry
    PROVE  parseClause <=> WellFormedClause
<1>1. /\ DOMAIN ClauseNeeds = {"in", "not_in", "eq", "ne", "is", "is_not"}
      /\ \A op \in {"is", "is_not"} : ClauseNeeds[op] = {"cond"}
      /\ \A op \in {"eq", "ne"} : ClauseNeeds[op] = {"value", "text"}
      /\ \A op \in {"in", "not_in"} : ClauseNeeds[op] = {"value", "dataset"}
  BY DEF ClauseNeeds, ClauseFields
<1>2. \A f : f \in Written <=>
         /\ f \in {"cond", "op", "value", "dataset", "text", "type", "hash", "static"}
         /\ entry[f] # "-"
  BY DEF ClauseEntry, Written
<1>3. (\A f \in Written : entry[f] \notin Wrong) <=>
        /\ entry.cond # "bad" /\ entry.op # "other" /\ entry.value # "bad"
        /\ entry.type # "other" /\ entry.hash # "other"
  <2>1. /\ entry.cond \notin Wrong <=> entry.cond # "bad"
        /\ entry.op \notin Wrong <=> entry.op # "other"
        /\ entry.value \notin Wrong <=> entry.value # "bad"
        /\ entry.type \notin Wrong <=> entry.type # "other"
        /\ entry.hash \notin Wrong <=> entry.hash # "other"
    BY DEF ClauseEntry, Wrong
  <2>2. /\ entry.dataset \notin Wrong /\ entry.text \notin Wrong
        /\ entry.static \notin Wrong
        /\ "-" \notin Wrong
    BY DEF ClauseEntry, Wrong
  <2> HIDE DEF ClauseEntry
  <2> QED BY <1>2, <2>1, <2>2
<1>4. CASE entry.op \in {"is", "is_not"}
  <2>1. /\ ClauseNeeds[entry.op] \subseteq Written <=> entry.cond # "-"
        /\ Written \subseteq {"op"} \cup ClauseNeeds[entry.op] \cup
             (IF entry.op \in {"in", "not_in"} THEN {"type", "hash", "static"} ELSE {})
           <=> /\ entry.value = "-" /\ entry.dataset = "-" /\ entry.text = "-"
               /\ entry.type = "-" /\ entry.hash = "-" /\ entry.static = "-"
    BY <1>1, <1>2, <1>4
  <2>2. Blank({"value", "dataset", "text", "type", "hash", "static"})
           <=> /\ entry.value = "-" /\ entry.dataset = "-" /\ entry.text = "-"
               /\ entry.type = "-" /\ entry.hash = "-" /\ entry.static = "-"
    BY DEF Blank
  <2>3. entry.op \in DOMAIN ClauseNeeds
    BY <1>1, <1>4
  <2>4. entry.cond \in {"-", "ok", "bad"}
    BY DEF ClauseEntry
  <2>5. WellFormedClause <=>
          /\ entry.cond \notin {"-", "bad"}
          /\ entry.value = "-" /\ entry.dataset = "-" /\ entry.text = "-"
          /\ entry.type = "-" /\ entry.hash = "-" /\ entry.static = "-"
    <3> HIDE DEF ClauseEntry
    <3> QED BY <1>3, <1>4, <2>1, <2>3 DEF WellFormedClause
  <2> HIDE DEF ClauseEntry
  <2> QED BY <1>4, <2>2, <2>4, <2>5 DEF parseClause
<1>5. CASE entry.op \in {"eq", "ne"}
  <2>1. /\ ClauseNeeds[entry.op] \subseteq Written <=> entry.value # "-" /\ entry.text # "-"
        /\ Written \subseteq {"op"} \cup ClauseNeeds[entry.op] \cup
             (IF entry.op \in {"in", "not_in"} THEN {"type", "hash", "static"} ELSE {})
           <=> /\ entry.cond = "-" /\ entry.dataset = "-"
               /\ entry.type = "-" /\ entry.hash = "-" /\ entry.static = "-"
    BY <1>1, <1>2, <1>5
  <2>2. Blank({"dataset", "type", "hash", "static"})
           <=> /\ entry.dataset = "-"
               /\ entry.type = "-" /\ entry.hash = "-" /\ entry.static = "-"
    BY DEF Blank
  <2>3. entry.op \in DOMAIN ClauseNeeds
    BY <1>1, <1>5
  <2>5. WellFormedClause <=>
          /\ entry.value \notin {"-", "bad"} /\ entry.text # "-"
          /\ entry.cond = "-" /\ entry.dataset = "-"
          /\ entry.type = "-" /\ entry.hash = "-" /\ entry.static = "-"
    <3> HIDE DEF ClauseEntry
    <3> QED BY <1>3, <1>5, <2>1, <2>3 DEF WellFormedClause
  <2> HIDE DEF ClauseEntry
  <2> QED BY <1>5, <2>2, <2>5 DEF parseClause
<1>6. CASE entry.op \in {"in", "not_in"}
  <2>1. /\ ClauseNeeds[entry.op] \subseteq Written <=> entry.value # "-" /\ entry.dataset # "-"
        /\ Written \subseteq {"op"} \cup ClauseNeeds[entry.op] \cup
             (IF entry.op \in {"in", "not_in"} THEN {"type", "hash", "static"} ELSE {})
           <=> entry.cond = "-" /\ entry.text = "-"
    BY <1>1, <1>2, <1>6
  <2>3. entry.op \in DOMAIN ClauseNeeds
    BY <1>1, <1>6
  <2>5. WellFormedClause <=>
          /\ entry.value \notin {"-", "bad"} /\ entry.dataset # "-"
          /\ entry.cond = "-" /\ entry.text = "-"
          /\ entry.type # "other" /\ entry.hash # "other"
          /\ entry.type = "cidr" => entry.hash = "-" /\ addressable
    <3> HIDE DEF ClauseEntry
    <3> QED BY <1>3, <1>6, <2>1, <2>3 DEF WellFormedClause, addressable
  <2> HIDE DEF ClauseEntry
  <2> QED BY <1>6, <2>5 DEF parseClause
<1>7. CASE entry.op \in {"-", "other"}
  <2>1. ~WellFormedClause
    BY <1>1, <1>7 DEF WellFormedClause
  <2> QED BY <1>7, <2>1 DEF parseClause
<1>8. entry.op \in {"-", "in", "not_in", "eq", "ne", "is", "is_not", "other"}
  BY DEF ClauseEntry
<1> HIDE DEF ClauseEntry
<1> QED BY <1>4, <1>5, <1>6, <1>7, <1>8

\* The texts that a condition can have in its fields.
ConditionEntry ==
    /\ DOMAIN entry = {"name", "all", "any"}
    /\ entry.name \in {"-", "ok", "bad", "taken"}
    /\ entry.all \in {"-", "ok"} /\ entry.any \in {"-", "ok"}

\* parseConditions accepts the row of a condition when it has a name of its own and
\* exactly one of the two keys.
LEMMA ConditionExact ==
    ASSUME ConditionEntry
    PROVE  parseCondition <=> WellFormedCondition
<1>1. /\ "all" \in Written <=> entry.all # "-"
      /\ "any" \in Written <=> entry.any # "-"
  BY DEF ConditionEntry, Written
<1>2. (\E key \in {"all", "any"} : Written \cap {"all", "any"} = {key})
         <=> ("all" \in Written <=> "any" \notin Written)
  OBVIOUS
<1>3. entry.name \in {"-", "ok", "bad", "taken"}
  BY DEF ConditionEntry
<1> HIDE DEF ConditionEntry
<1> QED BY <1>1, <1>2, <1>3 DEF parseCondition, WellFormedCondition

-----------------------------------------------------------------------------
\* The texts of an entry are those that can be written in its fields.
ProfileTypes ==
    /\ part \in {"profile", "condition", "clause", "rule"}
    /\ part = "profile" => entry.mode \in {"-", "enforce", "off", "other"}
    /\ part = "condition" =>
          /\ DOMAIN entry = DOMAIN ConditionFields
          /\ \A f \in DOMAIN ConditionFields : entry[f] \in ConditionFields[f] \cup {"-"}
    /\ part = "clause" =>
          /\ DOMAIN entry = DOMAIN ClauseFields
          /\ \A f \in DOMAIN ClauseFields : entry[f] \in ClauseFields[f] \cup {"-"}
    /\ part = "rule" =>
          /\ DOMAIN entry = DOMAIN RuleFields \cup {"actions", "do", "to"}
          /\ \A f \in DOMAIN RuleFields : entry[f] \in RuleFields[f] \cup {"-"}
          /\ entry.to \in {"-", "*", "peer"} /\ entry.actions \in {"none", "one"}

\* The entry that is loaded, field by field.
LEMMA EntriesTyped ==
    ASSUME ProfileTypes
    PROVE  /\ part = "condition" => ConditionEntry
           /\ part = "clause" => ClauseEntry
           /\ part = "rule" => RuleEntry
<1>1. ASSUME part = "clause" PROVE ClauseEntry
  <2>1. DOMAIN ClauseFields = {"cond", "op", "value", "dataset", "text", "type", "hash", "static"}
    BY DEF ClauseFields
  <2>2. /\ DOMAIN entry = DOMAIN ClauseFields
        /\ \A f \in DOMAIN ClauseFields : entry[f] \in ClauseFields[f] \cup {"-"}
    BY <1>1 DEF ProfileTypes
  <2>3. /\ entry.cond \in ClauseFields.cond \cup {"-"}
        /\ entry.op \in ClauseFields.op \cup {"-"}
        /\ entry.value \in ClauseFields.value \cup {"-"}
        /\ entry.dataset \in ClauseFields.dataset \cup {"-"}
        /\ entry.text \in ClauseFields.text \cup {"-"}
        /\ entry.type \in ClauseFields.type \cup {"-"}
        /\ entry.hash \in ClauseFields.hash \cup {"-"}
        /\ entry.static \in ClauseFields.static \cup {"-"}
    BY <2>1, <2>2
  <2> HIDE DEF ProfileTypes
  <2> QED BY <2>1, <2>2, <2>3 DEF ClauseEntry, ClauseFields
<1>2. ASSUME part = "rule" PROVE RuleEntry
  <2>1. DOMAIN RuleFields = ActionNames \cup {"on", "at", "match", "if", "unless"}
    BY ActionNamed
  <2>2. /\ DOMAIN entry = DOMAIN RuleFields \cup {"actions", "do", "to"}
        /\ \A f \in DOMAIN RuleFields : entry[f] \in RuleFields[f] \cup {"-"}
        /\ entry.to \in {"-", "*", "peer"} /\ entry.actions \in {"none", "one"}
    BY <1>2 DEF ProfileTypes
  <2>3. DOMAIN entry = ActionNames \cup {"on", "at", "match", "if", "unless",
                                        "actions", "do", "to"}
    BY <2>1, <2>2
  <2>4. /\ entry.on \in RuleFields.on \cup {"-"} /\ entry.at \in RuleFields.at \cup {"-"}
        /\ entry.match \in RuleFields.match \cup {"-"}
        /\ entry.if \in RuleFields.if \cup {"-"}
        /\ entry.unless \in RuleFields.unless \cup {"-"}
        /\ entry.apply \in RuleFields.apply \cup {"-"}
        /\ entry.phase \in RuleFields.phase \cup {"-"}
        /\ entry.code \in RuleFields.code \cup {"-"}
        /\ entry.delta \in RuleFields.delta \cup {"-"}
        /\ entry.value \in RuleFields.value \cup {"-"}
        /\ entry.counter \in RuleFields.counter \cup {"-"}
    BY <2>1, <2>2 DEF ActionNames
  <2>5. /\ entry.group \in RuleFields.group \cup {"-"}
        /\ entry.set \in RuleFields.set \cup {"-"}
        /\ entry.marker \in RuleFields.marker \cup {"-"}
        /\ entry.ttl \in RuleFields.ttl \cup {"-"}
        /\ entry.when \in RuleFields.when \cup {"-"}
    BY <2>1, <2>2 DEF ActionNames
  <2>6. /\ entry.headers \in RuleFields.headers \cup {"-"}
        /\ entry.args \in RuleFields.args \cup {"-"}
        /\ entry.body \in RuleFields.body \cup {"-"}
        /\ entry.list \in RuleFields.list \cup {"-"}
        /\ entry.write \in RuleFields.write \cup {"-"}
    BY <2>1, <2>2 DEF ActionNames
  <2> HIDE DEF ProfileTypes
  <2>7. /\ entry.on \in {"-", "overload", "other"}
        /\ entry.at \in {"-", "24", "25", "100", "101"}
        /\ entry.match \in {"-", "ok", "empty"}
        /\ entry.if \in Name \cup {"-"} /\ entry.unless \in Name \cup {"-"}
        /\ entry.apply \in {"-", "request", "session", "conn", "ip", "response"}
        /\ entry.phase \in {"-", "request", "frame", "other"}
        /\ entry.code \in {"-", "ok", "bad"}
        /\ entry.delta \in {"-", "-101", "-100", "900", "901"}
        /\ entry.value \in {"-", "-101", "-100", "0", "100", "101"}
        /\ entry.counter \in {"-", "ok", "bad"}
    BY <2>4 DEF RuleFields
  <2>8. /\ entry.group \in {"-", "ok", "bad"}
        /\ entry.set \in {"-", "on", "off", "other"} /\ entry.marker \in {"-", "ok", "bad"}
        /\ entry.ttl \in {"-", "0s", "1m", "bad"}
        /\ entry.when \in {"-", "deny", "deny deny"}
    BY <2>5 DEF RuleFields
  <2>9. /\ entry.headers \in {"-", "ok", "bad"} /\ entry.args \in {"-", "ok"}
        /\ entry.body \in {"-", "ok"} /\ entry.list \in {"-", "ok", "bad"}
        /\ entry.write \in {"-", "net", "other"}
    BY <2>6 DEF RuleFields
  <2> QED BY <2>2, <2>3, <2>7, <2>8, <2>9 DEF RuleEntry
<1>3. ASSUME part = "condition" PROVE ConditionEntry
  <2>1. DOMAIN ConditionFields = {"name", "all", "any"}
    BY DEF ConditionFields
  <2>2. /\ DOMAIN entry = DOMAIN ConditionFields
        /\ \A f \in DOMAIN ConditionFields : entry[f] \in ConditionFields[f] \cup {"-"}
    BY <1>3 DEF ProfileTypes
  <2>3. /\ entry.name \in ConditionFields.name \cup {"-"}
        /\ entry.all \in ConditionFields.all \cup {"-"}
        /\ entry.any \in ConditionFields.any \cup {"-"}
    BY <2>1, <2>2
  <2> HIDE DEF ProfileTypes
  <2> QED BY <2>1, <2>2, <2>3 DEF ConditionEntry, ConditionFields
<1> QED BY <1>1, <1>2, <1>3

\* Writing a field keeps the others.
LEMMA WriteTyped ==
    ASSUME ProfileTypes, NEW f \in DOMAIN entry \ {"actions", "do", "to"}, Write(f)
    PROVE  ProfileTypes'
<1>1. part' = part /\ part \in {"condition", "clause", "rule"}
  BY DEF ProfileTypes, Write
<1> DEFINE Fields == CASE part = "rule" -> RuleFields [] part = "clause" -> ClauseFields
                       [] OTHER -> ConditionFields
<1>2. PICK v \in Fields[f] : entry' = [entry EXCEPT ![f] = v]
  BY DEF Write
<1>3. ASSUME part = "clause"
      PROVE  /\ DOMAIN entry' = DOMAIN ClauseFields
             /\ \A g \in DOMAIN ClauseFields : entry'[g] \in ClauseFields[g] \cup {"-"}
  BY <1>2, <1>3 DEF ProfileTypes
<1>4. ASSUME part = "condition"
      PROVE  /\ DOMAIN entry' = DOMAIN ConditionFields
             /\ \A g \in DOMAIN ConditionFields : entry'[g] \in ConditionFields[g] \cup {"-"}
  BY <1>2, <1>4 DEF ProfileTypes
<1>5. ASSUME part = "rule"
      PROVE  /\ DOMAIN entry' = DOMAIN RuleFields \cup {"actions", "do", "to"}
             /\ \A g \in DOMAIN RuleFields : entry'[g] \in RuleFields[g] \cup {"-"}
             /\ entry'.to \in {"-", "*", "peer"} /\ entry'.actions \in {"none", "one"}
  <2>1. /\ DOMAIN entry = DOMAIN RuleFields \cup {"actions", "do", "to"}
        /\ \A g \in DOMAIN RuleFields : entry[g] \in RuleFields[g] \cup {"-"}
        /\ entry.to \in {"-", "*", "peer"} /\ entry.actions \in {"none", "one"}
    BY <1>5 DEF ProfileTypes
  <2>2. v \in RuleFields[f]
    BY <1>2, <1>5
  <2> HIDE DEF Fields
  <2> QED BY <1>2, <2>1, <2>2
<1> QED BY <1>1, <1>3, <1>4, <1>5 DEF ProfileTypes

\* What the grammar says of an entry is about the entry and the conditions.
LEMMA GrammarKept ==
    ASSUME part' = part, entry' = entry, conds' = conds
    PROVE  (WellFormed' <=> WellFormed) /\ (Disputed' <=> Disputed)
<1>1. Written' = Written
  BY DEF Written
<1>2. WellFormedAction' <=> WellFormedAction
  BY <1>1 DEF WellFormedAction, Blank
<1>3. WellFormedWrite' <=> WellFormedWrite
  BY <1>1 DEF WellFormedWrite
<1>4. WellFormedRule' <=> WellFormedRule
  BY <1>2, <1>3 DEF WellFormedRule, Blank
<1>5. WellFormedClause' <=> WellFormedClause
  BY <1>1 DEF WellFormedClause
<1>6. WellFormedCondition' <=> WellFormedCondition
  BY <1>1 DEF WellFormedCondition
<1>7. Disputed' <=> Disputed
  BY DEF Disputed
<1> QED BY <1>4, <1>5, <1>6, <1>7 DEF WellFormed

\* The inductive invariant.
ProfileInv == ProfileTypes /\ EntriesFollowGrammar

\* The invariant holds of the empty entry.
LEMMA ProfileInvInit == InitProfile => ProfileInv
<1> SUFFICES ASSUME InitProfile PROVE ProfileInv
  OBVIOUS
<1>1. EntriesFollowGrammar
  BY DEF InitProfile, EntriesFollowGrammar
<1>2. CASE part = "clause" /\ entry = [f \in DOMAIN ClauseFields |-> "-"]
  BY <1>1, <1>2 DEF ProfileInv, ProfileTypes
<1>3. CASE part = "condition" /\ entry = [f \in DOMAIN ConditionFields |-> "-"]
  BY <1>1, <1>3 DEF ProfileInv, ProfileTypes
<1>4. CASE part = "profile" /\ entry \in [mode : {"-", "enforce", "off", "other"}]
  BY <1>1, <1>4 DEF ProfileInv, ProfileTypes
<1>5. CASE /\ part = "rule"
           /\ \E head \in Heading :
                 entry = [f \in DOMAIN RuleFields \cup {"actions", "do", "to"} |->
                             IF f \in DOMAIN RuleFields THEN "-" ELSE head[f]]
  <2>1. PICK head \in Heading :
           entry = [f \in DOMAIN RuleFields \cup {"actions", "do", "to"} |->
                       IF f \in DOMAIN RuleFields THEN "-" ELSE head[f]]
    BY <1>5, Zenon
  <2>2. head.to \in {"-", "*", "peer"} /\ head.actions \in {"none", "one"}
    BY DEF Heading
  <2>3. "to" \notin DOMAIN RuleFields /\ "actions" \notin DOMAIN RuleFields
    BY DEF RuleFields
  <2>4. /\ DOMAIN entry = DOMAIN RuleFields \cup {"actions", "do", "to"}
        /\ entry.to = head.to /\ entry.actions = head.actions
    BY <2>1, <2>3
  <2>5. \A f \in DOMAIN RuleFields : entry[f] = "-"
    BY <2>1
  <2> QED BY <1>1, <1>5, <2>2, <2>4, <2>5 DEF ProfileInv, ProfileTypes
<1> QED BY <1>2, <1>3, <1>4, <1>5 DEF InitProfile

\* Every step keeps it: a write happens before the verdict, and the verdict of the
\* checks is that of the grammar.
LEMMA ProfileInvNext == ProfileInv /\ [NextProfile]_profileVars => ProfileInv'
<1> SUFFICES ASSUME ProfileInv, [NextProfile]_profileVars PROVE ProfileInv'
  OBVIOUS
<1>1. ASSUME UNCHANGED <<part, entry, verdict, conds>> PROVE ProfileInv'
  <2>1. ProfileTypes'
    BY <1>1 DEF ProfileInv, ProfileTypes
  <2>2. EntriesFollowGrammar'
    BY <1>1, GrammarKept DEF ProfileInv, EntriesFollowGrammar
  <2> QED BY <2>1, <2>2 DEF ProfileInv
<1>2. ASSUME NEW f \in DOMAIN entry \ {"actions", "do", "to"}, Write(f) PROVE ProfileInv'
  <2>1. ProfileTypes'
    BY <1>2, WriteTyped DEF ProfileInv
  <2>2. EntriesFollowGrammar'
    BY <1>2 DEF Write, EntriesFollowGrammar
  <2> QED BY <2>1, <2>2 DEF ProfileInv
<1>3. ASSUME parseConditions, UNCHANGED <<part, entry, verdict>> PROVE ProfileInv'
  <2>1. conds' = conds
    BY <1>3 DEF parseConditions, readConditions, checkName, nextClause, finish, accept
  <2> QED BY <1>1, <1>3, <2>1
<1>4. ASSUME UNCHANGED <<graphVars, part, entry>>,
             ~Disputed => (verdict' = "accepted" <=> WellFormed)
      PROVE  ProfileInv'
  <2>1. UNCHANGED <<part, entry, conds>>
    BY <1>4 DEF graphVars
  <2>2. ProfileTypes'
    BY <2>1 DEF ProfileInv, ProfileTypes
  <2>3. EntriesFollowGrammar'
    BY <1>4, <2>1, GrammarKept DEF EntriesFollowGrammar
  <2> QED BY <2>2, <2>3 DEF ProfileInv
<1>5. ASSUME UNCHANGED <<graphVars, part, entry>>,
             verdict' = IF CASE part = "rule" -> parseRule [] part = "clause" -> parseClause
                             [] part = "condition" -> parseCondition [] OTHER -> ~badMode
                        THEN "accepted" ELSE "rejected"
      PROVE  ProfileInv'
  <2>1. part \in {"profile", "condition", "clause", "rule"}
    BY DEF ProfileInv, ProfileTypes
  <2>2. CASE part = "rule"
    <3>1. ~Disputed => (parseRule <=> WellFormedRule)
      BY <2>2, EntriesTyped, RuleExact DEF ProfileInv
    <3> QED BY <1>4, <1>5, <2>2, <3>1 DEF WellFormed
  <2>3. CASE part = "clause"
    <3>1. parseClause <=> WellFormedClause
      BY <2>3, EntriesTyped, ClauseExact DEF ProfileInv
    <3> QED BY <1>4, <1>5, <2>3, <3>1 DEF WellFormed
  <2>4. CASE part = "condition"
    <3>1. parseCondition <=> WellFormedCondition
      BY <2>4, EntriesTyped, ConditionExact DEF ProfileInv
    <3> QED BY <1>4, <1>5, <2>4, <3>1 DEF WellFormed
  <2>5. CASE part = "profile"
    BY <1>4, <1>5, <2>5 DEF WellFormed, badMode
  <2> QED BY <2>1, <2>2, <2>3, <2>4, <2>5
<1>6. ASSUME UNCHANGED profileVars PROVE ProfileInv'
  BY <1>1, <1>6 DEF profileVars, graphVars
<1> QED BY <1>2, <1>3, <1>5, <1>6 DEF NextProfile, Parse, Loaded

\* EntriesFollowGrammar for any names and conditions and entries with any number of
\* fields: the mode check of Parse and the checks of parseConditions for one row,
\* parseClause, parseWrite, parseAction and parseRule, which go field by field, accept
\* exactly the entries that the grammar by verb and operator allows, but for the
\* recipient of a score that README and code disagree about.
THEOREM LoadsGrammar == SpecProfile => []EntriesFollowGrammar
<1>1. ProfileInv => EntriesFollowGrammar
  BY DEF ProfileInv
<1> QED BY <1>1, ProfileInvInit, ProfileInvNext, PTL DEF SpecProfile

\* Loading a profile loads its conditions as ConditionGraph says, whatever is written
\* in the entries: the theorem about AcceptsWellFormed holds of it.
THEOREM ProfileLoadsConditions == SpecProfile => SpecGraph /\ []AcceptsWellFormed
<1>1. InitProfile => InitGraph
  BY DEF InitProfile
<1>2. [NextProfile]_profileVars => [NextGraph]_graphVars
  <2> SUFFICES ASSUME [NextProfile]_profileVars PROVE [NextGraph]_graphVars
    OBVIOUS
  <2>1. CASE \E f \in DOMAIN entry \ {"actions", "do", "to"} : Write(f)
    BY <2>1 DEF Write, graphVars
  <2>2. CASE Parse
    BY <2>2 DEF Parse, NextGraph, graphVars
  <2>3. CASE UNCHANGED profileVars
    BY <2>3 DEF profileVars, graphVars
  <2> QED BY <2>1, <2>2, <2>3 DEF NextProfile, Loaded
<1>3. SpecProfile => SpecGraph
  BY <1>1, <1>2, PTL DEF SpecProfile, SpecGraph
<1> QED BY <1>3, LoadsWellFormed, PTL
=============================================================================
