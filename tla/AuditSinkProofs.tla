-------------------------- MODULE AuditSinkProofs --------------------------
(***************************************************************************)
(* Theorems about AuditSink, for every set of subjects, every number of    *)
(* events and all limits.                                                  *)
(***************************************************************************)
EXTENDS AuditSink, SelectionProofs

-----------------------------------------------------------------------------
(* What Select returns.                                                    *)

\* The events of es have rising numbers.
InOrder(es) == \A i, j \in 1 .. Len(es) : i < j => es[i].id < es[j].id

\* g holds the events of es with a subject in S, and no other event.
Selected(es, S, g) ==
    /\ Len(g) <= Len(es)
    /\ \A i \in 1 .. Len(g) : \E j \in 1 .. Len(es) : g[i] = es[j] /\ es[j].subject \in S
    /\ \A j \in 1 .. Len(es) : es[j].subject \in S => \E i \in 1 .. Len(g) : g[i] = es[j]
    /\ InOrder(es) => InOrder(g)

\* Select returns the events with a subject in S, all of them and in order.
LEMMA SelectIsExact ==
    ASSUME NEW E, NEW es \in Seq(E), NEW S
    PROVE  Select(es, S) \in Seq(E) /\ Selected(es, S, Select(es, S))
<1> DEFINE I == {i \in DOMAIN es : es[i].subject \in S}
           g == Select(es, S)
<1>1. g \in Seq(E) /\ Picked(es, I, g, Len(es))
  BY SelectAtIsExact DEF Select
<1>2. \A i \in 1 .. Len(es) : i \in I <=> es[i].subject \in S
  BY LenProperties
<1> HIDE DEF I, g
<1>3. PICK h \in [1 .. Len(g) -> 1 .. Len(es)] : Enumerates(es, I, g, Len(es), h)
  BY <1>1 DEF Picked
<1>4. \A i \in 1 .. Len(g) : h[i] \in 1 .. Len(es) /\ g[i] = es[h[i]] /\ es[h[i]].subject \in S
  BY <1>2, <1>3 DEF Enumerates
<1>5. \A j \in 1 .. Len(es) : es[j].subject \in S => \E i \in 1 .. Len(g) : g[i] = es[j]
  BY <1>2, <1>3, <1>4 DEF Enumerates
<1>6. InOrder(es) => InOrder(g)
  BY <1>3, <1>4 DEF Enumerates, InOrder
<1>7. Len(g) <= Len(es)
  BY <1>1 DEF Picked
<1>8. Selected(es, S, g)
  BY <1>4, <1>5, <1>6, <1>7 DEF Selected
<1> QED BY <1>1, <1>8 DEF g

-----------------------------------------------------------------------------
(* The inductive invariant.                                                *)

\* How many events have left pending.
gone == added - Len(pending)

\* pending holds the newest events, without a gap.
Queue ==
    /\ Len(pending) <= added
    /\ \A i \in 1 .. Len(pending) : pending[i].id = gone + i

\* An event that left pending was dropped, is in the batch or was published,
\* and only one of these.
Parted ==
    /\ PublishedIds \cup dropped \cup Ids(take) = 1 .. gone
    /\ PublishedIds \cap dropped = {}
    /\ PublishedIds \cap Ids(take) = {}
    /\ dropped \cap Ids(take) = {}

\* What is in the batch comes, on its subject, after what was published.
Sequence ==
    /\ InOrder(take)
    /\ \A s \in Subjects :
        /\ Rising(out[s])
        /\ \A i \in 1 .. Len(out[s]), j \in 1 .. Len(take) :
               take[j].subject = s => out[s][i] < take[j].id

\* Where the loop and Close are, and what the loop has done when it ended.
Stages ==
    /\ take # <<>> => loop \in {"flush", "last"}
    /\ loop \in {"last", "done"} => main # "run"
    /\ main = "closed" => loop = "done"
    /\ loop = "done" => 1 .. mark \subseteq PublishedIds \cup dropped

Inv == TypeOK /\ Queue /\ Parted /\ Sequence /\ Stages

\* The limits are numbers.
LEMMA Limits ==
    maxItems \in Nat /\ maxItems > 0 /\ maxPending \in Nat /\ maxPending > 0 /\ MaxEvents \in Nat
BY SinkAssumption

\* Events that are numbered one after another from b + 1 on.
LEMMA ConsecutiveIds ==
    ASSUME NEW E, NEW es \in Seq(E), NEW b \in Nat,
           \A i \in 1 .. Len(es) : es[i].id = b + i
    PROVE  Ids(es) = (b + 1) .. (b + Len(es)) /\ InOrder(es)
<1>1. Len(es) \in Nat /\ DOMAIN es = 1 .. Len(es)
  OBVIOUS
<1>2. ASSUME NEW x \in Ids(es) PROVE x \in (b + 1) .. (b + Len(es))
  BY <1>1, <1>2 DEF Ids
<1>3. ASSUME NEW x \in (b + 1) .. (b + Len(es)) PROVE x \in Ids(es)
  <2>1. x - b \in 1 .. Len(es) /\ b + (x - b) = x
    BY <1>1
  <2>2. es[x - b].id = x
    BY <2>1
  <2> QED BY <1>1, <2>1, <2>2 DEF Ids
<1>4. InOrder(es)
  BY <1>1 DEF InOrder
<1> QED BY <1>2, <1>3, <1>4

\* What the invariant says of numbers.
LEMMA Numbered ==
    ASSUME TypeOK, Queue
    PROVE  /\ Len(pending) \in Nat /\ added \in Nat /\ gone \in Nat /\ mark \in Nat
           /\ gone + Len(pending) = added /\ gone <= added
           /\ Ids(pending) = (gone + 1) .. added
<1>1. /\ Len(pending) \in Nat /\ added \in Nat /\ gone \in Nat /\ mark \in Nat
      /\ gone + Len(pending) = added /\ gone <= added
  BY Limits DEF TypeOK, Queue, gone
<1>2. pending \in Seq(Event)
  BY DEF TypeOK
<1>3. \A i \in 1 .. Len(pending) : pending[i].id = gone + i
  BY DEF Queue
<1> HIDE DEF gone
<1>4. Ids(pending) = (gone + 1) .. (gone + Len(pending))
  BY <1>1, <1>2, <1>3, ConsecutiveIds
<1> QED BY <1>1, <1>4

\* Only the numbers of the batch and of pending count for Ids.
LEMMA EmptyIds == Ids(<<>>) = {}
BY DEF Ids

-----------------------------------------------------------------------------
\* A new sink satisfies the invariant.
LEMMA InitInv == Init => Inv
<1> SUFFICES ASSUME Init PROVE Inv
  OBVIOUS
<1> USE DEF Init
<1>1. TypeOK
  <2>1. pending \in Seq(Event) /\ Len(pending) = 0 /\ take \in Seq(Event) /\ Len(take) = 0
    OBVIOUS
  <2>2. out \in [Subjects -> Seq(1 .. MaxEvents)]
    OBVIOUS
  <2>3. added \in 0 .. MaxEvents /\ mark \in 0 .. added /\ dropped \subseteq 1 .. added
    BY Limits
  <2>4. Len(pending) <= maxPending /\ Len(take) <= maxItems
    BY <2>1, Limits
  <2>5. wake \in BOOLEAN /\ loop = "select" /\ main = "run"
    OBVIOUS
  <2> HIDE DEF Init
  <2> QED BY <2>1, <2>2, <2>3, <2>4, <2>5 DEF TypeOK
<1>2. Queue
  BY DEF Queue
<1>3. PublishedIds = {}
  BY DEF PublishedIds
<1>4. Parted
  BY <1>3, EmptyIds DEF Parted, gone
<1>5. Sequence
  BY DEF Sequence, InOrder, Rising
<1>6. Stages
  BY DEF Stages
<1> QED BY <1>1, <1>2, <1>4, <1>5, <1>6 DEF Inv

\* Add, with and without an event given up at maxPending.
LEMMA AddPreserves ==
    ASSUME Inv, NEW s \in Subjects, Add(s)
    PROVE  Inv'
<1> DEFINE e == [id |-> added + 1, subject |-> s]
           grown == Append(pending, e)
<1>1. /\ TypeOK /\ Queue /\ Parted /\ Sequence /\ Stages
      /\ added < MaxEvents /\ added' = added + 1
      /\ pending' = cutPending(grown)
      /\ dropped' = dropped \cup (Ids(grown) \ Ids(pending'))
      /\ loop' = loop /\ take' = take /\ out' = out /\ main' = main /\ mark' = mark
  BY DEF Inv, Add
<1>2. wake' \in BOOLEAN
  BY <1>1 DEF Add, TypeOK
<1>3. /\ Len(pending) \in Nat /\ added \in Nat /\ gone \in Nat /\ mark \in Nat
      /\ gone + Len(pending) = added /\ gone <= added
      /\ Ids(pending) = (gone + 1) .. added
  BY <1>1, Numbered
<1>4. e \in Event /\ pending \in Seq(Event)
  BY <1>1, <1>3, Limits DEF Event, TypeOK
<1>5. e.id = added + 1
  OBVIOUS
<1> HIDE DEF e
<1>6. /\ grown \in Seq(Event) /\ Len(grown) = Len(pending) + 1
      /\ \A i \in 1 .. Len(pending) : grown[i] = pending[i]
      /\ grown[Len(pending) + 1] = e
  BY <1>4, AppendProperties
<1> HIDE DEF grown
<1>7. ASSUME NEW i \in 1 .. Len(grown) PROVE grown[i].id = gone + i
  <2>1. CASE i \in 1 .. Len(pending)
    BY <1>1, <1>6, <2>1 DEF Queue
  <2>2. CASE i = Len(pending) + 1
    BY <1>3, <1>5, <1>6, <2>2
  <2> QED BY <1>3, <1>6, <2>1, <2>2
<1>8. Ids(grown) = (gone + 1) .. (added + 1)
  <2>1. Ids(grown) = (gone + 1) .. (gone + Len(grown))
    BY <1>3, <1>6, <1>7, ConsecutiveIds
  <2> QED BY <1>3, <1>6, <2>1
<1>9. Len(pending) <= maxPending
  BY <1>1 DEF TypeOK
<1>10. PublishedIds' = PublishedIds /\ Ids(take)' = Ids(take)
  BY <1>1 DEF PublishedIds, Ids
<1>11. Sequence'
  BY <1>1 DEF Sequence, InOrder, Rising
<1>12. ASSUME pending' \in Seq(Event), Len(pending') <= maxPending,
              dropped' \subseteq 1 .. added'
       PROVE  TypeOK'
  BY <1>1, <1>2, <1>3, <1>12, Limits DEF TypeOK
<1>13. Stages'
  BY <1>1, <1>10 DEF Stages
<1>14. dropped \subseteq 1 .. added' /\ gone + 1 \in 1 .. added'
  <2>1. dropped \subseteq 1 .. added
    BY <1>1 DEF TypeOK
  <2>2. \A x \in 1 .. added : x \in 1 .. (added + 1)
    BY <1>3
  <2>3. gone + 1 \in 1 .. (added + 1)
    BY <1>3
  <2> QED BY <1>1, <2>1, <2>2, <2>3
<1>15. CASE Len(pending) < maxPending
  <2>1. pending' = grown
    BY <1>1, <1>3, <1>6, <1>15, Limits DEF cutPending
  <2>2. dropped' = dropped
    BY <1>1, <2>1
  <2>3. gone' = gone
    BY <1>1, <1>3, <1>6, <2>1 DEF gone
  <2>4. TypeOK'
    <3>1. dropped' \subseteq 1 .. added'
      BY <1>14, <2>2
    <3>2. Len(pending') <= maxPending
      BY <1>3, <1>6, <1>15, <2>1, Limits
    <3> QED BY <1>6, <1>12, <2>1, <3>1, <3>2
  <2>5. Queue'
    BY <1>1, <1>3, <1>6, <1>7, <2>1, <2>3 DEF Queue
  <2>6. Parted'
    BY <1>1, <1>10, <2>2, <2>3 DEF Parted
  <2> QED BY <1>11, <1>13, <2>4, <2>5, <2>6 DEF Inv
<1>16. CASE Len(pending) = maxPending
  <2>1. pending' = SubSeq(grown, 2, Len(grown))
    BY <1>1, <1>3, <1>6, <1>16, Limits DEF cutPending
  <2>2. \A i \in 2 .. Len(grown) : grown[i] \in Event
    BY <1>6
  <2>3. /\ pending' \in Seq(Event) /\ Len(pending') = Len(pending)
        /\ \A i \in 1 .. Len(pending) : pending'[i] = grown[i + 1]
    <3>1. 2 \in Int /\ Len(grown) \in Int
      BY <1>6
    <3>2. /\ SubSeq(grown, 2, Len(grown)) \in Seq(Event)
          /\ Len(SubSeq(grown, 2, Len(grown)))
                = IF 2 <= Len(grown) THEN Len(grown) - 2 + 1 ELSE 0
          /\ \A i \in 1 .. Len(grown) - 2 + 1 :
                SubSeq(grown, 2, Len(grown))[i] = grown[2 + i - 1]
      BY <2>2, <3>1, SubSeqProperties
    <3>3. Len(grown) - 2 + 1 = Len(pending) /\ 2 <= Len(grown)
      BY <1>3, <1>6, <1>16, Limits
    <3>4. \A i \in 1 .. Len(pending) : 2 + i - 1 = i + 1
      BY <1>3
    <3> HIDE DEF Event
    <3> QED BY <2>1, <3>2, <3>3, <3>4
  <2>4. gone' = gone + 1 /\ Len(pending') <= added'
    BY <1>1, <1>3, <2>3 DEF gone
  <2>5. ASSUME NEW i \in 1 .. Len(pending') PROVE pending'[i].id = (gone + 1) + i
    <3>1. i \in 1 .. Len(pending) /\ i + 1 \in 1 .. Len(grown)
      BY <1>3, <1>6, <2>3
    <3>2. grown[i + 1].id = gone + (i + 1)
      BY <1>7, <3>1
    <3> QED BY <1>3, <2>3, <3>1, <3>2
  <2>6. Ids(pending') = (gone + 2) .. (added + 1)
    <3>1. gone + 1 \in Nat
      BY <1>3
    <3>2. Ids(pending') = ((gone + 1) + 1) .. ((gone + 1) + Len(pending'))
      BY <2>3, <2>5, <3>1, ConsecutiveIds
    <3>3. (gone + 1) + 1 = gone + 2 /\ (gone + 1) + Len(pending') = added + 1
      BY <1>3, <2>3
    <3> QED BY <3>2, <3>3
  <2>7. Ids(grown) \ Ids(pending') = {gone + 1}
    BY <1>3, <1>8, <2>6
  <2>8. dropped' = dropped \cup {gone + 1}
    BY <1>1, <2>7
  <2>9. TypeOK'
    <3>1. dropped' \subseteq 1 .. added'
      BY <1>14, <2>8
    <3> QED BY <1>9, <1>12, <2>3, <3>1
  <2>10. Queue'
    BY <2>4, <2>5 DEF Queue
  <2>11. Parted'
    <3>1. 1 .. (gone + 1) = (1 .. gone) \cup {gone + 1} /\ gone + 1 \notin 1 .. gone
      BY <1>3
    <3>2. /\ PublishedIds \cup dropped \cup Ids(take) = 1 .. gone
          /\ PublishedIds \cap dropped = {}
          /\ PublishedIds \cap Ids(take) = {}
          /\ dropped \cap Ids(take) = {}
      BY <1>1 DEF Parted
    <3> HIDE DEF gone
    <3> QED BY <1>10, <2>4, <2>8, <3>1, <3>2 DEF Parted
  <2> QED BY <1>11, <1>13, <2>9, <2>10, <2>11 DEF Inv
<1> QED BY <1>3, <1>9, <1>15, <1>16, Limits

\* flush takes the oldest events of pending.
LEMMA TakePreserves ==
    ASSUME Inv, flushTake
    PROVE  Inv'
<1>1. /\ TypeOK /\ Queue /\ Parted /\ Sequence /\ Stages
      /\ loop \in {"flush", "last"} /\ take = <<>> /\ pending # <<>>
      /\ take' = SubSeq(pending, 1, batchLen)
      /\ pending' = SubSeq(pending, batchLen + 1, Len(pending))
      /\ dropped' = dropped /\ added' = added /\ wake' = wake /\ loop' = loop
      /\ out' = out /\ main' = main /\ mark' = mark
  BY DEF Inv, flushTake
<1>2. /\ Len(pending) \in Nat /\ added \in Nat /\ gone \in Nat /\ mark \in Nat
      /\ gone + Len(pending) = added /\ gone <= added
      /\ Ids(pending) = (gone + 1) .. added
  BY <1>1, Numbered
<1>3. pending \in Seq(Event) /\ Len(pending) <= maxPending
  BY <1>1 DEF TypeOK
<1>4. batchLen \in Nat /\ batchLen <= Len(pending) /\ batchLen <= maxItems
  BY <1>2, Limits DEF batchLen
<1>5. \A i \in 1 .. Len(pending) : pending[i] \in Event /\ pending[i].id = gone + i
  BY <1>1, <1>3 DEF Queue
<1> HIDE DEF batchLen, Event, gone
<1>6. /\ take' \in Seq(Event) /\ Len(take') = batchLen
      /\ \A i \in 1 .. batchLen : take'[i] = pending[i]
  <2>1. \A i \in 1 .. batchLen : pending[i] \in Event
    BY <1>2, <1>4, <1>5
  <2>2. /\ SubSeq(pending, 1, batchLen) \in Seq(Event)
        /\ Len(SubSeq(pending, 1, batchLen))
              = IF 1 <= batchLen THEN batchLen - 1 + 1 ELSE 0
        /\ \A i \in 1 .. batchLen - 1 + 1 :
              SubSeq(pending, 1, batchLen)[i] = pending[1 + i - 1]
    BY <1>4, <2>1, SubSeqProperties
  <2>3. batchLen - 1 + 1 = batchLen /\ \A i \in 1 .. batchLen : 1 + i - 1 = i
    BY <1>4
  <2>4. (IF 1 <= batchLen THEN batchLen - 1 + 1 ELSE 0) = batchLen
    BY <1>4
  <2> QED BY <1>1, <2>2, <2>3, <2>4
<1>7. /\ pending' \in Seq(Event) /\ Len(pending') = Len(pending) - batchLen
      /\ \A i \in 1 .. Len(pending') : pending'[i] = pending[batchLen + i]
  <2>1. \A i \in batchLen + 1 .. Len(pending) : pending[i] \in Event
    BY <1>2, <1>4, <1>5
  <2>2. batchLen + 1 \in Int /\ Len(pending) \in Int
    BY <1>2, <1>4
  <2>3. /\ SubSeq(pending, batchLen + 1, Len(pending)) \in Seq(Event)
        /\ Len(SubSeq(pending, batchLen + 1, Len(pending)))
              = IF batchLen + 1 <= Len(pending) THEN Len(pending) - (batchLen + 1) + 1 ELSE 0
        /\ \A i \in 1 .. Len(pending) - (batchLen + 1) + 1 :
              SubSeq(pending, batchLen + 1, Len(pending))[i] = pending[batchLen + 1 + i - 1]
    BY <2>1, <2>2, SubSeqProperties
  <2>4. (IF batchLen + 1 <= Len(pending) THEN Len(pending) - (batchLen + 1) + 1 ELSE 0)
            = Len(pending) - batchLen
    BY <1>2, <1>4
  <2>5. /\ Len(pending) - (batchLen + 1) + 1 = Len(pending) - batchLen
        /\ \A i \in 1 .. Len(pending) - batchLen : batchLen + 1 + i - 1 = batchLen + i
    BY <1>2, <1>4
  <2> QED BY <1>1, <2>3, <2>4, <2>5
<1>8. gone' = gone + batchLen /\ gone' \in Nat /\ Len(pending') <= added'
  <2>1. gone' = added - Len(pending') /\ gone = added - Len(pending) /\ added' = added
    BY <1>1 DEF gone
  <2>2. Len(pending') = Len(pending) - batchLen
    BY <1>7
  <2> QED BY <1>2, <1>4, <2>1, <2>2
<1>9. TypeOK'
  <2>1. Len(pending') <= maxPending /\ Len(take') <= maxItems
    BY <1>2, <1>3, <1>4, <1>6, <1>7, Limits
  <2>2. /\ added' \in 0 .. MaxEvents /\ mark' \in 0 .. added'
        /\ dropped' \subseteq 1 .. added'
        /\ out' \in [Subjects -> Seq(1 .. MaxEvents)]
        /\ wake' \in BOOLEAN
        /\ loop' \in {"select", "flush", "last", "done"}
        /\ main' \in {"run", "closing", "closed"}
    BY <1>1 DEF TypeOK
  <2>3. Event' = Event
    BY DEF Event
  <2> QED BY <1>6, <1>7, <2>1, <2>2, <2>3 DEF TypeOK
<1>10. Queue'
  <2>1. ASSUME NEW i \in 1 .. Len(pending') PROVE pending'[i].id = gone' + i
    <3>1. batchLen + i \in 1 .. Len(pending)
      BY <1>2, <1>4, <1>7
    <3>2. pending[batchLen + i].id = gone + (batchLen + i)
      BY <1>5, <3>1
    <3>3. i \in Nat
      BY <1>2, <1>4, <1>7
    <3> QED BY <1>2, <1>4, <1>7, <1>8, <3>2, <3>3
  <2> QED BY <1>8, <2>1 DEF Queue
<1>11. Ids(take') = (gone + 1) .. (gone + batchLen) /\ InOrder(take')
  <2>1. \A i \in 1 .. Len(take') : take'[i].id = gone + i
    <3>1. \A i \in 1 .. batchLen : i \in 1 .. Len(pending)
      BY <1>2, <1>4
    <3>2. \A i \in 1 .. batchLen : pending[i].id = gone + i
      BY <1>5, <3>1
    <3> QED BY <1>6, <3>2
  <2>2. Ids(take') = (gone + 1) .. (gone + Len(take')) /\ InOrder(take')
    BY <1>2, <1>6, <2>1, ConsecutiveIds
  <2> QED BY <1>6, <2>2
<1>12. PublishedIds' = PublishedIds
  BY <1>1 DEF PublishedIds
<1>13. PublishedIds \cup dropped = 1 .. gone /\ PublishedIds \cap dropped = {}
  BY <1>1, EmptyIds DEF Parted
<1>14. Parted'
  <2>1. 1 .. (gone + batchLen) = (1 .. gone) \cup ((gone + 1) .. (gone + batchLen))
    BY <1>2, <1>4
  <2>2. (1 .. gone) \cap ((gone + 1) .. (gone + batchLen)) = {}
    BY <1>2, <1>4
  <2>3. Ids(take)' = Ids(take')
    BY DEF Ids
  <2> QED BY <1>1, <1>8, <1>11, <1>12, <1>13, <2>1, <2>2, <2>3 DEF Parted
<1>15. Sequence'
  <2>1. ASSUME NEW s \in Subjects, NEW i \in 1 .. Len(out[s]), NEW j \in 1 .. Len(take')
        PROVE  out[s][i] < take'[j].id
    <3>1. out[s] \in Seq(1 .. MaxEvents)
      BY <1>1 DEF TypeOK
    <3>2. DOMAIN out[s] = 1 .. Len(out[s])
      BY <3>1
    <3>3. out[s][i] \in PublishedIds
      BY <3>2 DEF PublishedIds
    <3>4. out[s][i] \in 1 .. gone
      BY <1>13, <3>3
    <3>5. take'[j].id = gone + j /\ j \in Nat /\ j > 0
      BY <1>2, <1>4, <1>5, <1>6
    <3> QED BY <1>2, <3>4, <3>5
  <2>2. \A s \in Subjects : Rising(out[s])
    BY <1>1 DEF Sequence
  <2>3. out' = out
    BY <1>1
  <2>4. InOrder(take)' = InOrder(take')
    BY DEF InOrder
  <2> QED BY <1>11, <2>1, <2>2, <2>3, <2>4 DEF Sequence, Rising
<1>16. Stages'
  BY <1>1, <1>12 DEF Stages
<1> QED BY <1>9, <1>10, <1>14, <1>15, <1>16 DEF Inv

\* The fields of an event of a sequence.
LEMMA EventAt ==
    ASSUME NEW es \in Seq(Event), NEW i \in 1 .. Len(es)
    PROVE  es[i].id \in 1 .. MaxEvents /\ es[i].id \in Nat /\ es[i].subject \in Subjects
<1>1. es[i] \in Event
  BY ElementOfSeq
<1>2. \A e \in Event : e.id \in 1 .. MaxEvents /\ e.subject \in Subjects
  BY DEF Event
<1>3. \A k \in 1 .. MaxEvents : k \in Nat
  BY Limits
<1> QED BY <1>1, <1>2, <1>3

\* The numbers of a sequence of events.
LEMMA NumbersOf ==
    ASSUME NEW es \in Seq(Event)
    PROVE  /\ Numbers(es) \in Seq(1 .. MaxEvents)
           /\ Len(Numbers(es)) = Len(es)
           /\ \A i \in 1 .. Len(es) : Numbers(es)[i] = es[i].id
           /\ Range(Numbers(es)) = Ids(es)
           /\ InOrder(es) => Rising(Numbers(es))
<1>1. Len(es) \in Nat /\ DOMAIN es = 1 .. Len(es)
  OBVIOUS
<1>2. \A i \in 1 .. Len(es) : es[i].id \in 1 .. MaxEvents
  BY EventAt
<1> DEFINE n == Numbers(es)
<1>3. n = [i \in 1 .. Len(es) |-> es[i].id]
  BY <1>1 DEF Numbers
<1>4. n \in [1 .. Len(es) -> 1 .. MaxEvents]
  BY <1>2, <1>3
<1> HIDE DEF n
<1>5. n \in Seq(1 .. MaxEvents) /\ Len(n) = Len(es) /\ DOMAIN n = 1 .. Len(es)
  <2> DEFINE X == 1 .. MaxEvents
             k == Len(es)
  <2>1. k \in Nat /\ n \in [1 .. k -> X]
    BY <1>1, <1>4
  <2> HIDE DEF X, k
  <2>2. n \in Seq(X) /\ Len(n) = k /\ DOMAIN n = 1 .. k
    BY <2>1
  <2> QED BY <2>2 DEF X, k
<1>6. \A i \in 1 .. Len(es) : n[i] = es[i].id
  BY <1>3
<1>7. Range(n) = Ids(es)
  BY <1>1, <1>5, <1>6 DEF Range, Ids
<1>8. InOrder(es) => Rising(n)
  BY <1>5, <1>6 DEF InOrder, Rising
<1> QED BY <1>5, <1>6, <1>7, <1>8 DEF n

\* Rising numbers followed by higher rising numbers.
LEMMA RisingConcat ==
    ASSUME NEW E \in SUBSET Int, NEW a \in Seq(E), NEW b \in Seq(E), Rising(a), Rising(b),
           \A i \in 1 .. Len(a), j \in 1 .. Len(b) : a[i] < b[j]
    PROVE  Rising(a \o b)
<1> DEFINE c == a \o b
<1>1. /\ c \in Seq(E) /\ Len(c) = Len(a) + Len(b)
      /\ \A i \in 1 .. Len(a) + Len(b) : c[i] = IF i <= Len(a) THEN a[i] ELSE b[i - Len(a)]
  BY ConcatProperties
<1>2. Len(a) \in Nat /\ Len(b) \in Nat /\ DOMAIN a = 1 .. Len(a) /\ DOMAIN b = 1 .. Len(b)
  OBVIOUS
<1> HIDE DEF c
<1>3. DOMAIN c = 1 .. Len(a) + Len(b)
  BY <1>1
<1>4. ASSUME NEW i \in 1 .. Len(a) + Len(b), NEW j \in 1 .. Len(a) + Len(b), i < j
      PROVE  c[i] < c[j]
  <2>1. CASE j <= Len(a)
    <3>1. i \in 1 .. Len(a) /\ j \in 1 .. Len(a) /\ i <= Len(a)
      BY <1>2, <1>4, <2>1
    <3>2. c[i] = a[i] /\ c[j] = a[j]
      BY <1>1, <2>1, <3>1
    <3> QED BY <1>2, <1>4, <3>1, <3>2 DEF Rising
  <2>2. CASE i <= Len(a) /\ ~(j <= Len(a))
    <3>1. i \in 1 .. Len(a) /\ j - Len(a) \in 1 .. Len(b)
      BY <1>2, <1>4, <2>2
    <3>2. c[i] = a[i] /\ c[j] = b[j - Len(a)]
      BY <1>1, <2>2
    <3> QED BY <3>1, <3>2
  <2>3. CASE ~(i <= Len(a))
    <3>1. /\ i - Len(a) \in 1 .. Len(b) /\ j - Len(a) \in 1 .. Len(b)
          /\ i - Len(a) < j - Len(a) /\ ~(j <= Len(a))
      BY <1>2, <1>4, <2>3
    <3>2. c[i] = b[i - Len(a)] /\ c[j] = b[j - Len(a)]
      BY <1>1, <2>3, <3>1
    <3> QED BY <1>2, <3>1, <3>2 DEF Rising
  <2> QED BY <2>1, <2>2, <2>3
<1>5. Rising(c)
  BY <1>3, <1>4 DEF Rising
<1> QED BY <1>5 DEF c

\* What Select leaves in and out of a sequence of events.
LEMMA SelectEvents ==
    ASSUME NEW es \in Seq(Event), NEW S
    PROVE  /\ Select(es, S) \in Seq(Event)
           /\ Selected(es, S, Select(es, S))
           /\ InOrder(es) => InOrder(Select(es, S))
           /\ Ids(Select(es, S)) = {es[j].id : j \in {k \in 1 .. Len(es) : es[k].subject \in S}}
<1> DEFINE g == Select(es, S)
<1>1. \A i \in 1 .. Len(es) : es[i].id \in Nat
  BY EventAt
<1>2. g \in Seq(Event) /\ Selected(es, S, g)
  BY <1>1, SelectIsExact
<1> HIDE DEF g
<1>3. DOMAIN g = 1 .. Len(g)
  BY <1>2
<1>4. InOrder(es) => InOrder(g)
  BY <1>2 DEF Selected
<1>5. ASSUME NEW x \in Ids(g)
      PROVE  x \in {es[j].id : j \in {k \in 1 .. Len(es) : es[k].subject \in S}}
  <2>1. PICK i \in 1 .. Len(g) : x = g[i].id
    BY <1>3, <1>5 DEF Ids
  <2>2. PICK j \in 1 .. Len(es) : g[i] = es[j] /\ es[j].subject \in S
    BY <1>2 DEF Selected
  <2> QED BY <2>1, <2>2
<1>6. ASSUME NEW j \in 1 .. Len(es), es[j].subject \in S
      PROVE  es[j].id \in Ids(g)
  <2>1. PICK i \in 1 .. Len(g) : g[i] = es[j]
    BY <1>2, <1>6 DEF Selected
  <2> QED BY <1>3, <2>1 DEF Ids
<1>7. Ids(g) = {es[j].id : j \in {k \in 1 .. Len(es) : es[k].subject \in S}}
  BY <1>5, <1>6
<1> QED BY <1>2, <1>4, <1>7 DEF g

\* A message of one subject and the rest of the batch are the batch.
LEMMA BatchSplits ==
    ASSUME NEW es \in Seq(Event), InOrder(es), NEW s \in Subjects
    PROVE  /\ Ids(OfSubject(s, es)) \cup Ids(NotOfSubject(s, es)) = Ids(es)
           /\ Ids(OfSubject(s, es)) \cap Ids(NotOfSubject(s, es)) = {}
<1>1. Ids(OfSubject(s, es)) = {es[j].id : j \in {k \in 1 .. Len(es) : es[k].subject \in {s}}}
  BY SelectEvents DEF OfSubject
<1>2. Ids(NotOfSubject(s, es))
        = {es[j].id : j \in {k \in 1 .. Len(es) : es[k].subject \in Subjects \ {s}}}
  BY SelectEvents DEF NotOfSubject
<1>3. DOMAIN es = 1 .. Len(es) /\ Len(es) \in Nat
  OBVIOUS
<1>4. \A k \in 1 .. Len(es) : es[k].subject \in Subjects /\ es[k].id \in Nat
  BY EventAt
<1>5. Ids(es) = {es[j].id : j \in 1 .. Len(es)}
  BY <1>3 DEF Ids
<1>6. Ids(OfSubject(s, es)) \cup Ids(NotOfSubject(s, es)) = Ids(es)
  BY <1>1, <1>2, <1>4, <1>5
<1>7. ASSUME NEW x \in Ids(OfSubject(s, es)), x \in Ids(NotOfSubject(s, es)) PROVE FALSE
  <2>1. PICK j \in 1 .. Len(es) : x = es[j].id /\ es[j].subject = s
    BY <1>1
  <2>2. PICK k \in 1 .. Len(es) : x = es[k].id /\ es[k].subject # s
    BY <1>2, <1>7
  <2>3. j < k \/ k < j
    BY <1>3, <2>1, <2>2
  <2>4. es[j].id \in Nat /\ es[k].id \in Nat
    BY <1>4
  <2>5. es[j].id < es[k].id \/ es[k].id < es[j].id
    BY <2>3 DEF InOrder
  <2> QED BY <2>1, <2>2, <2>4, <2>5
<1> QED BY <1>6, <1>7

\* publish: the events of one subject leave the batch.
LEMMA SendPreserves ==
    ASSUME Inv, send
    PROVE  Inv'
<1> DEFINE s == Head(take).subject
           mine == OfSubject(s, take)
           rest == NotOfSubject(s, take)
<1>1. /\ TypeOK /\ Queue /\ Parted /\ Sequence /\ Stages
      /\ take # <<>> /\ take' = rest
      /\ out' = [out EXCEPT ![s] = out[s] \o Numbers(mine)]
      /\ pending' = pending /\ dropped' = dropped /\ added' = added /\ wake' = wake
      /\ loop' = loop /\ main' = main /\ mark' = mark
  BY DEF Inv, send
<1>2. take \in Seq(Event) /\ Len(take) <= maxItems /\ InOrder(take)
  BY <1>1 DEF TypeOK, Sequence
<1>3. s \in Subjects
  <2>1. Head(take) \in Event
    BY <1>1, <1>2, HeadTailProperties
  <2> QED BY <2>1 DEF Event
<1>4. /\ mine \in Seq(Event) /\ InOrder(mine)
      /\ Selected(take, {s}, mine)
  BY <1>2, SelectEvents DEF OfSubject
<1>5. /\ rest \in Seq(Event) /\ InOrder(rest)
      /\ Selected(take, Subjects \ {s}, rest)
  BY <1>2, SelectEvents DEF NotOfSubject
<1>6. Ids(mine) \cup Ids(rest) = Ids(take) /\ Ids(mine) \cap Ids(rest) = {}
  BY <1>2, <1>3, BatchSplits
<1> HIDE DEF s, mine, rest
<1> DEFINE n == Numbers(mine)
<1>7. /\ n \in Seq(1 .. MaxEvents) /\ Len(n) = Len(mine)
      /\ \A i \in 1 .. Len(mine) : n[i] = mine[i].id
      /\ Range(n) = Ids(mine) /\ Rising(n)
  BY <1>4, NumbersOf
<1>8. out' = [out EXCEPT ![s] = out[s] \o n]
  BY <1>1
<1> HIDE DEF n
<1>9. out \in [Subjects -> Seq(1 .. MaxEvents)]
  BY <1>1 DEF TypeOK
<1>10. /\ out' = [t \in Subjects |-> IF t = s THEN out[s] \o n ELSE out[t]]
       /\ out[s] \in Seq(1 .. MaxEvents) /\ out[s] \o n \in Seq(1 .. MaxEvents)
  <2> DEFINE X == Seq(1 .. MaxEvents)
  <2>1. out[s] \in X
    BY <1>3, <1>9
  <2>2. out[s] \o n \in X
    BY <1>7, <2>1, ConcatProperties
  <2> HIDE DEF X
  <2>3. out' = [t \in Subjects |-> IF t = s THEN out[s] \o n ELSE out[t]]
    BY <1>3, <1>8, <1>9
  <2> QED BY <2>1, <2>2, <2>3 DEF X
<1>11. TypeOK'
  <2>1. out' \in [Subjects -> Seq(1 .. MaxEvents)]
    <3> DEFINE X == Seq(1 .. MaxEvents)
    <3> HIDE DEF X
    <3>1. out \in [Subjects -> X] /\ out[s] \o n \in X
      BY <1>9, <1>10 DEF X
    <3>2. out' \in [Subjects -> X]
      BY <1>10, <3>1
    <3> QED BY <3>2 DEF X
  <2>2. Len(rest) <= maxItems
    <3>1. Len(rest) <= Len(take)
      BY <1>5 DEF Selected
    <3>2. Len(rest) \in Nat /\ Len(take) \in Nat
      BY <1>2, <1>5
    <3> QED BY <1>2, <3>1, <3>2, Limits
  <2>3. /\ pending' \in Seq(Event) /\ Len(pending') <= maxPending
        /\ added' \in 0 .. MaxEvents /\ mark' \in 0 .. added'
        /\ dropped' \subseteq 1 .. added'
        /\ wake' \in BOOLEAN
        /\ loop' \in {"select", "flush", "last", "done"}
        /\ main' \in {"run", "closing", "closed"}
    BY <1>1 DEF TypeOK
  <2>4. take' \in Seq(Event) /\ Len(take') <= maxItems /\ Event' = Event
    BY <1>1, <1>5, <2>2 DEF Event
  <2> HIDE DEF Event
  <2> QED BY <2>1, <2>3, <2>4 DEF TypeOK
<1>12. gone' = gone /\ Queue'
  BY <1>1 DEF gone, Queue
<1>13. PublishedIds' = PublishedIds \cup Ids(mine)
  <2>1. Range(out[s] \o n) = Range(out[s]) \cup Ids(mine)
    BY <1>7, <1>10, RangeConcatenation
  <2>2. PublishedIds = UNION {Range(out[t]) : t \in Subjects}
    BY DEF PublishedIds, Range
  <2>3. PublishedIds' = UNION {Range(out'[t]) : t \in Subjects}
    BY DEF PublishedIds, Range
  <2>4. \A t \in Subjects : Range(out'[t]) = IF t = s THEN Range(out[s]) \cup Ids(mine)
                                                      ELSE Range(out[t])
    BY <1>10, <2>1
  <2> QED BY <1>3, <2>2, <2>3, <2>4
<1>14. Parted'
  <2>1. Ids(take)' = Ids(rest)
    BY <1>1 DEF Ids
  <2>2. /\ PublishedIds \cup dropped \cup Ids(take) = 1 .. gone
        /\ PublishedIds \cap dropped = {}
        /\ PublishedIds \cap Ids(take) = {}
        /\ dropped \cap Ids(take) = {}
    BY <1>1 DEF Parted
  <2> HIDE DEF gone
  <2>3. dropped' = dropped /\ gone' = gone
    BY <1>1, <1>12
  <2> QED BY <1>6, <1>13, <2>1, <2>2, <2>3 DEF Parted
<1>15. ASSUME NEW k \in 1 .. Len(mine)
       PROVE  \E j \in 1 .. Len(take) : mine[k] = take[j] /\ take[j].subject = s
  BY <1>4 DEF Selected
<1>16. ASSUME NEW k \in 1 .. Len(rest)
       PROVE  \E j \in 1 .. Len(take) : rest[k] = take[j] /\ take[j].subject # s
  BY <1>5 DEF Selected
<1>17. \A t \in Subjects : Rising(out[t]) /\ \A i \in 1 .. Len(out[t]), j \in 1 .. Len(take) :
               take[j].subject = t => out[t][i] < take[j].id
  BY <1>1 DEF Sequence
<1>18. ASSUME NEW t \in Subjects
       PROVE  /\ Rising(out'[t])
              /\ \A i \in 1 .. Len(out'[t]), j \in 1 .. Len(rest) :
                     rest[j].subject = t => out'[t][i] < rest[j].id
  <2>1. CASE t = s
    <3>1. ASSUME NEW i \in 1 .. Len(out[s]), NEW j \in 1 .. Len(n)
          PROVE  out[s][i] < n[j]
      <4>1. j \in 1 .. Len(mine) /\ n[j] = mine[j].id
        BY <1>7
      <4>2. PICK k \in 1 .. Len(take) : mine[j] = take[k] /\ take[k].subject = s
        BY <1>15, <4>1
      <4> QED BY <1>3, <1>17, <4>1, <4>2
    <3>2. \A k \in 1 .. MaxEvents : k \in Int
      OBVIOUS
    <3>3. 1 .. MaxEvents \in SUBSET Int /\ Rising(out[s]) /\ Rising(n)
      BY <1>3, <1>7, <1>17, <3>2
    <3>4. Rising(out[s] \o n)
      BY <1>7, <1>10, <3>1, <3>3, RisingConcat
    <3>5. \A j \in 1 .. Len(rest) : rest[j].subject # t
      BY <1>16, <2>1
    <3>6. out'[t] = out[s] \o n
      BY <1>10, <2>1
    <3> QED BY <3>4, <3>5, <3>6
  <2>2. CASE t # s
    <3>1. out'[t] = out[t]
      BY <1>10, <2>2
    <3>2. ASSUME NEW i \in 1 .. Len(out[t]), NEW j \in 1 .. Len(rest), rest[j].subject = t
          PROVE  out[t][i] < rest[j].id
      <4>1. PICK k \in 1 .. Len(take) : rest[j] = take[k]
        BY <1>16
      <4>2. take[k].subject = t
        BY <3>2, <4>1
      <4>3. out[t][i] < take[k].id
        BY <1>17, <4>2
      <4> QED BY <4>1, <4>3
    <3> QED BY <1>17, <3>1, <3>2
  <2> QED BY <2>1, <2>2
<1>19. Sequence'
  <2>1. InOrder(take)' = InOrder(rest) /\ \A t : Rising(out[t])' = Rising(out'[t])
    BY <1>1 DEF InOrder, Rising
  <2>2. take' = rest
    BY <1>1
  <2> QED BY <1>5, <1>18, <2>1, <2>2 DEF Sequence
<1>20. Stages'
  BY <1>1, <1>13 DEF Stages
<1> QED BY <1>11, <1>12, <1>14, <1>19, <1>20 DEF Inv

\* The steps that only move the loop or Close.
LEMMA MovePreserves ==
    ASSUME Inv,
           \/ selectStop \/ selectWake \/ selectTick \/ flushReturn
           \/ Close \/ closeReturn \/ UNCHANGED vars
    PROVE  Inv'
<1>1. TypeOK /\ Queue /\ Parted /\ Sequence /\ Stages
  BY DEF Inv
<1>2. /\ pending' = pending /\ dropped' = dropped /\ added' = added
      /\ take' = take /\ out' = out
  BY DEF selectStop, selectWake, selectTick, flushReturn, Close, closeReturn, vars
<1>3. /\ wake' \in BOOLEAN /\ loop' \in {"select", "flush", "last", "done"}
      /\ main' \in {"run", "closing", "closed"}
  BY <1>1 DEF TypeOK, selectStop, selectWake, selectTick, flushReturn, Close, closeReturn, vars
<1>4. mark' \in 0 .. added
  <2>1. added \in Nat /\ mark \in 0 .. added
    BY <1>1, Limits DEF TypeOK
  <2>2. mark' = mark \/ mark' = added
    BY DEF selectStop, selectWake, selectTick, flushReturn, Close, closeReturn, vars
  <2> QED BY <2>1, <2>2
<1>5. TypeOK'
  BY <1>1, <1>2, <1>3, <1>4 DEF TypeOK
<1>6. PublishedIds' = PublishedIds /\ gone' = gone /\ Ids(take)' = Ids(take)
  BY <1>2 DEF PublishedIds, gone, Ids
<1>7. Queue'
  BY <1>1, <1>2, <1>6 DEF Queue
<1>8. Parted'
  BY <1>1, <1>2, <1>6 DEF Parted
<1>9. Sequence'
  BY <1>1, <1>2 DEF Sequence, InOrder, Rising
<1>10. Stages'
  <2>1. CASE flushReturn
    <3>1. pending = <<>> /\ take = <<>> /\ mark' = mark /\ main' = main
          /\ loop' = IF loop = "last" THEN "done" ELSE "select"
      BY <2>1 DEF flushReturn
    <3>2. PublishedIds \cup dropped = 1 .. added
      <4>1. gone = added
        BY <1>1, <3>1, Numbered
      <4> QED BY <1>1, <3>1, <4>1, EmptyIds DEF Parted
    <3>3. 1 .. mark \subseteq 1 .. added
      <4>1. mark \in 0 .. added /\ added \in Nat
        BY <1>1, Limits DEF TypeOK
      <4> QED BY <4>1
    <3> QED BY <1>1, <1>2, <1>6, <2>1, <3>1, <3>2, <3>3 DEF Stages, flushReturn
  <2>2. CASE Close
    BY <1>1, <1>2, <1>6, <2>2 DEF Stages, Close
  <2>3. CASE closeReturn
    BY <1>1, <1>2, <1>6, <2>3 DEF Stages, closeReturn
  <2>4. CASE selectStop \/ selectWake \/ selectTick \/ UNCHANGED vars
    BY <1>1, <1>2, <1>6, <2>4 DEF Stages, selectStop, selectWake, selectTick, vars
  <2> QED BY <2>1, <2>2, <2>3, <2>4
<1> QED BY <1>5, <1>7, <1>8, <1>9, <1>10 DEF Inv

\* Every step of the sink keeps the invariant.
LEMMA Inductive == Inv /\ [Next]_vars => Inv'
<1> SUFFICES ASSUME Inv, [Next]_vars PROVE Inv'
  OBVIOUS
<1>1. CASE \E s \in Subjects : Add(s)
  BY <1>1, AddPreserves
<1>2. CASE flushTake
  BY <1>2, TakePreserves
<1>3. CASE send
  BY <1>3, SendPreserves
<1>4. CASE \/ selectStop \/ selectWake \/ selectTick \/ flushReturn
           \/ Close \/ closeReturn \/ UNCHANGED vars
  BY <1>4, MovePreserves
<1> QED BY <1>1, <1>2, <1>3, <1>4 DEF Next, LoopStep, Terminated

\* The invariant holds in every state of the sink.
LEMMA Invariant == Spec => []Inv
BY Inductive, InitInv, PTL DEF Spec

-----------------------------------------------------------------------------
(* The theorems.                                                           *)

\* Every variable keeps its type: pending and the batch stay within their
\* limits, whatever the order of Add, flush and Close.
THEOREM TypeCorrect == Spec => []TypeOK
<1>1. Inv => TypeOK
  BY DEF Inv
<1> QED BY <1>1, Invariant, PTL

\* No event is lost but those counted as dropped, and none is published twice.
THEOREM NoEventLost == Spec => []EventsAccounted
<1>1. ASSUME Inv PROVE EventsAccounted
  <2>1. TypeOK /\ Queue /\ Parted
    BY <1>1 DEF Inv
  <2>2. gone \in Nat /\ added \in Nat /\ gone <= added /\ Ids(pending) = (gone + 1) .. added
    BY <2>1, Numbered
  <2>3. /\ PublishedIds \cup dropped \cup Ids(take) = 1 .. gone
        /\ PublishedIds \cap dropped = {}
        /\ PublishedIds \cap Ids(take) = {}
        /\ dropped \cap Ids(take) = {}
    BY <2>1 DEF Parted
  <2> HIDE DEF gone
  <2>4. /\ 1 .. added = (1 .. gone) \cup ((gone + 1) .. added)
        /\ (1 .. gone) \cap ((gone + 1) .. added) = {}
        /\ \A e \in 1 .. gone, f \in (gone + 1) .. added : e < f
    BY <2>2
  <2> QED BY <2>2, <2>3, <2>4 DEF EventsAccounted
<1> QED BY <1>1, Invariant, PTL

\* Every event added before Close is published or dropped when Close returns.
THEOREM CloseFlushes == Spec => []ClosedFlushed
<1>1. Inv => ClosedFlushed
  BY DEF Inv, Stages, ClosedFlushed
<1> QED BY <1>1, Invariant, PTL

\* A subject's events are published in the order they were added.
THEOREM SubjectsInOrder == Spec => []SubjectOrder
<1>1. ASSUME Inv, NEW s \in Subjects
      PROVE  Rising(out[s] \o Numbers(OfSubject(s, take)) \o Numbers(OfSubject(s, pending)))
  <2> DEFINE a == out[s]
             mine == OfSubject(s, take)
             later == OfSubject(s, pending)
             b == Numbers(mine)
             c == Numbers(later)
             X == 1 .. MaxEvents
  <2>1. TypeOK /\ Queue /\ Parted /\ Sequence
    BY <1>1 DEF Inv
  <2>2. /\ gone \in Nat /\ added \in Nat /\ gone <= added /\ Ids(pending) = (gone + 1) .. added
        /\ Len(pending) \in Nat
    BY <2>1, Numbered
  <2>3. a \in Seq(X) /\ take \in Seq(Event) /\ pending \in Seq(Event) /\ X \in SUBSET Int
    BY <2>1 DEF TypeOK
  <2>4. /\ mine \in Seq(Event) /\ InOrder(mine) /\ Selected(take, {s}, mine)
    BY <2>1, <2>3, SelectEvents DEF OfSubject, Sequence
  <2>5. InOrder(pending) /\ \A j \in 1 .. Len(pending) : pending[j].id > gone
    BY <2>1, <2>2 DEF Queue, InOrder
  <2>6. /\ later \in Seq(Event) /\ InOrder(later)
        /\ Selected(pending, {s}, later)
    BY <2>3, <2>5, SelectEvents DEF OfSubject
  <2> HIDE DEF mine, later
  <2>7. /\ b \in Seq(X) /\ Len(b) = Len(mine) /\ Rising(b)
        /\ \A i \in 1 .. Len(mine) : b[i] = mine[i].id
    BY <2>4, NumbersOf
  <2>8. /\ c \in Seq(X) /\ Len(c) = Len(later) /\ Rising(c)
        /\ \A i \in 1 .. Len(later) : c[i] = later[i].id
    BY <2>6, NumbersOf
  <2> HIDE DEF b, c
  <2>9. ASSUME NEW i \in 1 .. Len(a), NEW j \in 1 .. Len(b) PROVE a[i] < b[j]
    <3>1. PICK k \in 1 .. Len(take) : mine[j] = take[k] /\ take[k].subject = s
      BY <2>4, <2>7 DEF Selected
    <3>2. a[i] < take[k].id
      BY <2>1, <3>1 DEF Sequence
    <3> QED BY <2>7, <3>1, <3>2
  <2>10. Rising(a)
    BY <2>1 DEF Sequence
  <2> HIDE DEF a
  <2>11. Rising(a \o b)
    BY <2>3, <2>7, <2>9, <2>10, RisingConcat
  <2>12. /\ a \o b \in Seq(X) /\ Len(a \o b) = Len(a) + Len(b)
         /\ \A i \in 1 .. Len(a) + Len(b) : (a \o b)[i] = IF i <= Len(a) THEN a[i] ELSE b[i - Len(a)]
    BY <2>3, <2>7, ConcatProperties
  <2>13. Len(a) \in Nat /\ Len(b) \in Nat
    BY <2>3, <2>7
  <2>14. \A i \in 1 .. Len(a) : a[i] <= gone
    <3>1. ASSUME NEW i \in 1 .. Len(a) PROVE a[i] \in 1 .. gone
      <4>1. a[i] \in PublishedIds
        BY <2>3 DEF PublishedIds, a
      <4> QED BY <2>1, <4>1 DEF Parted
    <3> QED BY <3>1
  <2>15. \A i \in 1 .. Len(b) : b[i] <= gone
    <3>1. ASSUME NEW i \in 1 .. Len(b) PROVE b[i] \in 1 .. gone
      <4>1. PICK k \in 1 .. Len(take) : mine[i] = take[k]
        BY <2>4, <2>7 DEF Selected
      <4>2. b[i] \in Ids(take)
        BY <2>3, <2>7, <4>1 DEF Ids
      <4> QED BY <2>1, <4>2 DEF Parted
    <3> QED BY <3>1
  <2>16. \A j \in 1 .. Len(c) : c[j] > gone
    <3>1. ASSUME NEW j \in 1 .. Len(c) PROVE c[j] > gone
      <4>1. PICK k \in 1 .. Len(pending) : later[j] = pending[k]
        BY <2>6, <2>8 DEF Selected
      <4> QED BY <2>5, <2>8, <4>1
    <3> QED BY <3>1
  <2> HIDE DEF gone
  <2>17. ASSUME NEW i \in 1 .. Len(a \o b), NEW j \in 1 .. Len(c) PROVE (a \o b)[i] < c[j]
    <3>1. (a \o b)[i] <= gone
      <4>1. CASE i <= Len(a)
        BY <2>12, <2>13, <2>14, <4>1
      <4>2. CASE ~(i <= Len(a))
        <5>1. i - Len(a) \in 1 .. Len(b)
          BY <2>12, <2>13, <4>2
        <5> QED BY <2>12, <2>15, <4>2, <5>1
      <4> QED BY <4>1, <4>2
    <3>2. (a \o b)[i] \in Int /\ c[j] \in Int
      <4>1. (a \o b)[i] \in X
        BY <2>12, ElementOfSeq
      <4>2. c[j] \in X
        BY <2>8, ElementOfSeq
      <4> QED BY <2>3, <4>1, <4>2
    <3> QED BY <2>2, <2>16, <3>1, <3>2
  <2>18. Rising((a \o b) \o c)
    BY <2>3, <2>8, <2>11, <2>12, <2>17, RisingConcat
  <2> QED BY <2>18 DEF a, b, c, mine, later
<1>2. Inv => SubjectOrder
  BY <1>1 DEF SubjectOrder
<1> QED BY <1>2, Invariant, PTL

=============================================================================
