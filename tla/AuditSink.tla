------------------------------ MODULE AuditSink ------------------------------
(***************************************************************************)
(* The audit sink (internal/audit/sink.go): workers Add events under a     *)
(* mutex, one goroutine takes them in batches and publishes each batch     *)
(* grouped by subject, Close flushes what is left.                         *)
(*                                                                         *)
(* An event is its number in the order of Add with its subject. How many   *)
(* bytes it has is not modelled: an Add below maxItems may or may not      *)
(* reach maxSize and wake the loop.                                        *)
(***************************************************************************)
EXTENDS Integers, Sequences, FiniteSets, Selection

CONSTANTS
    Subjects,
    maxItems, maxPending,
    MaxEvents   \* bound: calls of Add

ASSUME SinkAssumption ==
    maxItems \in Nat \ {0} /\ maxPending \in Nat \ {0} /\ MaxEvents \in Nat

VARIABLES
    pending,   \* s.pending
    dropped,   \* events cut off at maxPending (the code keeps their number)
    added,     \* number of events so far
    wake,      \* the buffered channel s.wake holds a token
    loop,      \* where the goroutine of loop is
    take,      \* the events of the batch flush has in hand
    out,       \* out[s]: numbers of the events published on subject s, in order
    main,      \* "run", "closing" after close(s.stop), "closed" after Close
    mark       \* number of events added when Close began

vars == <<pending, dropped, added, wake, loop, take, out, main, mark>>

Ids(s) == {s[i].id : i \in DOMAIN s}

Init ==
    /\ pending = <<>> /\ dropped = {} /\ added = 0
    /\ wake = FALSE /\ loop = "select" /\ take = <<>>
    /\ out = [s \in Subjects |-> <<>>]
    /\ main = "run" /\ mark = 0

\* Defect: the limit is off by one.
cutPending_late(s) ==
    IF Len(s) > maxPending + 1 THEN SubSeq(s, Len(s) - maxPending, Len(s)) ELSE s

\* The oldest events go when pending is longer than maxPending.
cutPending(s) ==
    IF Len(s) > maxPending THEN SubSeq(s, Len(s) - maxPending + 1, Len(s)) ELSE s

Add(s) ==
    /\ added < MaxEvents
    /\ added' = added + 1
    /\ LET grown == Append(pending, [id |-> added + 1, subject |-> s]) IN
       /\ pending' = cutPending(grown)
       /\ dropped' = dropped \cup (Ids(grown) \ Ids(pending'))
    /\ \/ wake' = TRUE
       \/ Len(pending') < maxItems /\ UNCHANGED wake
    /\ UNCHANGED <<loop, take, out, main, mark>>

\* Defect: the loop returns on stop without a flush.
selectStop_no_flush ==
    /\ loop = "select" /\ main = "closing"
    /\ loop' = "done"
    /\ UNCHANGED <<pending, dropped, added, wake, take, out, main, mark>>

\* The three cases of the select of loop.
selectStop ==
    /\ loop = "select" /\ main = "closing"
    /\ loop' = "last"
    /\ UNCHANGED <<pending, dropped, added, wake, take, out, main, mark>>

selectWake ==
    /\ loop = "select" /\ wake
    /\ wake' = FALSE
    /\ loop' = "flush"
    /\ UNCHANGED <<pending, dropped, added, take, out, main, mark>>

selectTick ==
    /\ loop = "select"
    /\ loop' = "flush"
    /\ UNCHANGED <<pending, dropped, added, wake, take, out, main, mark>>

batchLen == IF Len(pending) > maxItems THEN maxItems ELSE Len(pending)

\* Defect: the batch stays in pending.
flushTake_keeps ==
    /\ loop \in {"flush", "last"} /\ take = <<>> /\ pending # <<>>
    /\ take' = SubSeq(pending, 1, batchLen)
    /\ UNCHANGED <<pending, dropped, added, wake, loop, out, main, mark>>

\* Defect: flush waits for a whole batch.
flushTake_whole ==
    /\ loop \in {"flush", "last"} /\ take = <<>> /\ Len(pending) >= maxItems
    /\ take' = SubSeq(pending, 1, batchLen)
    /\ pending' = SubSeq(pending, batchLen + 1, Len(pending))
    /\ UNCHANGED <<dropped, added, wake, loop, out, main, mark>>

\* One turn of flush: a batch of the oldest events.
flushTake ==
    /\ loop \in {"flush", "last"} /\ take = <<>> /\ pending # <<>>
    /\ take' = SubSeq(pending, 1, batchLen)
    /\ pending' = SubSeq(pending, batchLen + 1, Len(pending))
    /\ UNCHANGED <<dropped, added, wake, loop, out, main, mark>>

flushReturn ==
    /\ loop \in {"flush", "last"} /\ take = <<>> /\ pending = <<>>
    /\ loop' = IF loop = "last" THEN "done" ELSE "select"
    /\ UNCHANGED <<pending, dropped, added, wake, take, out, main, mark>>

\* The events of es with a subject in S, in order.
Select(es, S) == SelectAt(es, {i \in DOMAIN es : es[i].subject \in S})

OfSubject(s, es) == Select(es, {s})
NotOfSubject(s, es) == Select(es, Subjects \ {s})
Numbers(es) == [i \in DOMAIN es |-> es[i].id]
Backwards(es) == [i \in DOMAIN es |-> es[Len(es) + 1 - i]]

\* Defect: a group is published newest first.
send_backwards ==
    /\ take # <<>>
    /\ LET s == Head(take).subject IN
       /\ out' = [out EXCEPT ![s] = @ \o Numbers(Backwards(OfSubject(s, take)))]
       /\ take' = NotOfSubject(s, take)
    /\ UNCHANGED <<pending, dropped, added, wake, loop, main, mark>>

\* publish: one message with the events of a subject, subjects in the order of
\* their first event in the batch.
send ==
    /\ take # <<>>
    /\ LET s == Head(take).subject IN
       /\ out' = [out EXCEPT ![s] = @ \o Numbers(OfSubject(s, take))]
       /\ take' = NotOfSubject(s, take)
    /\ UNCHANGED <<pending, dropped, added, wake, loop, main, mark>>

Close ==
    /\ main = "run"
    /\ main' = "closing"
    /\ mark' = added
    /\ UNCHANGED <<pending, dropped, added, wake, loop, take, out>>

closeReturn ==
    /\ main = "closing" /\ loop = "done"
    /\ main' = "closed"
    /\ UNCHANGED <<pending, dropped, added, wake, loop, take, out, mark>>

Terminated == main = "closed" /\ added = MaxEvents /\ UNCHANGED vars

LoopStep == selectStop \/ selectWake \/ selectTick \/ flushTake \/ flushReturn \/ send

Next == (\E s \in Subjects : Add(s)) \/ LoopStep \/ Close \/ closeReturn \/ Terminated

Spec == Init /\ [][Next]_vars

\* The loop runs; a select whose stop case stays ready takes it at last.
FairSpec == Spec /\ WF_vars(LoopStep) /\ SF_vars(selectStop) /\ WF_vars(closeReturn)

-----------------------------------------------------------------------------
(* Properties.                                                             *)

Event == [id : 1 .. MaxEvents, subject : Subjects]
TypeOK ==
    /\ pending \in Seq(Event) /\ Len(pending) <= maxPending
    /\ take \in Seq(Event) /\ Len(take) <= maxItems
    /\ added \in 0 .. MaxEvents /\ mark \in 0 .. added
    /\ dropped \subseteq 1 .. added
    /\ out \in [Subjects -> Seq(1 .. MaxEvents)]
    /\ wake \in BOOLEAN
    /\ loop \in {"select", "flush", "last", "done"}
    /\ main \in {"run", "closing", "closed"}

Rising(s) == \A i, j \in DOMAIN s : i < j => s[i] < s[j]
PublishedIds == UNION {{out[s][i] : i \in DOMAIN out[s]} : s \in Subjects}

\* No event is lost but those counted as dropped, and none is published twice:
\* at any moment an added event is dropped, published, in the batch at hand or
\* pending, whatever Add does while flush publishes. What is given up at
\* maxPending is the oldest: nothing older than a dropped event is pending.
EventsAccounted ==
    /\ PublishedIds \cup dropped \cup Ids(take) \cup Ids(pending) = 1 .. added
    /\ PublishedIds \cap (dropped \cup Ids(take) \cup Ids(pending)) = {}
    /\ dropped \cap (Ids(take) \cup Ids(pending)) = {}
    /\ Ids(take) \cap Ids(pending) = {}
    /\ \A e \in dropped, f \in Ids(pending) : e < f

\* A subject sees its events in the order they were added, although batches
\* are split at maxItems and regrouped by subject.
SubjectOrder ==
    \A s \in Subjects :
        Rising(out[s] \o Numbers(OfSubject(s, take)) \o Numbers(OfSubject(s, pending)))

\* Every event added before Close was called is published or dropped when it
\* returns; events added while it runs may stay behind.
ClosedFlushed ==
    main = "closed" => 1 .. mark \subseteq PublishedIds \cup dropped

\* An event is published or dropped in the end, unless it came after Close.
EventPublished ==
    \A e \in 1 .. MaxEvents :
        e <= added ~> e \in PublishedIds \cup dropped \/ main # "run"
=============================================================================
