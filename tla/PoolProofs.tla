----------------------------- MODULE PoolProofs -----------------------------
(***************************************************************************)
(* Theorems about Pool, for every set of tasks and goroutines, every depth *)
(* and both full policies, and, in the second part, about Shutdown, the    *)
(* process that runs the pool together with the audit sink, for all limits *)
(* of the sink as well.                                                    *)
(***************************************************************************)
EXTENDS Shutdown, FiniteSetTheorems, TLAPS

\* The queue is a finite set, so its length is a number.
LEMMA QueueFinite ==
    ASSUME TypeOK
    PROVE  IsFiniteSet(q) /\ Cardinality(q) \in Nat
  BY FiniteAssumption, FS_Subset, FS_CardinalityType DEF TypeOK

\* fillLocked is a percentage: a part of the depth, times 100, over the depth.
LEMMA Percent ==
    ASSUME NEW c \in Nat, NEW d \in Nat \ {0}, c < d
    PROVE  (c * 100) \div d \in 0 .. 100
<1> DEFINE k == (c * 100) \div d
<1>1. k \in Int /\ d * k <= c * 100 /\ c * 100 < d * k + d
  BY SMT
<1>2. k >= 0
  BY <1>1, SMT
<1>3. k <= 100
  BY <1>1, SMT
<1> QED BY <1>1, <1>2, <1>3

\* The fill of the queue is a percentage.
LEMMA FillInRange ==
    ASSUME TypeOK
    PROVE  fillLocked \in 0 .. 100
  BY QueueFinite, Percent, BoundsAssumption DEF fillLocked, HasRoom

\* What the critical sections that take expired tasks do to the types.
LEMMA TakeTypes ==
    ASSUME TypeOK, NEW th \in Threads, takeExpiredLocked(th)
    PROVE  /\ q' \subseteq q
           /\ dead' \in [Threads -> SUBSET Task]
           /\ \A o \in Threads : o # th => dead'[o] = dead[o]
           /\ waiting' \subseteq waiting
<1>1. Expiring \subseteq Task
  BY DEF Expiring, TypeOK
<1> QED BY <1>1 DEF takeExpiredLocked, TypeOK, Broadcast

\* A turn of the waiting submitter keeps the types.
LEMMA WaitTurnTypes ==
    ASSUME TypeOK, NEW s \in Submitters, waitTurn(s)
    PROVE  /\ q' \subseteq q
           /\ dead' \in [Threads -> SUBSET Task]
           /\ \A o \in Threads : o # s => dead'[o] = dead[o]
           /\ waiting' \subseteq Threads
           /\ pc' = [pc EXCEPT ![s] = "room"]
           /\ UNCHANGED <<pos, Accepted, cur>>
<1>1. s \in Threads
  BY DEF Threads
<1> QED BY <1>1, TakeTypes DEF waitTurn, TypeOK, Wait, Goto

\* Appending a task keeps the types.
LEMMA EnqueueTypes ==
    ASSUME TypeOK, NEW s \in Submitters, enqueueLocked(s), cur[s] \in Task
    PROVE  /\ q' \subseteq Task
           /\ pos' \in [Task -> Nat]
           /\ Accepted' \in Nat
           /\ waiting' \subseteq Threads
           /\ cur' \in [Threads -> Task \cup {NoTask}]
           /\ pc' = [pc EXCEPT ![s] = "idle"]
<1>1. s \in Threads
  BY DEF Threads
<1>2. waiting' \subseteq waiting
  BY DEF enqueueLocked, Signal
<1> QED BY <1>1, <1>2 DEF enqueueLocked, TypeOK

\* pop keeps the types.
LEMMA PopTypes ==
    ASSUME TypeOK, NEW w \in Workers, pop(w)
    PROVE  /\ q' \subseteq q
           /\ dead' \in [Threads -> SUBSET Task]
           /\ \A o \in Threads : o # w => dead'[o] = dead[o]
           /\ waiting' \subseteq Threads
           /\ cur' \in [Threads -> Task \cup {NoTask}]
           /\ pc[w] = "pop"
           /\ \/ UNCHANGED <<pc, cur>>
              \/ pc' = [pc EXCEPT ![w] = "done"] /\ UNCHANGED cur
              \/ \E t \in q : /\ cur' = [cur EXCEPT ![w] = t]
                              /\ pc' = [pc EXCEPT ![w] = "budget"]
           /\ UNCHANGED <<pos, fill, Accepted, left, timedOut, main, arrived,
                          answers, Shed, Expired>>
<1>1. w \in Threads /\ Expiring \subseteq q
  BY DEF Threads, Expiring
<1>2. CASE \E t \in q \ Expiring :
            /\ q' = (q \ Expiring) \ {t}
            /\ cur' = [cur EXCEPT ![w] = t]
            /\ dead' = [dead EXCEPT ![w] = Expiring]
            /\ Broadcast
            /\ Goto(w, "budget")
  <2>1. PICK t \in q \ Expiring :
            /\ q' = (q \ Expiring) \ {t}
            /\ cur' = [cur EXCEPT ![w] = t]
            /\ dead' = [dead EXCEPT ![w] = Expiring]
            /\ waiting' = {}
            /\ pc' = [pc EXCEPT ![w] = "budget"]
    BY <1>2 DEF Broadcast, Goto
  <2>2. t \in Task /\ cur' \in [Threads -> Task \cup {NoTask}]
    BY <1>1, <2>1 DEF TypeOK
  <2>3. /\ dead' \in [Threads -> SUBSET Task] /\ q' \subseteq q
        /\ \A o \in Threads : o # w => dead'[o] = dead[o]
    BY <1>1, <2>1 DEF TypeOK
  <2> QED BY <2>1, <2>2, <2>3 DEF pop
<1>3. CASE takeExpiredLocked(w) /\ Goto(w, "done") /\ UNCHANGED cur
  BY <1>1, <1>3, TakeTypes DEF pop, TypeOK, Goto
<1>4. CASE takeExpiredLocked(w) /\ UNCHANGED <<pc, cur>>
  BY <1>1, <1>4, TakeTypes DEF pop, TypeOK
<1>5. CASE Wait(w) /\ UNCHANGED <<q, dead, pc, cur>>
  BY <1>1, <1>5 DEF pop, TypeOK, Wait
<1> QED BY <1>2, <1>3, <1>4, <1>5 DEF pop

-----------------------------------------------------------------------------
(* Types and control: which labels a goroutine visits, and with a task.    *)

\* The type invariant alone is not inductive: enqueueLocked appends cur[s],
\* which is a task only because of where the submitter is.
TypeControl == TypeOK /\ Control

\* A new pool is typed.
LEMMA InitTypeControl == Init => TypeControl
  BY ThreadsAssumption, BoundsAssumption
  DEF Init, TypeControl, TypeOK, Control, Threads, Floor, Outcomes

\* Every step keeps types and control.
LEMMA TypeControlInductive == TypeControl /\ [Next]_vars => TypeControl'
<1> SUFFICES ASSUME TypeControl, [Next]_vars
             PROVE  TypeControl'
  OBVIOUS
<1> USE ThreadsAssumption, BoundsAssumption
    DEF TypeControl, TypeOK, Control, Threads, Outcomes, Floor,
        queueVars, threadVars, Goto, Answer
<1>1. ASSUME NEW s \in Submitters, NEW t \in Task, NEW d \in Deadlines, Submit(s, t, d)
      PROVE  TypeControl'
  <2>1. TypeOK'
    <3>1. Clip(d - Reserve) \in {x \in Int : x >= Floor}
      BY DEF Clip
    <3>2. left' \in [Task -> {x \in Int : x >= Floor}]
      BY <1>1, <3>1 DEF Submit
    <3> QED BY <1>1, <3>2 DEF Submit
  <2>2. Control'
    BY <1>1 DEF Submit, Clip
  <2> QED BY <2>1, <2>2
<1>2. ASSUME NEW s \in Submitters, Collect(s) PROVE TypeControl'
  BY <1>2 DEF Collect, takeExpiredLocked, Expiring, Broadcast
<1>3. ASSUME NEW s \in Submitters, Admit(s) PROVE TypeControl'
  <2>1. fillLocked \in 0 .. 100
    BY FillInRange
  <2>2. /\ cur[s] \in Task /\ pc[s] = "admit" /\ dead[s] = {}
        /\ UNCHANGED <<left, main, arrived, answers, Shed, Expired>>
        /\ fill' = [fill EXCEPT ![cur[s]] = fillLocked] \/ UNCHANGED fill
        /\ timedOut' = timedOut \ {s} \/ UNCHANGED timedOut
    BY <1>3 DEF Admit
  <2>3. fill' \in [Task -> 0 .. 100] /\ timedOut' \subseteq Submitters
    <3>1. timedOut' \subseteq Submitters
      BY <2>2
    <3>2. CASE UNCHANGED fill
      BY <3>1, <3>2
    <3>3. CASE fill' = [fill EXCEPT ![cur[s]] = fillLocked]
      BY <2>1, <3>1, <3>3
    <3> QED BY <2>2, <3>2, <3>3
  <2>4. CASE enqueueLocked(s) /\ UNCHANGED dead
    <3>1. TypeOK'
      BY <2>2, <2>3, <2>4, EnqueueTypes
    <3>2. Control'
      BY <2>2, <2>4 DEF enqueueLocked
    <3> QED BY <3>1, <3>2
  <2>5. ASSUME NEW label \in {"expire", "shed"}, leaveTo(s, label)
        PROVE  TypeControl'
    <3>1. TypeOK'
      BY <2>2, <2>3, <2>5 DEF leaveTo
    <3>2. Control'
      BY <2>2, <2>5 DEF leaveTo
    <3> QED BY <3>1, <3>2
  <2>6. CASE waitTurn(s)
    <3>1. TypeOK'
      BY <2>2, <2>3, <2>6, WaitTurnTypes
    <3>2. /\ \A o \in Submitters : o # s => dead'[o] = dead[o]
          /\ pc' = [pc EXCEPT ![s] = "room"] /\ UNCHANGED cur
      BY <2>6, WaitTurnTypes
    <3>3. Control'
      BY <2>2, <3>2
    <3> QED BY <3>1, <3>3
  <2> QED BY <1>3, <2>4, <2>5, <2>6 DEF Admit
<1>4. ASSUME NEW s \in Submitters, Room(s) PROVE TypeControl'
  <2>1. /\ cur[s] \in Task /\ pc[s] = "room" /\ dead[s] = {}
        /\ UNCHANGED <<fill, left, timedOut, main, arrived, answers, Shed, Expired>>
    BY <1>4 DEF Room
  <2>2. CASE enqueueLocked(s) /\ UNCHANGED dead
    <3>1. TypeOK'
      BY <2>1, <2>2, EnqueueTypes
    <3>2. Control'
      BY <2>1, <2>2 DEF enqueueLocked
    <3> QED BY <3>1, <3>2
  <2>3. CASE leaveTo(s, "expire")
    BY <2>1, <2>3 DEF leaveTo
  <2>4. CASE waitTurn(s)
    <3>1. TypeOK'
      BY <2>1, <2>4, WaitTurnTypes
    <3>2. /\ \A o \in Submitters : o # s => dead'[o] = dead[o]
          /\ pc' = [pc EXCEPT ![s] = "room"] /\ UNCHANGED cur
      BY <2>4, WaitTurnTypes
    <3>3. Control'
      BY <2>1, <3>2
    <3> QED BY <3>1, <3>3
  <2> QED BY <1>4, <2>2, <2>3, <2>4 DEF Room
<1>5. ASSUME NEW s \in Submitters, TimerFire(s) PROVE TypeControl'
  BY <1>5 DEF TimerFire, Broadcast
<1>6. ASSUME NEW s \in Submitters, expire(s) PROVE TypeControl'
  BY <1>6 DEF expire, release
<1>7. ASSUME NEW s \in Submitters, shedLimit(s) PROVE TypeControl'
  BY <1>7 DEF shedLimit, release
<1>8. ASSUME NEW w \in Workers, pop(w) PROVE TypeControl'
  <2>1. TypeOK'
    <3>1. /\ q' \subseteq q /\ waiting' \subseteq Threads
          /\ dead' \in [Threads -> SUBSET Task]
          /\ cur' \in [Threads -> Task \cup {NoTask}]
          /\ UNCHANGED <<pos, fill, Accepted, left, timedOut, main, arrived,
                         answers, Shed, Expired>>
      BY <1>8, PopTypes
    <3>2. pc' \in {pc, [pc EXCEPT ![w] = "done"], [pc EXCEPT ![w] = "budget"]}
      BY <1>8, PopTypes
    <3> QED BY <3>1, <3>2
  <2>2. Control'
    <3>0. \A s \in Submitters : dead'[s] = dead[s]
      BY <1>8, PopTypes
    <3>1. CASE UNCHANGED <<pc, cur>>
      BY <3>0, <3>1
    <3>2. CASE pc' = [pc EXCEPT ![w] = "done"] /\ UNCHANGED cur
      BY <1>8, <3>0, <3>2, PopTypes
    <3>3. ASSUME NEW t \in q, cur' = [cur EXCEPT ![w] = t], pc' = [pc EXCEPT ![w] = "budget"]
          PROVE  Control'
      BY <3>0, <3>3
    <3> QED BY <1>8, <3>1, <3>2, <3>3, PopTypes
  <2> QED BY <2>1, <2>2
<1>9. ASSUME NEW w \in Workers, budget(w) PROVE TypeControl'
  <2>1. TypeOK'
    <3>1. Expired' \in Nat /\ pc' \in {[pc EXCEPT ![w] = "refuse"], [pc EXCEPT ![w] = "serve"]}
      BY <1>9 DEF budget
    <3> QED BY <1>9, <3>1 DEF budget
  <2>2. Control'
    <3>1. /\ pc[w] = "budget" /\ UNCHANGED <<cur, dead>>
          /\ pc' \in {[pc EXCEPT ![w] = "refuse"], [pc EXCEPT ![w] = "serve"]}
      BY <1>9 DEF budget
    <3>2. w \in Threads /\ w \notin Submitters /\ w # Sweeper
      OBVIOUS
    <3>3. \A o \in Threads : o # w => pc'[o] = pc[o]
      BY <3>1
    <3>4. pc'[w] \in {"refuse", "serve"}
      BY <3>1, <3>2
    <3> QED BY <3>1, <3>2, <3>3, <3>4
  <2> QED BY <2>1, <2>2
<1>10. ASSUME NEW w \in Workers, handle(w) PROVE TypeControl'
  BY <1>10 DEF handle, release
<1>11. ASSUME NEW th \in Threads, replyDead(th) PROVE TypeControl'
  <2>1. TypeOK'
    <3>1. PICK t \in dead[th] :
            /\ dead' = [dead EXCEPT ![th] = @ \ {t}]
            /\ answers' = [answers EXCEPT ![t] = Append(@, "deadline")]
      BY <1>11 DEF replyDead
    <3>2. t \in Task /\ dead' \in [Threads -> SUBSET Task]
      BY <3>1
    <3>3. answers' \in [Task -> Seq(Outcomes)]
      BY <3>1, <3>2
    <3>4. Expired' = Expired + 1 /\ UNCHANGED <<q, pos, fill, Accepted, pc, cur, left, waiting,
                                                 timedOut, main, arrived, Shed>>
      BY <1>11 DEF replyDead
    <3> QED BY <3>2, <3>3, <3>4
  <2>2. Control'
    BY <1>11 DEF replyDead
  <2> QED BY <2>1, <2>2
<1>12. ASSUME sweep PROVE TypeControl'
  BY <1>12 DEF sweep, takeExpiredLocked, Expiring, Broadcast
<1>13. ASSUME sweepReturn PROVE TypeControl'
  BY <1>13 DEF sweepReturn
<1>14. ASSUME closeStop \/ closeMark \/ closeReturn PROVE TypeControl'
  BY <1>14 DEF closeStop, closeMark, closeReturn, Broadcast
<1>15. ASSUME Tick PROVE TypeControl'
  BY <1>15 DEF Tick
<1>16. ASSUME UNCHANGED vars PROVE TypeControl'
  BY <1>16 DEF vars
<1> QED
  BY <1>1, <1>2, <1>3, <1>4, <1>5, <1>6, <1>7, <1>8, <1>9, <1>10, <1>11,
     <1>12, <1>13, <1>14, <1>15, <1>16
  DEF Next, SubmitterStep, WorkerStep, SweeperStep, CloseStep, Terminated

\* The variables of the pool keep their types in every behaviour.
THEOREM TypeCorrect == Spec => []TypeOK
<1>1. TypeControl => TypeOK
  BY DEF TypeControl
<1> QED BY InitTypeControl, TypeControlInductive, <1>1, PTL DEF Spec

-----------------------------------------------------------------------------
(* Custody: a task moves from one holder to the next until it is answered. *)

Custody == TypeControl /\ AnsweredOnce /\ SoleHolder

\* A new pool holds nothing.
LEMMA InitCustody == Init => Custody
<1> SUFFICES ASSUME Init PROVE Custody
  OBVIOUS
<1>1. AnsweredOnce
  BY ThreadsAssumption DEF Init, AnsweredOnce, Held, Unanswered
<1>2. SoleHolder
  BY ThreadsAssumption DEF Init, SoleHolder
<1> QED BY <1>1, <1>2, InitTypeControl DEF Custody

\* The three ways a step treats the holders of a task. First: expired tasks go
\* from the queue to the hands of one goroutine, which held none.
LEMMA TakeCustody ==
    ASSUME Custody, NEW th \in Threads, NEW D \in SUBSET q, dead[th] = {},
           q' = q \ D, dead' = [dead EXCEPT ![th] = D],
           UNCHANGED <<cur, arrived, answers>>
    PROVE  AnsweredOnce' /\ SoleHolder'
<1> USE DEF Custody, TypeControl, TypeOK, AnsweredOnce, SoleHolder, Held, Unanswered
<1>1. AnsweredOnce'
  OBVIOUS
<1>2. SoleHolder'
  OBVIOUS
<1> QED BY <1>1, <1>2

\* Second: the task a goroutine holds is answered and let go.
LEMMA AnswerCustody ==
    ASSUME Custody, NEW th \in Threads, cur[th] # NoTask, NEW o \in Outcomes,
           answers' = [answers EXCEPT ![cur[th]] = Append(@, o)],
           cur' = [cur EXCEPT ![th] = NoTask],
           UNCHANGED <<q, dead, arrived>>
    PROVE  AnsweredOnce' /\ SoleHolder'
<1> USE ThreadsAssumption
    DEF Custody, TypeControl, TypeOK, AnsweredOnce, SoleHolder, Held, Unanswered
<1>1. cur[th] \in Task /\ answers[cur[th]] = <<>>
  OBVIOUS
<1>2. answers' = [answers EXCEPT ![cur[th]] = <<o>>]
  BY <1>1
<1>3. AnsweredOnce'
  BY <1>1, <1>2
<1>4. SoleHolder'
  OBVIOUS
<1> QED BY <1>3, <1>4

\* Third: a submitter appends the task it holds.
LEMMA EnqueueCustody ==
    ASSUME Custody, NEW s \in Threads, cur[s] # NoTask,
           q' = q \cup {cur[s]}, cur' = [cur EXCEPT ![s] = NoTask],
           UNCHANGED <<dead, arrived, answers>>
    PROVE  AnsweredOnce' /\ SoleHolder'
<1> USE ThreadsAssumption
    DEF Custody, TypeControl, TypeOK, AnsweredOnce, SoleHolder, Held, Unanswered
<1>1. ASSUME NEW t \in Task PROVE Held(t)' <=> Held(t)
  OBVIOUS
<1>2. AnsweredOnce'
  BY <1>1
<1>3. SoleHolder'
  OBVIOUS
<1> QED BY <1>2, <1>3

\* A step that moves no task keeps the custody.
LEMMA SameCustody ==
    ASSUME Custody, UNCHANGED <<q, cur, dead, arrived, answers>>
    PROVE  AnsweredOnce' /\ SoleHolder'
  BY DEF Custody, AnsweredOnce, SoleHolder, Held, Unanswered

\* Every step keeps the custody.
LEMMA CustodyInductive == Custody /\ [Next]_vars => Custody'
<1> SUFFICES ASSUME Custody, [Next]_vars
             PROVE  AnsweredOnce' /\ SoleHolder'
  BY TypeControlInductive DEF Custody
<1> DEFINE Kept == AnsweredOnce' /\ SoleHolder'
<1>0. /\ Submitters \subseteq Threads /\ Workers \subseteq Threads /\ Sweeper \in Threads
      /\ Expiring \in SUBSET q
  BY DEF Threads, Expiring
<1> USE ThreadsAssumption DEF queueVars, threadVars
<1>1. ASSUME NEW s \in Submitters, NEW t \in Task, NEW d \in Deadlines, Submit(s, t, d)
      PROVE  Kept
  <2> USE <1>0, <1>1
      DEF Submit, Custody, TypeControl, TypeOK, Control, AnsweredOnce, SoleHolder,
          Held, Unanswered
  <2>1. cur[s] = NoTask /\ ~Held(t)
    OBVIOUS
  <2>2. answers[t] = <<>>
    OBVIOUS
  <2>3. AnsweredOnce'
    BY <2>1, <2>2
  <2>4. SoleHolder'
    BY <2>1
  <2> QED BY <2>3, <2>4
<1>2. ASSUME NEW s \in Submitters, Collect(s) PROVE Kept
  <2>1. dead[s] = {}
    BY <1>2 DEF Collect, Custody, TypeControl, Control
  <2> QED BY <1>0, <1>2, <2>1, TakeCustody DEF Collect, takeExpiredLocked
<1>3. ASSUME NEW s \in Submitters, waitTurn(s), dead[s] = {},
             UNCHANGED <<arrived, answers>>
      PROVE  Kept
  BY <1>0, <1>3, TakeCustody, SameCustody DEF waitTurn, takeExpiredLocked
<1>4. ASSUME NEW s \in Submitters, cur[s] # NoTask, enqueueLocked(s),
             UNCHANGED <<dead, arrived, answers>>
      PROVE  Kept
  BY <1>0, <1>4, EnqueueCustody DEF enqueueLocked
<1>5. ASSUME NEW s \in Submitters, NEW label, leaveTo(s, label), UNCHANGED <<arrived, answers>>
      PROVE  Kept
  BY <1>5, SameCustody DEF leaveTo
<1>6. ASSUME NEW s \in Submitters, Admit(s) PROVE Kept
  <2>1. cur[s] # NoTask /\ dead[s] = {} /\ UNCHANGED <<arrived, answers>>
    BY <1>6 DEF Admit, Custody, TypeControl, Control
  <2> QED BY <1>3, <1>4, <1>5, <1>6, <2>1 DEF Admit
<1>7. ASSUME NEW s \in Submitters, Room(s) PROVE Kept
  <2>1. cur[s] # NoTask /\ dead[s] = {} /\ UNCHANGED <<arrived, answers>>
    BY <1>7 DEF Room, Custody, TypeControl, Control
  <2> QED BY <1>3, <1>4, <1>5, <1>7, <2>1 DEF Room
<1>8. ASSUME NEW s \in Submitters, TimerFire(s) PROVE Kept
  BY <1>8, SameCustody DEF TimerFire
<1>9. ASSUME NEW s \in Submitters, expire(s) \/ shedLimit(s) PROVE Kept
  <2>1. cur[s] # NoTask
    BY <1>9 DEF expire, shedLimit, Custody, TypeControl, Control
  <2> QED BY <1>0, <1>9, <2>1, AnswerCustody DEF expire, shedLimit, release, Answer, Outcomes
<1>10. ASSUME NEW w \in Workers, pop(w) PROVE Kept
  <2>1. dead[w] = {} /\ cur[w] = NoTask /\ UNCHANGED <<arrived, answers>>
    BY <1>10 DEF pop, Custody, TypeControl, Control
  <2>2. ASSUME NEW t \in q \ Expiring, q' = (q \ Expiring) \ {t},
               cur' = [cur EXCEPT ![w] = t], dead' = [dead EXCEPT ![w] = Expiring]
        PROVE  Kept
    <3> USE <1>0, <2>1, <2>2
        DEF Custody, TypeControl, TypeOK, AnsweredOnce, SoleHolder, Held, Unanswered
    <3>1. ASSUME NEW u \in Task PROVE Held(u)' <=> Held(u)
      OBVIOUS
    <3>2. AnsweredOnce'
      BY <3>1
    <3>3. SoleHolder'
      OBVIOUS
    <3> QED BY <3>2, <3>3
  <2>3. CASE takeExpiredLocked(w) /\ UNCHANGED cur
    BY <1>0, <2>1, <2>3, TakeCustody DEF takeExpiredLocked
  <2>4. CASE UNCHANGED <<q, dead, cur>>
    BY <2>1, <2>4, SameCustody
  <2> QED BY <1>10, <2>2, <2>3, <2>4 DEF pop
<1>11. ASSUME NEW w \in Workers, budget(w) PROVE Kept
  BY <1>11, SameCustody DEF budget
<1>12. ASSUME NEW w \in Workers, handle(w) PROVE Kept
  <2>1. cur[w] # NoTask
    BY <1>12 DEF handle, Custody, TypeControl, Control
  <2> QED BY <1>0, <1>12, <2>1, AnswerCustody DEF handle, release, Answer, Outcomes
<1>13. ASSUME NEW th \in Threads, replyDead(th) PROVE Kept
  <2> USE DEF Custody, TypeControl, TypeOK, AnsweredOnce, SoleHolder, Held, Unanswered
  <2>1. PICK t \in dead[th] :
          /\ dead' = [dead EXCEPT ![th] = @ \ {t}]
          /\ answers' = [answers EXCEPT ![t] = Append(@, "deadline")]
          /\ UNCHANGED <<q, cur, arrived>>
    BY <1>13 DEF replyDead, Answer
  <2>2. t \in Task /\ answers[t] = <<>>
    BY <2>1
  <2>3. answers' = [answers EXCEPT ![t] = <<"deadline">>]
    BY <2>1, <2>2
  <2>4. AnsweredOnce'
    BY <2>1, <2>2, <2>3
  <2>5. SoleHolder'
    BY <2>1
  <2> QED BY <2>4, <2>5
<1>14. ASSUME sweep PROVE Kept
  BY <1>0, <1>14, TakeCustody DEF sweep, takeExpiredLocked
<1>15. ASSUME sweepReturn \/ closeStop \/ closeMark \/ closeReturn \/ Tick PROVE Kept
  BY <1>15, SameCustody DEF sweepReturn, closeStop, closeMark, closeReturn, Tick
<1>16. ASSUME UNCHANGED vars PROVE Kept
  BY <1>16, SameCustody DEF vars
<1> QED
  BY <1>1, <1>2, <1>6, <1>7, <1>8, <1>9, <1>10, <1>11, <1>12, <1>13, <1>14,
     <1>15, <1>16
  DEF Next, SubmitterStep, WorkerStep, SweeperStep, CloseStep, Terminated

\* No task is lost and none is answered twice, whatever the interleaving.
THEOREM NoTaskLostOrAnsweredTwice == Spec => []AnsweredOnce
<1>1. Custody => AnsweredOnce
  BY DEF Custody
<1> QED BY InitCustody, CustodyInductive, <1>1, PTL DEF Spec

\* No two goroutines, and no goroutine and the queue, hold the same task.
THEOREM OneHolder == Spec => []SoleHolder
<1>1. Custody => SoleHolder
  BY DEF Custody
<1> QED BY InitCustody, CustodyInductive, <1>1, PTL DEF Spec

-----------------------------------------------------------------------------
(* Sleeping and waking on the one condition variable.                      *)

\* The sweeper never sleeps, so the sleeper a Signal finds is a worker or a
\* submitter; of these only workers sleep while there is room.
Waking == Custody /\ DepthBound /\ NoLostWakeup /\ Sweeper \notin waiting

\* In a new pool nobody sleeps.
LEMMA InitWaking == Init => Waking
<1> SUFFICES ASSUME Init PROVE Waking
  OBVIOUS
<1>1. Cardinality(q) = 0
  BY FS_EmptySet DEF Init
<1> QED BY <1>1, InitCustody, BoundsAssumption DEF Init, Waking, DepthBound, NoLostWakeup

\* The woken workers that go for a task are a finite set.
LEMMA AwakeFinite ==
    /\ IsFiniteSet(AwakePoppers) /\ Cardinality(AwakePoppers) \in Nat
    /\ IsFiniteSet(AwakePoppers') /\ Cardinality(AwakePoppers') \in Nat
<1>1. AwakePoppers \subseteq Workers /\ AwakePoppers' \subseteq Workers
  BY DEF AwakePoppers
<1> QED BY <1>1, FiniteAssumption, FS_Subset, FS_CardinalityType

\* A step that wakes everybody leaves nobody to be forgotten.
LEMMA BroadcastWakes ==
    ASSUME Waking, Broadcast, q' \subseteq q
    PROVE  DepthBound' /\ NoLostWakeup' /\ Sweeper \notin waiting'
<1>1. IsFiniteSet(q) /\ Cardinality(q) \in Nat
  BY QueueFinite DEF Waking, Custody, TypeControl
<1>2. Cardinality(q') \in Nat /\ Cardinality(q') <= Cardinality(q)
  BY <1>1, FS_Subset, FS_CardinalityType
<1> QED BY <1>1, <1>2, BoundsAssumption
  DEF Waking, Broadcast, DepthBound, NoLostWakeup

\* A step that leaves the queue and the sleepers alone, and takes no woken
\* worker away, forgets nobody.
LEMMA QuietStep ==
    ASSUME Waking, UNCHANGED <<q, waiting, closed>>, timedOut' \subseteq timedOut,
           \A th \in waiting : pc'[th] = pc[th],
           AwakePoppers \subseteq AwakePoppers'
    PROVE  DepthBound' /\ NoLostWakeup' /\ Sweeper \notin waiting'
<1>1. Cardinality(AwakePoppers) <= Cardinality(AwakePoppers')
  BY AwakeFinite, FS_Subset
<1>2. Cardinality(q) \in Nat
  BY QueueFinite DEF Waking, Custody, TypeControl
<1>3. ASSUME NEW w \in waiting' \cap Workers
      PROVE  ~closed' /\ pc'[w] = "pop" /\ Cardinality(q') <= Cardinality(AwakePoppers')
  BY <1>1, <1>2, <1>3, AwakeFinite DEF Waking, NoLostWakeup
<1>4. ASSUME NEW s \in waiting' \cap Submitters
      PROVE  ~closed' /\ pc'[s] = "room" /\ ~HasRoom' /\ s \notin timedOut'
  BY <1>4 DEF Waking, NoLostWakeup, HasRoom
<1> QED BY <1>3, <1>4 DEF Waking, DepthBound, NoLostWakeup

\* The Signal of enqueueLocked always finds a worker if one sleeps.
LEMMA EnqueueWakes ==
    ASSUME Waking, NEW s \in Submitters, cur[s] # NoTask, HasRoom, ~closed,
           enqueueLocked(s), UNCHANGED <<main, timedOut>>
    PROVE  DepthBound' /\ NoLostWakeup' /\ Sweeper \notin waiting'
<1> USE DEF Waking
<1>1. IsFiniteSet(q) /\ Cardinality(q) \in Nat
  BY QueueFinite DEF Custody, TypeControl
<1>2. s \in Threads /\ cur[s] \notin q
  BY DEF Threads, Custody, SoleHolder
<1>3. Cardinality(q') = Cardinality(q) + 1
  BY <1>1, <1>2, FS_AddElement DEF enqueueLocked
<1>4. DepthBound'
  BY <1>1, <1>3, BoundsAssumption DEF DepthBound, HasRoom
<1>5. waiting \subseteq Workers
  BY DEF NoLostWakeup, Custody, TypeControl, TypeOK, Threads
<1>6. CASE waiting = {}
  BY <1>4, <1>6 DEF enqueueLocked, Signal, NoLostWakeup
<1>7. CASE waiting # {}
  <2>1. PICK w \in waiting : waiting' = waiting \ {w}
    BY <1>7 DEF enqueueLocked, Signal
  <2>2. w \in Workers /\ pc[w] = "pop" /\ Cardinality(q) <= Cardinality(AwakePoppers)
    BY <1>5, <2>1 DEF NoLostWakeup
  <2>3. \A v \in Workers : pc'[v] = pc[v]
    BY ThreadsAssumption DEF enqueueLocked, Goto, Custody, TypeControl, TypeOK, Threads
  <2>4. AwakePoppers' = AwakePoppers \cup {w} /\ w \notin AwakePoppers
    BY <2>1, <2>2, <2>3 DEF AwakePoppers
  <2>5. Cardinality(AwakePoppers') = Cardinality(AwakePoppers) + 1
    BY <2>4, AwakeFinite, FS_AddElement
  <2>6. ASSUME NEW v \in waiting' \cap Workers
        PROVE  ~closed' /\ pc'[v] = "pop" /\ Cardinality(q') <= Cardinality(AwakePoppers')
    BY <1>1, <1>3, <2>1, <2>2, <2>3, <2>5, AwakeFinite DEF NoLostWakeup, closed
  <2>7. waiting' \cap Submitters = {}
    BY <1>5, <2>1, ThreadsAssumption
  <2> QED BY <1>4, <2>1, <2>6, <2>7 DEF NoLostWakeup
<1> QED BY <1>6, <1>7

\* Every step keeps the counting of woken workers.
LEMMA WakingInductive == Waking /\ [Next]_vars => Waking'
<1> SUFFICES ASSUME Waking, [Next]_vars
             PROVE  DepthBound' /\ NoLostWakeup' /\ Sweeper \notin waiting'
  BY CustodyInductive DEF Waking
<1> DEFINE Kept == DepthBound' /\ NoLostWakeup' /\ Sweeper \notin waiting'
<1>0. /\ TypeOK /\ Control
      /\ Submitters \subseteq Threads /\ Workers \subseteq Threads /\ Sweeper \in Threads
      /\ \A th \in waiting : \/ th \in Submitters /\ pc[th] = "room"
                             \/ th \in Workers /\ pc[th] = "pop"
      /\ closed => waiting = {}
      /\ IsFiniteSet(q) /\ Cardinality(q) \in Nat
  <2>1. TypeOK /\ Control
    BY DEF Waking, Custody, TypeControl
  <2>2. waiting \subseteq Submitters \cup Workers
    BY <2>1 DEF Waking, TypeOK, Threads
  <2>3. \A th \in waiting : \/ th \in Submitters /\ pc[th] = "room"
                            \/ th \in Workers /\ pc[th] = "pop"
    BY <2>2 DEF Waking, NoLostWakeup
  <2>4. closed => waiting = {}
    BY <2>2 DEF Waking, NoLostWakeup
  <2>5. Submitters \subseteq Threads /\ Workers \subseteq Threads /\ Sweeper \in Threads
    BY DEF Threads
  <2>6. IsFiniteSet(q) /\ Cardinality(q) \in Nat
    BY <2>1, QueueFinite
  <2> QED BY <2>1, <2>3, <2>4, <2>5, <2>6
<1> USE ThreadsAssumption DEF queueVars, threadVars, Goto
\* A submitter that is awake changes its own label only.
<1>1. ASSUME NEW s \in Submitters, s \notin waiting, NEW label,
             pc' = [pc EXCEPT ![s] = label],
             UNCHANGED <<q, waiting, main>>, timedOut' \subseteq timedOut
      PROVE  Kept
  <2>1. AwakePoppers' = AwakePoppers
    BY <1>0, <1>1 DEF AwakePoppers, TypeOK
  <2>2. \A th \in waiting : pc'[th] = pc[th]
    BY <1>0, <1>1 DEF TypeOK
  <2> QED BY <1>1, <2>1, <2>2, QuietStep DEF closed
\* Taking expired tasks wakes everybody if it takes any.
<1>2. ASSUME NEW th \in Threads, takeExpiredLocked(th), Expiring # {} PROVE Kept
  BY <1>2, BroadcastWakes DEF takeExpiredLocked
<1>3. ASSUME NEW th \in Threads, takeExpiredLocked(th), Expiring = {}
      PROVE  UNCHANGED <<q, waiting>>
  BY <1>3 DEF takeExpiredLocked
<1>4. ASSUME NEW s \in Submitters, NEW t \in Task, NEW d \in Deadlines, Submit(s, t, d)
      PROVE  Kept
  BY <1>0, <1>1, <1>4 DEF Submit
<1>5. ASSUME NEW s \in Submitters, Collect(s) PROVE Kept
  BY <1>0, <1>1, <1>2, <1>3, <1>5 DEF Collect
<1>6. ASSUME NEW s \in Submitters, s \notin waiting, waitTurn(s), ~closed, ~HasRoom,
             s \notin timedOut', timedOut' \subseteq timedOut, UNCHANGED main
      PROVE  Kept
  <2>1. CASE Expiring # {}
    BY <1>0, <1>2, <1>6, <2>1 DEF waitTurn
  <2>2. CASE Expiring = {}
    <3>1. waiting' = waiting \cup {s} /\ UNCHANGED q /\ pc' = [pc EXCEPT ![s] = "room"]
      BY <1>6, <2>2 DEF waitTurn, Wait
    <3>2. AwakePoppers' = AwakePoppers
      BY <1>0, <3>1 DEF AwakePoppers, TypeOK
    <3>3. /\ UNCHANGED <<closed, HasRoom>>
          /\ \A th \in waiting : pc'[th] = pc[th]
          /\ pc'[s] = "room"
      BY <1>0, <1>6, <3>1 DEF closed, HasRoom, TypeOK
    <3> QED BY <1>0, <1>6, <3>1, <3>2, <3>3 DEF Waking, NoLostWakeup, DepthBound
  <2> QED BY <2>1, <2>2
<1>7. ASSUME NEW s \in Submitters, Admit(s) PROVE Kept
  <2>1. s \notin waiting /\ cur[s] # NoTask /\ UNCHANGED main
    BY <1>0, <1>7 DEF Admit, Control
  <2>2. CASE ~closed /\ HasRoom /\ enqueueLocked(s) /\ UNCHANGED timedOut
    BY <2>1, <2>2, EnqueueWakes
  <2>3. ASSUME NEW label, leaveTo(s, label), UNCHANGED timedOut PROVE Kept
    BY <1>1, <2>1, <2>3 DEF leaveTo
  <2>4. CASE ~closed /\ ~HasRoom /\ timedOut' = timedOut \ {s} /\ waitTurn(s)
    BY <1>6, <2>1, <2>4
  <2> QED BY <1>7, <2>2, <2>3, <2>4 DEF Admit
<1>8. ASSUME NEW s \in Submitters, Room(s) PROVE Kept
  <2>1. s \notin waiting /\ cur[s] # NoTask /\ UNCHANGED <<main, timedOut>>
    BY <1>0, <1>8 DEF Room, Control
  <2>2. CASE ~closed /\ HasRoom /\ enqueueLocked(s)
    BY <2>1, <2>2, EnqueueWakes
  <2>3. CASE leaveTo(s, "expire")
    BY <1>1, <2>1, <2>3 DEF leaveTo
  <2>4. CASE ~closed /\ ~HasRoom /\ s \notin timedOut /\ waitTurn(s)
    BY <1>6, <2>1, <2>4
  <2> QED BY <1>8, <2>2, <2>3, <2>4 DEF Room
<1>9. ASSUME NEW s \in Submitters, TimerFire(s) PROVE Kept
  BY <1>9, BroadcastWakes DEF TimerFire
<1>10. ASSUME NEW s \in Submitters, expire(s) \/ shedLimit(s) PROVE Kept
  <2>1. s \notin waiting
    BY <1>0, <1>10 DEF expire, shedLimit
  <2> QED BY <1>1, <1>10, <2>1 DEF expire, shedLimit, release
<1>11. ASSUME NEW w \in Workers, pop(w) PROVE Kept
  <2>1. CASE Broadcast /\ q' \subseteq q
    BY <2>1, BroadcastWakes
  <2>2. CASE takeExpiredLocked(w) /\ closed
    BY <1>0, <2>2, BroadcastWakes DEF takeExpiredLocked, Broadcast
  <2>3. CASE takeExpiredLocked(w) /\ Expiring # {}
    BY <1>0, <1>2, <2>3
  <2>4. CASE q \ Expiring = {} /\ ~closed /\ Expiring = {} /\ Wait(w) /\ UNCHANGED <<q, dead, pc, cur>>
    <3>1. q = {} /\ q' = {} /\ waiting' = waiting \cup {w} /\ UNCHANGED <<pc, main>>
      BY <1>11, <2>4 DEF Wait, pop
    <3>2. Cardinality(q) = 0 /\ Cardinality(q') = 0
      BY <3>1, FS_EmptySet
    <3>3. waiting \cap Submitters = {}
      BY <3>2, BoundsAssumption DEF Waking, NoLostWakeup, HasRoom
    <3>4. \A v \in waiting' \cap Workers : ~closed' /\ pc'[v] = "pop"
      BY <1>0, <1>11, <2>4, <3>1 DEF closed, pop
    <3>5. Cardinality(q') <= Cardinality(AwakePoppers')
      BY <3>2, AwakeFinite
    <3>6. waiting' \cap Submitters = {} /\ Sweeper \notin waiting'
      BY <3>1, <3>3 DEF Waking
    <3> QED BY <3>2, <3>4, <3>5, <3>6, BoundsAssumption DEF NoLostWakeup, DepthBound
  <2>5. ASSUME NEW t \in q \ Expiring, q' = (q \ Expiring) \ {t}, Broadcast PROVE Kept
    BY <2>1, <2>5
  <2> QED BY <1>11, <2>2, <2>3, <2>4, <2>5 DEF pop
<1>12. ASSUME NEW w \in Workers, budget(w) \/ handle(w) PROVE Kept
  <2>1. /\ pc[w] # "pop" /\ w \notin waiting
        /\ \E label : pc' = [pc EXCEPT ![w] = label]
        /\ UNCHANGED <<q, waiting, main, timedOut>>
    BY <1>0, <1>12 DEF budget, handle, release
  <2>2. AwakePoppers \subseteq AwakePoppers'
    BY <1>0, <2>1 DEF AwakePoppers, TypeOK
  <2>3. \A th \in waiting : pc'[th] = pc[th]
    BY <1>0, <2>1 DEF TypeOK
  <2> QED BY <2>1, <2>2, <2>3, QuietStep DEF closed
<1>13. ASSUME NEW th \in Threads, replyDead(th) PROVE Kept
  <2>1. UNCHANGED <<q, waiting, main, timedOut, pc>>
    BY <1>13 DEF replyDead
  <2> QED BY <2>1, QuietStep DEF closed, AwakePoppers
<1>14. ASSUME sweep PROVE Kept
  <2>1. CASE Expiring # {}
    BY <1>0, <1>2, <1>14, <2>1 DEF sweep
  <2>2. CASE Expiring = {}
    <3>1. UNCHANGED <<q, waiting, main, timedOut, pc>>
      BY <1>0, <1>3, <1>14, <2>2 DEF sweep
    <3> QED BY <3>1, QuietStep DEF closed, AwakePoppers
  <2> QED BY <2>1, <2>2
<1>15. ASSUME sweepReturn PROVE Kept
  <2>1. AwakePoppers' = AwakePoppers /\ \A th \in waiting : pc'[th] = pc[th]
    BY <1>0, <1>15 DEF sweepReturn, AwakePoppers, TypeOK, Waking
  <2> QED BY <1>15, <2>1, QuietStep DEF closed, sweepReturn
<1>16. ASSUME closeMark PROVE Kept
  BY <1>16, BroadcastWakes DEF closeMark
<1>17. ASSUME closeStop \/ closeReturn \/ Tick PROVE Kept
  <2>1. UNCHANGED <<q, waiting, closed, timedOut, pc>>
    BY <1>17 DEF closeStop, closeReturn, Tick, closed
  <2> QED BY <2>1, QuietStep DEF AwakePoppers
<1>18. ASSUME UNCHANGED vars PROVE Kept
  <2>1. UNCHANGED <<q, waiting, closed, timedOut, pc>>
    BY <1>18 DEF vars, closed
  <2> QED BY <2>1, QuietStep DEF AwakePoppers
<1> QED
  BY <1>4, <1>5, <1>7, <1>8, <1>9, <1>10, <1>11, <1>12, <1>13, <1>14, <1>15,
     <1>16, <1>17, <1>18
  DEF Next, SubmitterStep, WorkerStep, SweeperStep, CloseStep, Terminated

\* The queue never exceeds its depth.
THEOREM QueueBounded == Spec => []DepthBound
<1>1. Waking => DepthBound
  BY DEF Waking
<1> QED BY InitWaking, WakingInductive, <1>1, PTL DEF Spec

\* No goroutine sleeps through a wake-up meant for it.
THEOREM WakeupsArrive == Spec => []NoLostWakeup
<1>1. Waking => NoLostWakeup
  BY DEF Waking
<1> QED BY InitWaking, WakingInductive, <1>1, PTL DEF Spec

-----------------------------------------------------------------------------
(* Refinement.                                                             *)

\* Every step of the pool is an arrival, one reply to an unanswered task, or
\* invisible to the callers.
LEMMA StepRefines ==
    Custody /\ [Next]_vars => [Contract!NextContract]_(Contract!contractVars)
<1> SUFFICES ASSUME Custody, Next
             PROVE  Contract!NextContract \/ UNCHANGED <<arrived, answers>>
  BY DEF Contract!contractVars, vars
<1> USE DEF queueVars, threadVars
<1>0. Submitters \subseteq Threads /\ Workers \subseteq Threads
  BY DEF Threads
\* An answer to a task that is held is the first one.
<1>1. ASSUME NEW t \in Task, Held(t), NEW o \in Outcomes, Answer(t, o), UNCHANGED arrived
      PROVE  Contract!NextContract
  <2>1. t \in arrived /\ answers[t] = <<>>
    BY <1>1 DEF Custody, AnsweredOnce, Unanswered
  <2>2. answers' = [answers EXCEPT ![t] = <<o>>]
    BY <1>1, <2>1 DEF Answer, Custody, TypeControl, TypeOK
  <2> QED BY <1>1, <2>1, <2>2 DEF Contract!NextContract, Contract!Reply, Outcomes
<1>2. ASSUME NEW s \in Submitters, NEW t \in Task, NEW d \in Deadlines, Submit(s, t, d)
      PROVE  Contract!NextContract
  BY <1>2 DEF Submit, Contract!NextContract, Contract!Arrive
<1>3. ASSUME NEW s \in Submitters, expire(s) \/ shedLimit(s) PROVE Contract!NextContract
  <2>1. cur[s] \in Task /\ Held(cur[s])
    BY <1>0, <1>3 DEF expire, shedLimit, Custody, TypeControl, TypeOK, Control, Held
  <2> QED BY <1>1, <1>3, <2>1 DEF expire, shedLimit, release, Outcomes
<1>4. ASSUME NEW w \in Workers, handle(w) PROVE Contract!NextContract
  <2>1. cur[w] \in Task /\ Held(cur[w])
    BY <1>0, <1>4 DEF handle, Custody, TypeControl, TypeOK, Control, Held
  <2> QED BY <1>1, <1>4, <2>1 DEF handle, release, Outcomes
<1>5. ASSUME NEW th \in Threads, replyDead(th) PROVE Contract!NextContract
  <2>1. PICK t \in dead[th] : Answer(t, "deadline") /\ UNCHANGED arrived
    BY <1>5 DEF replyDead
  <2>2. t \in Task /\ Held(t)
    BY <2>1 DEF Custody, TypeControl, TypeOK, Held
  <2> QED BY <1>1, <2>1, <2>2 DEF Outcomes
<1>6. ASSUME NEW s \in Submitters, Collect(s) \/ Admit(s) \/ Room(s) \/ TimerFire(s)
      PROVE  UNCHANGED <<arrived, answers>>
  BY <1>6 DEF Collect, Admit, Room, TimerFire
<1>7. ASSUME NEW w \in Workers, pop(w) \/ budget(w) PROVE UNCHANGED <<arrived, answers>>
  BY <1>7 DEF pop, budget
<1>8. ASSUME \/ sweep \/ sweepReturn \/ closeStop \/ closeMark \/ closeReturn
             \/ Tick \/ Terminated
      PROVE  UNCHANGED <<arrived, answers>>
  BY <1>8 DEF sweep, sweepReturn, closeStop, closeMark, closeReturn, Tick, Terminated, vars
<1> QED
  BY <1>2, <1>3, <1>4, <1>5, <1>6, <1>7, <1>8
  DEF Next, SubmitterStep, WorkerStep, SweeperStep, CloseStep

\* The pool implements its contract: one answer for each task that arrived.
THEOREM PoolImplementsContract == Spec => Implements
<1>1. Init => Contract!InitContract
  BY DEF Init, Contract!InitContract
<1> QED
  BY InitCustody, CustodyInductive, StepRefines, <1>1, PTL
  DEF Spec, Implements, Contract!Spec

-----------------------------------------------------------------------------
(* The order of the queue.                                                 *)

\* Positions are handed out once and in order, to tasks that were accepted.
Positions ==
    /\ \A t \in Task : pos[t] <= Accepted
    /\ \A t, u \in Task : pos[t] > 0 /\ pos[t] = pos[u] => t = u
    /\ \A t \in Task \ arrived : pos[t] = 0
    /\ \A s \in Submitters : cur[s] # NoTask => pos[cur[s]] = 0
    /\ \A t \in q : pos[t] > 0
    /\ \A th \in Threads : \A t \in dead[th] : pos[t] > 0

Order == Custody /\ Positions /\ Fifo

\* A new pool is in order.
LEMMA InitOrder == Init => Order
<1> SUFFICES ASSUME Init PROVE Order
  OBVIOUS
<1>1. Positions
  BY DEF Init, Positions, Threads
<1>2. Fifo
  BY DEF Init, Fifo
<1> QED BY <1>1, <1>2, InitCustody DEF Order

\* Tasks leave the queue, expired ones into the hands of goroutines, and
\* goroutines let go of what they hold.
LEMMA OrderShrinks ==
    ASSUME Order, q' \subseteq q, UNCHANGED <<pos, Accepted, arrived>>,
           \A th \in Threads : dead'[th] \subseteq dead[th] \cup q,
           \A th \in Threads : cur'[th] \in {cur[th], NoTask}
    PROVE  Positions' /\ Fifo'
<1>1. Positions'
  BY DEF Order, Positions, Threads
<1>2. Fifo'
  BY DEF Order, Fifo, Threads
<1> QED BY <1>1, <1>2

\* pop takes the oldest task of the ones it keeps.
LEMMA OrderPops ==
    ASSUME Order, NEW w \in Workers, NEW D \in SUBSET q, NEW t \in q \ D, IsHead(t, q \ D),
           q' = (q \ D) \ {t}, cur' = [cur EXCEPT ![w] = t],
           dead' = [dead EXCEPT ![w] = D], UNCHANGED <<pos, Accepted, arrived>>
    PROVE  Positions' /\ Fifo'
<1>1. TypeOK /\ Positions /\ Fifo /\ w \in Threads /\ w \notin Submitters
  BY ThreadsAssumption DEF Order, Custody, TypeControl, Threads
<1>2. /\ \A th \in Threads : th # w => cur'[th] = cur[th] /\ dead'[th] = dead[th]
      /\ cur'[w] = t /\ dead'[w] = D
  BY <1>1 DEF TypeOK
<1>3. Positions'
  BY <1>1, <1>2 DEF Positions, Threads
<1>4. ASSUME NEW u \in q' PROVE pos[t] < pos[u]
  <2>1. t \in Task /\ u \in Task /\ pos[t] \in Nat /\ pos[u] \in Nat
    BY <1>1 DEF TypeOK
  <2>2. pos[t] <= pos[u] /\ t # u /\ pos[t] > 0
    BY <1>1 DEF IsHead, Positions
  <2> QED BY <1>1, <2>1, <2>2 DEF Positions
<1>5. Fifo'
  BY <1>1, <1>2, <1>4 DEF Fifo, Threads
<1> QED BY <1>3, <1>5

\* A task is appended with the next position.
LEMMA OrderEnqueues ==
    ASSUME Order, NEW s \in Submitters, cur[s] # NoTask, enqueueLocked(s),
           UNCHANGED <<dead, arrived>>
    PROVE  Positions' /\ Fifo'
<1> DEFINE t == cur[s]
<1>1. TypeOK /\ Positions /\ Fifo /\ s \in Threads /\ s \notin Workers
  BY ThreadsAssumption DEF Order, Custody, TypeControl, Threads
<1>2. t \in Task /\ t \in arrived
  BY <1>1 DEF TypeOK, Order, Custody, AnsweredOnce, Held, Unanswered
<1>3. /\ \A th \in Threads : cur[th] = t => th = s
      /\ \A th \in Threads : t \notin dead[th]
      /\ t \notin q
  BY <1>1 DEF Order, Custody, SoleHolder
<1>4. /\ q' = q \cup {t} /\ Accepted' = Accepted + 1
      /\ pos' = [pos EXCEPT ![t] = Accepted + 1]
      /\ cur' = [cur EXCEPT ![s] = NoTask]
  BY DEF enqueueLocked
<1> HIDE DEF t
<1>5. /\ pos'[t] = Accepted + 1 /\ Accepted \in Nat
      /\ \A u \in Task : u # t => pos'[u] = pos[u]
      /\ \A u \in Task : pos[u] \in Nat /\ pos[u] <= Accepted
  BY <1>1, <1>2, <1>4 DEF TypeOK, Positions
<1>6. cur'[s] = NoTask /\ \A th \in Threads : th # s => cur'[th] = cur[th]
  BY <1>1, <1>4 DEF TypeOK
<1>7. /\ \A th \in Threads : cur[th] \in Task \cup {NoTask} /\ dead[th] \subseteq Task
      /\ q \subseteq Task /\ NoTask \notin Task
  BY <1>1, ThreadsAssumption DEF TypeOK
<1>8. Positions'
  <2>1. \A u \in Task : pos'[u] <= Accepted'
    BY <1>4, <1>5
  <2>2. \A u, v \in Task : pos'[u] > 0 /\ pos'[u] = pos'[v] => u = v
    <3>1. ASSUME NEW u \in Task, NEW v \in Task, pos'[u] > 0, pos'[u] = pos'[v]
          PROVE  u = v
      <4>1. CASE u # t /\ v # t
        BY <1>1, <1>5, <3>1, <4>1 DEF Positions
      <4>2. CASE u = t /\ v # t
        BY <1>5, <3>1, <4>2
      <4>3. CASE u # t /\ v = t
        BY <1>5, <3>1, <4>3
      <4> QED BY <4>1, <4>2, <4>3
    <3> QED BY <3>1
  <2>3. \A u \in Task \ arrived' : pos'[u] = 0
    BY <1>1, <1>2, <1>5 DEF Positions
  <2>4. \A o \in Submitters : cur'[o] # NoTask => pos'[cur'[o]] = 0
    BY <1>1, <1>3, <1>5, <1>6, <1>7 DEF Positions, Threads
  <2>5. \A u \in q' : pos'[u] > 0
    BY <1>1, <1>4, <1>5, <1>7 DEF Positions
  <2>6. \A th \in Threads : \A u \in dead'[th] : pos'[u] > 0
    BY <1>1, <1>3, <1>5, <1>7 DEF Positions
  <2> QED BY <2>1, <2>2, <2>3, <2>4, <2>5, <2>6 DEF Positions
<1>9. Fifo'
  <2>1. ASSUME NEW w \in Workers, cur'[w] # NoTask, NEW u \in q'
        PROVE  pos'[cur'[w]] < pos'[u]
    <3>1. w \in Threads /\ w # s /\ cur'[w] = cur[w] /\ cur[w] # t /\ cur[w] \in Task
      BY <1>1, <1>3, <1>6, <1>7, <2>1 DEF Threads
    <3>2. pos'[cur'[w]] = pos[cur[w]]
      BY <1>5, <3>1
    <3>3. CASE u = t
      BY <1>5, <3>1, <3>2, <3>3
    <3>4. CASE u \in q
      <4>1. u # t /\ u \in Task
        BY <1>3, <1>7, <3>4
      <4> QED BY <1>1, <1>5, <2>1, <3>1, <3>2, <3>4, <4>1 DEF Fifo
    <3> QED BY <1>4, <3>3, <3>4
  <2> QED BY <2>1 DEF Fifo
<1> QED BY <1>8, <1>9

\* Every step keeps the order.
LEMMA OrderInductive == Order /\ [Next]_vars => Order'
<1> SUFFICES ASSUME Order, [Next]_vars
             PROVE  Positions' /\ Fifo'
  BY CustodyInductive DEF Order
<1> DEFINE Kept == Positions' /\ Fifo'
<1>0. /\ TypeOK /\ Control /\ Expiring \in SUBSET q
      /\ Submitters \subseteq Threads /\ Workers \subseteq Threads /\ Sweeper \in Threads
  BY DEF Order, Custody, TypeControl, Threads, Expiring
<1> USE DEF queueVars, threadVars
<1>1. ASSUME NEW s \in Submitters, NEW t \in Task, NEW d \in Deadlines, Submit(s, t, d)
      PROVE  Kept
  <2>1. /\ cur' = [cur EXCEPT ![s] = t] /\ t \notin arrived /\ arrived' = arrived \cup {t}
        /\ UNCHANGED <<q, pos, Accepted, dead>>
    BY <1>1 DEF Submit
  <2>2. cur'[s] = t /\ \A th \in Threads : th # s => cur'[th] = cur[th]
    BY <1>0, <2>1 DEF TypeOK
  <2>3. Positions'
    BY <1>0, <2>1, <2>2 DEF Order, Positions
  <2>4. Fifo'
    BY <1>0, <2>1, <2>2, ThreadsAssumption DEF Order, Fifo
  <2> QED BY <2>3, <2>4
<1>2. ASSUME NEW th \in Threads, takeExpiredLocked(th), UNCHANGED <<pos, Accepted, arrived, cur>>
      PROVE  Kept
  BY <1>0, <1>2, OrderShrinks DEF takeExpiredLocked, TypeOK
<1>3. ASSUME UNCHANGED <<q, pos, Accepted, arrived, cur, dead>> PROVE Kept
  BY <1>3, OrderShrinks
<1>4. ASSUME NEW th \in Threads, cur' = [cur EXCEPT ![th] = NoTask],
             UNCHANGED <<q, pos, Accepted, arrived, dead>>
      PROVE  Kept
  BY <1>0, <1>4, OrderShrinks DEF TypeOK
<1>5. ASSUME NEW s \in Submitters, Collect(s) PROVE Kept
  BY <1>0, <1>2, <1>5 DEF Collect
<1>6. ASSUME NEW s \in Submitters, waitTurn(s), UNCHANGED arrived PROVE Kept
  BY <1>0, <1>2, <1>3, <1>6 DEF waitTurn
<1>7. ASSUME NEW s \in Submitters, NEW label, leaveTo(s, label), UNCHANGED arrived PROVE Kept
  BY <1>3, <1>7 DEF leaveTo
<1>8. ASSUME NEW s \in Submitters, Admit(s) PROVE Kept
  <2>1. cur[s] # NoTask /\ UNCHANGED arrived
    BY <1>0, <1>8 DEF Admit, Control
  <2> QED BY <1>6, <1>7, <1>8, <2>1, OrderEnqueues DEF Admit
<1>9. ASSUME NEW s \in Submitters, Room(s) PROVE Kept
  <2>1. cur[s] # NoTask /\ UNCHANGED arrived
    BY <1>0, <1>9 DEF Room, Control
  <2> QED BY <1>6, <1>7, <1>9, <2>1, OrderEnqueues DEF Room
<1>10. ASSUME NEW s \in Submitters, TimerFire(s) PROVE Kept
  BY <1>3, <1>10 DEF TimerFire
<1>11. ASSUME NEW s \in Submitters, expire(s) \/ shedLimit(s) PROVE Kept
  BY <1>0, <1>4, <1>11 DEF expire, shedLimit, release
<1>12. ASSUME NEW w \in Workers, pop(w) PROVE Kept
  <2>1. UNCHANGED <<pos, Accepted, arrived>>
    BY <1>12 DEF pop
  <2>2. ASSUME NEW t \in q \ Expiring, IsHead(t, q \ Expiring), q' = (q \ Expiring) \ {t},
               cur' = [cur EXCEPT ![w] = t], dead' = [dead EXCEPT ![w] = Expiring]
        PROVE  Kept
    BY <1>0, <2>1, <2>2, OrderPops
  <2>3. CASE takeExpiredLocked(w) /\ UNCHANGED cur
    BY <1>0, <1>2, <2>1, <2>3
  <2>4. CASE UNCHANGED <<q, dead, cur>>
    BY <1>3, <2>1, <2>4
  <2> QED BY <1>12, <2>2, <2>3, <2>4 DEF pop
<1>13. ASSUME NEW w \in Workers, budget(w) PROVE Kept
  BY <1>3, <1>13 DEF budget
<1>14. ASSUME NEW w \in Workers, handle(w) PROVE Kept
  BY <1>0, <1>4, <1>14 DEF handle, release
<1>15. ASSUME NEW th \in Threads, replyDead(th) PROVE Kept
  <2>1. /\ UNCHANGED <<q, pos, Accepted, arrived, cur>>
        /\ \A o \in Threads : dead'[o] \subseteq dead[o]
    BY <1>0, <1>15 DEF replyDead, TypeOK
  <2> QED BY <2>1, OrderShrinks
<1>16. ASSUME sweep PROVE Kept
  BY <1>0, <1>2, <1>16 DEF sweep
<1>17. ASSUME sweepReturn \/ closeStop \/ closeMark \/ closeReturn \/ Tick PROVE Kept
  BY <1>3, <1>17 DEF sweepReturn, closeStop, closeMark, closeReturn, Tick
<1>18. ASSUME UNCHANGED vars PROVE Kept
  BY <1>3, <1>18 DEF vars
<1> QED
  BY <1>1, <1>5, <1>8, <1>9, <1>10, <1>11, <1>12, <1>13, <1>14, <1>15, <1>16,
     <1>17, <1>18
  DEF Next, SubmitterStep, WorkerStep, SweeperStep, CloseStep, Terminated

\* A worker never gets a task while an older one is still queued.
THEOREM OldestFirst == Spec => []Fifo
<1>1. Order => Fifo
  BY DEF Order
<1> QED BY InitOrder, OrderInductive, <1>1, PTL DEF Spec

-----------------------------------------------------------------------------
(* The truth of ACTION_DEADLINE_EXCEEDED.                                  *)

\* Whoever is about to refuse a task has a reason, and the reason lasts: the
\* time left only shrinks and the pool does not open again.
Reasons ==
    /\ \A th \in Threads : \A t \in dead[th] : left[t] < MinBudget
    /\ \A w \in Workers : pc[w] = "refuse" => left[cur[w]] < MinBudget
    /\ \A s \in Submitters : pc[s] = "room" /\ s \in timedOut => left[cur[s]] <= 0
    /\ \A s \in Submitters :
          pc[s] = "expire" => left[cur[s]] < MinBudget \/ left[cur[s]] <= 0 \/ closed

Honest == Order /\ Reasons /\ DeadlineHonest

\* A new pool has refused nothing.
LEMMA InitHonest == Init => Honest
<1> SUFFICES ASSUME Init PROVE Honest
  OBVIOUS
<1>1. Reasons
  BY ThreadsAssumption DEF Init, Reasons, Threads
<1>2. DeadlineHonest
  BY DEF Init, DeadlineHonest
<1> QED BY <1>1, <1>2, InitOrder DEF Honest

\* A step that answers nothing, while no time passes.
LEMMA HonestQuiet ==
    ASSUME Honest, UNCHANGED <<left, answers>>, closed => closed',
           \A t \in Task : answers[t] # <<>> => pos'[t] = pos[t],
           \A th \in Threads : dead'[th] \subseteq dead[th] \cup Expiring,
           \A w \in Workers : pc'[w] = "refuse" =>
               (pc[w] = "refuse" /\ cur'[w] = cur[w]) \/ left[cur'[w]] < MinBudget,
           \A s \in Submitters : pc'[s] = "room" /\ s \in timedOut' =>
               (pc[s] = "room" /\ s \in timedOut /\ cur'[s] = cur[s]) \/ left[cur'[s]] <= 0,
           \A s \in Submitters : pc'[s] = "expire" =>
               \/ pc[s] = "expire" /\ cur'[s] = cur[s]
               \/ left[cur'[s]] < MinBudget \/ left[cur'[s]] <= 0 \/ closed'
    PROVE  Reasons' /\ DeadlineHonest'
<1>1. /\ \A th \in Threads : \A t \in dead'[th] : left[t] < MinBudget
      /\ \A w \in Workers : pc'[w] = "refuse" => left[cur'[w]] < MinBudget
  BY DEF Honest, Reasons, Expiring
<1>2. \A s \in Submitters : pc'[s] = "room" /\ s \in timedOut' => left[cur'[s]] <= 0
  BY DEF Honest, Reasons
<1>3. \A s \in Submitters :
          pc'[s] = "expire" => left[cur'[s]] < MinBudget \/ left[cur'[s]] <= 0 \/ closed'
  BY DEF Honest, Reasons
<1>4. Reasons'
  BY <1>1, <1>2, <1>3 DEF Reasons
<1>5. ASSUME NEW t \in Task, answers'[t] = <<"deadline">>
      PROVE  left'[t] < MinBudget \/ (pos'[t] = 0 /\ (left'[t] <= 0 \/ closed'))
  <2>1. answers[t] = <<"deadline">> /\ answers[t] # <<>> /\ left'[t] = left[t]
    BY <1>5
  <2>2. pos'[t] = pos[t]
    BY <2>1
  <2>3. left[t] < MinBudget \/ (pos[t] = 0 /\ (left[t] <= 0 \/ closed))
    BY <2>1 DEF Honest, DeadlineHonest
  <2> QED BY <2>1, <2>2, <2>3
<1>6. DeadlineHonest'
  BY <1>5 DEF DeadlineHonest
<1> QED BY <1>4, <1>6

\* The answer to one task.
LEMMA HonestAnswer ==
    ASSUME Honest, NEW t \in Task, Held(t), NEW o \in Outcomes, Answer(t, o),
           UNCHANGED <<left, pos, main>>,
           o = "deadline" =>
               left[t] < MinBudget \/ (pos[t] = 0 /\ (left[t] <= 0 \/ closed))
    PROVE  DeadlineHonest'
<1>1. answers[t] = <<>> /\ answers \in [Task -> Seq(Outcomes)]
  BY DEF Honest, Order, Custody, AnsweredOnce, Unanswered, TypeControl, TypeOK
<1>2. answers' = [answers EXCEPT ![t] = <<o>>]
  BY <1>1 DEF Answer
<1>3. answers'[t] = <<o>> /\ \A u \in Task : u # t => answers'[u] = answers[u]
  BY <1>1, <1>2
<1>4. UNCHANGED closed
  BY DEF closed
<1>5. ASSUME NEW u \in Task, answers'[u] = <<"deadline">>
      PROVE  left'[u] < MinBudget \/ (pos'[u] = 0 /\ (left'[u] <= 0 \/ closed'))
  <2>1. CASE u = t
    <3>1. o = "deadline"
      BY <1>3, <1>5, <2>1
    <3> QED BY <1>4, <2>1, <3>1
  <2>2. CASE u # t
    BY <1>3, <1>4, <1>5, <2>2 DEF Honest, DeadlineHonest
  <2> QED BY <2>1, <2>2
<1> QED BY <1>5 DEF DeadlineHonest

\* What every case below needs to know.
LEMMA HonestFacts ==
    ASSUME Honest
    PROVE  /\ TypeOK /\ Control /\ Positions /\ Reasons /\ DeadlineHonest
           /\ AnsweredOnce /\ SoleHolder /\ Order /\ Custody
           /\ Submitters \subseteq Threads /\ Workers \subseteq Threads /\ Sweeper \in Threads
           /\ Submitters \cap Workers = {} /\ Sweeper \notin Submitters /\ Sweeper \notin Workers
  BY ThreadsAssumption DEF Honest, Order, Custody, TypeControl, Threads

\* Every step keeps the refusals honest.
LEMMA HonestInductive == Honest /\ [Next]_vars => Honest'
<1> SUFFICES ASSUME Honest, [Next]_vars
             PROVE  Reasons' /\ DeadlineHonest'
  BY OrderInductive DEF Honest
<1> DEFINE Kept == Reasons' /\ DeadlineHonest'
<1>0. /\ TypeOK /\ Control /\ Positions /\ Reasons /\ DeadlineHonest
      /\ AnsweredOnce /\ SoleHolder
      /\ Submitters \subseteq Threads /\ Workers \subseteq Threads /\ Sweeper \in Threads
      /\ Submitters \cap Workers = {} /\ Sweeper \notin Submitters /\ Sweeper \notin Workers
  BY HonestFacts
<1> USE DEF queueVars, threadVars, Goto
\* One goroutine moves to another label, keeping its task, its timer and what
\* it took.
<1>1. ASSUME NEW th \in Threads, NEW label, pc' = [pc EXCEPT ![th] = label],
             UNCHANGED <<left, answers, pos, cur, timedOut, closed>>,
             \A o \in Threads : dead'[o] \subseteq dead[o] \cup Expiring,
             label = "refuse" => left[cur[th]] < MinBudget,
             label = "room" => th \notin timedOut,
             label = "expire" => left[cur[th]] < MinBudget \/ left[cur[th]] <= 0 \/ closed
      PROVE  Kept
  <2>1. pc'[th] = label /\ \A o \in Threads : o # th => pc'[o] = pc[o]
    BY <1>0, <1>1 DEF TypeOK
  <2>2. \A w \in Workers : pc'[w] = "refuse" =>
               (pc[w] = "refuse" /\ cur'[w] = cur[w]) \/ left[cur'[w]] < MinBudget
    BY <1>0, <1>1, <2>1
  <2>3. \A s \in Submitters : pc'[s] = "room" /\ s \in timedOut' =>
               (pc[s] = "room" /\ s \in timedOut /\ cur'[s] = cur[s]) \/ left[cur'[s]] <= 0
    BY <1>0, <1>1, <2>1
  <2>4. \A s \in Submitters : pc'[s] = "expire" =>
               \/ pc[s] = "expire" /\ cur'[s] = cur[s]
               \/ left[cur'[s]] < MinBudget \/ left[cur'[s]] <= 0 \/ closed'
    BY <1>0, <1>1, <2>1
  <2> QED BY <1>1, <2>2, <2>3, <2>4, HonestQuiet
\* Nobody moves.
<1>2. ASSUME UNCHANGED <<left, answers, pos, cur, timedOut, pc>>, closed => closed',
             \A o \in Threads : dead'[o] \subseteq dead[o] \cup Expiring
      PROVE  Kept
  BY <1>2, HonestQuiet
<1>3. ASSUME NEW th \in Threads, takeExpiredLocked(th)
      PROVE  \A o \in Threads : dead'[o] \subseteq dead[o] \cup Expiring
  BY <1>0, <1>3 DEF takeExpiredLocked, TypeOK
<1>4. ASSUME NEW s \in Submitters, NEW t \in Task, NEW d \in Deadlines, Submit(s, t, d)
      PROVE  Kept
  <2>1. /\ pc[s] = "idle" /\ t \notin arrived
        /\ left' = [left EXCEPT ![t] = Clip(d - Reserve)]
        /\ cur' = [cur EXCEPT ![s] = t]
        /\ pc' = [pc EXCEPT ![s] = IF d - Reserve < MinBudget THEN "expire" ELSE "collect"]
        /\ UNCHANGED <<pos, dead, answers, timedOut, main>>
    BY <1>4 DEF Submit
  <2>2. answers[t] = <<>> /\ \A th \in Threads : cur[th] # t /\ t \notin dead[th]
    BY <1>0, <2>1 DEF AnsweredOnce, Held, Unanswered
  <2>3. \A u \in Task : u # t => left'[u] = left[u]
    BY <1>0, <2>1 DEF TypeOK
  <2>4. /\ \A o \in Threads : o # s => cur'[o] = cur[o] /\ pc'[o] = pc[o]
        /\ cur'[s] = t /\ pc'[s] \in {"expire", "collect"}
    BY <1>0, <2>1 DEF TypeOK
  <2>5. pc'[s] = "expire" => left'[t] < MinBudget
    <3>1. ASSUME d - Reserve < MinBudget PROVE Clip(d - Reserve) < MinBudget
      BY <3>1, BoundsAssumption DEF Clip, Floor
    <3>2. left'[t] = Clip(d - Reserve)
      BY <1>0, <2>1 DEF TypeOK
    <3>3. pc'[s] = "expire" => d - Reserve < MinBudget
      BY <1>0, <2>1 DEF TypeOK
    <3> QED BY <3>1, <3>2, <3>3
  <2>6. /\ \A o \in Threads : cur[o] \in Task \cup {NoTask} /\ dead[o] \subseteq Task
        /\ NoTask \notin Task /\ closed' = closed
    BY <1>0, <2>1, ThreadsAssumption DEF TypeOK, closed
  <2>7. \A th \in Threads : \A u \in dead'[th] : left'[u] < MinBudget
    BY <1>0, <2>1, <2>2, <2>3, <2>6 DEF Reasons
  <2>8. \A w \in Workers : pc'[w] = "refuse" => left'[cur'[w]] < MinBudget
    <3>1. ASSUME NEW w \in Workers, pc'[w] = "refuse" PROVE left'[cur'[w]] < MinBudget
      <4>1. w \in Threads /\ w # s /\ cur'[w] = cur[w] /\ pc[w] = "refuse"
        BY <1>0, <2>4, <3>1
      <4>2. cur[w] \in Task /\ cur[w] # t
        BY <1>0, <2>2, <2>6, <4>1 DEF Control
      <4> QED BY <1>0, <2>3, <4>1, <4>2 DEF Reasons
    <3> QED BY <3>1
  <2>9. \A o \in Submitters : pc'[o] = "room" /\ o \in timedOut' => left'[cur'[o]] <= 0
    <3>1. ASSUME NEW o \in Submitters, pc'[o] = "room", o \in timedOut'
          PROVE  left'[cur'[o]] <= 0
      <4>1. o \in Threads /\ o # s /\ cur'[o] = cur[o] /\ pc[o] = "room" /\ o \in timedOut
        BY <1>0, <2>1, <2>4, <3>1
      <4>2. cur[o] \in Task /\ cur[o] # t
        BY <1>0, <2>2, <2>6, <4>1 DEF Control
      <4> QED BY <1>0, <2>3, <4>1, <4>2 DEF Reasons
    <3> QED BY <3>1
  <2>10. ASSUME NEW o \in Submitters, pc'[o] = "expire"
         PROVE  left'[cur'[o]] < MinBudget \/ left'[cur'[o]] <= 0 \/ closed'
    <3>1. CASE o = s
      BY <2>4, <2>5, <2>10, <3>1
    <3>2. CASE o # s
      <4>1. o \in Threads /\ cur'[o] = cur[o] /\ pc[o] = "expire"
        BY <1>0, <2>4, <2>10, <3>2
      <4>2. cur[o] \in Task /\ cur[o] # t
        BY <1>0, <2>2, <2>6, <4>1 DEF Control
      <4> QED BY <1>0, <2>3, <2>6, <4>1, <4>2 DEF Reasons
    <3> QED BY <3>1, <3>2
  <2>11. Reasons'
    BY <2>7, <2>8, <2>9, <2>10 DEF Reasons
  <2>12. ASSUME NEW u \in Task, answers'[u] = <<"deadline">>
         PROVE  left'[u] < MinBudget \/ (pos'[u] = 0 /\ (left'[u] <= 0 \/ closed'))
    <3>1. u # t /\ answers[u] = <<"deadline">> /\ pos'[u] = pos[u]
      BY <2>1, <2>2, <2>12
    <3> QED BY <1>0, <2>3, <2>6, <3>1 DEF DeadlineHonest
  <2>13. DeadlineHonest'
    BY <2>12 DEF DeadlineHonest
  <2> QED BY <2>11, <2>13
<1>5. ASSUME NEW s \in Submitters, Collect(s) PROVE Kept
  <2>1. /\ pc' = [pc EXCEPT ![s] = "admit"]
        /\ UNCHANGED <<left, answers, pos, cur, timedOut, closed>>
    BY <1>5 DEF Collect, closed
  <2>2. \A o \in Threads : dead'[o] \subseteq dead[o] \cup Expiring
    BY <1>0, <1>3, <1>5 DEF Collect
  <2> QED BY <1>0, <1>1, <2>1, <2>2
\* The pool appends a task: only the position of that task changes.
<1>6. ASSUME NEW s \in Submitters, cur[s] # NoTask, enqueueLocked(s),
             UNCHANGED <<left, answers, dead, main>>, timedOut' \subseteq timedOut
      PROVE  Kept
  <2>1. cur[s] \in Task /\ answers[cur[s]] = <<>>
    BY <1>0, <1>6 DEF TypeOK, AnsweredOnce, Held, Unanswered
  <2>2. \A t \in Task : answers[t] # <<>> => pos'[t] = pos[t]
    BY <1>0, <1>6, <2>1 DEF enqueueLocked, TypeOK
  <2>3. /\ pc'[s] = "idle"
        /\ \A o \in Threads : o # s => pc'[o] = pc[o] /\ cur'[o] = cur[o]
    BY <1>0, <1>6 DEF enqueueLocked, TypeOK
  <2>4. UNCHANGED closed
    BY <1>6 DEF closed
  <2>5. \A w \in Workers : pc'[w] = "refuse" => pc[w] = "refuse" /\ cur'[w] = cur[w]
    BY <1>0, <2>3
  <2>6. \A o \in Submitters : /\ pc'[o] \in {"room", "expire"} =>
                                   pc'[o] = pc[o] /\ cur'[o] = cur[o]
    BY <1>0, <2>3
  <2>7. /\ \A o \in Submitters : pc'[o] = "room" /\ o \in timedOut' =>
               pc[o] = "room" /\ o \in timedOut /\ cur'[o] = cur[o]
        /\ \A o \in Submitters : pc'[o] = "expire" => pc[o] = "expire" /\ cur'[o] = cur[o]
    BY <1>6, <2>6
  <2> QED BY <1>6, <2>2, <2>4, <2>5, <2>7, HonestQuiet
<1>7. ASSUME NEW s \in Submitters, waitTurn(s), s \notin timedOut', timedOut' \subseteq timedOut,
             \A o \in Submitters : o # s /\ o \in timedOut' => o \in timedOut,
             UNCHANGED <<left, answers, main>>
      PROVE  Kept
  <2>1. /\ pc' = [pc EXCEPT ![s] = "room"] /\ UNCHANGED <<pos, cur>>
        /\ \A o \in Threads : dead'[o] \subseteq dead[o] \cup Expiring
    BY <1>0, <1>3, <1>7 DEF waitTurn
  <2>2. pc'[s] = "room" /\ \A o \in Threads : o # s => pc'[o] = pc[o]
    BY <1>0, <2>1 DEF TypeOK
  <2>3. UNCHANGED closed
    BY <1>7 DEF closed
  <2>4. /\ \A w \in Workers : pc'[w] = "refuse" => pc[w] = "refuse" /\ cur'[w] = cur[w]
        /\ \A o \in Submitters : pc'[o] = "room" /\ o \in timedOut' =>
               pc[o] = "room" /\ o \in timedOut /\ cur'[o] = cur[o]
        /\ \A o \in Submitters : pc'[o] = "expire" => pc[o] = "expire" /\ cur'[o] = cur[o]
    BY <1>0, <1>7, <2>1, <2>2
  <2> QED BY <1>7, <2>1, <2>3, <2>4, HonestQuiet
<1>8. ASSUME NEW s \in Submitters, NEW label \in {"expire", "shed"}, leaveTo(s, label),
             UNCHANGED <<left, answers, main, timedOut>>,
             label = "expire" => left[cur[s]] < MinBudget \/ left[cur[s]] <= 0 \/ closed
      PROVE  Kept
  <2>1. UNCHANGED <<pos, cur, dead, closed>> /\ pc' = [pc EXCEPT ![s] = label]
    BY <1>8 DEF leaveTo, closed
  <2>2. label # "room" /\ label # "refuse" /\ s \in Threads
    BY <1>0
  <2> QED BY <1>1, <1>8, <2>1, <2>2
<1>9. ASSUME NEW s \in Submitters, Admit(s) PROVE Kept
  <2>1. cur[s] # NoTask /\ UNCHANGED <<left, answers, main>>
    BY <1>0, <1>9 DEF Admit, Control
  <2>2. CASE closed /\ leaveTo(s, "expire") /\ UNCHANGED timedOut
    BY <1>8, <2>1, <2>2
  <2>3. CASE enqueueLocked(s) /\ UNCHANGED <<dead, timedOut>>
    BY <1>6, <2>1, <2>3
  <2>4. CASE leaveTo(s, "shed") /\ UNCHANGED timedOut
    BY <1>8, <2>1, <2>4
  <2>5. CASE left[cur[s]] < MinBudget /\ leaveTo(s, "expire") /\ UNCHANGED timedOut
    BY <1>8, <2>1, <2>5
  <2>6. CASE timedOut' = timedOut \ {s} /\ waitTurn(s)
    BY <1>7, <2>1, <2>6
  <2> QED BY <1>9, <2>2, <2>3, <2>4, <2>5, <2>6 DEF Admit
<1>10. ASSUME NEW s \in Submitters, Room(s) PROVE Kept
  <2>1. cur[s] # NoTask /\ pc[s] = "room" /\ UNCHANGED <<left, answers, main, timedOut>>
    BY <1>0, <1>10 DEF Room, Control
  <2>2. CASE closed /\ leaveTo(s, "expire")
    BY <1>8, <2>1, <2>2
  <2>3. CASE enqueueLocked(s) /\ UNCHANGED dead
    BY <1>6, <2>1, <2>3
  <2>4. CASE s \in timedOut /\ leaveTo(s, "expire")
    <3>1. left[cur[s]] <= 0
      BY <1>0, <2>1, <2>4 DEF Reasons
    <3> QED BY <1>8, <2>1, <2>4, <3>1
  <2>5. CASE s \notin timedOut /\ waitTurn(s)
    BY <1>7, <2>1, <2>5
  <2> QED BY <1>10, <2>2, <2>3, <2>4, <2>5 DEF Room
<1>11. ASSUME NEW s \in Submitters, TimerFire(s) PROVE Kept
  <2>1. /\ UNCHANGED <<left, answers, pos, dead, cur, pc, closed>>
        /\ timedOut' = timedOut \cup {s} /\ left[cur[s]] <= 0
    BY <1>11 DEF TimerFire, closed
  <2>2. \A o \in Submitters : pc'[o] = "room" /\ o \in timedOut' =>
               (pc[o] = "room" /\ o \in timedOut /\ cur'[o] = cur[o]) \/ left[cur'[o]] <= 0
    BY <2>1
  <2> QED BY <2>1, <2>2, HonestQuiet
\* A goroutine has answered the task it held.
<1>12. ASSUME NEW th \in Threads, NEW label \in {"idle", "pop"}, pc' = [pc EXCEPT ![th] = label],
              cur' = [cur EXCEPT ![th] = NoTask],
              UNCHANGED <<left, dead, timedOut, main>>
       PROVE  Reasons'
  <2>1. /\ pc'[th] \in {"idle", "pop"}
        /\ \A o \in Threads : o # th => pc'[o] = pc[o] /\ cur'[o] = cur[o]
    BY <1>0, <1>12 DEF TypeOK
  <2>2. UNCHANGED closed
    BY <1>12 DEF closed
  <2>3. \A o \in Threads : pc'[o] \in {"refuse", "room", "expire"} =>
            pc'[o] = pc[o] /\ cur'[o] = cur[o]
    BY <2>1
  <2>4. \A w \in Workers : pc'[w] = "refuse" => left'[cur'[w]] < MinBudget
    BY <1>0, <1>12, <2>3 DEF Reasons
  <2>5. \A s \in Submitters : pc'[s] = "room" /\ s \in timedOut' => left'[cur'[s]] <= 0
    BY <1>0, <1>12, <2>3 DEF Reasons
  <2>6. \A s \in Submitters : pc'[s] = "expire" =>
            left'[cur'[s]] < MinBudget \/ left'[cur'[s]] <= 0 \/ closed'
    BY <1>0, <1>12, <2>2, <2>3 DEF Reasons
  <2>7. \A o \in Threads : \A t \in dead'[o] : left'[t] < MinBudget
    BY <1>0, <1>12 DEF Reasons
  <2> QED BY <2>4, <2>5, <2>6, <2>7 DEF Reasons
<1>13. ASSUME NEW s \in Submitters, expire(s) \/ shedLimit(s) PROVE Kept
  <2>1. /\ pc[s] \in {"expire", "shed"} /\ cur' = [cur EXCEPT ![s] = NoTask]
        /\ pc' = [pc EXCEPT ![s] = "idle"]
        /\ Answer(cur[s], IF pc[s] = "expire" THEN "deadline" ELSE "limit")
        /\ UNCHANGED <<left, pos, dead, timedOut, main>>
    BY <1>13 DEF expire, shedLimit, release
  <2>2. cur[s] \in Task /\ Held(cur[s]) /\ cur[s] # NoTask /\ s \in Threads
    BY <1>0, <2>1 DEF Control, TypeOK, Held
  <2>3. pc[s] = "expire" =>
            left[cur[s]] < MinBudget \/ (pos[cur[s]] = 0 /\ (left[cur[s]] <= 0 \/ closed))
    BY <1>0, <2>2 DEF Reasons, Positions
  <2>4. DeadlineHonest'
    <3>1. CASE pc[s] = "expire"
      BY <2>1, <2>2, <2>3, <3>1, HonestAnswer DEF Outcomes
    <3>2. CASE pc[s] = "shed"
      BY <2>1, <2>2, <3>2, HonestAnswer DEF Outcomes
    <3> QED BY <2>1, <3>1, <3>2
  <2>5. Reasons'
    BY <1>12, <2>1, <2>2
  <2> QED BY <2>4, <2>5
<1>14. ASSUME NEW w \in Workers, handle(w) PROVE Kept
  <2>1. /\ pc[w] \in {"serve", "refuse"} /\ cur' = [cur EXCEPT ![w] = NoTask]
        /\ pc' = [pc EXCEPT ![w] = "pop"]
        /\ Answer(cur[w], IF pc[w] = "serve" THEN "served" ELSE "deadline")
        /\ UNCHANGED <<left, pos, dead, timedOut, main>>
    BY <1>14 DEF handle, release
  <2>2. cur[w] \in Task /\ Held(cur[w]) /\ w \in Threads
    BY <1>0, <2>1 DEF Control, TypeOK, Held
  <2>3. pc[w] = "refuse" => left[cur[w]] < MinBudget
    BY <1>0 DEF Reasons
  <2>4. DeadlineHonest'
    <3>1. CASE pc[w] = "refuse"
      BY <2>1, <2>2, <2>3, <3>1, HonestAnswer DEF Outcomes
    <3>2. CASE pc[w] = "serve"
      BY <2>1, <2>2, <3>2, HonestAnswer DEF Outcomes
    <3> QED BY <2>1, <3>1, <3>2
  <2>5. Reasons'
    BY <1>12, <2>1, <2>2
  <2> QED BY <2>4, <2>5
<1>15. ASSUME NEW th \in Threads, replyDead(th) PROVE Kept
  <2>1. PICK t \in dead[th] : Answer(t, "deadline") /\ dead' = [dead EXCEPT ![th] = @ \ {t}]
    BY <1>15 DEF replyDead
  <2>2. UNCHANGED <<left, pos, cur, pc, timedOut, main, closed>>
    BY <1>15 DEF replyDead, closed
  <2>3. t \in Task /\ Held(t) /\ left[t] < MinBudget
    BY <1>0, <2>1 DEF TypeOK, Held, Reasons
  <2>4. DeadlineHonest'
    BY <2>1, <2>2, <2>3, HonestAnswer DEF Outcomes
  <2>5. \A o \in Threads : dead'[o] \subseteq dead[o]
    BY <1>0, <2>1 DEF TypeOK
  <2>6. Reasons'
    BY <1>0, <2>2, <2>5 DEF Reasons
  <2> QED BY <2>4, <2>6
<1>16. ASSUME NEW w \in Workers, pop(w) PROVE Kept
  <2>1. UNCHANGED <<left, answers, pos, timedOut, closed>> /\ pc[w] = "pop"
    BY <1>16 DEF pop, closed
  <2>2. \A o \in Threads : dead'[o] \subseteq dead[o] \cup Expiring
    BY <1>0, <1>16, <1>3 DEF pop, TypeOK
  <2>3. CASE UNCHANGED <<pc, cur>>
    BY <1>2, <2>1, <2>2, <2>3
  <2>4. CASE pc' = [pc EXCEPT ![w] = "done"] /\ UNCHANGED cur
    BY <1>0, <1>1, <2>1, <2>2, <2>4
  <2>5. ASSUME NEW t \in q, cur' = [cur EXCEPT ![w] = t], pc' = [pc EXCEPT ![w] = "budget"]
        PROVE  Kept
    <3>1. /\ pc'[w] = "budget"
          /\ \A o \in Threads : o # w => pc'[o] = pc[o] /\ cur'[o] = cur[o]
      BY <1>0, <2>5 DEF TypeOK
    <3>2. /\ \A v \in Workers : pc'[v] = "refuse" => pc[v] = "refuse" /\ cur'[v] = cur[v]
          /\ \A o \in Submitters : pc'[o] = "room" /\ o \in timedOut' =>
                 pc[o] = "room" /\ o \in timedOut /\ cur'[o] = cur[o]
          /\ \A o \in Submitters : pc'[o] = "expire" => pc[o] = "expire" /\ cur'[o] = cur[o]
      BY <1>0, <2>1, <3>1
    <3> QED BY <2>1, <2>2, <3>2, HonestQuiet
  <2> QED BY <1>0, <1>16, <2>3, <2>4, <2>5, PopTypes
<1>17. ASSUME NEW w \in Workers, budget(w) PROVE Kept
  <2>1. UNCHANGED <<left, answers, pos, cur, dead, timedOut, closed>>
    BY <1>17 DEF budget, closed
  <2>2. \E label \in {"refuse", "serve"} :
            /\ pc' = [pc EXCEPT ![w] = label]
            /\ label = "refuse" => left[cur[w]] < MinBudget
    BY <1>17 DEF budget
  <2> QED BY <1>0, <1>1, <2>1, <2>2
<1>18. ASSUME sweep PROVE Kept
  <2>1. UNCHANGED <<left, answers, pos, cur, pc, timedOut, closed>>
    BY <1>18 DEF sweep, closed
  <2> QED BY <1>0, <1>2, <1>3, <1>18, <2>1 DEF sweep
<1>19. ASSUME sweepReturn PROVE Kept
  <2>1. /\ UNCHANGED <<left, answers, pos, cur, dead, timedOut, closed>>
        /\ pc' = [pc EXCEPT ![Sweeper] = "done"]
    BY <1>19 DEF sweepReturn, closed
  <2> QED BY <1>0, <1>1, <2>1
<1>20. ASSUME closeStop \/ closeMark \/ closeReturn \/ UNCHANGED vars PROVE Kept
  <2>1. /\ UNCHANGED <<left, answers, pos, cur, dead, pc, timedOut>>
        /\ closed => closed'
    BY <1>20 DEF closeStop, closeMark, closeReturn, vars, closed
  <2> QED BY <1>2, <2>1
<1>21. ASSUME Tick PROVE Kept
  <2>1. /\ UNCHANGED <<answers, pos, cur, dead, pc, timedOut, closed>>
        /\ left' = [t \in Task |-> IF t \in Unanswered /\ left[t] > Floor
                                   THEN left[t] - 1 ELSE left[t]]
    BY <1>21 DEF Tick, closed
  <2>2. \A t \in Task : left[t] \in Int /\ left'[t] \in Int /\ left'[t] <= left[t]
    BY <1>0, <2>1 DEF TypeOK
  <2>3. \A t \in Task : answers[t] # <<>> => left'[t] = left[t]
    BY <2>1 DEF Unanswered
  <2>4. DeadlineHonest'
    BY <1>0, <2>1, <2>3 DEF DeadlineHonest
  <2>5. MinBudget \in Int /\ \A x, y \in Int : x <= y => (y < MinBudget => x < MinBudget)
                                                       /\ (y <= 0 => x <= 0)
    BY BoundsAssumption
  <2>6. \A t \in Task : (left[t] < MinBudget => left'[t] < MinBudget)
                        /\ (left[t] <= 0 => left'[t] <= 0)
    BY <2>2, <2>5
  <2>7. /\ \A th \in Threads : dead[th] \subseteq Task
        /\ \A w \in Workers : pc[w] = "refuse" => cur[w] \in Task
        /\ \A s \in Submitters : pc[s] \in {"room", "expire"} => cur[s] \in Task
    BY <1>0 DEF TypeOK, Control
  <2>8. Reasons'
    BY <1>0, <2>1, <2>6, <2>7 DEF Reasons
  <2> QED BY <2>4, <2>8
<1> QED
  BY <1>4, <1>5, <1>9, <1>10, <1>11, <1>13, <1>14, <1>15, <1>16, <1>17, <1>18,
     <1>19, <1>20, <1>21
  DEF Next, SubmitterStep, WorkerStep, SweeperStep, CloseStep, Terminated

\* A refusal for the deadline is true when it is sent.
THEOREM RefusalsHonest == Spec => []DeadlineHonest
<1>1. Honest => DeadlineHonest
  BY DEF Honest
<1> QED BY InitHonest, HonestInductive, <1>1, PTL DEF Spec

-----------------------------------------------------------------------------
(* The end of Close.                                                       *)

\* A worker ends on an empty queue that nothing enters any more, and the
\* goroutines Close waits for stay done.
Draining ==
    /\ \A w \in Workers : pc[w] = "done" => closed /\ q = {}
    /\ main = "closed" =>
          \A th \in Workers \cup {Sweeper} : pc[th] = "done" /\ dead[th] = {}

Drained == Order /\ Draining

\* A new pool is not being closed.
LEMMA InitDrained == Init => Drained
  BY InitOrder, ThreadsAssumption DEF Init, Drained, Draining, Threads

\* A step that neither ends a worker nor fills the queue of a closed pool.
LEMMA DrainedQuiet ==
    ASSUME Draining, UNCHANGED main, closed => q' \subseteq q,
           \A th \in Workers \cup {Sweeper} :
               /\ pc[th] = "done" => pc'[th] = "done" /\ dead'[th] \subseteq dead[th]
               /\ pc'[th] = "done" => pc[th] = "done" \/ th = Sweeper
    PROVE  Draining'
<1>1. UNCHANGED closed
  BY DEF closed
<1>2. \A w \in Workers : pc'[w] = "done" => closed' /\ q' = {}
  BY <1>1, ThreadsAssumption DEF Draining
<1>3. main' = "closed" =>
          \A th \in Workers \cup {Sweeper} : pc'[th] = "done" /\ dead'[th] = {}
  BY DEF Draining
<1> QED BY <1>2, <1>3 DEF Draining

\* Every step keeps what Close has waited for.
LEMMA DrainedInductive == Drained /\ [Next]_vars => Drained'
<1> SUFFICES ASSUME Drained, [Next]_vars
             PROVE  Draining'
  BY OrderInductive DEF Drained
<1>0. /\ TypeOK /\ Control /\ Draining /\ Expiring \subseteq q
      /\ Submitters \subseteq Threads /\ Workers \subseteq Threads /\ Sweeper \in Threads
      /\ Submitters \cap Workers = {} /\ Sweeper \notin Submitters /\ Sweeper \notin Workers
  BY ThreadsAssumption DEF Drained, Order, Custody, TypeControl, Threads, Expiring
<1> USE DEF queueVars, threadVars, Goto
\* A goroutine that is not done takes expired tasks or none, and goes on.
<1>1. ASSUME NEW th \in Threads, pc[th] # "done", closed => q' \subseteq q, UNCHANGED main,
             \A o \in Threads : o # th => pc'[o] = pc[o] /\ dead'[o] \subseteq dead[o],
             pc'[th] = "done" => th \notin Workers
      PROVE  Draining'
  <2>1. \A o \in Workers \cup {Sweeper} :
            /\ pc[o] = "done" => pc'[o] = "done" /\ dead'[o] \subseteq dead[o]
            /\ pc'[o] = "done" => pc[o] = "done" \/ o = Sweeper
    BY <1>0, <1>1
  <2> QED BY <1>0, <1>1, <2>1, DrainedQuiet
<1>2. ASSUME NEW s \in Submitters, NEW t \in Task, NEW d \in Deadlines, Submit(s, t, d)
      PROVE  Draining'
  BY <1>0, <1>1, <1>2 DEF Submit, TypeOK, Control
<1>3. ASSUME NEW s \in Submitters, SubmitterStep(s) \/ TimerFire(s) PROVE Draining'
  <2>1. pc[s] # "done" /\ UNCHANGED main
    BY <1>0, <1>3 DEF SubmitterStep, Collect, Admit, Room, expire, shedLimit, release,
                      TimerFire, Control
  <2>2. \A o \in Threads : o # s => pc'[o] = pc[o] /\ dead'[o] = dead[o]
    <3>1. /\ \/ UNCHANGED pc \/ \E label : pc' = [pc EXCEPT ![s] = label]
          /\ \/ UNCHANGED dead \/ dead' = [dead EXCEPT ![s] = Expiring]
      BY <1>3 DEF SubmitterStep, Collect, Admit, Room, expire, shedLimit, release,
                  TimerFire, takeExpiredLocked, waitTurn, leaveTo, enqueueLocked
    <3> QED BY <1>0, <3>1 DEF TypeOK
  <2>3. closed => q' \subseteq q
    BY <1>3 DEF SubmitterStep, Collect, Admit, Room, expire, shedLimit, release,
                TimerFire, takeExpiredLocked, leaveTo
  <2> QED BY <1>0, <1>1, <2>1, <2>2, <2>3
<1>4. ASSUME NEW w \in Workers, pop(w) PROVE Draining'
  <2>1. /\ pc[w] = "pop" /\ UNCHANGED main
        /\ \A o \in Threads : o # w => dead'[o] = dead[o]
        /\ q' \subseteq q
    BY <1>0, <1>4, PopTypes
  <2>2. ASSUME NEW label \in {"pop", "budget"}, pc' = [pc EXCEPT ![w] = label]
        PROVE  Draining'
    BY <1>0, <1>1, <2>1, <2>2 DEF TypeOK
  <2>3. CASE q \ Expiring = {} /\ closed /\ takeExpiredLocked(w) /\ Goto(w, "done")
    <3>1. q' = {} /\ UNCHANGED closed /\ pc' = [pc EXCEPT ![w] = "done"]
      BY <2>1, <2>3 DEF takeExpiredLocked, closed
    <3>2. main # "closed"
      BY <2>1, <1>0 DEF Draining
    <3> QED BY <2>1, <2>3, <3>1, <3>2 DEF Draining
  <2>4. CASE UNCHANGED pc
    BY <1>0, <1>1, <2>1, <2>4
  <2> QED BY <1>4, <2>2, <2>3, <2>4 DEF pop
<1>5. ASSUME NEW w \in Workers, budget(w) \/ handle(w) PROVE Draining'
  <2>1. /\ pc[w] \in {"budget", "serve", "refuse"} /\ UNCHANGED <<q, dead, main>>
        /\ \E label \in {"refuse", "serve", "pop"} : pc' = [pc EXCEPT ![w] = label]
    BY <1>5 DEF budget, handle, release
  <2>2. pc'[w] # "done" /\ \A o \in Threads : o # w => pc'[o] = pc[o]
    BY <1>0, <2>1 DEF TypeOK
  <2> QED BY <1>0, <1>1, <2>1, <2>2
<1>6. ASSUME NEW th \in Threads, replyDead(th) PROVE Draining'
  <2>1. UNCHANGED <<q, pc, main>> /\ \A o \in Threads : dead'[o] \subseteq dead[o]
    BY <1>0, <1>6 DEF replyDead, TypeOK
  <2> QED BY <1>0, <2>1, DrainedQuiet
<1>7. ASSUME sweep PROVE Draining'
  <2>1. /\ pc[Sweeper] = "sweep" /\ UNCHANGED <<pc, main>> /\ q' \subseteq q
        /\ \A o \in Threads : o # Sweeper => dead'[o] = dead[o]
    BY <1>0, <1>7 DEF sweep, takeExpiredLocked, TypeOK
  <2> QED BY <1>0, <1>1, <2>1
<1>8. ASSUME sweepReturn PROVE Draining'
  BY <1>0, <1>1, <1>8 DEF sweepReturn, TypeOK
<1>9. ASSUME closeStop \/ closeMark \/ closeReturn \/ Tick \/ UNCHANGED vars PROVE Draining'
  BY <1>0, <1>9 DEF closeStop, closeMark, closeReturn, Tick, vars, closed, Draining
<1> QED
  BY <1>2, <1>3, <1>4, <1>5, <1>6, <1>7, <1>8, <1>9
  DEF Next, WorkerStep, SweeperStep, CloseStep, Terminated

\* A drained pool has answered every accepted task that no submitter holds.
LEMMA DrainedAnswers == Drained => ClosedDrained
<1>1. ASSUME Drained, main = "closed" PROVE q = {}
  BY <1>1, ThreadsAssumption DEF Drained, Draining
<1>2. ASSUME Drained, main = "closed", NEW t \in Unanswered, pos[t] > 0
      PROVE  \E s \in Submitters : t \in dead[s]
  <2>1. t \in Task /\ Held(t)
    BY <1>2 DEF Drained, Order, Custody, TypeControl, TypeOK, AnsweredOnce, Unanswered
  <2>2. PICK th \in Threads : cur[th] = t \/ t \in dead[th]
    BY <1>1, <1>2, <2>1 DEF Held
  <2>3. \A o \in Workers \cup {Sweeper} : pc[o] = "done" /\ dead[o] = {}
    BY <1>2 DEF Drained, Draining
  <2>4. t # NoTask
    BY <2>1, ThreadsAssumption
  <2>5. \A o \in Workers \cup {Sweeper} : cur[o] # t
    BY <1>2, <2>3, <2>4 DEF Drained, Order, Custody, TypeControl, Control
  <2>6. \A s \in Submitters : cur[s] # t
    BY <1>2, <2>4 DEF Drained, Order, Positions
  <2> QED BY <2>2, <2>3, <2>5, <2>6 DEF Threads
<1> QED BY <1>1, <1>2 DEF ClosedDrained

\* When Close has returned, the queue is empty and only tasks that a submitter
\* took as expired are without an answer.
THEOREM CloseDrains == Spec => []ClosedDrained
  BY InitDrained, DrainedInductive, DrainedAnswers, PTL DEF Spec

-----------------------------------------------------------------------------
(* The counters.                                                           *)

Placed == {t \in Task : pos[t] > 0}
Refusing == {w \in Workers : pc[w] = "refuse"}

Counted == Order /\ Accounting

\* The sets that are counted are finite.
LEMMA CountedFinite ==
    /\ IsFiniteSet(Placed) /\ IsFiniteSet(Refusing)
    /\ \A o \in Outcomes : IsFiniteSet(AnsweredAs(o))
    /\ Cardinality(Placed) \in Nat /\ Cardinality(Refusing) \in Nat
    /\ \A o \in Outcomes : Cardinality(AnsweredAs(o)) \in Nat
<1>1. /\ Placed \subseteq Task /\ Refusing \subseteq Workers
      /\ \A o \in Outcomes : AnsweredAs(o) \subseteq Task
  BY DEF Placed, Refusing, AnsweredAs
<1>2. /\ IsFiniteSet(Placed) /\ IsFiniteSet(Refusing)
      /\ \A o \in Outcomes : IsFiniteSet(AnsweredAs(o))
  BY <1>1, FiniteAssumption, FS_Subset
<1> QED BY <1>2, FS_CardinalityType

\* The counters begin at zero.
LEMMA InitCounted == Init => Counted
<1> SUFFICES ASSUME Init PROVE Counted
  OBVIOUS
<1>1. Placed = {} /\ Refusing = {} /\ \A o : AnsweredAs(o) = {}
  BY ThreadsAssumption DEF Init, Placed, Refusing, AnsweredAs, Threads
<1>2. Cardinality({}) = 0
  BY FS_EmptySet
<1>3. Accounting
  <2>1. Accepted = 0 /\ Shed = 0 /\ Expired = 0
    BY DEF Init
  <2>2. Cardinality(Placed) = 0 /\ Cardinality(Refusing) = 0
    BY <1>1, <1>2
  <2>3. Cardinality(AnsweredAs("limit")) = 0 /\ Cardinality(AnsweredAs("deadline")) = 0
    BY <1>1, <1>2
  <2> QED BY <2>1, <2>2, <2>3 DEF Accounting, Placed, Refusing
<1> QED BY <1>3, InitOrder DEF Counted

\* Nothing that is counted changes.
LEMMA CountedQuiet ==
    ASSUME Accounting, UNCHANGED <<pos, answers, Accepted, Shed, Expired>>,
           Refusing' = Refusing
    PROVE  Accounting'
  BY DEF Accounting, AnsweredAs, Refusing

\* The one answer of a task that is held.
LEMMA AnswerCounted ==
    ASSUME Order, NEW t \in Task, Held(t), NEW o \in Outcomes, Answer(t, o)
    PROVE  /\ Cardinality(AnsweredAs(o)') = Cardinality(AnsweredAs(o)) + 1
           /\ \A p \in Outcomes \ {o} : AnsweredAs(p)' = AnsweredAs(p)
<1>1. answers[t] = <<>> /\ answers \in [Task -> Seq(Outcomes)]
  BY DEF Order, Custody, AnsweredOnce, Unanswered, TypeControl, TypeOK
<1>2. answers' = [answers EXCEPT ![t] = <<o>>]
  BY <1>1 DEF Answer
<1>3. answers'[t] = <<o>> /\ \A u \in Task : u # t => answers'[u] = answers[u]
  BY <1>1, <1>2
<1>4. \A p : <<p>> # <<>>
  OBVIOUS
<1>5. t \notin AnsweredAs(o) /\ AnsweredAs(o)' = AnsweredAs(o) \cup {t}
  BY <1>1, <1>3, <1>4 DEF AnsweredAs
<1>6. Cardinality(AnsweredAs(o)') = Cardinality(AnsweredAs(o)) + 1
  BY <1>5, CountedFinite, FS_AddElement
<1>7. ASSUME NEW p \in Outcomes, p # o PROVE AnsweredAs(p)' = AnsweredAs(p)
  BY <1>1, <1>3, <1>4, <1>7 DEF AnsweredAs
<1> QED BY <1>6, <1>7

\* Appending a task counts it.
LEMMA EnqueueCounted ==
    ASSUME Order, Accounting, NEW s \in Submitters, cur[s] # NoTask, enqueueLocked(s),
           UNCHANGED <<answers, Shed, Expired>>, Refusing' = Refusing
    PROVE  Accounting'
<1>1. TypeOK /\ Positions /\ s \in Threads
  BY DEF Order, Custody, TypeControl, Threads
<1>2. cur[s] \in Task /\ pos[cur[s]] = 0 /\ Accepted \in Nat /\ pos \in [Task -> Nat]
  BY <1>1 DEF TypeOK, Positions
<1>3. pos' = [pos EXCEPT ![cur[s]] = Accepted + 1] /\ Accepted' = Accepted + 1
  BY DEF enqueueLocked
<1>4. Placed' = Placed \cup {cur[s]} /\ cur[s] \notin Placed
  BY <1>2, <1>3 DEF Placed
<1>5. Cardinality(Placed') = Cardinality(Placed) + 1
  BY <1>4, CountedFinite, FS_AddElement
<1>6. Accepted = Cardinality(Placed)
  BY DEF Accounting, Placed
<1>7. Accepted' = Cardinality(Placed')
  BY <1>3, <1>5, <1>6
<1>8. \A o : AnsweredAs(o)' = AnsweredAs(o)
  BY DEF AnsweredAs
<1> QED BY <1>7, <1>8 DEF Accounting, Placed, Refusing

\* Every step keeps the counters.
LEMMA CountedInductive == Counted /\ [Next]_vars => Counted'
<1> SUFFICES ASSUME Counted, [Next]_vars
             PROVE  Accounting'
  BY OrderInductive DEF Counted
<1>0. /\ TypeOK /\ Control /\ Accounting /\ Order
      /\ Submitters \subseteq Threads /\ Workers \subseteq Threads /\ Sweeper \in Threads
      /\ Submitters \cap Workers = {} /\ Sweeper \notin Submitters /\ Sweeper \notin Workers
  BY ThreadsAssumption DEF Counted, Order, Custody, TypeControl, Threads
<1>00. /\ {"served", "deadline", "limit"} = Outcomes /\ Shed \in Nat /\ Expired \in Nat
      /\ Cardinality(Refusing) \in Nat /\ IsFiniteSet(Refusing)
      /\ Cardinality(AnsweredAs("deadline")) \in Nat /\ Cardinality(AnsweredAs("limit")) \in Nat
      /\ Accepted = Cardinality(Placed) /\ Shed = Cardinality(AnsweredAs("limit"))
      /\ Expired = Cardinality(AnsweredAs("deadline")) + Cardinality(Refusing)
  BY <1>0, CountedFinite DEF Accounting, Placed, Refusing, TypeOK, Outcomes
<1> USE DEF queueVars, threadVars, Goto
<1>1. ASSUME NEW s \in Threads, s \notin Workers, NEW label, pc' = [pc EXCEPT ![s] = label]
      PROVE  Refusing' = Refusing
  BY <1>0, <1>1 DEF Refusing, TypeOK
<1>2. ASSUME UNCHANGED <<pos, answers, Accepted, Shed, Expired>>, Refusing' = Refusing
      PROVE  Accounting'
  BY <1>0, <1>2, CountedQuiet
<1>3. ASSUME NEW s \in Submitters, NEW t \in Task, NEW d \in Deadlines, Submit(s, t, d)
      PROVE  Accounting'
  BY <1>0, <1>1, <1>2, <1>3 DEF Submit
<1>4. ASSUME NEW s \in Submitters, Collect(s) \/ Admit(s) \/ Room(s) \/ TimerFire(s)
      PROVE  Accounting'
  <2>1. UNCHANGED <<answers, Shed, Expired>>
    BY <1>4 DEF Collect, Admit, Room, TimerFire
  <2>2. UNCHANGED pc \/ \E label : pc' = [pc EXCEPT ![s] = label]
    BY <1>4 DEF Collect, Admit, Room, TimerFire, enqueueLocked, leaveTo, waitTurn
  <2>3. Refusing' = Refusing
    BY <1>0, <1>1, <2>2 DEF Refusing
  <2>4. UNCHANGED <<pos, Accepted>> \/ (enqueueLocked(s) /\ pc[s] \in {"admit", "room"})
    BY <1>4 DEF Collect, Admit, Room, TimerFire, leaveTo, waitTurn
  <2>5. ASSUME enqueueLocked(s), pc[s] \in {"admit", "room"} PROVE Accounting'
    <3>1. cur[s] # NoTask
      BY <1>0, <2>5 DEF Control
    <3> QED BY <1>0, <2>1, <2>3, <2>5, <3>1, EnqueueCounted
  <2> QED BY <1>2, <2>1, <2>3, <2>4, <2>5
<1>5. ASSUME NEW s \in Submitters, expire(s) \/ shedLimit(s) PROVE Accounting'
  <2>1. /\ pc[s] \in {"expire", "shed"} /\ pc' = [pc EXCEPT ![s] = "idle"]
        /\ UNCHANGED <<pos, Accepted>>
        /\ IF pc[s] = "expire" THEN /\ Answer(cur[s], "deadline")
                                    /\ Expired' = Expired + 1 /\ Shed' = Shed
                               ELSE /\ Answer(cur[s], "limit")
                                    /\ Shed' = Shed + 1 /\ Expired' = Expired
    BY <1>5 DEF expire, shedLimit, release
  <2>2. cur[s] \in Task /\ Held(cur[s]) /\ s \in Threads
    BY <1>0, <2>1 DEF Control, TypeOK, Held
  <2>3. Refusing' = Refusing /\ Placed' = Placed
    BY <1>0, <1>1, <2>1, <2>2 DEF Placed
  <2>4. CASE pc[s] = "expire"
    <3>1. /\ Cardinality(AnsweredAs("deadline")') = Cardinality(AnsweredAs("deadline")) + 1
          /\ \A p \in Outcomes \ {"deadline"} : AnsweredAs(p)' = AnsweredAs(p)
      BY <1>0, <2>1, <2>2, <2>4, AnswerCounted DEF Outcomes
    <3>2. AnsweredAs("limit")' = AnsweredAs("limit")
      BY <3>1 DEF Outcomes
    <3>3. Expired' = Cardinality(AnsweredAs("deadline")') + Cardinality(Refusing')
      BY <1>00, <2>1, <2>3, <2>4, <3>1
    <3> QED BY <1>00, <2>1, <2>3, <2>4, <3>2, <3>3 DEF Accounting, Placed, Refusing
  <2>5. CASE pc[s] = "shed"
    <3>1. /\ Cardinality(AnsweredAs("limit")') = Cardinality(AnsweredAs("limit")) + 1
          /\ \A p \in Outcomes \ {"limit"} : AnsweredAs(p)' = AnsweredAs(p)
      BY <1>0, <2>1, <2>2, <2>5, AnswerCounted DEF Outcomes
    <3>2. AnsweredAs("deadline")' = AnsweredAs("deadline")
      BY <3>1 DEF Outcomes
    <3>3. Shed' = Cardinality(AnsweredAs("limit")')
      BY <1>00, <2>1, <2>5, <3>1
    <3> QED BY <1>00, <2>1, <2>3, <2>5, <3>2, <3>3 DEF Accounting, Placed, Refusing
  <2> QED BY <2>1, <2>4, <2>5
<1>6. ASSUME NEW th \in Threads, replyDead(th) PROVE Accounting'
  <2>1. PICK t \in dead[th] : Answer(t, "deadline")
    BY <1>6 DEF replyDead
  <2>2. UNCHANGED <<pos, Accepted, pc, Shed>> /\ Expired' = Expired + 1
    BY <1>6 DEF replyDead
  <2>3. t \in Task /\ Held(t)
    BY <1>0, <2>1 DEF TypeOK, Held
  <2>4. /\ Cardinality(AnsweredAs("deadline")') = Cardinality(AnsweredAs("deadline")) + 1
        /\ \A p \in Outcomes \ {"deadline"} : AnsweredAs(p)' = AnsweredAs(p)
    BY <1>0, <2>1, <2>3, AnswerCounted DEF Outcomes
  <2>5. AnsweredAs("limit")' = AnsweredAs("limit")
    BY <2>4 DEF Outcomes
  <2>6. Refusing' = Refusing /\ Placed' = Placed
    BY <2>2 DEF Refusing, Placed
  <2>7. Expired' = Cardinality(AnsweredAs("deadline")') + Cardinality(Refusing')
    BY <1>00, <2>2, <2>4, <2>6
  <2> QED BY <1>00, <2>2, <2>5, <2>6, <2>7 DEF Accounting, Placed, Refusing
<1>7. ASSUME NEW w \in Workers, pop(w) PROVE Accounting'
  <2>1. /\ UNCHANGED <<pos, Accepted, answers, Shed, Expired>> /\ pc[w] = "pop"
        /\ UNCHANGED pc \/ \E label \in {"done", "budget"} : pc' = [pc EXCEPT ![w] = label]
    BY <1>0, <1>7, PopTypes
  <2>2. Refusing' = Refusing
    BY <1>0, <2>1 DEF Refusing, TypeOK
  <2> QED BY <1>2, <2>1, <2>2
<1>8. ASSUME NEW w \in Workers, budget(w) PROVE Accounting'
  <2>1. /\ UNCHANGED <<pos, Accepted, answers, Shed>> /\ pc[w] = "budget"
        /\ \/ pc' = [pc EXCEPT ![w] = "refuse"] /\ Expired' = Expired + 1
           \/ pc' = [pc EXCEPT ![w] = "serve"] /\ Expired' = Expired
    BY <1>8 DEF budget
  <2>2. CASE pc' = [pc EXCEPT ![w] = "serve"] /\ Expired' = Expired
    <3>1. Refusing' = Refusing
      BY <1>0, <2>1, <2>2 DEF Refusing, TypeOK
    <3> QED BY <1>2, <2>1, <2>2, <3>1
  <2>3. CASE pc' = [pc EXCEPT ![w] = "refuse"] /\ Expired' = Expired + 1
    <3>1. Refusing' = Refusing \cup {w} /\ w \notin Refusing
      BY <1>0, <2>1, <2>3 DEF Refusing, TypeOK
    <3>2. Cardinality(Refusing') = Cardinality(Refusing) + 1
      BY <1>00, <3>1, FS_AddElement
    <3>3. Placed' = Placed /\ \A o : AnsweredAs(o)' = AnsweredAs(o)
      BY <2>1 DEF Placed, AnsweredAs
    <3>4. Expired' = Cardinality(AnsweredAs("deadline")') + Cardinality(Refusing')
      BY <1>00, <2>3, <3>2, <3>3
    <3> QED BY <1>00, <2>1, <3>3, <3>4 DEF Accounting, Placed, Refusing
  <2> QED BY <2>1, <2>2, <2>3
<1>9. ASSUME NEW w \in Workers, handle(w) PROVE Accounting'
  <2>1. /\ UNCHANGED <<pos, Accepted, Shed, Expired>> /\ pc' = [pc EXCEPT ![w] = "pop"]
        /\ pc[w] \in {"serve", "refuse"}
        /\ Answer(cur[w], IF pc[w] = "serve" THEN "served" ELSE "deadline")
    BY <1>9 DEF handle, release
  <2>2. cur[w] \in Task /\ Held(cur[w])
    BY <1>0, <2>1 DEF Control, TypeOK, Held
  <2>3. Placed' = Placed
    BY <2>1 DEF Placed
  <2>4. CASE pc[w] = "serve"
    <3>1. \A p \in Outcomes \ {"served"} : AnsweredAs(p)' = AnsweredAs(p)
      BY <1>0, <2>1, <2>2, <2>4, AnswerCounted DEF Outcomes
    <3>2. AnsweredAs("deadline")' = AnsweredAs("deadline") /\ AnsweredAs("limit")' = AnsweredAs("limit")
      BY <3>1 DEF Outcomes
    <3>3. Refusing' = Refusing
      BY <1>0, <2>1, <2>4 DEF Refusing, TypeOK
    <3> QED BY <1>00, <2>1, <2>3, <3>2, <3>3 DEF Accounting, Placed, Refusing
  <2>5. CASE pc[w] = "refuse"
    <3>1. /\ Cardinality(AnsweredAs("deadline")') = Cardinality(AnsweredAs("deadline")) + 1
          /\ \A p \in Outcomes \ {"deadline"} : AnsweredAs(p)' = AnsweredAs(p)
      BY <1>0, <2>1, <2>2, <2>5, AnswerCounted DEF Outcomes
    <3>2. AnsweredAs("limit")' = AnsweredAs("limit")
      BY <3>1 DEF Outcomes
    <3>3. Refusing' = Refusing \ {w} /\ w \in Refusing
      BY <1>0, <2>1, <2>5 DEF Refusing, TypeOK
    <3>4. Cardinality(Refusing') = Cardinality(Refusing) - 1
      BY <1>00, <3>3, FS_RemoveElement
    <3>5. Expired' = Cardinality(AnsweredAs("deadline")') + Cardinality(Refusing')
      BY <1>00, <2>1, <3>1, <3>4
    <3> QED BY <1>00, <2>1, <2>3, <3>2, <3>5 DEF Accounting, Placed, Refusing
  <2> QED BY <2>1, <2>4, <2>5
<1>10. ASSUME \/ sweep \/ sweepReturn \/ closeStop \/ closeMark \/ closeReturn
              \/ Tick \/ UNCHANGED vars
       PROVE  Accounting'
  <2>1. /\ UNCHANGED <<pos, Accepted, answers, Shed, Expired>>
        /\ UNCHANGED pc \/ pc' = [pc EXCEPT ![Sweeper] = "done"]
    BY <1>10 DEF sweep, sweepReturn, closeStop, closeMark, closeReturn, Tick, vars
  <2>2. Refusing' = Refusing
    BY <1>0, <1>1, <2>1 DEF Refusing
  <2> QED BY <1>2, <2>1, <2>2
<1> QED
  BY <1>3, <1>4, <1>5, <1>6, <1>7, <1>8, <1>9, <1>10
  DEF Next, SubmitterStep, WorkerStep, SweeperStep, CloseStep, Terminated

\* The counters of the presence frame add up at every moment.
THEOREM CountersAddUp == Spec => []Accounting
<1>1. Counted => Accounting
  BY DEF Counted
<1> QED BY InitCounted, CountedInductive, <1>1, PTL DEF Spec


-----------------------------------------------------------------------------
(* Shutdown.                                                               *)

\* The sink of the process with the theorems about it.
Audit == INSTANCE AuditSinkProofs WITH
    Subjects <- {Subject}, MaxEvents <- Cardinality(Task), main <- sinkMain

-----------------------------------------------------------------------------
(* The composition runs the pool and the sink: a step of the process is a  *)
(* step of each, or leaves it alone.                                       *)

\* What the sink is assumed to be given.
LEMMA SinkConstants ==
    /\ maxItems \in Nat \ {0} /\ maxPending \in Nat \ {0}
    /\ Cardinality(Task) \in Nat
  BY SinkLimits, FiniteAssumption, FS_CardinalityType

\* Every step is one of the pool or leaves the pool as it is.
LEMMA RunsPool == [NextRun]_runVars => [Next]_vars
<1> SUFFICES ASSUME NextRun PROVE [Next]_vars
  BY DEF runVars
<1>1. ASSUME NEW s \in Submitters, Receive(s) PROVE Next
  BY <1>1 DEF Receive, Next
<1>2. ASSUME NEW th \in Threads, PoolStep(th) PROVE Next
  BY <1>2 DEF PoolStep, Next
<1>3. ASSUME NEW th \in Threads, AddEvent(th) PROVE UNCHANGED vars
  BY <1>3 DEF AddEvent
<1>4. CASE Clock
  BY <1>4 DEF Clock, Next
<1>5. CASE SinkStep \/ waitForSignal \/ Drain \/ sinkClose \/ ncClose \/ Exit \/ Exited
  BY <1>5 DEF SinkStep, waitForSignal, Drain, sinkClose, ncClose, Exit, Exited, runVars
<1>6. CASE poolClose
  BY <1>6 DEF poolClose, Next
<1> QED BY <1>1, <1>2, <1>3, <1>4, <1>5, <1>6 DEF NextRun, MainStep

\* Every step is one of the sink or leaves the sink as it is.
LEMMA RunsSink == [NextRun]_runVars => [Sink!Next]_(Sink!vars)
<1> SUFFICES ASSUME NextRun PROVE Sink!Next \/ UNCHANGED sinkVars
  BY DEF runVars, sinkVars, Sink!vars
<1>1. ASSUME NEW s \in Submitters, Receive(s) PROVE UNCHANGED sinkVars
  BY <1>1 DEF Receive
<1>2. ASSUME NEW th \in Threads, PoolStep(th) PROVE UNCHANGED sinkVars
  BY <1>2 DEF PoolStep
<1>3. ASSUME NEW th \in Threads, AddEvent(th) PROVE Sink!Next
  BY <1>3 DEF AddEvent, Sink!Next
<1>4. CASE \/ Clock \/ waitForSignal \/ Drain \/ poolClose \/ ncClose \/ Exit \/ Exited
  BY <1>4 DEF Clock, waitForSignal, Drain, poolClose, ncClose, Exit, Exited, runVars
<1>5. CASE SinkStep
  BY <1>5 DEF SinkStep, Sink!Next
<1>6. CASE sinkClose
  BY <1>6 DEF sinkClose, Sink!Next
<1> QED BY <1>1, <1>2, <1>3, <1>4, <1>5, <1>6 DEF NextRun, MainStep

\* The pool of the process keeps every theorem about Pool, whatever run, the
\* connection and the sink do: the process implements Pool.
THEOREM ProcessRunsPool == SpecRun => Spec
<1>1. InitRun => Init
  BY DEF InitRun
<1> QED BY <1>1, RunsPool, PTL DEF SpecRun, Spec

\* So does its sink: the process implements AuditSink.
THEOREM ProcessRunsSink == SpecRun => Sink!Spec
<1>1. InitRun => Sink!Init
  BY DEF InitRun
<1> QED BY <1>1, RunsSink, PTL DEF SpecRun, Sink!Spec

-----------------------------------------------------------------------------
(* The inductive invariant.                                                *)

\* The tasks that have their answer.
Answered == {t \in Task : answers[t] # <<>>}

RunTypes ==
    /\ run \in {"serve", "drain", "pool", "sink", "return", "exit", "exited"}
    /\ conn \in {"open", "closed"}
    /\ by \in [Task -> Threads \cup {Nobody}]
    /\ replied \subseteq Task
    /\ owed \in [Threads -> Task \cup {NoTask}]
    /\ eventOf \in [Task -> 0 .. added]

\* handler.send: the goroutine that answered a task has its reply on the bus,
\* unless it is the callback, and adds its event before it does anything else.
Sending ==
    /\ replied \subseteq Answered
    /\ \A t \in Answered :
          /\ by[t] \in Threads
          /\ t \in replied \/ by[t] \in Submitters
          /\ owed[by[t]] = t \/ eventOf[t] # 0
    /\ \A th \in Threads : owed[th] # NoTask =>
          owed[th] \in Answered /\ by[owed[th]] = th

\* What run has closed where it is, and what that has settled: no goroutine of
\* a closed pool is between a reply and its event, and once the sink is being
\* closed the events of these goroutines are among those Close flushes.
RunStages ==
    /\ main = "closed" <=> run \in {"sink", "return", "exit", "exited"}
    /\ run \in {"serve", "drain", "pool"} => sinkMain = "run"
    /\ run \in {"return", "exit", "exited"} => sinkMain = "closed"
    /\ conn = "closed" <=> run \in {"exit", "exited"}
    /\ main = "closed" => \A th \in PoolGoroutines : owed[th] = NoTask
    /\ sinkMain # "run" =>
          \A t \in Answered : by[t] \in PoolGoroutines => eventOf[t] \in 1 .. mark

Settled == RunTypes /\ Sending /\ RunStages

\* A process that has just started.
LEMMA InitSettled == InitRun => Settled
<1> SUFFICES ASSUME InitRun PROVE Settled
  OBVIOUS
<1>1. /\ run = "serve" /\ conn = "open" /\ replied = {} /\ main = "run" /\ sinkMain = "run"
      /\ added = 0 /\ answers = [t \in Task |-> <<>>]
      /\ by = [t \in Task |-> Nobody] /\ owed = [th \in Threads |-> NoTask]
      /\ eventOf = [t \in Task |-> 0]
  BY DEF InitRun, Init, Sink!Init
<1>2. RunTypes
  BY <1>1 DEF RunTypes
<1>3. Sending
  BY <1>1 DEF Sending, Answered
<1>4. RunStages
  BY <1>1 DEF RunStages, Answered
<1> QED BY <1>2, <1>3, <1>4 DEF Settled

\* What the pool gives the composition: an answer is a task's only one, and a
\* goroutine of a closed pool takes no step.
LEMMA StepAnswers ==
    ASSUME Drained, NEW th \in Threads, PoolStep(th)
    PROVE  /\ UNCHANGED <<arrived, main>>
           /\ main = "closed" => th \in Submitters
           /\ \/ UNCHANGED answers
              \/ \E t \in arrived, o \in Outcomes :
                    answers[t] = <<>> /\ answers' = [answers EXCEPT ![t] = <<o>>]
<1> USE DEF queueVars, threadVars
<1>1. UNCHANGED <<arrived, main>>
  BY DEF PoolStep, SubmitterStep, WorkerStep, SweeperStep, Collect, Admit, Room, expire,
         shedLimit, release, pop, budget, handle, sweep, sweepReturn, replyDead
<1>2. ASSUME main = "closed", th \notin Submitters PROVE FALSE
  <2>1. th \in Workers \cup {Sweeper} /\ pc[th] = "done" /\ dead[th] = {}
    BY <1>2 DEF Threads, Drained, Draining
  <2> QED BY <1>2, <2>1 DEF PoolStep, WorkerStep, SweeperStep, pop, budget, handle, sweep,
                            sweepReturn, replyDead
<1>3. Custody /\ arrived \subseteq Task
  BY DEF Drained, Order, Custody, TypeControl, TypeOK
<1>4. Next
  BY DEF PoolStep, Next
<1>5. Contract!NextContract \/ UNCHANGED answers
  BY <1>3, <1>4, StepRefines DEF Contract!contractVars
<1>6. ASSUME Contract!NextContract
      PROVE  \/ UNCHANGED answers
             \/ \E t \in arrived, o \in Outcomes :
                    answers[t] = <<>> /\ answers' = [answers EXCEPT ![t] = <<o>>]
  BY <1>1, <1>6 DEF Contract!NextContract, Contract!Arrive, Contract!Reply, Outcomes
<1> QED BY <1>1, <1>2, <1>5, <1>6

\* The first half of handler.send: a step that answers no task sends nothing,
\* one that answers t publishes the reply of t if the connection is open.
LEMMA StepSends ==
    ASSUME Drained, NEW th \in Threads, PoolStep(th)
    PROVE  \/ UNCHANGED <<answers, by, replied, owed>>
           \/ \E t \in arrived, o \in Outcomes :
                 /\ answers[t] = <<>> /\ answers' = [answers EXCEPT ![t] = <<o>>]
                 /\ by' = [by EXCEPT ![t] = th]
                 /\ replied' = IF conn = "open" THEN replied \cup {t} ELSE replied
                 /\ owed' = [owed EXCEPT ![th] = t]
<1>1. CASE UNCHANGED answers
  BY <1>1 DEF PoolStep, publishReply
<1>2. CASE ~UNCHANGED answers
  <2>1. PICK t \in arrived, o \in Outcomes :
            answers[t] = <<>> /\ answers' = [answers EXCEPT ![t] = <<o>>]
    BY <1>2, StepAnswers
  <2>2. PICK u \in Task :
            /\ answers'[u] # answers[u]
            /\ by' = [by EXCEPT ![u] = th]
            /\ replied' = IF conn = "open" THEN replied \cup {u} ELSE replied
            /\ owed' = [owed EXCEPT ![th] = u]
    BY <1>2 DEF PoolStep, publishReply
  <2>3. answers \in [Task -> Seq(Outcomes)]
    BY DEF Drained, Order, Custody, TypeControl, TypeOK
  <2>4. u = t
    <3> DEFINE X == Seq(Outcomes)
    <3> HIDE DEF X
    <3>1. answers \in [Task -> X]
      BY <2>3 DEF X
    <3> QED BY <2>1, <2>2, <3>1
  <2> QED BY <2>1, <2>2, <2>4
<1> QED BY <1>1, <1>2

\* The numbers of the sink.
LEMMA SinkNumbers ==
    ASSUME Audit!Inv
    PROVE  added \in Nat /\ mark \in 0 .. added
<1>1. added \in 0 .. Cardinality(Task) /\ mark \in 0 .. added
  BY DEF Audit!Inv, Audit!TypeOK
<1> QED BY <1>1, SinkConstants

\* A step of a goroutine of the pool, with the first half of handler.send.
LEMMA PoolStepSettles ==
    ASSUME Drained, Settled, NEW th \in Threads, PoolStep(th)
    PROVE  Settled'
<1>1. /\ UNCHANGED <<main, run, conn, eventOf, added, sinkMain, mark>>
      /\ owed[th] = NoTask
      /\ main = "closed" => th \in Submitters
  BY StepAnswers DEF PoolStep, sinkVars, busVars
<1>2. RunTypes /\ Sending /\ RunStages
  BY DEF Settled
<1>3. CASE UNCHANGED <<answers, by, replied, owed>>
  <2>1. RunTypes'
    BY <1>1, <1>2, <1>3 DEF RunTypes
  <2>2. Sending'
    BY <1>1, <1>2, <1>3 DEF Sending, Answered
  <2>3. RunStages'
    BY <1>1, <1>2, <1>3 DEF RunStages, Answered
  <2> QED BY <2>1, <2>2, <2>3 DEF Settled
<1>4. CASE ~UNCHANGED <<answers, by, replied, owed>>
  <2>1. PICK t \in arrived, o \in Outcomes :
            /\ answers[t] = <<>> /\ answers' = [answers EXCEPT ![t] = <<o>>]
            /\ by' = [by EXCEPT ![t] = th]
            /\ replied' = IF conn = "open" THEN replied \cup {t} ELSE replied
            /\ owed' = [owed EXCEPT ![th] = t]
    BY <1>4, StepSends
  <2>2. t \in Task /\ t # NoTask
    BY ThreadsAssumption DEF Drained, Order, Custody, TypeControl, TypeOK
  <2>3. /\ by \in [Task -> Threads \cup {Nobody}] /\ owed \in [Threads -> Task \cup {NoTask}]
        /\ replied \subseteq Task /\ conn \in {"open", "closed"}
    BY <1>2 DEF RunTypes
  <2>4. Answered' = Answered \cup {t}
    <3> DEFINE X == Seq(Outcomes)
    <3> HIDE DEF X
    <3>1. answers \in [Task -> X]
      BY DEF Drained, Order, Custody, TypeControl, TypeOK, X
    <3>2. \A u \in Task : answers'[u] = IF u = t THEN <<o>> ELSE answers[u]
      BY <2>1, <2>2, <3>1
    <3>3. <<o>> # <<>>
      OBVIOUS
    <3> QED BY <2>2, <3>2, <3>3 DEF Answered
  <2>5. t \notin Answered /\ Answered \subseteq Task
    BY <2>1 DEF Answered
  <2> HIDE DEF Answered
  <2>6. /\ \A u \in Task : by'[u] = IF u = t THEN th ELSE by[u]
        /\ \A g \in Threads : owed'[g] = IF g = th THEN t ELSE owed[g]
        /\ by' \in [Task -> Threads \cup {Nobody}] /\ owed' \in [Threads -> Task \cup {NoTask}]
    BY <2>1, <2>2, <2>3
  <2>7. replied' \subseteq Task /\ replied \subseteq replied' /\ replied' \subseteq replied \cup {t}
        /\ (conn = "open" => t \in replied')
    BY <2>1, <2>2, <2>3
  <2>8. t \in replied' \/ th \in Submitters
    <3>1. conn = "closed" => main = "closed"
      BY <1>2 DEF RunStages
    <3> QED BY <1>1, <2>3, <2>7, <3>1
  <2>9. RunTypes'
    BY <1>1, <1>2, <2>6, <2>7 DEF RunTypes
  <2>10. Sending'
    <3>1. replied' \subseteq Answered'
      BY <1>2, <2>4, <2>7 DEF Sending
    <3>2. ASSUME NEW u \in Answered'
          PROVE  /\ by'[u] \in Threads
                 /\ u \in replied' \/ by'[u] \in Submitters
                 /\ owed'[by'[u]] = u \/ eventOf'[u] # 0
      <4>1. CASE u = t
        BY <2>2, <2>6, <2>8, <4>1
      <4>2. CASE u # t
        <5>1. /\ by[u] \in Threads /\ (u \in replied \/ by[u] \in Submitters)
              /\ owed[by[u]] = u \/ eventOf[u] # 0
          BY <1>2, <2>4, <3>2, <4>2 DEF Sending
        <5>2. u # NoTask /\ u \in Task
          BY <2>4, <2>5, <3>2, <4>2, ThreadsAssumption
        <5> QED BY <1>1, <2>6, <2>7, <4>2, <5>1, <5>2
      <4> QED BY <4>1, <4>2
    <3>3. ASSUME NEW g \in Threads, owed'[g] # NoTask
          PROVE  owed'[g] \in Answered' /\ by'[owed'[g]] = g
      <4>1. CASE g = th
        <5>1. owed'[g] = t
          BY <2>6, <4>1
        <5> QED BY <2>2, <2>4, <2>6, <4>1, <5>1
      <4>2. CASE g # th
        <5>1. owed'[g] = owed[g] /\ owed[g] \in Task
          BY <2>3, <2>6, <3>3, <4>2
        <5>2. owed[g] \in Answered /\ by[owed[g]] = g
          BY <1>2, <3>3, <5>1 DEF Sending
        <5> QED BY <2>4, <2>5, <2>6, <5>1, <5>2
      <4> QED BY <4>1, <4>2
    <3> QED BY <3>1, <3>2, <3>3 DEF Sending
  <2>11. RunStages'
    <3>1. main' = "closed" => \A g \in PoolGoroutines : owed'[g] = NoTask
      <4>1. ASSUME main' = "closed", NEW g \in PoolGoroutines PROVE owed'[g] = NoTask
        <5>1. g \in Threads /\ g \notin Submitters
          BY ThreadsAssumption DEF PoolGoroutines, Threads
        <5> QED BY <1>1, <1>2, <2>6, <4>1, <5>1 DEF RunStages
      <4> QED BY <4>1
    <3>2. ASSUME sinkMain' # "run", NEW u \in Answered', by'[u] \in PoolGoroutines
          PROVE  eventOf'[u] \in 1 .. mark'
      <4>1. main = "closed" /\ sinkMain # "run"
        BY <1>1, <1>2, <3>2 DEF RunStages, RunTypes
      <4>2. th \notin PoolGoroutines
        BY <1>1, <4>1, ThreadsAssumption DEF PoolGoroutines
      <4>3. u # t /\ by[u] \in PoolGoroutines /\ u \in Answered
        BY <2>2, <2>4, <2>5, <2>6, <3>2, <4>2
      <4>4. eventOf[u] \in 1 .. mark
        BY <1>2, <4>1, <4>3 DEF RunStages
      <4> QED BY <1>1, <4>4
    <3> QED BY <1>1, <1>2, <3>1, <3>2 DEF RunStages
  <2> QED BY <2>9, <2>10, <2>11 DEF Settled
<1> QED BY <1>3, <1>4

\* The second half of handler.send: the event gets the next number.
LEMMA AddEventSettles ==
    ASSUME Audit!Inv, Settled, NEW th \in Threads, AddEvent(th)
    PROVE  Settled'
<1> DEFINE t == owed[th]
<1>1. RunTypes /\ Sending /\ RunStages
  BY DEF Settled
<1>2. /\ UNCHANGED <<main, run, conn, answers, by, replied, sinkMain, mark>>
      /\ added' = added + 1 /\ t # NoTask
      /\ eventOf' = [eventOf EXCEPT ![t] = added']
      /\ owed' = [owed EXCEPT ![th] = NoTask]
  BY DEF AddEvent, Sink!Add, vars, busVars
<1>3. added \in Nat
  BY SinkNumbers
<1>4. /\ eventOf \in [Task -> 0 .. added] /\ owed \in [Threads -> Task \cup {NoTask}]
      /\ t \in Task
  BY <1>1, <1>2 DEF RunTypes
<1>5. t \in Answered /\ by[t] = th /\ Answered' = Answered /\ Answered \subseteq Task
  BY <1>1, <1>2 DEF Sending, Answered
<1> HIDE DEF t
<1>6. /\ \A u \in Task : eventOf'[u] = IF u = t THEN added + 1 ELSE eventOf[u]
      /\ \A g \in Threads : owed'[g] = IF g = th THEN NoTask ELSE owed[g]
      /\ owed' \in [Threads -> Task \cup {NoTask}]
  BY <1>2, <1>4
<1>7. eventOf' \in [Task -> 0 .. added']
  <2>1. \A u \in Task : eventOf[u] \in 0 .. added
    BY <1>4
  <2>2. \A u \in Task : eventOf'[u] \in 0 .. (added + 1)
    BY <1>3, <1>6, <2>1
  <2> QED BY <1>2, <1>4, <2>2
<1>8. RunTypes'
  BY <1>1, <1>2, <1>6, <1>7 DEF RunTypes
<1>9. Sending'
  <2>1. ASSUME NEW u \in Answered
        PROVE  /\ by[u] \in Threads
               /\ u \in replied \/ by[u] \in Submitters
               /\ owed'[by[u]] = u \/ eventOf'[u] # 0
    <3>1. /\ by[u] \in Threads /\ (u \in replied \/ by[u] \in Submitters)
          /\ owed[by[u]] = u \/ eventOf[u] # 0
      BY <1>1 DEF Sending
    <3>2. CASE u = t
      BY <1>3, <1>4, <1>6, <3>1, <3>2
    <3>3. CASE u # t
      BY <1>5, <1>6, <3>1, <3>3 DEF t
    <3> QED BY <3>2, <3>3
  <2>2. ASSUME NEW g \in Threads, owed'[g] # NoTask
        PROVE  owed'[g] \in Answered /\ by[owed'[g]] = g
    BY <1>1, <1>6, <2>2 DEF Sending
  <2> QED BY <1>1, <1>2, <1>5, <2>1, <2>2 DEF Sending
<1>10. RunStages'
  <2>1. main' = "closed" => \A g \in PoolGoroutines : owed'[g] = NoTask
    BY <1>1, <1>2, <1>6 DEF RunStages, PoolGoroutines, Threads
  <2>2. ASSUME sinkMain' # "run", NEW u \in Answered', by'[u] \in PoolGoroutines
        PROVE  eventOf'[u] \in 1 .. mark'
    <3>1. main = "closed" /\ sinkMain # "run" /\ by[u] \in PoolGoroutines
      BY <1>1, <1>2, <2>2 DEF RunStages, RunTypes
    <3>2. th \notin PoolGoroutines
      BY <1>1, <1>2, <3>1 DEF RunStages, t
    <3>3. u # t /\ u \in Task
      BY <1>5, <2>2, <3>1, <3>2
    <3>4. eventOf[u] \in 1 .. mark
      BY <1>1, <1>5, <2>2, <3>1 DEF RunStages
    <3> QED BY <1>2, <1>6, <3>3, <3>4
  <2> QED BY <1>1, <1>2, <2>1, <2>2 DEF RunStages
<1> QED BY <1>8, <1>9, <1>10 DEF Settled

\* The steps that neither answer a task nor add an event: arrivals, the clock,
\* the loop of the sink and the calls of run.
LEMMA QuietSettles ==
    ASSUME Audit!Inv, Settled,
           \/ \E s \in Submitters : Receive(s)
           \/ Clock \/ SinkStep \/ waitForSignal \/ MainStep \/ UNCHANGED runVars
    PROVE  Settled'
<1> USE DEF queueVars, threadVars, vars, sinkVars, busVars, sendVars
<1>1. RunTypes /\ Sending /\ RunStages
  BY DEF Settled
<1>2. UNCHANGED <<answers, by, replied, owed, eventOf, added>>
  <2>1. ASSUME NEW s \in Submitters, Receive(s) PROVE UNCHANGED <<answers, sinkVars, sendVars>>
    BY <2>1 DEF Receive, Submit
  <2>2. CASE Clock
    BY <2>2 DEF Clock, Tick, TimerFire
  <2>3. CASE SinkStep
    BY <2>3 DEF SinkStep, Sink!LoopStep, Sink!selectStop, Sink!selectWake, Sink!selectTick,
                Sink!flushTake, Sink!flushReturn, Sink!send
  <2>4. CASE poolClose
    BY <2>4 DEF poolClose, closeStop, CloseStep, closeMark, closeReturn
  <2>5. CASE sinkClose
    BY <2>5 DEF sinkClose, Sink!Close, Sink!closeReturn
  <2>6. CASE waitForSignal \/ Drain \/ ncClose \/ Exit \/ UNCHANGED runVars
    BY <2>6 DEF waitForSignal, Drain, ncClose, Exit, runVars
  <2> QED BY <2>1, <2>2, <2>3, <2>4, <2>5, <2>6 DEF MainStep
<1>3. Answered' = Answered
  BY <1>2 DEF Answered
<1>4. Sending'
  BY <1>1, <1>2, <1>3 DEF Sending
<1>5. ASSUME run' \in {"serve", "drain", "pool", "sink", "return", "exit", "exited"},
             conn' \in {"open", "closed"}
      PROVE  RunTypes'
  BY <1>1, <1>2, <1>5 DEF RunTypes
<1>6. ASSUME UNCHANGED <<run, conn, main, sinkMain, mark>> PROVE Settled'
  <2>1. RunTypes'
    BY <1>1, <1>5, <1>6 DEF RunTypes
  <2>2. RunStages'
    BY <1>1, <1>2, <1>3, <1>6 DEF RunStages
  <2> QED BY <1>4, <2>1, <2>2 DEF Settled
<1>7. ASSUME NEW s \in Submitters, Receive(s) PROVE Settled'
  BY <1>6, <1>7 DEF Receive, Submit
<1>8. CASE Clock
  BY <1>6, <1>8 DEF Clock, Tick, TimerFire
<1>9. CASE SinkStep
  BY <1>6, <1>9 DEF SinkStep, Sink!LoopStep, Sink!selectStop, Sink!selectWake,
                    Sink!selectTick, Sink!flushTake, Sink!flushReturn, Sink!send
<1>10. CASE waitForSignal \/ Drain
  <2>1. /\ UNCHANGED <<conn, main, sinkMain, mark>>
        /\ \/ run = "serve" /\ run' = "drain"
           \/ run = "drain" /\ run' = "pool"
    BY <1>10 DEF waitForSignal, Drain, After
  <2>2. RunTypes'
    BY <1>1, <1>5, <2>1 DEF RunTypes
  <2>3. RunStages'
    BY <1>1, <1>2, <1>3, <2>1 DEF RunStages
  <2> QED BY <1>4, <2>2, <2>3 DEF Settled
<1>11. CASE poolClose
  <2>1. /\ UNCHANGED <<conn, sinkMain, mark>> /\ run = "pool"
        /\ run' = IF main' = "closed" THEN "sink" ELSE "pool"
        /\ main' = "closed" => \A th \in PoolGoroutines : owed[th] = NoTask
    BY <1>11 DEF poolClose, After
  <2>2. RunTypes'
    BY <1>1, <1>5, <2>1 DEF RunTypes
  <2>3. RunStages'
    BY <1>1, <1>2, <1>3, <2>1 DEF RunStages
  <2> QED BY <1>4, <2>2, <2>3 DEF Settled
<1>12. CASE sinkClose
  <2>1. /\ UNCHANGED <<main, conn>> /\ run = "sink" /\ sinkMain' \in {"closing", "closed"}
        /\ run' = IF sinkMain' = "closed" THEN "return" ELSE "sink"
        /\ \/ sinkMain = "run" /\ mark' = added
           \/ sinkMain # "run" /\ mark' = mark
    BY <1>12 DEF sinkClose, After, Sink!Close, Sink!closeReturn
  <2>2. RunTypes'
    BY <1>1, <1>5, <2>1 DEF RunTypes
  <2>3. ASSUME NEW u \in Answered, by[u] \in PoolGoroutines PROVE eventOf[u] \in 1 .. mark'
    <3>1. CASE sinkMain # "run"
      BY <1>1, <2>1, <2>3, <3>1 DEF RunStages
    <3>2. CASE sinkMain = "run"
      <4>1. owed[by[u]] = NoTask
        BY <1>1, <2>1, <2>3 DEF RunStages
      <4>2. u \in Task /\ u # NoTask
        BY <2>3, ThreadsAssumption DEF Answered
      <4>3. eventOf[u] # 0
        BY <1>1, <2>3, <4>1, <4>2 DEF Sending
      <4>4. eventOf[u] \in 0 .. added /\ added \in Nat
        BY <1>1, <4>2, SinkNumbers DEF RunTypes
      <4> QED BY <2>1, <3>2, <4>3, <4>4
    <3> QED BY <3>1, <3>2
  <2>4. RunStages'
    BY <1>1, <1>2, <1>3, <2>1, <2>3 DEF RunStages
  <2> QED BY <1>4, <2>2, <2>4 DEF Settled
<1>13. CASE ncClose \/ Exit
  <2>1. /\ UNCHANGED <<main, sinkMain, mark>>
        /\ \/ run = "return" /\ run' = "exit" /\ conn' = "closed"
           \/ run = "exit" /\ run' = "exited" /\ conn' = conn
    BY <1>13 DEF ncClose, Exit, After
  <2>2. RunTypes'
    BY <1>1, <1>5, <2>1 DEF RunTypes
  <2>3. RunStages'
    BY <1>1, <1>2, <1>3, <2>1 DEF RunStages
  <2> QED BY <1>4, <2>2, <2>3 DEF Settled
<1>14. CASE UNCHANGED runVars
  BY <1>6, <1>14 DEF runVars
<1> QED BY <1>7, <1>8, <1>9, <1>10, <1>11, <1>12, <1>13, <1>14 DEF MainStep

\* Every step of the process keeps the invariant.
LEMMA SettledInductive ==
    Drained /\ Audit!Inv /\ Settled /\ [NextRun]_runVars => Settled'
<1> SUFFICES ASSUME Drained, Audit!Inv, Settled, [NextRun]_runVars PROVE Settled'
  OBVIOUS
<1>1. ASSUME NEW th \in Threads, PoolStep(th) \/ AddEvent(th) PROVE Settled'
  BY <1>1, PoolStepSettles, AddEventSettles
<1>2. CASE \/ \E s \in Submitters : Receive(s)
           \/ Clock \/ SinkStep \/ waitForSignal \/ MainStep \/ UNCHANGED runVars
  BY <1>2, QuietSettles
<1> QED BY <1>1, <1>2 DEF NextRun, Exited

-----------------------------------------------------------------------------
(* The invariants of the parts hold in the process.                        *)

\* Audit names the sink of Shutdown.
LEMMA SameSink == (Sink!Init => Audit!Init) /\ ([Sink!Next]_(Sink!vars) => [Audit!Next]_(Audit!vars))
<1>1. Sink!Init => Audit!Init
  BY DEF Sink!Init, Audit!Init
<1>2. UNCHANGED Sink!vars => UNCHANGED Audit!vars
  BY DEF Sink!vars, Audit!vars
<1>3. ASSUME NEW s \in {Subject}, Sink!Add(s) PROVE Audit!Add(s)
  BY <1>3 DEF Sink!Add, Audit!Add, Sink!cutPending, Audit!cutPending, Sink!Ids, Audit!Ids
<1>4. Sink!flushTake => Audit!flushTake
  BY DEF Sink!flushTake, Audit!flushTake, Sink!batchLen, Audit!batchLen
<1>5. Sink!send => Audit!send
  BY DEF Sink!send, Audit!send, Sink!OfSubject, Audit!OfSubject,
         Sink!NotOfSubject, Audit!NotOfSubject, Sink!Numbers, Audit!Numbers,
         Sink!Select, Audit!Select, Sink!SelectAt, Audit!SelectAt
<1>6. /\ Sink!selectStop => Audit!selectStop
      /\ Sink!selectWake => Audit!selectWake
      /\ Sink!selectTick => Audit!selectTick
      /\ Sink!flushReturn => Audit!flushReturn
      /\ Sink!Close => Audit!Close
      /\ Sink!closeReturn => Audit!closeReturn
  BY DEF Sink!selectStop, Audit!selectStop, Sink!selectWake, Audit!selectWake,
         Sink!selectTick, Audit!selectTick, Sink!flushReturn, Audit!flushReturn,
         Sink!Close, Audit!Close, Sink!closeReturn, Audit!closeReturn
<1>7. Sink!Terminated => Audit!Terminated
  BY DEF Sink!Terminated, Audit!Terminated, Sink!vars, Audit!vars
<1> QED BY <1>1, <1>2, <1>3, <1>4, <1>5, <1>6, <1>7
        DEF Sink!Next, Audit!Next, Sink!LoopStep, Audit!LoopStep

\* The pool, the sink and what the process adds to them, in every state.
LEMMA ProcessInvariant == SpecRun => [](Drained /\ Audit!Inv /\ Settled)
<1>1. InitRun => Drained
  BY InitDrained DEF InitRun
<1>2. InitRun => Audit!Inv
  BY SinkConstants, SameSink, Audit!InitInv DEF InitRun
<1>3. Drained /\ [NextRun]_runVars => Drained'
  BY RunsPool, DrainedInductive
<1>4. Audit!Inv /\ [NextRun]_runVars => Audit!Inv'
  BY SinkConstants, RunsSink, SameSink, Audit!Inductive
<1> QED BY <1>1, <1>2, <1>3, <1>4, InitSettled, SettledInductive, PTL DEF SpecRun

-----------------------------------------------------------------------------
(* The theorems.                                                           *)

\* Before the connection closes every request the pool accepted has its reply on
\* the bus, except what the callback of the subscription has in its hands.
THEOREM AcceptedGetReply == SpecRun => []AcceptedReplied
<1>1. ASSUME Drained, Settled, conn = "closed", NEW t \in Task, pos[t] > 0
      PROVE  t \in replied \/ by[t] \in Submitters \/ \E s \in Submitters : t \in dead[s]
  <2>1. main = "closed"
    BY <1>1 DEF Settled, RunStages
  <2>2. CASE t \in Answered
    BY <1>1, <2>2 DEF Settled, Sending
  <2>3. CASE t \notin Answered
    <3>1. pos[t] # 0
      BY <1>1
    <3>2. t \in arrived
      BY <1>1, <3>1 DEF Drained, Order, Positions
    <3>3. t \in Unanswered
      BY <2>3, <3>2 DEF Answered, Unanswered
    <3>4. ClosedDrained
      BY <1>1, DrainedAnswers
    <3> QED BY <1>1, <2>1, <3>3, <3>4 DEF ClosedDrained
  <2> QED BY <2>2, <2>3
<1>2. Drained /\ Settled => AcceptedReplied
  BY <1>1 DEF AcceptedReplied
<1> QED BY <1>2, ProcessInvariant, PTL

\* Before the connection closes every reply of a worker or of the sweeper has its
\* audit event published or counted as dropped, and so has a reply of the
\* callback whose event came before Sink.Close.
THEOREM RepliesGetEvent == SpecRun => []RepliesAudited
<1>1. ASSUME Audit!Inv, Settled, conn = "closed", NEW t \in replied
      PROVE  \/ eventOf[t] \in Sink!PublishedIds \cup dropped /\ eventOf[t] # 0
             \/ by[t] \in Submitters /\ (eventOf[t] = 0 \/ eventOf[t] > mark)
  <2>1. sinkMain = "closed"
    BY <1>1 DEF Settled, RunStages
  <2>2. 1 .. mark \subseteq Sink!PublishedIds \cup dropped
    <3>1. Audit!PublishedIds = Sink!PublishedIds
      BY DEF Audit!PublishedIds, Sink!PublishedIds
    <3> QED BY <1>1, <2>1, <3>1 DEF Audit!Inv, Audit!Stages
  <2>3. t \in Answered /\ t \in Task /\ by[t] \in Threads
    BY <1>1 DEF Settled, Sending, Answered
  <2>4. CASE by[t] \in PoolGoroutines
    <3>1. eventOf[t] \in 1 .. mark
      BY <1>1, <2>1, <2>3, <2>4 DEF Settled, RunStages
    <3>2. mark \in Nat
      BY <1>1, SinkNumbers
    <3> QED BY <2>2, <3>1, <3>2
  <2>5. CASE by[t] \notin PoolGoroutines
    <3>1. by[t] \in Submitters
      BY <2>3, <2>5 DEF PoolGoroutines, Threads
    <3>2. eventOf[t] \in 0 .. added /\ added \in Nat /\ mark \in Nat
      BY <1>1, <2>3, SinkNumbers DEF Settled, RunTypes
    <3>3. eventOf[t] = 0 \/ eventOf[t] > mark \/ eventOf[t] \in 1 .. mark
      BY <3>2
    <3> QED BY <2>2, <3>1, <3>2, <3>3
  <2> QED BY <2>4, <2>5
<1>2. Audit!Inv /\ Settled => RepliesAudited
  BY <1>1 DEF RepliesAudited
<1> QED BY <1>2, ProcessInvariant, PTL

\* A step of the process is, on the bus, an arrival, one reply to a request that
\* has none, or nothing.
LEMMA RunStepRefines ==
    Drained /\ Settled /\ [NextRun]_runVars
        => [OnTheBus!NextContract]_(OnTheBus!contractVars)
<1> DEFINE seen == [t \in Task |-> IF t \in replied THEN answers[t] ELSE <<>>]
<1> SUFFICES ASSUME Drained, Settled, [NextRun]_runVars
             PROVE  OnTheBus!NextContract \/ (arrived' = arrived /\ seen' = seen)
  BY DEF OnTheBus!contractVars
<1> USE DEF queueVars, threadVars, vars, sinkVars, busVars, sendVars
<1>1. ASSUME NEW s \in Submitters, Receive(s) PROVE OnTheBus!NextContract
  <2>1. PICK t \in Task, d \in Deadlines : Submit(s, t, d)
    BY <1>1 DEF Receive
  <2>2. /\ t \notin arrived /\ arrived' = arrived \cup {t}
        /\ answers' = answers /\ replied' = replied
    BY <1>1, <2>1 DEF Receive, Submit
  <2> QED BY <2>2 DEF OnTheBus!NextContract, OnTheBus!Arrive
<1>2. ASSUME NEW th \in Threads, PoolStep(th)
      PROVE  OnTheBus!NextContract \/ (arrived' = arrived /\ seen' = seen)
  <2>1. arrived' = arrived
    BY <1>2, StepAnswers
  <2>2. CASE UNCHANGED <<answers, replied>>
    BY <2>1, <2>2
  <2>3. CASE ~UNCHANGED <<answers, replied>>
    <3>1. PICK t \in arrived, o \in Outcomes :
              /\ answers[t] = <<>> /\ answers' = [answers EXCEPT ![t] = <<o>>]
              /\ replied' = IF conn = "open" THEN replied \cup {t} ELSE replied
      BY <1>2, <2>3, StepSends
    <3>2. t \in Task /\ t \notin replied
      BY <3>1 DEF Drained, Order, Custody, TypeControl, TypeOK, Settled, Sending, Answered
    <3>3. \A u \in Task : answers'[u] = IF u = t THEN <<o>> ELSE answers[u]
      <4> DEFINE X == Seq(Outcomes)
      <4> HIDE DEF X
      <4>1. answers \in [Task -> X]
        BY DEF Drained, Order, Custody, TypeControl, TypeOK, X
      <4> QED BY <3>1, <3>2, <4>1
    <3>4. CASE conn = "open"
      <4>1. seen' = [seen EXCEPT ![t] = <<o>>]
        BY <3>1, <3>2, <3>3, <3>4
      <4>2. seen[t] = <<>>
        BY <3>2
      <4> QED BY <2>1, <3>1, <3>2, <4>1, <4>2
              DEF OnTheBus!NextContract, OnTheBus!Reply, Outcomes
    <3>5. CASE conn # "open"
      BY <2>1, <3>1, <3>2, <3>3, <3>5
    <3> QED BY <3>4, <3>5
  <2> QED BY <2>2, <2>3
<1>3. ASSUME NEW th \in Threads, AddEvent(th) PROVE UNCHANGED <<arrived, answers, replied>>
  BY <1>3 DEF AddEvent
<1>4. ASSUME Clock \/ SinkStep \/ waitForSignal \/ MainStep \/ UNCHANGED runVars
      PROVE  UNCHANGED <<arrived, answers, replied>>
  BY <1>4 DEF Clock, Tick, TimerFire, SinkStep, waitForSignal, MainStep, Drain, poolClose,
              closeStop, CloseStep, closeMark, closeReturn, sinkClose, ncClose, Exit, runVars
<1> QED BY <1>1, <1>2, <1>3, <1>4 DEF NextRun, Exited

\* The process keeps the contract of the pool as the bus sees it, through the
\* whole shutdown: one reply to a request at most, after it arrived, for good.
THEOREM BusKeepsContract == SpecRun => OneReplyOnTheBus
<1>1. InitRun => OnTheBus!InitContract
  BY DEF InitRun, Init, OnTheBus!InitContract
<1> QED
  BY <1>1, RunStepRefines, ProcessInvariant, PTL
  DEF SpecRun, OneReplyOnTheBus, OnTheBus!Spec
=============================================================================
