-------------------------------- MODULE Pool --------------------------------
(***************************************************************************)
(* The task pool of the inspector (internal/queue/queue.go): a bounded     *)
(* queue between the NATS callback that submits requests and the worker    *)
(* goroutines that evaluate them, with one mutex, one condition variable   *)
(* shared by workers and waiting submitters, a sweeper that answers the    *)
(* tasks whose deadline passed in the queue, and a shutdown.               *)
(*                                                                         *)
(* A critical section of p.mu is one action. The slice p.q is the set q    *)
(* ordered by pos, the value of the Accepted counter when the task was     *)
(* appended. A call of p.handler is the answer of its task.                *)
(***************************************************************************)
EXTENDS Integers, Sequences, FiniteSets

CONSTANTS
    Task,        \* requests that may arrive
    Submitters,  \* goroutines calling Submit (the program has one)
    Workers,     \* worker goroutines
    Sweeper,     \* the sweep goroutine
    NoTask,      \* a nil *Task
    Depth,       \* p.depth
    Full,        \* p.full
    Reserve,     \* p.reserve, in ticks
    MinBudget,   \* p.minBudget, in ticks
    Deadlines    \* DeadlineMS of requests, in ticks

ASSUME ThreadsAssumption ==
    /\ Submitters \cap Workers = {}
    /\ Sweeper \notin Submitters \cup Workers
    /\ NoTask \notin Task
    /\ Workers # {}
ASSUME FiniteAssumption == IsFiniteSet(Task) /\ IsFiniteSet(Workers)
ASSUME BoundsAssumption ==
    /\ Depth \in Nat \ {0}
    /\ Full \in {"drop", "wait"}
    /\ Reserve \in Nat
    /\ MinBudget \in Nat
    /\ Deadlines \subseteq Int

VARIABLES
    q,        \* p.q: tasks in the queue
    pos,      \* pos[t]: place of t in the order of acceptance, 0 before it
    left,     \* left[t]: waitLeft(t), counted down by Tick
    fill,     \* fill[t]: t.Fill
    waiting,  \* goroutines blocked in p.cond.Wait
    pc,       \* where each goroutine is
    cur,      \* the task a goroutine holds
    dead,     \* expired tasks a goroutine took and has yet to answer
    timedOut, \* submitters whose timer callback has run
    main,     \* the goroutine that calls Close
    arrived,  \* tasks passed to Submit
    answers,  \* answers[t]: the calls of p.handler for t, in order
    Accepted, Shed, Expired

queueVars == <<q, pos, fill, Accepted>>
threadVars == <<pc, cur, dead>>
vars == <<queueVars, threadVars, left, waiting, timedOut, main, arrived,
          answers, Shed, Expired>>

Threads == Submitters \cup Workers \cup {Sweeper}
Outcomes == {"served", "deadline", "limit"}

\* A countdown below zero is not told apart from minus one tick.
Floor == -1
Clip(x) == IF x < Floor THEN Floor ELSE x

closed == main \in {"closing", "closed"}
stop == main # "run"

Init ==
    /\ q = {}
    /\ pos = [t \in Task |-> 0]
    /\ left = [t \in Task |-> Floor]
    /\ fill = [t \in Task |-> 0]
    /\ waiting = {}
    /\ pc = [th \in Threads |-> IF th \in Submitters THEN "idle"
                                ELSE IF th \in Workers THEN "pop" ELSE "sweep"]
    /\ cur = [th \in Threads |-> NoTask]
    /\ dead = [th \in Threads |-> {}]
    /\ timedOut = {}
    /\ main = "run"
    /\ arrived = {}
    /\ answers = [t \in Task |-> <<>>]
    /\ Accepted = 0 /\ Shed = 0 /\ Expired = 0

-----------------------------------------------------------------------------
(* Helpers that run under p.mu.                                            *)

\* Defect: the budget comparison is off by one.
Expiring_early == {t \in q : left[t] <= MinBudget}

Expiring == {t \in q : left[t] < MinBudget}
\* Defect: one task too many fits.
HasRoom_off_by_one == Cardinality(q) <= Depth

HasRoom == Cardinality(q) < Depth
\* Defect: the newest task is taken first.
IsHead_newest(t, S) == t \in S /\ \A u \in S : pos[t] >= pos[u]

IsHead(t, S) == t \in S /\ \A u \in S : pos[t] <= pos[u]
\* Defect: the task itself is counted and the full queue is not capped.
fillLocked_uncapped == ((Cardinality(q) + 1) * 100) \div Depth

fillLocked == IF HasRoom THEN (Cardinality(q) * 100) \div Depth ELSE 100

Broadcast == waiting' = {}
\* Defect: enqueueLocked forgets to signal.
Signal_forgotten == UNCHANGED waiting

Signal == IF waiting = {} THEN waiting' = {}
          ELSE \E th \in waiting : waiting' = waiting \ {th}
Wait(th) == waiting' = waiting \cup {th}

\* Defect: p.q = kept is forgotten.
takeExpiredLocked_kept(th) ==
    /\ dead' = [dead EXCEPT ![th] = Expiring]
    /\ q' = q
    /\ IF Expiring = {} THEN UNCHANGED waiting ELSE Broadcast

\* Defect: the callers throw the expired tasks away.
takeExpiredLocked_unanswered(th) ==
    /\ UNCHANGED dead
    /\ q' = q \ Expiring
    /\ IF Expiring = {} THEN UNCHANGED waiting ELSE Broadcast

\* dead := p.takeExpiredLocked(), the caller keeping dead in its hands.
takeExpiredLocked(th) ==
    /\ dead' = [dead EXCEPT ![th] = Expiring]
    /\ q' = q \ Expiring
    /\ IF Expiring = {} THEN UNCHANGED waiting ELSE Broadcast

enqueueLocked(s) ==
    /\ q' = q \cup {cur[s]}
    /\ Accepted' = Accepted + 1
    /\ pos' = [pos EXCEPT ![cur[s]] = Accepted + 1]
    /\ Signal
    /\ cur' = [cur EXCEPT ![s] = NoTask]
    /\ pc' = [pc EXCEPT ![s] = "idle"]

Answer(t, outcome) == answers' = [answers EXCEPT ![t] = Append(@, outcome)]

Goto(th, label) == pc' = [pc EXCEPT ![th] = label]

-----------------------------------------------------------------------------
(* Submitters.                                                             *)

\* Submit up to its first check: a request that cannot be served in time is
\* answered without touching the queue.
Submit(s, t, d) ==
    /\ pc[s] = "idle"
    /\ t \notin arrived
    /\ arrived' = arrived \cup {t}
    /\ left' = [left EXCEPT ![t] = Clip(d - Reserve)]
    /\ cur' = [cur EXCEPT ![s] = t]
    /\ Goto(s, IF d - Reserve < MinBudget THEN "expire" ELSE "collect")
    /\ UNCHANGED <<queueVars, dead, waiting, timedOut, main, answers, Shed, Expired>>

\* replyDead(collectExpired()): the answers are given by replyDead below.
Collect(s) ==
    /\ pc[s] = "collect"
    /\ takeExpiredLocked(s)
    /\ Goto(s, "admit")
    /\ UNCHANGED <<pos, fill, Accepted, cur, left, timedOut, main, arrived,
                   answers, Shed, Expired>>

\* One turn of the loop of submitWaitLocked, entered under p.mu.
waitTurn(s) ==
    /\ \/ Expiring # {} /\ takeExpiredLocked(s)
       \/ Expiring = {} /\ Wait(s) /\ UNCHANGED <<q, dead>>
    /\ Goto(s, "room")
    /\ UNCHANGED <<pos, Accepted, cur>>

leaveTo(s, label) == Goto(s, label) /\ UNCHANGED <<q, pos, Accepted, cur, dead, waiting>>

\* The second critical section of Submit, with the entry of submitWaitLocked.
Admit(s) ==
    /\ pc[s] = "admit" /\ dead[s] = {}
    /\ \/ closed /\ leaveTo(s, "expire") /\ UNCHANGED <<fill, timedOut>>
       \/ /\ ~closed
          /\ fill' = [fill EXCEPT ![cur[s]] = fillLocked]
          /\ \/ HasRoom /\ enqueueLocked(s) /\ UNCHANGED <<dead, timedOut>>
             \/ ~HasRoom /\ Full = "drop" /\ leaveTo(s, "shed") /\ UNCHANGED timedOut
             \/ /\ ~HasRoom /\ Full = "wait" /\ left[cur[s]] < MinBudget
                /\ leaveTo(s, "expire") /\ UNCHANGED timedOut
             \/ /\ ~HasRoom /\ Full = "wait" /\ left[cur[s]] >= MinBudget
                /\ timedOut' = timedOut \ {s}
                /\ waitTurn(s)
    /\ UNCHANGED <<left, main, arrived, answers, Shed, Expired>>

\* The loop of submitWaitLocked after a wake-up or after replying the dead.
Room(s) ==
    /\ pc[s] = "room" /\ s \notin waiting /\ dead[s] = {}
    /\ \/ closed /\ leaveTo(s, "expire")
       \/ ~closed /\ HasRoom /\ enqueueLocked(s) /\ UNCHANGED dead
       \/ ~closed /\ ~HasRoom /\ s \in timedOut /\ leaveTo(s, "expire")
       \/ ~closed /\ ~HasRoom /\ s \notin timedOut /\ waitTurn(s)
    /\ UNCHANGED <<fill, left, timedOut, main, arrived, answers, Shed, Expired>>

\* The callback of time.AfterFunc(left): due once the countdown is spent.
TimerFire(s) ==
    /\ pc[s] = "room" /\ s \notin timedOut
    /\ left[cur[s]] <= 0
    /\ timedOut' = timedOut \cup {s}
    /\ Broadcast
    /\ UNCHANGED <<queueVars, threadVars, left, main, arrived, answers, Shed, Expired>>

release(s) ==
    /\ cur' = [cur EXCEPT ![s] = NoTask]
    /\ UNCHANGED <<queueVars, dead, left, waiting, timedOut, main, arrived>>

\* Defect: the counter is forgotten.
expire_uncounted(s) ==
    /\ pc[s] = "expire"
    /\ Answer(cur[s], "deadline")
    /\ Goto(s, "idle")
    /\ release(s)
    /\ UNCHANGED <<Shed, Expired>>

expire(s) ==
    /\ pc[s] = "expire"
    /\ Expired' = Expired + 1
    /\ Answer(cur[s], "deadline")
    /\ Goto(s, "idle")
    /\ release(s)
    /\ UNCHANGED Shed

shedLimit(s) ==
    /\ pc[s] = "shed"
    /\ Shed' = Shed + 1
    /\ Answer(cur[s], "limit")
    /\ Goto(s, "idle")
    /\ release(s)
    /\ UNCHANGED Expired

-----------------------------------------------------------------------------
(* Workers, the sweeper and whoever answers expired tasks.                 *)

\* replyDead: one turn of the loop, oldest task first.
replyDead(th) ==
    \E t \in dead[th] :
        /\ IsHead(t, dead[th])
        /\ dead' = [dead EXCEPT ![th] = @ \ {t}]
        /\ Expired' = Expired + 1
        /\ Answer(t, "deadline")
        /\ UNCHANGED <<queueVars, pc, cur, left, waiting, timedOut, main, arrived, Shed>>

\* pop: p.q[0] of what is not expired, else the end, else a wait.
pop(w) ==
    /\ pc[w] = "pop" /\ w \notin waiting /\ dead[w] = {}
    /\ LET kept == q \ Expiring IN
       \/ \E t \in kept :
            /\ IsHead(t, kept)
            /\ q' = kept \ {t}
            /\ cur' = [cur EXCEPT ![w] = t]
            /\ dead' = [dead EXCEPT ![w] = Expiring]
            /\ Broadcast
            /\ Goto(w, "budget")
       \/ kept = {} /\ closed /\ takeExpiredLocked(w) /\ Goto(w, "done") /\ UNCHANGED cur
       \/ /\ kept = {} /\ ~closed /\ Expiring # {}
          /\ takeExpiredLocked(w) /\ UNCHANGED <<pc, cur>>
       \/ /\ kept = {} /\ ~closed /\ Expiring = {}
          /\ Wait(w) /\ UNCHANGED <<q, dead, pc, cur>>
    /\ UNCHANGED <<pos, fill, Accepted, left, timedOut, main, arrived, answers,
                   Shed, Expired>>

\* budget: the last look at the clock before the handler runs.
budget(w) ==
    /\ pc[w] = "budget" /\ dead[w] = {}
    /\ IF left[cur[w]] < MinBudget
       THEN Expired' = Expired + 1 /\ Goto(w, "refuse")
       ELSE UNCHANGED Expired /\ Goto(w, "serve")
    /\ UNCHANGED <<queueVars, cur, dead, left, waiting, timedOut, main, arrived,
                   answers, Shed>>

\* The handler returns and the worker goes back for the next task.
handle(w) ==
    /\ pc[w] \in {"serve", "refuse"}
    /\ Answer(cur[w], IF pc[w] = "serve" THEN "served" ELSE "deadline")
    /\ Goto(w, "pop")
    /\ release(w)
    /\ UNCHANGED <<Shed, Expired>>

\* A tick of the sweeper.
sweep ==
    /\ pc[Sweeper] = "sweep" /\ dead[Sweeper] = {}
    /\ takeExpiredLocked(Sweeper)
    /\ UNCHANGED <<pos, fill, Accepted, pc, cur, left, timedOut, main, arrived,
                   answers, Shed, Expired>>

sweepReturn ==
    /\ pc[Sweeper] = "sweep" /\ dead[Sweeper] = {} /\ stop
    /\ Goto(Sweeper, "done")
    /\ UNCHANGED <<queueVars, cur, dead, left, waiting, timedOut, main, arrived,
                   answers, Shed, Expired>>

-----------------------------------------------------------------------------
(* Shutdown and time.                                                      *)

closeStop ==
    /\ main = "run"
    /\ main' = "stopping"
    /\ UNCHANGED <<queueVars, threadVars, left, waiting, timedOut, arrived,
                   answers, Shed, Expired>>

\* Defect: Close forgets to wake the sleepers.
closeMark_silent ==
    /\ main = "stopping"
    /\ main' = "closing"
    /\ UNCHANGED <<queueVars, threadVars, left, waiting, timedOut, arrived,
                   answers, Shed, Expired>>

closeMark ==
    /\ main = "stopping"
    /\ main' = "closing"
    /\ Broadcast
    /\ UNCHANGED <<queueVars, threadVars, left, timedOut, arrived, answers, Shed,
                   Expired>>

\* Defect: Close does not wait for the workers.
closeReturn_early ==
    /\ main = "closing"
    /\ pc[Sweeper] = "done"
    /\ main' = "closed"
    /\ UNCHANGED <<queueVars, threadVars, left, waiting, timedOut, arrived,
                   answers, Shed, Expired>>

\* p.wg.Wait() in Close. A goroutine is done after it answered its dead tasks.
closeReturn ==
    /\ main = "closing"
    /\ \A th \in Workers \cup {Sweeper} : pc[th] = "done" /\ dead[th] = {}
    /\ main' = "closed"
    /\ UNCHANGED <<queueVars, threadVars, left, waiting, timedOut, arrived,
                   answers, Shed, Expired>>

Unanswered == {t \in arrived : answers[t] = <<>>}

Tick ==
    /\ \E t \in Unanswered : left[t] > Floor
    /\ left' = [t \in Task |-> IF t \in Unanswered /\ left[t] > Floor
                               THEN left[t] - 1 ELSE left[t]]
    /\ UNCHANGED <<queueVars, threadVars, waiting, timedOut, main, arrived,
                   answers, Shed, Expired>>

\* Everything arrived and was answered, and Close returned.
Terminated ==
    /\ main = "closed" /\ arrived = Task /\ Unanswered = {}
    /\ UNCHANGED vars

SubmitterStep(s) == Collect(s) \/ Admit(s) \/ Room(s) \/ expire(s) \/ shedLimit(s)
WorkerStep(w) == pop(w) \/ budget(w) \/ handle(w)
SweeperStep == sweep \/ sweepReturn
CloseStep == closeMark \/ closeReturn

Next ==
    \/ \E s \in Submitters, t \in Task, d \in Deadlines : Submit(s, t, d)
    \/ \E s \in Submitters : SubmitterStep(s) \/ TimerFire(s)
    \/ \E w \in Workers : WorkerStep(w)
    \/ \E th \in Threads : replyDead(th)
    \/ SweeperStep
    \/ closeStop
    \/ CloseStep
    \/ Tick
    \/ Terminated

Spec == Init /\ [][Next]_vars

\* Goroutines are scheduled, handlers return, timers fire and time passes.
\* Nothing forces a request to arrive or the process to be stopped.
Fairness ==
    /\ \A s \in Submitters : WF_vars(SubmitterStep(s)) /\ WF_vars(TimerFire(s))
    /\ \A w \in Workers : WF_vars(WorkerStep(w))
    /\ \A th \in Threads : WF_vars(replyDead(th))
    /\ WF_vars(SweeperStep)
    /\ WF_vars(CloseStep)
    /\ WF_vars(Tick)

FairSpec == Spec /\ Fairness

-----------------------------------------------------------------------------
(* Properties.                                                             *)

TypeOK ==
    /\ q \subseteq Task
    /\ pos \in [Task -> Nat]
    /\ left \in [Task -> {x \in Int : x >= Floor}]
    /\ fill \in [Task -> 0 .. 100]
    /\ waiting \subseteq Threads
    /\ pc \in [Threads -> {"idle", "collect", "admit", "room", "expire", "shed",
                           "pop", "budget", "serve", "refuse", "sweep", "done"}]
    /\ cur \in [Threads -> Task \cup {NoTask}]
    /\ dead \in [Threads -> SUBSET Task]
    /\ timedOut \subseteq Submitters
    /\ main \in {"run", "stopping", "closing", "closed"}
    /\ arrived \subseteq Task
    /\ answers \in [Task -> Seq(Outcomes)]
    /\ Accepted \in Nat /\ Shed \in Nat /\ Expired \in Nat

\* Where each kind of goroutine can be, with or without a task, and asleep.
Control ==
    /\ \A s \in Submitters :
          /\ pc[s] \in {"idle", "collect", "admit", "room", "expire", "shed"}
          /\ cur[s] = NoTask <=> pc[s] = "idle"
          /\ pc[s] \notin {"admit", "room"} => dead[s] = {}
    /\ \A w \in Workers :
          /\ pc[w] \in {"pop", "budget", "serve", "refuse", "done"}
          /\ cur[w] # NoTask <=> pc[w] \in {"budget", "serve", "refuse"}
    /\ pc[Sweeper] \in {"sweep", "done"} /\ cur[Sweeper] = NoTask

\* A task is held by the queue, by a goroutine that works on it, or by a
\* goroutine that took it as expired.
Held(t) == t \in q \/ \E th \in Threads : cur[th] = t \/ t \in dead[th]

\* Whatever the interleaving of Submit, pop, the sweeper, the timer and Close,
\* no task is lost and none is answered twice: a submitted task is held
\* somewhere exactly until its one answer.
AnsweredOnce ==
    \A t \in Task :
        /\ Len(answers[t]) <= 1
        /\ t \notin arrived => answers[t] = <<>>
        /\ Held(t) <=> t \in Unanswered

\* Two places never hold the same task: takeExpiredLocked reuses the backing
\* array of p.q, pop reslices it, and three kinds of goroutine take from it.
SoleHolder ==
    \A th \in Threads :
        /\ cur[th] \notin q
        /\ dead[th] \cap q = {}
        /\ \A o \in Threads :
              /\ cur[th] \notin dead[o]
              /\ o # th => dead[th] \cap dead[o] = {}
              /\ o # th /\ cur[th] # NoTask => cur[th] # cur[o]

\* Submit never grows the queue past p.depth, although the room it saw may be
\* the room another submitter woke up for.
DepthBound == Cardinality(q) <= Depth

\* No wake-up is lost although workers and submitters share one condition
\* variable and enqueueLocked wakes only one of them: while a worker sleeps
\* there are enough woken workers for all that is queued, a submitter sleeps
\* only on a full queue before its timer ran, and nobody sleeps after Close.
AwakePoppers == {w \in Workers : pc[w] = "pop" /\ w \notin waiting}
NoLostWakeup ==
    /\ \A w \in waiting \cap Workers :
          ~closed /\ pc[w] = "pop" /\ Cardinality(q) <= Cardinality(AwakePoppers)
    /\ \A s \in waiting \cap Submitters :
          ~closed /\ pc[s] = "room" /\ ~HasRoom /\ s \notin timedOut

\* ACTION_DEADLINE_EXCEEDED is told only when it is true: an accepted task is
\* refused only with less than the minimal budget left, also during shutdown;
\* one that never got into the queue also when its wait ended or on Close.
DeadlineHonest ==
    \A t \in Task :
        answers[t] = <<"deadline">> =>
            \/ left[t] < MinBudget
            \/ pos[t] = 0 /\ (left[t] <= 0 \/ closed)

\* A worker never gets a task while an older one is still queued, although
\* expired tasks leave from the middle of the queue.
Fifo ==
    \A w \in Workers : cur[w] # NoTask => \A t \in q : pos[cur[w]] < pos[t]

\* The counters of the presence frame add up: each answer is in exactly one of
\* them at any moment, a refusal being counted just before its handler runs.
AnsweredAs(o) == {t \in Task : answers[t] = <<o>>}
Accounting ==
    /\ Accepted = Cardinality({t \in Task : pos[t] > 0})
    /\ Shed = Cardinality(AnsweredAs("limit"))
    /\ Expired = Cardinality(AnsweredAs("deadline"))
                 + Cardinality({w \in Workers : pc[w] = "refuse"})

\* When Close has returned the queue is empty and every accepted task has been
\* answered, except those a submitter took as expired: Close waits for workers
\* and the sweeper, not for Submit.
ClosedDrained ==
    main = "closed" =>
        /\ q = {}
        /\ \A t \in Unanswered : pos[t] > 0 => \E s \in Submitters : t \in dead[s]

\* The pool implements the contract of Answering with its two variables.
Contract == INSTANCE Answering
Implements == Contract!Spec

\* It does so with the contract's fairness: every submitted task is answered in
\* the end although workers, submitters and Close wait for one another.
ImplementsFairly == Contract!FairSpec
=============================================================================
