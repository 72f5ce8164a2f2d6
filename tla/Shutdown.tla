------------------------------ MODULE Shutdown ------------------------------
(***************************************************************************)
(* The end of the process (run in cmd/inspector/main.go): a signal, the    *)
(* drain of the subscription, Pool.Close, Sink.Close and the deferred      *)
(* nc.Close, composed with the pool (Pool, extended) and the audit sink    *)
(* (AuditSink, instantiated), while the callback of the subscription, the  *)
(* workers and the sweeper still run.                                      *)
(*                                                                         *)
(* handler.send publishes the reply and then adds the audit event: two     *)
(* steps, with the pool's answer in the first. The requests are those that *)
(* go to the pool, name an audit subject and are handled without a panic.  *)
(* The bus is external. Drain asks the server to stop, goes on handing     *)
(* over what the client has received or is about to, and returns at once:  *)
(* a request may reach receive until the connection closes. Close writes   *)
(* out what was published and ends the callbacks.                          *)
(***************************************************************************)
EXTENDS Pool

CONSTANTS maxItems, maxPending  \* the limits of the sink

ASSUME SinkLimits == maxItems \in Nat \ {0} /\ maxPending \in Nat \ {0}

VARIABLES
    run,      \* where the goroutine of run is
    conn,     \* the connection is "open" or "closed"
    by,       \* by[t]: the goroutine that answered t, Nobody before
    replied,  \* tasks whose reply was published on the open connection
    owed,     \* owed[th]: the task whose event the goroutine has yet to add
    eventOf,  \* eventOf[t]: number of the event of t, 0 before
    pending, dropped, added, wake, loop, take, out, sinkMain, mark \* the sink

Nobody == NoTask
PoolGoroutines == Workers \cup {Sweeper}
Subject == "audit"
Sink == INSTANCE AuditSink WITH
    Subjects <- {Subject}, MaxEvents <- Cardinality(Task), main <- sinkMain

sinkVars == <<pending, dropped, added, wake, loop, take, out, sinkMain, mark>>
busVars == <<run, conn>>
sendVars == <<by, replied, owed, eventOf>>
runVars == <<vars, sinkVars, busVars, sendVars>>

InitRun ==
    /\ Init /\ Sink!Init
    /\ run = "serve" /\ conn = "open"
    /\ by = [t \in Task |-> Nobody]
    /\ replied = {}
    /\ owed = [th \in Threads |-> NoTask]
    /\ eventOf = [t \in Task |-> 0]

-----------------------------------------------------------------------------
(* The callback, the workers and the sweeper: steps of the pool, one       *)
(* goroutine adding its event before it goes on.                           *)

\* The first half of handler.send when a step of the pool answers a task.
\* Publish on a closed connection is an error that is logged.
publishReply(th) ==
    IF answers' = answers THEN UNCHANGED <<by, replied, owed>>
    ELSE \E t \in Task :
            /\ answers'[t] # answers[t]
            /\ by' = [by EXCEPT ![t] = th]
            /\ replied' = IF conn = "open" THEN replied \cup {t} ELSE replied
            /\ owed' = [owed EXCEPT ![th] = t]

Receive(s) ==
    /\ conn = "open" /\ owed[s] = NoTask
    /\ \E t \in Task, d \in Deadlines : Submit(s, t, d)
    /\ UNCHANGED <<sinkVars, busVars, sendVars>>

PoolStep(th) ==
    /\ owed[th] = NoTask
    /\ \/ th \in Submitters /\ SubmitterStep(th)
       \/ th \in Workers /\ WorkerStep(th)
       \/ th = Sweeper /\ SweeperStep
       \/ replyDead(th)
    /\ publishReply(th)
    /\ UNCHANGED <<sinkVars, busVars, eventOf>>

\* The second half of handler.send.
AddEvent(th) ==
    /\ owed[th] # NoTask
    /\ Sink!Add(Subject)
    /\ eventOf' = [eventOf EXCEPT ![owed[th]] = added']
    /\ owed' = [owed EXCEPT ![th] = NoTask]
    /\ UNCHANGED <<vars, busVars, by, replied>>

Clock ==
    /\ Tick \/ \E s \in Submitters : TimerFire(s)
    /\ UNCHANGED <<sinkVars, busVars, sendVars>>

SinkStep == Sink!LoopStep /\ UNCHANGED <<vars, busVars, sendVars>>

-----------------------------------------------------------------------------
(* run after the signal.                                                   *)

\* Defect: auditSink.Close before pool.Close.
After_swapped(stage) ==
    CASE stage = "drain" -> "sink" [] stage = "sink" -> "pool"
      [] stage = "pool" -> "return" [] stage = "return" -> "exit"

\* The order of the calls, the deferred nc.Close last.
After(stage) ==
    CASE stage = "drain" -> "pool" [] stage = "pool" -> "sink"
      [] stage = "sink" -> "return" [] stage = "return" -> "exit"

waitForSignal ==
    /\ run = "serve"
    /\ run' = "drain"
    /\ UNCHANGED <<vars, sinkVars, conn, sendVars>>

\* sub.Drain(): it returns at once, with or without an error.
Drain ==
    /\ run = "drain"
    /\ run' = After(run)
    /\ UNCHANGED <<vars, sinkVars, conn, sendVars>>

\* pool.Close(): p.wg is done when the goroutines have left send too.
poolClose ==
    /\ run = "pool"
    /\ closeStop \/ CloseStep
    /\ main' = "closed" => \A th \in PoolGoroutines : owed[th] = NoTask
    /\ run' = IF main' = "closed" THEN After(run) ELSE run
    /\ UNCHANGED <<sinkVars, conn, sendVars>>

\* auditSink.Close().
sinkClose ==
    /\ run = "sink"
    /\ Sink!Close \/ Sink!closeReturn
    /\ run' = IF sinkMain' = "closed" THEN After(run) ELSE run
    /\ UNCHANGED <<vars, conn, sendVars>>

ncClose ==
    /\ run = "return"
    /\ run' = After(run)
    /\ conn' = "closed"
    /\ UNCHANGED <<vars, sinkVars, sendVars>>

\* main returns and every goroutine ends where it is.
Exit ==
    /\ run = "exit"
    /\ run' = "exited"
    /\ UNCHANGED <<vars, sinkVars, conn, sendVars>>

MainStep == Drain \/ poolClose \/ sinkClose \/ ncClose \/ Exit

Exited == run = "exited" /\ UNCHANGED runVars

NextRun ==
    \/ /\ run # "exited"
       /\ \/ \E s \in Submitters : Receive(s)
          \/ \E th \in Threads : PoolStep(th) \/ AddEvent(th)
          \/ Clock \/ SinkStep
          \/ waitForSignal \/ MainStep
    \/ Exited

\* The goroutines run, the clock goes on, the sink's select takes its stop case
\* in the end. Nothing forces a request or the signal.
FairRun ==
    /\ \A th \in Threads : WF_runVars(run # "exited" /\ (PoolStep(th) \/ AddEvent(th)))
    /\ WF_runVars(run # "exited" /\ Clock)
    /\ WF_runVars(run # "exited" /\ SinkStep)
    /\ SF_runVars(run # "exited" /\ Sink!selectStop /\ UNCHANGED <<vars, busVars, sendVars>>)
    /\ WF_runVars(MainStep)

SpecRun == InitRun /\ [][NextRun]_runVars
FairSpecRun == SpecRun /\ FairRun

-----------------------------------------------------------------------------
(* Properties.                                                             *)

\* Before the connection closes every request the pool accepted has its reply on
\* the bus, whatever arrived during the drain. The exception is what the callback
\* has in its hands: nothing in run waits for it.
AcceptedReplied ==
    conn = "closed" =>
        \A t \in Task : pos[t] > 0 =>
            t \in replied \/ by[t] \in Submitters \/ \E s \in Submitters : t \in dead[s]

\* Before the connection closes every reply of a worker or of the sweeper has its
\* audit event on the bus or counted as dropped; so has a reply of the callback
\* whose event was added before the sink was closed.
RepliesAudited ==
    conn = "closed" =>
        \A t \in replied :
            \/ eventOf[t] \in Sink!PublishedIds \cup dropped /\ eventOf[t] # 0
            \/ by[t] \in Submitters /\ (eventOf[t] = 0 \/ eventOf[t] > mark)

\* Seen from the bus the composition keeps the pool's contract through the whole
\* shutdown: a request gets at most one reply, only after it arrived, and keeps it.
OnTheBus == INSTANCE Answering WITH
    answers <- [t \in Task |-> IF t \in replied THEN answers[t] ELSE <<>>]
OneReplyOnTheBus == OnTheBus!Spec

\* The process ends after a signal: the callback, the pool's goroutines and the
\* sink's loop never keep run waiting.
StopEnds == run = "drain" ~> run = "exited"
=============================================================================
