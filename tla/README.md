# Verification of placitum-action

TLA+ specifications of the action inspector: a Go process that takes requests
from NATS, evaluates the rules of a profile, and answers with `allow` and a list
of actions, or with `error`. The modules below are translated from the source
under `src/`; the file `PROJECT.json` maps every definition to its lines.

## 1. Inventory

| component | source | state | operations |
|---|---|---|---|
| task pool | `internal/queue/queue.go` | queue, counters, one mutex, one condition variable | Submit (shed or wait), work, sweep, Close |
| profile store | `internal/policy/store.go` | directory, fingerprint, snapshot (atomic pointer) | NewStore, Watch, ReloadFrom, swap |
| rollout | `internal/desired/desired.go` | live/next/prev directories, pending manifest, Applied | Watch, handle, FetchLists, Apply, Bootstrap |
| audit sink | `internal/audit/sink.go` | pending events, wake token, dropped counter | Add, loop, flush, publish, Close |
| condition graph | `internal/policy/cond.go` | call stack and colours of a depth-first walk | parseConditions, findCycle |
| evaluator | `cond.go`, `policy.go`, `cmd/inspector/source.go`, `internal/body/body.go` | memo, call stack, lazily read objects | Collect, Holds, clause, hit, Headers, Args, Load |
| message handler | `cmd/inspector/handler.go`, `lists.go`, `internal/overload` | one message and its snapshot | receive, evaluate, inspect, overloadOnShed, writeLists, send, recoverInto |
| live list mirror | `internal/livelist/livelist.go` | epoch, number, list, queue of frames per list | run, onFrame, catchUp, applyPackage, verify, snapshot, resync |
| process start and shutdown | `cmd/inspector/main.go` | the goroutines | run: start order, drain, Close, Close |
| presence frame | `cmd/inspector/main.go` | none | reads counters and Applied |
| list content | `livelist.go` (composition) | members with expiry, counters per prefix length, hash | apply, Contains, ContainsAddr, Lookup |
| static lists | `internal/policy/static.go` | sets loaded with a tree | readStatic, lookup |
| profile parsing | `policy.go`, `cond.go` | none | Parse, parseClause, parseRule, parseWrite, parseAction |
| other parsing | `protocol.go`, `config`, `settings.go`, `audit.go`, `wafs.go`, `siphash.go` | none | field checks, encodings |
| buffer client, probe | `internal/body/redis.go`, `cmd/probe` | none | calls of a service |

How they interact. The NATS callback runs `receive`, which parses and calls
`pool.Submit` in the same goroutine; a task leaves the pool through exactly one
call of `evaluate`, made by a worker, the sweeper or the submitter itself.
`evaluate` reads the current snapshot of the store and runs `Collect`, whose
evaluator looks values up in the mirrors and reads request objects from Redis;
then it writes to the live lists, replies, and hands an event to the audit sink.
Two goroutines (`Store.Watch` and `desired.Watch`) replace the snapshot under
the workers' feet; one goroutine per live list replaces its content. At a signal
`run` asks for a drain and closes the pool, the sink and the connection one after
the other, while the callback of the subscription may still be in `Submit`.

What is hard here: two kinds of goroutine sleeping on one condition variable;
expired tasks taken out of the queue by three kinds of goroutine; a wait with a
timer that races Close; two goroutines that each publish a fingerprint and a
snapshot in two steps; renames of directories that another goroutine reads,
with crashes in between; lists followed over lossy frames across restarts of the
keeper; a memo that hides changes in the middle of a request; a process that has
to answer exactly once whatever panics, and to stop without leaving an accepted
request unanswered although nothing waits for the callback. The `hazards` of `PROJECT.json` give the
lines.

What makes each part correct:
- pool: one answer per task, bounded queue, no lost wake-up, honest refusals,
  order, counters that add up, a Close that drains and returns;
- store and rollout: nothing broken is served, the last good generation stays on
  disk, revisions do not go back, a good manifest is applied in the end, what is
  served is what is on disk;
- sink: every event is published once or counted as dropped, in order;
- evaluator: the lazy result is the declared one, consistent within a request,
  every object fetched at most once;
- handler: one reply, one snapshot, errors that ask for nothing, address writes
  that survive a failure of the network directory;
- mirror: readers see one past state of the keeper, never a mixture, never an
  older one, and the latest in the end;
- list content: a lookup is the lookup in what was declared and lives, and the
  hash that decides on a new snapshot is that of the declared members;
- profile parsing: exactly the profiles of the grammar load;
- shutdown: accepted requests are replied and audited before the connection
  closes, and the process ends.

## 2. Modules

| module | models | checked by |
|---|---|---|
| `Pool` | the task pool | `MCPool`: `pool_drop`, `pool_wait` |
| `Answering` | what the pool promises: a task arrives once and is answered once | implemented by `Pool`, and by `Shutdown` as seen from the bus |
| `Selection` | the loop that keeps some elements of a slice, used by `AuditSink` and `Handler` | their runs |
| `AuditSink` | the audit sink | `MCAuditSink`: `sink` |
| `Shutdown` | the end of `main.run`: extends `Pool`, instantiates `AuditSink` | `MCShutdown`: `shutdown` |
| `Rollout` | store and rollout, composed, over one disk | `MCRollout`: `rollout`, `rollout_race` |
| `ConditionGraph` | loading of references between conditions | `MCConditionGraph`: `conditions_undeclared` |
| `Profiles` | loading of clauses and rules, extends `ConditionGraph` | `MCProfiles`: `profiles` |
| `Evaluator` | one request over its profile | `MCEvaluator`: `evaluator` |
| `Handler` | one message from receive to send | `MCHandler`: `handler` |
| `Mirror` | one live list and an external keeper | `MCMirror`: `mirror` |
| `Follower` | what a mirror promises its readers | implemented by `Mirror` |
| `Lists` | the content of a live or static list, and its lookups | `MCLists`: `lists` |
| `PoolProofs`, `AuditSinkProofs`, `RolloutProofs`, `EvaluatorProofs`, `HandlerProofs`, `MirrorProofs`, `ListsProofs` | theorems about the module of that name; `PoolProofs` also those about `Shutdown`, `EvaluatorProofs` those about `ConditionGraph` and `Profiles` | `tlapm` |
| `SelectionProofs` | what `SelectAt` computes, used by two of them, and the induction two others need | `tlapm` |

Definitions named `X_something` beside a definition `X` are defects: what a
plausible mistake in that code would look like. No specification uses them. Each
property is violated when `X` is replaced by the defect `PROJECT.json` pairs it
with, which shows that the property can fail at all.

### Pool
An action is a critical section of `p.mu`, or a call of the handler outside it.
`p.q` is a set `q` ordered by `pos`, the value of `Accepted` when the task was
appended. `pc`, `cur` and `dead` are what a goroutine has in hand between two
critical sections: the task it works on and the expired tasks it took and has
yet to answer. `left[t]` is `waitLeft(t)`, counted down by `Tick`; everything
below zero is one value. The condition variable is the set `waiting`: `Signal`
removes any one of it, worker or submitter, `Broadcast` all. `main` is the
goroutine of `Close`. Abstracted: the handler's work is one step, `IO`
statistics and durations are left out, and a timer callback that runs after
`timer.Stop` (a spurious broadcast) is not an action.

### Rollout
A directory is a tree: two profiles and the folder of static lists, each marked
with the version that wrote it, and `"dir"` for the directory itself, so that a
tree may be there and empty, or hold files of two versions. `w` is the goroutine of
`Store.Watch`: look, compare, then `LoadDir` file by file and by path (`watchList`,
`watchLoadProfile`, `watchLoadLists`), set the fingerprint, swap. A profile that is
gone or broken when it is read fails the load, and so does a list that a profile
read before names and that is missing (`loadStatic`). `d` is the goroutine of
`desired.Watch` (fetch, clean, write, clear, park, promote, load, set, swap, done;
unpark and unstage after a failure; remove and restore when the generation does not
load). `removeAll` takes the whole tree or fails and leaves any part of it, its error
being ignored; the removal of the live tree, which the watcher may be reading, is
entry by entry. `rename` needs that the target is not there or empty, so that
remains of a failed removal make it fail too.

`Crash` may happen in any state and restarts the process with the disk as it is;
the KV watcher then delivers the last entry. Crashes, failing file operations and
outages of Redis share one budget (`MaxTroubles`). A fingerprint is taken for the
tree itself. Three history variables say what the properties speak of or must
except: `good`, the last revision applied in this life of the process or an earlier
one; `failed`, the manifests whose `Apply` gave up after a failing file operation;
`stranded`, whether the good tree was left out of the live directory, by a
restoration that failed or a crash while it was parked. The next `Apply` then removes
it.

What `ServedLoadable` does not say: a load that straddles the renames of `Apply` may
hold a profile of one generation and one of another, and one that straddles a
removal a part of a tree; each file loaded, the lists are those the profiles found,
but nobody wrote them together. The next tick loads again, because the fingerprint
that was taken before is not that of the directory, unless that mixture is swapped in
last, behind a rollout: this is what `SettledServesDisk` is about. The `LoadDir` of
`NewStore` and of `ReloadFrom` race no goroutine of the program and are one step.

### AuditSink
An event is a number with a subject; `dropped` is a set where the code keeps a
count. Sizes in bytes are not modelled: an `Add` below `maxItems` may or may not
reach `maxSize` and leave a token in `wake`. `select` chooses any ready case. A
failing publish is logged by the code and not repeated: `out` is what was handed
to the connection. `groupBySubject` goes through the batch and appends: `SelectAt`
of `Selection`.

### Shutdown
`Receive`, `PoolStep` and `Clock` are the steps of `Pool`, `SinkStep` those of
`AuditSink`; `handler.send` joins them in two steps, the reply with the pool's
answer and then the event (`owed`). `MainStep` is `run` after the signal, call by
call. `Drain` returns at once and changes nothing in the model: what the client
has received is still handed over, so that `Receive` stays possible until the
connection closes. The exceptions in the properties are what the code does not
wait for: a reply in the hands of the callback.

### ConditionGraph
`parseConditions` and `findCycle` over every graph of references: declared or not,
cyclic or not, in any order of the file. `findCycle` calls itself; its activation
records are the variable `path`, the name of each call and the clause its loop is
at, and `walked` is the map of colours, new for each name of the file. A step is one
round of a loop. A panic of the code is the outcome `panic`. The reference definition is declarative: every reference is
declared and no condition reaches itself.

### Profiles
`part` is what is varied: the mode of the profile, the row of one condition, a
clause or a rule. An entry is a function from its fields to kinds of text: a kind for
each outcome of a check, numbers on both sides of each limit (`at` 24, 25, 100, 101;
`delta` -101, -100, 900, 901; `value` -101, -100, 0, 100, 101); `"-"` is a field left
out. A rule has no action or one. The mode is checked first, as in `Parse`; the
conditions are loaded without a look at the rest, so that an entry may as well be
written after them: `Write` fills in one field, and `Parse` may come at any time. The
checks are translated in the order and nesting of the code, field by field over all
verbs; `parseCondition` is the part of `parseConditions` about a single row (name,
declared twice, `all` and `any`, no clauses), which `ConditionGraph` leaves out. The
reference is written the other way round and from the README of the program: for each
verb the fields it needs and the fields it may have. Where that README and the code
disagree (`Disputed`: a score with the recipient `*`) the property says nothing.
Left out: the bytes of names and expressions, the match block apart from being empty,
the YAML decoder.

### Evaluator
`Holds` calls itself, so its activation records are the variable `stack`; `done`
and `holds` are the memo. `ReadObject` is the first clause that needs the headers
or the arguments: `Outcomes` lists what `Load` and the decoding can give for each
kind of locator. The live list changes between any two lookups. Notes for the
audit are left out. A locator with neither an address nor a reason behaves in
the code like one that is unavailable (headers) or empty (arguments).

### Handler
One message through `receive`, the pool (seen through its contract: one call of
`evaluate`, shed or not), `inspect` or `overloadOnShed`, the list writes, and
`send`. `held` is the snapshot the handler read; actions and writes carry its
version so that a mixture would show. `send` is three steps: its early return,
Marshal with Publish (each may fail), and `audit.Add`. `panic` is possible in every
call, also in `audit.Add` when the reply is out; `guards` counts the deferred
`recoverInto` on the stack, two when `Submit` calls `evaluate` itself, and a panic
with none left ends the process. The recovery goes through `send` as well and may
panic or fail there. A failing `AddMany` puts the write into `refused` and is
otherwise without effect, as in the code.

### Mirror
The keeper is external: epochs, numbered changes, a frame for each of them that
may carry its package, ticks, packages in Redis that disappear. Frames are lost
on the bus (`MaxLosses`) or dropped at the capacity of the queue. `hist` is the
keeper's past and lets the properties say which state a reader sees. A hash is
the list it was computed from; `Odd` holds the values for which the mirror
computes another hash than the keeper, which is the case `snapBad` is for.
`Follower` is the abstract specification: a view that is either not ready or the
keeper's list at one point of its past, and a point that only moves forward.
`Mirror` implements it with the view read off `ready`, `epoch`, `seq` and the list
(`Readers`). Left out: the warning about a silent keeper, a mirror without the
internal Redis, a subscription that fails. Frames of another version or with an epoch
that is not a number are dropped (`FrameUnread`), a package in a frame that is not
base64 is read from Redis instead (`FrameAhead`), one that does not unpack leads to a
snapshot (`FrameMalformed`). Assumed of the keeper: the object it names in answer to a
request is its list at the request. `snapshot` (`livelist.go:684-688`) takes any
object, so that an older one would take readers back; `Follows` rests on this.

### Lists
What `Mirror` takes for a set is here the composition itself: members with their
expiry, a counter for each family and prefix length, the hash. The same module
reads a static list line by line. `net/netip` is modelled on addresses of a few
bits, with the block of v4-mapped addresses in the v6 space; a hash is the set of
members it was taken of, since a xor flips a member in and out. The reference
compares addresses with the declared prefixes bit by bit, without counters.

## 3. Runs

| run | instance | shows |
|---|---|---|
| `pool_drop` | 3 tasks, 1 submitter, 2 workers, depth 2, deadlines 1, 3, 4 | the safety of the pool that sheds, and that it implements `Answering` |
| `pool_wait` | 2 tasks, depth 1, the submitter waits | wake-ups, refusals and the bound with the wait and its timer; every task is answered |
| `shutdown` | 2 tasks, 1 worker, depth 1, the submitter waits, 1 event per batch | `AcceptedReplied`, `RepliesAudited`, `OneReplyOnTheBus` (a refinement), `StopEnds` |
| `rollout` | 4 manifests (the second broken, the third refused, the first and the last with lists), a broken edit of one boot profile, 2 troubles (crash, failing file operation or outage), the key deleted after the first | `ServedLoadable`, `LastGoodKept`, `RevisionNeverGoesBack`, `LatestApplied` |
| `rollout_race` | 2 manifests, nothing fails | violated: `SettledServesDisk` |
| `sink` | 5 events, 2 subjects, maxItems 2, maxPending 3 | every event is accounted for, in order; events go out |
| `profiles` | every graph of 3 names with up to 2 clauses; every mode, condition row and clause; a rule without an action, or with every verb and recipient and up to 3 more fields | accepted exactly when well formed |
| `conditions_undeclared` | the graphs | violated: `UndeclaredRejected` |
| `lists` | 4 records over 4 nested prefixes of 2 families, or 4 lines out of 12; 2 moments | `LookupExact`, `HashAndCountersExact`, `StaticExact` |
| `evaluator` | 100 profiles, 3 conditions, all locators, 1 change of the mirror | lazy evaluation is exact, consistent, done once, and ends |
| `handler` | every kind of message, 25 profiles, fills 0, 50, 100 at marks 50 and 100, 1 swap, every failure and panic | one reply, one snapshot, writes and overload rules |
| `mirror` | 2 epochs of 2 changes, 2 values (1 odd), queue 2, 1 loss, 1 fault | `Follows` (the refinement of `Follower`), `CatchesUp` |

Why these bounds are enough for the cases they are for:
- Pool: three tasks fill a queue of two and one is shed; two tasks fill a queue of
  one and one waits; two workers and the sweeper compete for what expires.
  Deadlines of 1, 3 and 4 ticks (less the reserve of one) are too short on
  arrival, expired in the queue, and served. The theorems lift the safety results
  to any numbers.
- Rollout: four manifests make an old retry, a broken and a refused one in the
  middle and a newer good one possible; every kind of trouble hits every step of
  `Apply`, and the second one whatever is done about the first (the restoration that
  fails, the crash while a tree is parked, the removal that leaves remains). The two
  profiles and the lists are the least for which reading file by file matters.
- Shutdown: the second task finds the queue full and waits while everything
  stops; its deadline passes in the queue, with the worker, or with the callback.
- Profiles: no check of the code relates more than three fields besides the verb
  and the recipient. An action that needs two fields has one to spare. Every limit of a
  number has the last value inside and the first one outside.
- Lists: a prefix, a shorter one that covers it and one of the other family, each
  added, prolonged, expired or removed; lines in both spellings, unmasked, at
  both ends of the length and one bit beyond it.
- Sink: five events pass `maxPending` and need more than one batch.
- Evaluator: a condition that is referred to from two sides and from two rules
  that negate each other, over each kind of operand.
- Handler: fills below, at and above a mark of 50, and a full queue at a mark of 100,
  which only a shed request reaches; a rule of each kind with a write that needs the
  directory before an address write.
- Mirror: two epochs of two changes put packages of both epochs under one number,
  and let a snapshot overtake the queue of frames.

Deadlock is checked in every run but `lists`, which ends with its records. Where the system may come to rest there is an
explicit idle step (`Terminated`, `Done`), enabled only when everything is done.

### Fairness
- `pool_wait`: weak fairness of each goroutine's steps, of the clock and of the
  timers. A goroutine that wants the mutex gets it in the end (Go's mutex hands
  over to a starved waiter) and a woken one runs. Nothing forces a request or a
  shutdown.
- `rollout`: the goroutines run and Redis returns. `LatestApplied` excepts an
  `Apply` that gave up after a failing file operation, which the code does not retry, and boot profiles
  broken by hand, with which the process does not start again after a crash.
- `sink`: the loop runs; a `select` chooses among ready cases at random, so
  that the stop case, ready for good, is taken (strong fairness of `selectStop`).
- `shutdown`: the same for the pool and the sink, and `run` itself. Nothing forces
  a request or the signal.
- `evaluator`: a worker runs its request to the end.
- `mirror`: the goroutine runs (its calls have timeouts), the reminder of
  `resync` and the keeper's ticks go on. With the bounds used up nothing fails any
  more: the property says that the mirror recovers from what happened before. A
  list whose snapshot did not have its own hash (`snapBad`) is excepted: nothing
  in the repository promises that it follows within the epoch.

## 4. Proofs

Each theorem holds for every value of the constants its module's assumptions
allow: any number of tasks, goroutines, events, manifests, conditions, profiles,
epochs, changes, records and bits of an address, not only those of the runs. Where a theorem states a property
that a run checks, the table names it.

| module | theorem | property |
|---|---|---|
| `PoolProofs` | `TypeCorrect` | `TypeOK` |
| | `NoTaskLostOrAnsweredTwice` | `AnsweredOnce` |
| | `OneHolder` | `SoleHolder` |
| | `QueueBounded` | `DepthBound` |
| | `WakeupsArrive` | `NoLostWakeup` |
| | `PoolImplementsContract` | `Implements` |
| | `OldestFirst` | `Fifo` |
| | `RefusalsHonest` | `DeadlineHonest` |
| | `CloseDrains` | `ClosedDrained` |
| | `CountersAddUp` | `Accounting` |
| `AuditSinkProofs` | `TypeCorrect` | `TypeOK` |
| | `NoEventLost` | `EventsAccounted` |
| | `CloseFlushes` | `ClosedFlushed` |
| | `SubjectsInOrder` | `SubjectOrder` |
| `RolloutProofs` | `SnapshotAlwaysLoadable` | `ServedLoadable` |
| | `RevisionMonotone` | `RevisionNeverGoesBack` |
| | `LastGoodWhole` | `LastGoodKept` |
| `EvaluatorProofs` | `EvaluatedOnce` | `DoneOnce` |
| | `OneValue` | `OneValuePerCondition` |
| | `LazyExact` | `LazyIsExact` |
| | `ConditionsMeanOneThing` | `OneMeaning` (not in a run) |
| `EvaluatorProofs`, about `ConditionGraph` | `LoadsWellFormed` | `AcceptsWellFormed` |
| | `AcceptedIsLoadable` | accepted conditions are `Loadable` |
| `EvaluatorProofs`, about `Profiles` | `LoadsGrammar` | `EntriesFollowGrammar` |
| | `ProfileLoadsConditions` | `SpecProfile => SpecGraph`, `AcceptsWellFormed` |
| `HandlerProofs` | `RepliesOnce` | `OneReply` |
| | `AddressWritesLeave` | `AddressWritesOut` |
| | `SingleSnapshot` | `OneSnapshot` |
| | `OverloadRulesFit` | `OverloadAsksUnderLoad` |
| `MirrorProofs` | `TypeCorrect` | `TypeOK` |
| | `MirrorFollows` | `Follows` |
| `PoolProofs`, about `Shutdown` | `ProcessRunsPool` | `SpecRun => Spec` |
| | `ProcessRunsSink` | `SpecRun => Sink!Spec` |
| | `AcceptedGetReply` | `AcceptedReplied` |
| | `RepliesGetEvent` | `RepliesAudited` |
| | `BusKeepsContract` | `OneReplyOnTheBus` |
| `ListsProofs` | `HashAndCounters` | `HashAndCountersExact` |
| | `MirrorLookups` | `LookupExact` |
| | `StaticListsExact` | `StaticExact` |

Every inductive invariant below was also checked by TLC on the instance of the
module's run.

### Pool
Assumptions: goroutines of different kinds are different, `NoTask` is no task,
`Task` and `Workers` are finite, there is a worker (`config.go:142` refuses a
count below 1), `Depth` is positive (`New` raises it to 1), the budgets are
natural numbers. The program has one submitter; the theorems do not need that.

The argument is a tower of inductive invariants.
1. `TypeControl` adds to the types where each kind of goroutine can be and
   whether it holds a task there. Without it the types of `cur` and `pc` do not
   say that a goroutine about to answer has something to answer.
2. `Custody` adds `AnsweredOnce` and `SoleHolder`, which are inductive only
   together: that a task taken out of the queue is answered by nobody else needs
   that it was held once, and that no task is lost needs that the place it left
   was its only one.
3. `Waking` adds `DepthBound` and `NoLostWakeup`. The heart is the counting
   argument: while a worker sleeps, the woken workers are at least as many as the
   queued tasks. A `Signal` that reaches a submitter instead of a worker is
   excluded because a submitter sleeps only on a full queue, where nobody appends;
   `takeExpiredLocked` and `pop` shrink the queue and wake everybody.
4. Beside `Waking`, and on top of `Custody`: `Order` (positions are different and
   not above `Accepted`, and what a worker holds is older than the queue), `Honest`
   (what each goroutine knows about the time of the task in its hands, which makes
   its later refusal true), `Drained` (what the workers have left behind at each
   stage of `Close`; this one needs that there is a worker, otherwise nobody
   empties the queue) and `Counted` (each counter is the size of a set of tasks).
The refinement follows from `Custody`: a step of the pool that changes `arrived`
or `answers` is an arrival or the first answer of a task that has arrived.

### Selection and the audit sink
`SelectAt` is a recursive function, and what it returns needs an induction over
its argument. The library's induction theorems cannot be instantiated by the
installed provers; `SelectionProofs` goes through the least number that fails
instead (`LeastNumber`, from the well-foundedness of `<`). The result is
`SelectAtIsExact`: the sequence read along the increasing enumeration of the
places kept, all of them and no other. `AuditSinkProofs` and `HandlerProofs` use
only that.

The invariant of the sink says that the identifiers in `pending` are consecutive
and end with `added`, that the batch is older and rising and the published ones
older still for each subject, and that the five places partition `1 .. added`.
`SubjectOrder` alone is not inductive: after a batch is sent group by group,
nothing in it says that the rest of the batch is older than `pending`.

### Rollout
`SnapshotAlwaysLoadable` needs an invariant over the reading itself (`Snapshots`):
at each step of `LoadDir` the profiles read so far were accepted, and from the
lists on they have the lists they name, although every file may change, move or go
behind the reader. It holds for trees that were never on disk as a whole: the theorem
is about what the loader accepts, not about one generation.
`RevisionMonotone` needs `Ahead`: what the watcher has yet to deliver is newer
than what is pending, under way or applied. `LastGoodWhole` is stated under the
hypothesis that nobody edits the live directory by hand (the process owns it; the
boot directory may be edited): an edit of it is by itself a loss of the generation.
Its invariant (`Staging`, `Place`) says for each step of `Apply` in which of the
three places the last good generation is. `good` survives a crash, so that the
theorem says as much about the lives after it; what it excepts is `stranded`:
the rename that brings the tree back failed or found remains of the broken one, or
a crash struck while the tree was parked.

### Evaluator
`Calls` relates the stack to the memo and uses that the references of a loaded
profile have a rank (they are acyclic, `ConditionGraph`): the conditions on the
stack descend in rank, which gives `DoneOnce`. `Decided` ties the rules behind the
current one to the memo; it gives `OneValuePerCondition` under any change of the
mirror. `Exact` says for a quiet mirror that each memo entry, and each clause
passed in each open activation, agrees with every assignment that gives the
conditions their declared meaning, for every completion of the objects not yet
read. `LazyIsExact` quantifies over these assignments; that there is exactly one
(`OneMeaning`) is a theorem of its own. An assignment that is right for the
conditions of the first ranks is made right for the next one, whose definitions
look at lower ranks only (`MeaningGrows`); of two meanings the lowest rank at which
they differ has a condition whose references agree.

### Condition graph
Assumptions: the names are finitely many and `NoRef` is none of them. The invariant
`GraphInv` says of the walk in progress:
- `Path`: the calls in progress are those for the names coloured 1, each in the
  clause that refers to the next one, and the clauses before it lead to finished
  names. Meeting a name coloured 1 is therefore a cycle, the part of the path from
  that name on.
- `Grounded(FullyWalked)`: the names coloured 2 refer only to each other and no set
  of them is cyclic. A name that finishes joins them without a cycle, because it is
  not among the references of names that finished before it.
- `Cleared`: each name of the file that is through belongs to such a set. At the end
  this covers every name, and a cycle through a name would lie in the name's set.
- A rejection or a panic has its reason: an undeclared reference or a cycle.

`AcceptsWellFormed` alone says nothing of a walk that has not ended. The theorems
about `Evaluator` assume that the references of a loaded profile have ranks
(`Loadable`). `AcceptedIsLoadable` discharges that: a profile whose conditions were
accepted has them. Among the conditions without a number there is one that refers to
none of the others, which takes the next number (`NumberNext`, `RankExists`).

### Profiles
Assumption: `"-"`, which stands for a field left out, is not the name of a condition
(`condNameRe`, `cond.go:183`). The checks ask field by field what each verb may have;
the grammar says verb by verb which fields there are. The proof turns both into
conjunctions over single fields: `Passes` is what `parseAction` asks for
(`ActionPasses`, with the default axis worked out in `ApplyIs`), and `Spelled`,
`RightTexts` and `Fitting` what `WellFormedAction` does (`ActionFollows`). For each
group of verbs they are compared (`PlainAction` to `ArchiveAction`), then for the
list writes, the rules, the clauses and the condition rows (`ConditionExact`). The
invariant adds that every field holds a text that can be written in it. There is no
bound on the number of fields here, while the run stops at `MaxFields`. The
hypothesis `~Disputed` of the property is used for the score alone.

### Handler
The invariant follows the message: nothing is collected before `write`, what is
collected carries the version held and names no rule twice, an address write that
was asked for was handed to `AddMany` or is still among the writes, and the reply fits what was
collected. `Replied` and `Counted` follow the replies through `send` and the panics:
before `send` there is none, and from then on their number is what is due, less what
a failure lost (`"lost"` of `faults`), plus one once the audit panicked; that cannot
happen twice, because the recovery comes without the request and `audit.Add` then
does nothing. `Outgoing` is the part the property does not say: it speaks of the
writes still to do while `AddressWritesOut` only speaks of the end. That
collecting lists each rule once (`ChosenLists`, `JoinedLists`) rests on
`SelectAtIsExact`.

### Mirror
`Recorded` says what the keeper's history looks like, `UnderWay` that every frame,
package and reference under way is a true statement about the past, `Exact` that
the list is the keeper's at the point claimed. `MirrorFollows` is the refinement
with the mapping of `Readers`: each step of the mirror is a step of `Follower` or
leaves its variables alone.

### Shutdown
Assumptions: those of the pool, and that the two limits of the sink are positive
(`SinkLimits`; they are the constants 256 and 50000 of `audit/sink.go:17-22`). A step of the
process is a step of `Pool` and a step of `AuditSink`, or leaves them alone
(`RunsPool`, `RunsSink`). This gives `ProcessRunsPool` and `ProcessRunsSink`, and
with them the invariants of both parts hold in the process: `Drained` of the pool,
and the invariant of `AuditSinkProofs`, instantiated for the one subject and as many
events as there are tasks.

Neither says anything about the way of a task from its answer to its event.
`Settled` does, relative to them:
- `Sending`: a task that was answered has its reply on the bus unless the callback
  answered it, and it has its event unless the goroutine that answered it still
  owes it. One goroutine owes one event at most, its own.
- `RunStages`: what each stage of `run` has waited for. Once `pool.Close` has
  returned no goroutine of the pool owes anything, so that every event of theirs is
  below the mark that `Sink.Close` takes.
`AcceptedReplied` and `RepliesAudited` speak of the closed connection only and are
not inductive: the stage before it is where the order of `run` matters. The
exceptions for the callback are those of the properties; `run` does not wait for it.

### Lists
Assumptions: addresses of the shorter family embed in the longer one at a multiple
of its size; the prefixes of the keeper's records are masked
(`PublishedAssumption`: `apply` takes a record as it is, while every lookup masks, so
the lists rely on the keeper here); a line is an address or a prefix as `netip`
parses it, or neither (`LinesAssumption`).

`Span[k]`, the number of addresses that differ in the last k bits, is a recursive
function. That it is positive (`SpanPositive`) goes through the least number that
fails (`LeastNumber`). From it follows that an address begins with the bits of a
prefix exactly when masking it gives that prefix (`SameBlock`, `SearchIsExact`): a
search by lengths finds exactly the prefixes that cover an address, as long as the counters do not let it
skip a length that is in use.

The invariant `Content` ties the three parts of a composition together and to the
history. `Sound`: the hash is that of the members and each counter the number of
members of its length. `Mirrored`: the members are what the records declare and
carry the expiry of their last record. `ReadLines`: the members of a static list are
the prefixes of the lines read, and each way to stop reading has its line.
`LookupExact` alone is not inductive: a counter that is wrong shows only once the
last member of a length is removed. Appending a record makes it the last one of its
member and changes no other (`LastPlace`, `LogGrows`), which is the step the
induction over the log consists of.

### Only model-checked
- Liveness under fairness (`ImplementsFairly`, `EventPublished`, `LatestApplied`,
  `StopEnds`, `Terminates`, `CatchesUp`): out of the prover's reach.

Every safety invariant and every safety action property that a passing run checks is
a theorem.

## 5. Findings

Each is a run in which TLC finds the documented property violated.

1. `rollout_race`: `Watch` and `ReloadFrom` each set the fingerprint and swap the
   snapshot in two steps. The watcher can load the old directory, be overtaken by
   a complete rollout, and swap its old snapshot in last; the fingerprint is then
   the new one and the old profiles are served until something changes again.
2. `conditions_undeclared`: a reference to an undeclared condition that is met by
   the walk before it is checked is a nil dereference, not a rejected profile.

`PROJECT.json` quotes the sentence each of them contradicts. Seen while modelling,
without a run of its own:
- without a configured buffer a captured object is a fault (`body.go:68`), where
  `README.md:177` and `INSTALL.md:77` speak of an unavailable object;
- on the shed path the network directory is asked with `context.Background()`
  (`handler.go:281`), where `README.md:105` has list writes within the message
  budget;
- a v4-mapped prefix of more than 32 bits in a static list stops the program
  (`static.go:91`): the index is that of no prefix. `StaticExact` excepts it;
- a `score` with the recipient `*` is accepted (`policy.go:579`), where
  `README.md:82` and `README.md:95` refuse a recipient on a score;
  `EntriesFollowGrammar` leaves this case out by name (`Disputed`);
- a panic in `audit.Add` comes after `Publish` (`handler.go:236-240`), so that
  `recoverInto` sends a second reply, `INTERNAL_ERROR`, to the same subject; `OneReply`
  says when and bounds it to one;
- on the shed path a network directory that fails is logged only
  (`handler.go:281-288`): the reply is `queue_limit` with the actions of the overload
  rules, where `README.md:105-108` answers `ACTION_GEO_UNAVAILABLE`.
  `AddressWritesOut` and `OverloadAsksUnderLoad` keep the two paths apart;
- a crash while the live tree is parked, followed by a redelivered manifest that does
  not load, removes the last copy of the good generation (`desired.go:261`);
- a subscription that fails leaves the list in the map without a goroutine
  (`livelist.go:282`): `Ensure` does not try again;
- the fingerprint is taken after the load (`store.go:47`, `store.go:97`), so that
  an edit in between counts as loaded and never is; `SettledServesDisk` fails for
  this reason too as soon as `Edits` holds a version that loads;
- a manifest that `Parse` refuses is only logged (`desired.go:461`); the presence
  frame does not say `apply_failed`, as `README.md:30` has it;
- an unsupported schema version is answered with `allow` (`handler.go:59`), where
  `README.md:192` says `error`.

## 6. Not modelled

- Presence frame, audit event, settings of a generation: they read state that
  other modules check and change nothing that a property could be about.
- Configuration: environment and file are parsed once, before anything runs.
- Package decoding and SipHash: binary formats. `Mirror` and `Lists` take a
  package and a hash for what they describe; a package that does not decode is one
  of the faults of `Mirror`.
- A panic of a recovery while `Submit` sheds one task inside the callback of another
  message: `Handler` follows one message. In `Pool` a refusal counts the task and calls
  the handler in one step (`expire`): the counter is an atomic that only the presence
  frame reads, and no goroutine of the pool looks at it in between.
- A failing `nc.Publish` of the audit sink: it is logged, the events of that subject
  are neither repeated nor counted (`sink.go:185-195`); `out` of `AuditSink` is what
  was handed to the connection.
- Redis client and bus: external. Their outcomes are choices in `Evaluator`,
  `Mirror`, `Rollout` and `Shutdown`.
- The probe: another process, one request.
- Logging; durations and their overflow (`policy.go:685`); a subscription that
  fails in `Ensure`; the warning about a silent keeper; connecting at start.

## 7. Plan

Done: pool, sink and their composition at shutdown; store and rollout with failing
restoration; profile parsing with its limits, mode and condition rows; evaluator; handler with failing
sends and panics in every call; mirror with its abstract
specification; list content; the theorems about every module.

Left: nothing of the plan. What the models leave out is in section 6; what the
prover cannot reach is under "Only model-checked".
