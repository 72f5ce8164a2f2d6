------------------------------- MODULE Rollout -------------------------------
(***************************************************************************)
(* How a generation of profiles reaches the requests: the profile store    *)
(* with its directory watcher (internal/policy/store.go) and the consumer  *)
(* of the controller's manifests (internal/desired/desired.go), two        *)
(* goroutines over one store and one data directory, with the start of the *)
(* process, crashes, edits by hand and a Redis that may be away.           *)
(*                                                                         *)
(* A directory holds a tree: two profiles and the folder of static lists,  *)
(* each marked with the version that wrote it. A fingerprint (names, sizes *)
(* and modification times) is the tree itself. Version 0 is the tree the   *)
(* process is installed with, 1 .. published are the revisions of the      *)
(* manifests in the order the controller publishes them, and an edit by    *)
(* hand is a version of its own. The watcher reads file by file while      *)
(* Apply moves and removes directories; the LoadDir calls of NewStore and  *)
(* of ReloadFrom, which race only a hand, are single steps.                *)
(***************************************************************************)
EXTENDS Integers, Sequences

CONSTANTS
    Revisions,   \* bound: number of manifests the controller publishes
    Edits,       \* versions written by hand
    Editable,    \* what a hand may edit: pairs of a directory and a file in it
    Broken,      \* versions with files that LoadDir cannot parse
    Rejected,    \* manifests that Parse rejects
    WithLists,   \* versions whose profiles name static lists and that carry them
    HasBlobs,    \* the internal Redis is configured
    Deletable,   \* bound: manifests the controller may delete
    MaxTroubles  \* bound: crashes, failing file operations and outages of Redis together

ASSUME RolloutAssumption ==
    /\ Revisions \in Nat
    /\ Edits \cap (0 .. Revisions) = {} /\ Edits \subseteq Nat
    /\ Editable \subseteq {"boot", "live"} \X {"first", "second", "lists"}
    /\ Broken \subseteq Nat \ {0}
    /\ Rejected \subseteq 1 .. Revisions /\ WithLists \subseteq Nat
    /\ HasBlobs \in BOOLEAN /\ Deletable \subseteq 1 .. Revisions
    /\ MaxTroubles \in Nat

VARIABLES
    disk,      \* the boot directory and live, next, prev of the data directory
    dir, print, served,  \* Store: directory, fingerprint, current snapshot
    w,         \* the goroutine of Store.Watch
    d,         \* the goroutine of desired.Watch
    pending,   \* manifest to retry, 0 if none
    applied,   \* Applied: revision and status
    updates,   \* entries the KV watcher has yet to deliver
    published, \* revisions put into the KV so far
    kv,        \* the last entry of the key
    start,     \* where the start of the process is
    redisUp, left, budget,
    failed,    \* history: manifests given up after a failing file operation
    good,      \* history: the last revision applied, in this life or an earlier one
    stranded   \* history: Apply or a crash left the good generation out of live

storeVars == <<dir, print, served>>
world == <<updates, published, kv, redisUp, left, budget>>
harm == <<failed, good, stranded>>
vars == <<disk, storeVars, w, d, pending, applied, world, start, harm>>

Missing == -1
Files == {"first", "second"}
Held == Files \cup {"lists"}
Parts == Held \cup {"dir"}   \* "dir" is the directory itself
Delete == 0

\* A directory that is not there; what a snapshot of nothing holds.
Absent == [x \in Parts |-> Missing]
Nothing == [x \in Held |-> Missing]

\* What write puts into a directory for a version, over what lies there.
Contents(v) == {"dir"} \cup Files \cup (IF v \in WithLists THEN {"lists"} ELSE {})
Over(t, v) == [x \in Parts |-> IF x \in Contents(v) THEN v ELSE t[x]]
Tree(v) == Over(Absent, v)

\* The profiles read name lists, and the lists they name are there.
NamesLists(t) == \E f \in Files : t[f] \in WithLists
ListsFit(t) == NamesLists(t) => t["lists"] # Missing /\ t["lists"] \notin Broken
Fits(t) == (\A f \in Files : t[f] \notin Broken) /\ ListsFit(t)

\* LoadDir on a tree that stays as it is: whether it loads, and what it holds.
Loadable(t) == t["dir"] # Missing /\ Fits(t)
Loaded(t) == [x \in Held |-> IF x = "lists" /\ ~NamesLists(t) THEN Missing ELSE t[x]]

\* A tree holds all that a version writes.
Holds(t, v) == \A x \in Contents(v) : t[x] = v

WIdle == [pc |-> "tick", dir |-> "boot", print |-> Absent, names |-> {}, tree |-> Nothing]
DIdle == [pc |-> "idle", m |-> 0, tree |-> Nothing, lived |-> FALSE, restoring |-> FALSE]

\* One trouble of those MaxTroubles allows.
Trouble == budget > 0 /\ budget' = budget - 1

Init ==
    /\ disk = [x \in {"boot", "live", "next", "prev"} |->
                  IF x = "boot" THEN Tree(0) ELSE Absent]
    /\ dir = "boot" /\ print = Absent /\ served = Nothing
    /\ w = WIdle /\ d = DIdle
    /\ pending = 0
    /\ applied = [rev |-> 0, apply |-> ""]
    /\ updates = <<>> /\ published = 0 /\ kv = Delete
    /\ start = "load"
    /\ redisUp = TRUE
    /\ left = Edits
    /\ budget = MaxTroubles
    /\ failed = {} /\ good = 0 /\ stranded = FALSE

-----------------------------------------------------------------------------
(* Start of the process: NewStore, then Bootstrap.                         *)

\* NewStore up to the store of the snapshot.
NewStoreLoad ==
    /\ start = "load" /\ Loadable(disk["boot"])
    /\ served' = Loaded(disk["boot"])
    /\ start' = "print"
    /\ UNCHANGED <<disk, dir, print, w, d, pending, applied, world, harm>>

\* The process cannot start on broken boot profiles; it is tried again.
NewStoreFails ==
    /\ start = "load" /\ ~Loadable(disk["boot"])
    /\ UNCHANGED vars

NewStorePrint ==
    /\ start = "print"
    /\ print' = disk["boot"]
    /\ start' = IF Loadable(disk["live"]) THEN "restore" ELSE "up"
    /\ d' = [d EXCEPT !.tree = Loaded(disk["live"])]
    /\ UNCHANGED <<disk, dir, served, w, pending, applied, world, harm>>

\* ReloadFrom(live) of Bootstrap after a LoadDir that succeeded. Nothing else
\* runs yet but the hand that edits.
Bootstrap ==
    /\ start = "restore"
    /\ dir' = "live" /\ print' = disk["live"]
    /\ served' = d.tree
    /\ start' = "up"
    /\ d' = DIdle
    /\ UNCHANGED <<disk, w, pending, applied, world, harm>>

-----------------------------------------------------------------------------
(* Store.Watch.                                                            *)

\* A fingerprint that cannot be taken: the watcher waits for the next tick.
watchMissing ==
    /\ start = "up" /\ w.pc = "tick"
    /\ disk[dir]["dir"] = Missing
    /\ UNCHANGED vars

\* dir := s.Dir() and fingerprint(dir).
watchLook ==
    /\ start = "up" /\ w.pc = "tick"
    /\ disk[dir]["dir"] # Missing
    /\ w' = [w EXCEPT !.pc = "check", !.dir = dir, !.print = disk[dir]]
    /\ UNCHANGED <<disk, storeVars, d, pending, applied, world, start, harm>>

watchSame ==
    /\ w.pc = "check"
    /\ w' = IF w.print = print /\ w.dir = dir THEN WIdle
            ELSE [w EXCEPT !.pc = "list"]
    /\ UNCHANGED <<disk, storeVars, d, pending, applied, world, start, harm>>

\* ReadDir of LoadDir: the profiles there at this moment.
watchList ==
    /\ w.pc = "list"
    /\ w' = IF disk[w.dir]["dir"] = Missing THEN [w EXCEPT !.pc = "failed"]
            ELSE [w EXCEPT !.pc = "read",
                           !.names = {f \in Files : disk[w.dir][f] # Missing}]
    /\ UNCHANGED <<disk, storeVars, d, pending, applied, world, start, harm>>

\* ReadFile and Parse of the next profile, by path: it may be gone by now, or
\* belong to another generation than the one before.
watchLoadProfile ==
    /\ w.pc = "read" /\ w.names # {}
    /\ LET f == IF "first" \in w.names THEN "first" ELSE "second"
           v == disk[w.dir][f]
       IN  w' = IF v = Missing \/ v \in Broken THEN [w EXCEPT !.pc = "failed"]
                ELSE [w EXCEPT !.names = @ \ {f}, !.tree[f] = v]
    /\ UNCHANGED <<disk, storeVars, d, pending, applied, world, start, harm>>

\* Defect: a list that is not there counts as empty.
watchLoadLists_unchecked ==
    /\ w.pc = "read" /\ w.names = {}
    /\ w' = [w EXCEPT !.pc = "loaded",
                      !.tree["lists"] = IF NamesLists(w.tree) THEN disk[w.dir]["lists"]
                                        ELSE Missing]
    /\ UNCHANGED <<disk, storeVars, d, pending, applied, world, start, harm>>

\* loadStatic: the lists the profiles name, again by path. One that is missing
\* or cannot be parsed fails the load.
watchLoadLists ==
    /\ w.pc = "read" /\ w.names = {}
    /\ LET t == [w.tree EXCEPT !["lists"] = IF NamesLists(w.tree) THEN disk[w.dir]["lists"]
                                            ELSE Missing]
       IN  w' = [w EXCEPT !.pc = IF ListsFit(t) THEN "loaded" ELSE "failed", !.tree = t]
    /\ UNCHANGED <<disk, storeVars, d, pending, applied, world, start, harm>>

setPrint ==
    /\ w.pc \in {"loaded", "failed"}
    /\ print' = IF dir = w.dir THEN w.print ELSE print
    /\ w' = IF w.pc = "loaded" THEN [w EXCEPT !.pc = "swap"] ELSE WIdle
    /\ UNCHANGED <<disk, dir, served, d, pending, applied, world, start, harm>>

watchSwap ==
    /\ w.pc = "swap"
    /\ served' = w.tree
    /\ w' = WIdle
    /\ UNCHANGED <<disk, dir, print, d, pending, applied, world, start, harm>>

-----------------------------------------------------------------------------
(* desired.Watch and handle.                                               *)

\* handle up to the fetch: a manifest Parse rejects is only logged, one that
\* is already applied is done with.
handle(m) ==
    d' = IF m \in Rejected \/ applied = [rev |-> m, apply |-> "ok"]
         THEN DIdle ELSE [DIdle EXCEPT !.pc = "fetch", !.m = m]

\* Defect: a new entry leaves the pending retry in place.
Receive_keeps_pending ==
    /\ start = "up" /\ d.pc = "idle" /\ updates # <<>>
    /\ updates' = Tail(updates)
    /\ IF Head(updates) = Delete THEN UNCHANGED d ELSE handle(Head(updates))
    /\ UNCHANGED <<disk, storeVars, w, applied, pending, published, kv, start, redisUp,
                   left, budget, harm>>

Receive ==
    /\ start = "up" /\ d.pc = "idle" /\ updates # <<>>
    /\ updates' = Tail(updates)
    /\ IF Head(updates) = Delete THEN UNCHANGED <<d, pending>>
       ELSE handle(Head(updates)) /\ pending' = 0
    /\ UNCHANGED <<disk, storeVars, w, applied, published, kv, start, redisUp, left,
                   budget, harm>>

Retry ==
    /\ start = "up" /\ d.pc = "idle" /\ pending # 0
    /\ handle(pending)
    /\ pending' = 0
    /\ UNCHANGED <<disk, storeVars, w, applied, world, start, harm>>

finish(status) ==
    /\ applied' = IF status = "ok" THEN [rev |-> d.m, apply |-> "ok"]
                  ELSE [applied EXCEPT !.apply = status]
    /\ d' = DIdle

\* Defect: no retry after a failed fetch.
FetchLists_once ==
    /\ d.pc = "fetch"
    /\ IF d.m \in WithLists /\ ~(HasBlobs /\ redisUp)
       THEN finish("apply_failed")
       ELSE d' = [d EXCEPT !.pc = "clean"] /\ UNCHANGED applied
    /\ UNCHANGED <<disk, storeVars, w, pending, world, start, harm>>

FetchLists ==
    /\ d.pc = "fetch"
    /\ IF d.m \in WithLists /\ ~(HasBlobs /\ redisUp)
       THEN /\ finish("apply_failed")
            /\ pending' = IF HasBlobs THEN d.m ELSE 0
       ELSE /\ d' = [d EXCEPT !.pc = "clean"]
            /\ UNCHANGED <<applied, pending>>
    /\ UNCHANGED <<disk, storeVars, w, world, start, harm>>

Step(label) == d' = [d EXCEPT !.pc = label] /\ UNCHANGED applied
\* A file operation of Apply succeeds or fails.
NoTrouble == UNCHANGED budget
applyFrame == UNCHANGED <<w, pending, updates, published, kv, redisUp, left, start>>

\* RemoveAll of a place nobody else reads; its error is ignored and it may leave
\* any part behind.
Without(t, S) == [x \in Parts |-> IF x \in S THEN Missing ELSE t[x]]
removeAll(place) ==
    \/ disk' = [disk EXCEPT ![place] = Absent] /\ NoTrouble
    \/ /\ Trouble /\ disk[place]["dir"] # Missing
       /\ \E S \in SUBSET Held : disk' = [disk EXCEPT ![place] = Without(@, S)]

\* A rename replaces an empty directory and no other.
Free(t) == \A x \in Held : t[x] = Missing
rename(from, to) ==
    Free(disk[to]) /\ disk' = [disk EXCEPT ![to] = disk[from], ![from] = Absent]

\* Apply: what an earlier Apply or a crash left in the staging place goes.
ApplyClean ==
    /\ d.pc = "clean"
    /\ removeAll("next")
    /\ Step("write")
    /\ UNCHANGED <<storeVars, harm>> /\ applyFrame

\* The staging tree; a write error leaves what is written so far.
ApplyWrite ==
    /\ d.pc = "write"
    /\ \/ disk' = [disk EXCEPT !["next"] = Over(@, d.m)] /\ Step("clear") /\ NoTrouble
       \/ /\ Trouble
          /\ \E S \in SUBSET Contents(d.m) :
                 disk' = [disk EXCEPT !["next"] =
                             [x \in Parts |-> IF x \in S /\ "dir" \in S THEN d.m ELSE @[x]]]
          /\ Step("unstage")
    /\ UNCHANGED <<storeVars, harm>> /\ applyFrame

ApplyClearPrev ==
    /\ d.pc = "clear"
    /\ removeAll("prev")
    /\ Step("park")
    /\ UNCHANGED <<storeVars, harm>> /\ applyFrame

\* No live tree is no error; a parked one that would not go is.
ApplyPark ==
    /\ d.pc = "park"
    /\ \/ /\ disk["live"]["dir"] # Missing
          /\ rename("live", "prev") /\ NoTrouble
          /\ d' = [d EXCEPT !.pc = "promote", !.lived = TRUE] /\ UNCHANGED applied
       \/ /\ disk["live"]["dir"] = Missing
          /\ d' = [d EXCEPT !.pc = "promote", !.lived = FALSE] /\ UNCHANGED applied
          /\ UNCHANGED disk /\ NoTrouble
       \/ /\ Trouble \/ (disk["live"]["dir"] # Missing /\ ~Free(disk["prev"]) /\ NoTrouble)
          /\ Step("unstage")
          /\ UNCHANGED disk
    /\ UNCHANGED <<storeVars, harm>> /\ applyFrame

ApplyPromote ==
    /\ d.pc = "promote"
    /\ \/ rename("next", "live") /\ Step("load") /\ NoTrouble
       \/ Trouble /\ Step(IF d.lived THEN "unpark" ELSE "unstage") /\ UNCHANGED disk
    /\ UNCHANGED <<storeVars, harm>> /\ applyFrame

\* The parked tree comes back after a failed promotion; the error of this rename
\* is ignored.
ApplyUnpark ==
    /\ d.pc = "unpark"
    /\ \/ rename("prev", "live") /\ UNCHANGED stranded /\ NoTrouble
       \/ Trouble /\ stranded' = TRUE /\ UNCHANGED disk
    /\ Step("unstage")
    /\ UNCHANGED <<storeVars, failed, good>> /\ applyFrame

\* Every error before the generation is live: the staging tree goes.
ApplyUnstage ==
    /\ d.pc = "unstage"
    /\ removeAll("next")
    /\ finish("apply_failed")
    /\ failed' = failed \cup {d.m}
    /\ UNCHANGED <<storeVars, good, stranded>> /\ applyFrame

\* LoadDir of ReloadFrom(live).
ReloadLoad ==
    /\ d.pc = "load"
    /\ IF Loadable(disk["live"])
       THEN d' = [d EXCEPT !.pc = "set", !.tree = Loaded(disk["live"])] /\ UNCHANGED applied
       ELSE IF d.restoring THEN finish("apply_failed") ELSE Step("remove")
    /\ UNCHANGED <<disk, storeVars, budget, harm>> /\ applyFrame

\* fingerprint and the critical section of ReloadFrom.
ReloadSet ==
    /\ d.pc = "set"
    /\ dir' = "live" /\ print' = disk["live"]
    /\ Step("swap")
    /\ UNCHANGED <<disk, served, budget, harm>> /\ applyFrame

ReloadSwap ==
    /\ d.pc = "swap"
    /\ served' = d.tree
    /\ IF d.restoring THEN finish("apply_failed") ELSE Step("done")
    /\ UNCHANGED <<disk, dir, print, budget, harm>> /\ applyFrame

\* Defect: the parked generation is not brought back.
ApplyRemove_for_good ==
    /\ d.pc = "remove"
    /\ disk' = [disk EXCEPT !["live"] = Absent]
    /\ finish("apply_failed")
    /\ UNCHANGED <<storeVars, budget, harm>> /\ applyFrame

\* The generation did not load: RemoveAll(live), entry by entry under the eyes of
\* the watcher. It ends with the directory or with an error, which is ignored.
ApplyRemove ==
    /\ d.pc = "remove"
    /\ \/ /\ \E x \in Held : /\ disk["live"][x] # Missing
                             /\ disk' = [disk EXCEPT !["live"][x] = Missing]
          /\ UNCHANGED <<d, applied>> /\ NoTrouble
       \/ /\ \/ Free(disk["live"]) /\ disk' = [disk EXCEPT !["live"] = Absent] /\ NoTrouble
             \/ Trouble /\ UNCHANGED disk
          /\ IF d.lived THEN Step("restore") ELSE finish("apply_failed")
    /\ UNCHANGED <<storeVars, harm>> /\ applyFrame

\* The parked generation comes back. When this rename fails too, on its own or on
\* what is left of live, live stays without it.
ApplyRestore ==
    /\ d.pc = "restore"
    /\ \/ /\ rename("prev", "live") /\ NoTrouble
          /\ d' = [d EXCEPT !.pc = "load", !.restoring = TRUE]
          /\ UNCHANGED <<stranded, applied>>
       \/ /\ Trouble \/ (~Free(disk["live"]) /\ NoTrouble)
          /\ stranded' = TRUE
          /\ finish("apply_failed")
          /\ UNCHANGED disk
    /\ UNCHANGED <<storeVars, failed, good>> /\ applyFrame

\* RemoveAll(prev) and the report.
ApplyDone ==
    /\ d.pc = "done"
    /\ removeAll("prev")
    /\ finish("ok")
    /\ good' = d.m /\ stranded' = FALSE
    /\ UNCHANGED <<storeVars, failed>> /\ applyFrame

Apply ==
    \/ ApplyClean \/ ApplyWrite \/ ApplyClearPrev \/ ApplyPark \/ ApplyPromote
    \/ ApplyUnpark \/ ApplyUnstage \/ ReloadLoad \/ ReloadSet \/ ReloadSwap \/ ApplyRemove
    \/ ApplyRestore \/ ApplyDone

-----------------------------------------------------------------------------
(* The world around the process.                                           *)

\* The controller puts the next manifest, or deletes the key.
Publish ==
    /\ published < Revisions
    /\ published' = published + 1
    /\ kv' = published + 1
    /\ updates' = Append(updates, published + 1)
    /\ UNCHANGED <<disk, storeVars, w, d, pending, applied, start, redisUp, left, budget,
                   harm>>

DeleteKey ==
    /\ kv \in Deletable
    /\ kv' = Delete
    /\ updates' = Append(updates, Delete)
    /\ UNCHANGED <<disk, storeVars, w, d, pending, applied, published, start, redisUp, left,
                   budget, harm>>

\* A hand writes a version over one profile or over the lists of a directory.
Edit(x, f, v) ==
    /\ v \in left /\ disk[x]["dir"] # Missing
    /\ disk' = [disk EXCEPT ![x][f] = v]
    /\ left' = left \ {v}
    /\ UNCHANGED <<storeVars, w, d, pending, applied, updates, published, kv,
                   start, redisUp, budget, harm>>

RedisLeaves ==
    /\ redisUp /\ Trouble
    /\ redisUp' = FALSE
    /\ UNCHANGED <<disk, storeVars, w, d, pending, applied, updates, published, kv,
                   start, left, harm>>

RedisReturns ==
    /\ ~redisUp
    /\ redisUp' = TRUE
    /\ UNCHANGED <<disk, storeVars, w, d, pending, applied, updates, published, kv,
                   start, left, budget, harm>>

\* The process dies and is started again: the disk stays, the KV watcher
\* delivers the last entry of the key first. Nothing brings a parked tree back.
Crash ==
    /\ Trouble
    /\ dir' = "boot" /\ print' = Absent /\ served' = Nothing
    /\ w' = WIdle /\ d' = DIdle
    /\ pending' = 0
    /\ applied' = [rev |-> 0, apply |-> ""]
    /\ start' = "load"
    /\ updates' = <<kv>>
    /\ stranded' = (stranded \/ ~Holds(disk["live"], good))
    /\ UNCHANGED <<disk, published, kv, redisUp, left, failed, good>>

StartStep == NewStoreLoad \/ NewStoreFails \/ NewStorePrint \/ Bootstrap
WatchStep ==
    watchMissing \/ watchLook \/ watchSame \/ watchList \/ watchLoadProfile
    \/ watchLoadLists \/ setPrint \/ watchSwap
DesiredStep == Receive \/ Retry \/ FetchLists \/ Apply

Next ==
    \/ StartStep \/ WatchStep \/ DesiredStep
    \/ Publish \/ DeleteKey
    \/ \E e \in Editable, v \in Edits : Edit(e[1], e[2], v)
    \/ RedisLeaves \/ RedisReturns \/ Crash

Spec == Init /\ [][Next]_vars

\* The goroutines run, and Redis comes back after an outage. Nothing forces a
\* manifest, an edit, an outage or a crash.
Fairness ==
    /\ WF_vars(StartStep) /\ WF_vars(WatchStep) /\ WF_vars(DesiredStep)
    /\ WF_vars(RedisReturns)

FairSpec == Spec /\ Fairness

-----------------------------------------------------------------------------
(* Properties.                                                             *)

\* Requests never see a profile that LoadDir rejects, nor profiles that name lists
\* without those lists: not after a broken edit or a broken generation, and not when
\* Apply moves or removes the tree while the watcher is reading it. A load that
\* straddles a move may still hold files of two generations, and one that straddles
\* a removal only some of a tree; SettledServesDisk is about those.
ServedLoadable == start # "load" => Fits(served)

\* The last generation applied, in this life of the process or an earlier one, is
\* always whole on disk while later ones are staged, promoted, found broken and
\* removed, and whenever the process is up and no Apply is under way it is in the
\* live directory and that is the directory the store reads. The exceptions: the
\* rename that brings it back fails as well, or finds remains of the broken tree,
\* and a crash while it is parked; nothing then restores it and the next Apply
\* removes it.
LastGoodKept ==
    good # 0 /\ ~stranded =>
        /\ Holds(disk["live"], good) \/ Holds(disk["prev"], good)
        /\ start = "up" /\ d.pc = "idle" => Holds(disk["live"], good) /\ dir = "live"

\* Within one life of the process the applied revision never goes back: a
\* retry of an older manifest never follows a newer one.
RevisionNeverGoesBack ==
    [][start' = "load" \/ applied'.rev >= applied.rev]_vars

\* Again and again the manifest in the KV, if it parses, loads and its lists can be
\* fetched, is the one applied: once the controller rests it is applied in the end,
\* through outages of Redis and crashes, and whatever an earlier Apply left on the
\* disk when it failed. Apply is not repeated when it gave up after a failing file
\* operation of its own, and a process that died does not start on broken boot
\* profiles: those two are the exceptions.
Appliable(m) == m \notin Rejected \cup Broken /\ (m \in WithLists => HasBlobs)
LatestApplied ==
    []<>(\/ kv = Delete \/ ~Appliable(kv)
         \/ applied = [rev |-> kv, apply |-> "ok"]
         \/ kv \in failed \/ (start = "load" /\ ~Loadable(disk["boot"])))

\* With both goroutines at rest and a fingerprint that matches the directory,
\* so that the watcher sees nothing to do, the snapshot served is the tree of
\* the store's directory.
Settled == start = "up" /\ d.pc = "idle" /\ w.pc = "tick" /\ print = disk[dir]
SettledServesDisk == Settled /\ Loadable(disk[dir]) => served = Loaded(disk[dir])
=============================================================================
