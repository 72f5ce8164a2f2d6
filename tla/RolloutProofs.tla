--------------------------- MODULE RolloutProofs ---------------------------
(***************************************************************************)
(* Theorems about Rollout, for any number of manifests, edits, crashes,    *)
(* outages and failing file operations.                                    *)
(***************************************************************************)
EXTENDS Rollout, TLAPS

-----------------------------------------------------------------------------
(* Types.                                                                  *)

Places == {"boot", "live", "next", "prev"}
Marks == Nat \cup {Missing}
Trees == [Parts -> Marks]
Snaps == [Held -> Marks]
Disks == [Places -> Trees]
WatchLabels == {"tick", "check", "list", "read", "loaded", "failed", "swap"}
ApplyLabels == {"clean", "write", "clear", "park", "promote", "unpark", "unstage", "load",
                "set", "swap", "remove", "restore", "done"}
DesiredLabels == {"idle", "fetch"} \cup ApplyLabels
Watchers == [pc : WatchLabels, dir : {"boot", "live"}, print : Trees,
             names : SUBSET Files, tree : Snaps]
Appliers == [pc : DesiredLabels, m : Nat, tree : Snaps, lived : BOOLEAN,
             restoring : BOOLEAN]
Reports == [rev : Nat, apply : {"", "ok", "apply_failed"}]

Types ==
    /\ disk \in Disks
    /\ dir \in {"boot", "live"}
    /\ w \in Watchers /\ d \in Appliers
    /\ pending \in Nat /\ published \in Nat /\ kv \in Nat /\ updates \in Seq(Nat)
    /\ applied \in Reports
    /\ start \in {"load", "print", "restore", "up"}
    /\ good \in Nat /\ stranded \in BOOLEAN

\* Missing is no version, and every part and file is what it is called.
LEMMA Marked ==
    /\ Missing \in Marks /\ Missing \notin Nat /\ Missing \notin Broken
    /\ Nat \subseteq Marks /\ Files \subseteq Held /\ Held \subseteq Parts /\ "dir" \in Parts
    /\ "dir" \notin Held /\ "lists" \in Held /\ "lists" \notin Files
<1>1. Missing \in Marks /\ Missing \notin Nat /\ Nat \subseteq Marks
  BY DEF Marks, Missing
<1>2. Missing \notin Broken
  BY <1>1, RolloutAssumption
<1> QED BY <1>1, <1>2 DEF Files, Held, Parts

\* What the operators on trees return.
LEMMA TreeTypes ==
    /\ Absent \in Trees /\ Nothing \in Snaps
    /\ \A v \in Nat, t \in Trees : Over(t, v) \in Trees
    /\ \A v \in Nat : Tree(v) \in Trees
    /\ \A t \in Trees, S \in SUBSET Held : Without(t, S) \in Trees
    /\ \A t \in Trees : Loaded(t) \in Snaps
<1>1. Absent \in Trees /\ Nothing \in Snaps
  BY Marked DEF Absent, Nothing, Trees, Snaps
<1>2. \A v \in Nat, t \in Trees : Over(t, v) \in Trees
  BY Marked DEF Over, Trees
<1>3. \A v \in Nat : Tree(v) \in Trees
  BY <1>1, <1>2 DEF Tree
<1>4. \A t \in Trees, S \in SUBSET Held : Without(t, S) \in Trees
  BY Marked DEF Without, Trees
<1>5. \A t \in Trees : Loaded(t) \in Snaps
  BY Marked DEF Loaded, Trees, Snaps
<1> QED BY <1>1, <1>2, <1>3, <1>4, <1>5

\* The goroutines at rest are typed.
LEMMA IdleTypes ==
    /\ WIdle \in Watchers /\ DIdle \in Appliers
    /\ DIdle.pc = "idle" /\ DIdle.m = 0 /\ DIdle.restoring = FALSE /\ WIdle.pc = "tick"
    /\ WIdle.tree = Nothing
<1>1. Absent \in Trees /\ Nothing \in Snaps
  BY TreeTypes
<1>2. WIdle \in Watchers
  BY <1>1 DEF WIdle, Watchers, WatchLabels
<1>3. DIdle \in Appliers
  BY <1>1 DEF DIdle, Appliers, DesiredLabels
<1> QED BY <1>2, <1>3 DEF WIdle, DIdle

\* RemoveAll touches the one place.
LEMMA RemoveAllEffect ==
    ASSUME disk \in Disks, NEW place \in Places, removeAll(place)
    PROVE  disk' \in Disks /\ \A y \in Places \ {place} : disk'[y] = disk[y]
<1>1. PICK t \in Trees : disk' = [disk EXCEPT ![place] = t]
  <2>1. disk[place] \in Trees
    BY DEF Disks
  <2>2. CASE disk' = [disk EXCEPT ![place] = Absent]
    BY <2>2, TreeTypes
  <2>3. CASE \E S \in SUBSET Held : disk' = [disk EXCEPT ![place] = Without(@, S)]
    <3>1. PICK S \in SUBSET Held : disk' = [disk EXCEPT ![place] = Without(disk[place], S)]
      BY <2>3
    <3>2. Without(disk[place], S) \in Trees
      BY <2>1, TreeTypes
    <3> QED BY <3>1, <3>2
  <2> QED BY <2>2, <2>3 DEF removeAll
<1> QED BY <1>1 DEF Disks

\* A rename moves the tree and leaves the other places alone.
LEMMA RenameEffect ==
    ASSUME disk \in Disks, NEW from \in Places, NEW to \in Places, from # to,
           rename(from, to)
    PROVE  /\ disk' \in Disks /\ disk'[to] = disk[from] /\ disk'[from] = Absent
           /\ \A y \in Places \ {from, to} : disk'[y] = disk[y]
<1>1. disk' = [disk EXCEPT ![to] = disk[from], ![from] = Absent]
  BY DEF rename
<1>2. disk[from] \in Trees /\ Absent \in Trees
  BY TreeTypes DEF Disks
<1> QED BY <1>1, <1>2 DEF Disks

\* Writing the staging tree touches the staging place.
LEMMA WriteEffect ==
    ASSUME disk \in Disks, d \in Appliers, ApplyWrite
    PROVE  disk' \in Disks /\ \A y \in Places \ {"next"} : disk'[y] = disk[y]
<1>1. "next" \in Places /\ disk["next"] \in Trees /\ d.m \in Nat
  BY DEF Places, Disks, Appliers
<1>2. PICK t \in Trees : disk' = [disk EXCEPT !["next"] = t]
  <2>1. CASE disk' = [disk EXCEPT !["next"] = Over(disk["next"], d.m)]
    BY <1>1, <2>1, TreeTypes
  <2>2. CASE \E S \in SUBSET Contents(d.m) :
                 disk' = [disk EXCEPT !["next"] =
                             [x \in Parts |-> IF x \in S /\ "dir" \in S THEN d.m ELSE @[x]]]
    <3>1. PICK S \in SUBSET Contents(d.m) :
                 disk' = [disk EXCEPT !["next"] =
                     [x \in Parts |-> IF x \in S /\ "dir" \in S THEN d.m ELSE disk["next"][x]]]
      BY <2>2
    <3>2. [x \in Parts |-> IF x \in S /\ "dir" \in S THEN d.m ELSE disk["next"][x]] \in Trees
      BY <1>1, Marked DEF Trees
    <3> QED BY <3>1, <3>2
  <2> QED BY <2>1, <2>2 DEF ApplyWrite
<1> QED BY <1>1, <1>2 DEF Disks

\* Removing the live tree entry by entry touches the live place.
LEMMA RemoveEffect ==
    ASSUME disk \in Disks, ApplyRemove
    PROVE  disk' \in Disks /\ \A y \in Places \ {"live"} : disk'[y] = disk[y]
<1>1. "live" \in Places /\ disk["live"] \in Trees
  BY DEF Places, Disks
<1>2. PICK t \in Trees : disk' = [disk EXCEPT !["live"] = t]
  <2>1. CASE \E x \in Held : disk' = [disk EXCEPT !["live"][x] = Missing]
    <3>1. PICK x \in Held : disk' = [disk EXCEPT !["live"][x] = Missing]
      BY <2>1
    <3>2. disk' = [disk EXCEPT !["live"] = [disk["live"] EXCEPT ![x] = Missing]]
      BY <3>1
    <3>3. [disk["live"] EXCEPT ![x] = Missing] \in Trees
      BY <1>1, Marked DEF Trees
    <3> QED BY <3>2, <3>3
  <2>2. CASE disk' = [disk EXCEPT !["live"] = Absent]
    BY <2>2, TreeTypes
  <2>3. CASE disk' = disk
    <3>1. disk' = [disk EXCEPT !["live"] = disk["live"]]
      BY <2>3 DEF Disks
    <3> QED BY <1>1, <3>1
  <2> QED BY <2>1, <2>2, <2>3 DEF ApplyRemove
<1> QED BY <1>1, <1>2 DEF Disks

\* A hand replaces one file of one directory.
LEMMA EditEffect ==
    ASSUME disk \in Disks, NEW e \in Editable, NEW v \in Edits, Edit(e[1], e[2], v)
    PROVE  disk' \in Disks /\ \A y \in Places \ {e[1]} : disk'[y] = disk[y]
<1>1. e[1] \in Places /\ e[2] \in Held /\ v \in Nat
  BY RolloutAssumption DEF Places, Held, Files
<1>2. disk[e[1]] \in Trees
  BY <1>1 DEF Disks
<1>3. [disk[e[1]] EXCEPT ![e[2]] = v] \in Trees
  BY <1>1, <1>2, Marked DEF Trees
<1>4. disk' = [disk EXCEPT ![e[1]] = [disk[e[1]] EXCEPT ![e[2]] = v]]
  BY DEF Edit
<1> QED BY <1>1, <1>3, <1>4 DEF Disks

\* A new process is typed.
LEMMA InitTypes == Init => Types
<1> SUFFICES ASSUME Init PROVE Types
  OBVIOUS
<1>1. disk \in Disks
  <2>1. disk = [x \in Places |-> IF x = "boot" THEN Tree(0) ELSE Absent]
    BY DEF Init, Places
  <2>2. Tree(0) \in Trees /\ Absent \in Trees
    BY TreeTypes
  <2> QED BY <2>1, <2>2 DEF Disks
<1>2. updates \in Seq(Nat)
  <2>1. updates = <<>>
    BY DEF Init
  <2>2. <<>> \in Seq(Nat)
    OBVIOUS
  <2> QED BY <2>1, <2>2
<1>3. applied \in Reports
  BY DEF Init, Reports
<1>4. /\ dir = "boot" /\ w = WIdle /\ d = DIdle /\ pending = 0 /\ published = 0 /\ kv = 0
      /\ start = "load" /\ good = 0 /\ stranded = FALSE
  BY DEF Init, Delete
<1> QED BY <1>1, <1>2, <1>3, <1>4, IdleTypes DEF Types

\* Every step keeps the types.
LEMMA TypesInductive == Types /\ [Next]_vars => Types'
<1> SUFFICES ASSUME Types, [Next]_vars PROVE Types'
  OBVIOUS
<1>0. /\ disk \in Disks /\ dir \in {"boot", "live"} /\ w \in Watchers /\ d \in Appliers
      /\ pending \in Nat /\ published \in Nat /\ kv \in Nat /\ updates \in Seq(Nat)
      /\ applied \in Reports /\ start \in {"load", "print", "restore", "up"}
      /\ good \in Nat /\ stranded \in BOOLEAN
  BY DEF Types
<1>num. pending \in Nat /\ published \in Nat /\ kv \in Nat /\ d.m \in Nat /\ d.pc \in DesiredLabels
        /\ good \in Nat
  BY <1>0 DEF Appliers
<1>seq. updates \in Seq(Nat)
  BY <1>0
<1>idle. WIdle \in Watchers /\ DIdle \in Appliers
  BY IdleTypes
<1>fin. ASSUME NEW status \in {"ok", "apply_failed"}, finish(status)
      PROVE  applied' \in Reports /\ d' \in Appliers
  <2>1. d' = DIdle
    BY <1>fin DEF finish
  <2>2. applied' \in Reports
    BY <1>0, <1>num, <1>fin DEF finish, Reports
  <2> QED BY <1>idle, <2>1, <2>2
<1>take. ASSUME NEW m \in Nat, handle(m) PROVE d' \in Appliers
  BY <1>idle, <1>take DEF handle, Appliers, DesiredLabels
<1>step. ASSUME NEW label \in DesiredLabels, Step(label)
         PROVE  d' \in Appliers /\ applied' \in Reports
  BY <1>0, <1>step DEF Step, Appliers
<1>tree. /\ disk["boot"] \in Trees /\ disk["live"] \in Trees
         /\ Loaded(disk["live"]) \in Snaps
  BY <1>0, TreeTypes DEF Places, Disks
<1>dir. disk[dir] \in Trees /\ disk[w.dir] \in Trees
  <2>1. dir \in Places /\ w.dir \in Places
    BY <1>0 DEF Places, Watchers
  <2> QED BY <1>0, <2>1 DEF Disks
<1> USE DEF storeVars, world, harm
<1>1. CASE StartStep
  <2>1. UNCHANGED <<disk, w, pending, applied, updates, published, kv, good, stranded>>
    BY <1>1 DEF StartStep, NewStoreLoad, NewStoreFails, NewStorePrint, Bootstrap, vars
  <2>2. dir' \in {"boot", "live"} /\ start' \in {"load", "print", "restore", "up"}
    BY <1>0, <1>1 DEF StartStep, NewStoreLoad, NewStoreFails, NewStorePrint, Bootstrap, vars
  <2>3. d' \in Appliers
    <3>1. CASE d' = [d EXCEPT !.tree = Loaded(disk["live"])]
      BY <1>0, <1>tree, <3>1 DEF Appliers
    <3>2. d' = d \/ d' = DIdle \/ d' = [d EXCEPT !.tree = Loaded(disk["live"])]
      BY <1>1 DEF StartStep, NewStoreLoad, NewStoreFails, NewStorePrint, Bootstrap, vars
    <3> QED BY <1>0, <1>idle, <3>1, <3>2
  <2> QED BY <1>0, <2>1, <2>2, <2>3 DEF Types
<1>2. CASE WatchStep
  <2>0. d' = d /\ disk' = disk /\ pending' = pending /\ applied' = applied /\ updates' = updates
        /\ published' = published /\ kv' = kv /\ start' = start /\ stranded' = stranded
        /\ dir' = dir /\ good' = good
    BY <1>2 DEF WatchStep, watchMissing, watchLook, watchSame, watchList, watchLoadProfile,
                watchLoadLists, setPrint, watchSwap, vars
  <2>3. w' \in Watchers
    <3>1. CASE watchMissing \/ watchSwap
      BY <1>0, <1>idle, <3>1 DEF watchMissing, watchSwap, vars
    <3>2. CASE watchLook
      BY <1>0, <1>dir, <3>2 DEF watchLook, WatchLabels, Watchers
    <3>3. CASE watchSame \/ setPrint
      BY <1>0, <1>idle, <3>3 DEF watchSame, setPrint, WatchLabels, Watchers
    <3>4. CASE watchList
      BY <1>0, <3>4 DEF watchList, WatchLabels, Watchers
    <3>5. CASE watchLoadProfile
      <4> DEFINE f == IF "first" \in w.names THEN "first" ELSE "second"
                 v == disk[w.dir][f]
      <4>1. f \in Files /\ f \in Held /\ v \in Marks
        BY <1>dir, Marked DEF Files, Trees
      <4> HIDE DEF f, v
      <4>2. w' = [w EXCEPT !.pc = "failed"] \/ w' = [w EXCEPT !.names = @ \ {f}, !.tree[f] = v]
        BY <3>5 DEF watchLoadProfile, f, v
      <4>3. CASE w' = [w EXCEPT !.pc = "failed"]
        BY <1>0, <4>3 DEF WatchLabels, Watchers
      <4>4. CASE w' = [w EXCEPT !.names = @ \ {f}, !.tree[f] = v]
        <5>1. [w.tree EXCEPT ![f] = v] \in Snaps
          BY <1>0, <4>1 DEF Watchers, Snaps
        <5>2. w' = [w EXCEPT !.names = w.names \ {f}, !.tree = [w.tree EXCEPT ![f] = v]]
          BY <4>4
        <5> QED BY <1>0, <5>1, <5>2 DEF Watchers
      <4> QED BY <4>2, <4>3, <4>4
    <3>6. CASE watchLoadLists
      <4> DEFINE t == [w.tree EXCEPT !["lists"] = IF NamesLists(w.tree) THEN disk[w.dir]["lists"]
                                                 ELSE Missing]
      <4>1. t \in Snaps
        BY <1>0, <1>dir, Marked DEF Snaps, Watchers, Trees
      <4>2. w' = [w EXCEPT !.pc = IF ListsFit(t) THEN "loaded" ELSE "failed", !.tree = t]
        BY <3>6 DEF watchLoadLists
      <4> HIDE DEF t
      <4> QED BY <1>0, <4>1, <4>2 DEF Watchers, WatchLabels
    <3> QED BY <1>2, <3>1, <3>2, <3>3, <3>4, <3>5, <3>6 DEF WatchStep
  <2> QED BY <1>0, <2>0, <2>3 DEF Types
<1>3. CASE Receive
  <2>1. updates # <<>> /\ updates' = Tail(updates)
    BY <1>3 DEF Receive
  <2>2. updates' \in Seq(Nat) /\ Head(updates) \in Nat
    BY <1>seq, <2>1
  <2>3. UNCHANGED d \/ handle(Head(updates))
    BY <1>3 DEF Receive
  <2>4. d' \in Appliers /\ pending' \in Nat
    <3>1. pending' \in {pending, 0}
      BY <1>3 DEF Receive
    <3>2. d' \in Appliers
      BY <1>0, <1>take, <2>2, <2>3
    <3> QED BY <1>num, <3>1, <3>2
  <2>5. UNCHANGED <<disk, dir, w, applied, published, kv, start, good, stranded>>
    BY <1>3 DEF Receive
  <2> QED BY <1>0, <2>2, <2>4, <2>5 DEF Types
<1>4. CASE Retry \/ FetchLists
  <2>1. UNCHANGED <<disk, dir, w, updates, published, kv, start, good, stranded>>
    BY <1>4 DEF Retry, FetchLists
  <2>2. pending' \in Nat
    <3>1. pending' \in {pending, 0, d.m}
      BY <1>4 DEF Retry, FetchLists
    <3> QED BY <1>num, <3>1
  <2>3. d' \in Appliers /\ applied' \in Reports
    <3>1. CASE Retry
      BY <1>0, <1>take, <3>1 DEF Retry
    <3>2. CASE FetchLists
      <4>1. CASE finish("apply_failed")
        BY <1>fin, <4>1
      <4>2. CASE d' = [d EXCEPT !.pc = "clean"] /\ UNCHANGED applied
        BY <1>0, <4>2 DEF Appliers, DesiredLabels, ApplyLabels
      <4> QED BY <3>2, <4>1, <4>2 DEF FetchLists
    <3> QED BY <1>4, <3>1, <3>2
  <2> QED BY <1>0, <2>1, <2>2, <2>3 DEF Types
<1>5. CASE Apply
  <2>0. w' = w /\ pending' = pending /\ updates' = updates /\ published' = published /\ kv' = kv
        /\ start' = start
    BY <1>5 DEF Apply, ApplyClean, ApplyWrite, ApplyClearPrev, ApplyPark, ApplyPromote,
       ApplyUnpark, ApplyUnstage, ReloadLoad, ReloadSet, ReloadSwap, ApplyRemove, ApplyRestore,
       ApplyDone, applyFrame
  <2>1. dir' \in {"boot", "live"}
    BY <1>0, <1>5 DEF Apply, ApplyClean, ApplyWrite, ApplyClearPrev, ApplyPark, ApplyPromote,
       ApplyUnpark, ApplyUnstage, ReloadLoad, ReloadSet, ReloadSwap, ApplyRemove, ApplyRestore,
       ApplyDone
  <2>2. stranded' \in BOOLEAN /\ good' \in Nat
    <3>1. stranded' \in {stranded, TRUE, FALSE} /\ good' \in {good, d.m}
      BY <1>5 DEF Apply, ApplyClean, ApplyWrite, ApplyClearPrev, ApplyPark, ApplyPromote,
         ApplyUnpark, ApplyUnstage, ReloadLoad, ReloadSet, ReloadSwap, ApplyRemove,
         ApplyRestore, ApplyDone
    <3> QED BY <1>0, <1>num, <3>1
  <2>3. disk' \in Disks
    <3>1. {"boot", "live", "next", "prev"} = Places
      BY DEF Places
    <3>2. CASE ApplyClean \/ ApplyClearPrev \/ ApplyUnstage \/ ApplyDone
      BY <1>0, <3>1, <3>2, RemoveAllEffect DEF ApplyClean, ApplyClearPrev, ApplyUnstage, ApplyDone
    <3>3. CASE ApplyWrite
      BY <1>0, <3>3, WriteEffect
    <3>4. CASE ApplyRemove
      BY <1>0, <3>4, RemoveEffect
    <3>5. CASE ApplyPark \/ ApplyPromote \/ ApplyUnpark \/ ApplyRestore
      <4>1. \/ disk' = disk \/ rename("live", "prev") \/ rename("next", "live")
            \/ rename("prev", "live")
        BY <3>5 DEF ApplyPark, ApplyPromote, ApplyUnpark, ApplyRestore
      <4> QED BY <1>0, <3>1, <4>1, RenameEffect
    <3>6. CASE ReloadLoad \/ ReloadSet \/ ReloadSwap
      BY <1>0, <3>6 DEF ReloadLoad, ReloadSet, ReloadSwap
    <3> QED BY <1>5, <3>2, <3>3, <3>4, <3>5, <3>6 DEF Apply
  <2>4. d' \in Appliers /\ applied' \in Reports
    <3>1. CASE ApplyPark
      <4>1. CASE Step("unstage")
        BY <1>step, <4>1 DEF DesiredLabels, ApplyLabels
      <4>2. CASE /\ \E b \in BOOLEAN : d' = [d EXCEPT !.pc = "promote", !.lived = b]
                 /\ UNCHANGED applied
        BY <1>0, <4>2 DEF Appliers, DesiredLabels, ApplyLabels
      <4> QED BY <3>1, <4>1, <4>2 DEF ApplyPark
    <3>2. CASE ReloadLoad
      <4>1. CASE d' = [d EXCEPT !.pc = "set", !.tree = Loaded(disk["live"])] /\ UNCHANGED applied
        BY <1>0, <1>tree, <4>1 DEF Appliers, DesiredLabels, ApplyLabels
      <4>2. CASE finish("apply_failed") \/ Step("remove")
        BY <1>fin, <1>step, <4>2 DEF DesiredLabels, ApplyLabels
      <4> QED BY <3>2, <4>1, <4>2 DEF ReloadLoad
    <3>3. CASE ApplyRestore
      <4>1. CASE d' = [d EXCEPT !.pc = "load", !.restoring = TRUE] /\ UNCHANGED applied
        BY <1>0, <4>1 DEF Appliers, DesiredLabels, ApplyLabels
      <4> QED BY <1>fin, <3>3, <4>1 DEF ApplyRestore
    <3>4. CASE ApplyRemove
      <4>1. UNCHANGED <<d, applied>> \/ Step("restore") \/ finish("apply_failed")
        BY <3>4 DEF ApplyRemove
      <4> QED BY <1>0, <1>fin, <1>step, <4>1 DEF DesiredLabels, ApplyLabels
    <3>5. CASE \/ ApplyClean \/ ApplyWrite \/ ApplyClearPrev \/ ApplyPromote \/ ApplyUnpark
               \/ ApplyUnstage \/ ReloadSet \/ ReloadSwap \/ ApplyDone
      <4>1. \/ finish("apply_failed") \/ finish("ok") \/ Step("write") \/ Step("clear")
            \/ Step("park") \/ Step("load") \/ Step("unpark") \/ Step("unstage")
            \/ Step("swap") \/ Step("done")
        BY <3>5 DEF ApplyClean, ApplyWrite, ApplyClearPrev, ApplyPromote, ApplyUnpark,
           ApplyUnstage, ReloadSet, ReloadSwap, ApplyDone
      <4> QED BY <1>fin, <1>step, <4>1 DEF DesiredLabels, ApplyLabels
    <3> QED BY <1>5, <3>1, <3>2, <3>3, <3>4, <3>5 DEF Apply
  <2> QED BY <1>0, <2>0, <2>1, <2>2, <2>3, <2>4 DEF Types
<1>6. CASE Publish \/ DeleteKey \/ RedisLeaves \/ RedisReturns
  <2>1. UNCHANGED <<disk, dir, w, d, pending, applied, start, good, stranded>>
    BY <1>6 DEF Publish, DeleteKey, RedisLeaves, RedisReturns
  <2>2. /\ published' \in {published, published + 1} /\ kv' \in {kv, published + 1, 0}
        /\ updates' \in {updates, Append(updates, published + 1), Append(updates, 0)}
    BY <1>6 DEF Publish, DeleteKey, RedisLeaves, RedisReturns, Delete
  <2>3. published' \in Nat /\ kv' \in Nat
    BY <1>num, <2>2
  <2>4. updates' \in Seq(Nat)
    <3>1. Append(updates, published + 1) \in Seq(Nat)
      BY <1>num, <1>seq
    <3>2. Append(updates, 0) \in Seq(Nat)
      BY <1>seq
    <3> QED BY <1>seq, <2>2, <3>1, <3>2
  <2> QED BY <1>0, <2>1, <2>3, <2>4 DEF Types
<1>7. ASSUME NEW e \in Editable, NEW v \in Edits, Edit(e[1], e[2], v) PROVE Types'
  <2>1. disk' \in Disks
    BY <1>0, <1>7, EditEffect
  <2>2. UNCHANGED <<dir, w, d, pending, applied, updates, published, kv, start, good, stranded>>
    BY <1>7 DEF Edit
  <2> QED BY <1>0, <2>1, <2>2 DEF Types
<1>8. CASE Crash
  <2>1. /\ dir' = "boot" /\ w' = WIdle /\ d' = DIdle /\ pending' = 0 /\ start' = "load"
        /\ UNCHANGED <<disk, published, kv, good>>
    BY <1>8 DEF Crash
  <2>2. updates' = <<kv>> /\ applied' = [rev |-> 0, apply |-> ""]
        /\ stranded' = (stranded \/ ~Holds(disk["live"], good))
    BY <1>8 DEF Crash
  <2>3. updates' \in Seq(Nat) /\ applied' \in Reports
    <3>1. <<kv>> \in Seq(Nat)
      BY <1>num
    <3>2. [rev |-> 0, apply |-> ""] \in Reports
      BY DEF Reports
    <3> QED BY <2>2, <3>1, <3>2
  <2>4. stranded' \in BOOLEAN
    BY <1>0, <2>2 DEF Holds
  <2> QED BY <1>0, <1>idle, <2>1, <2>3, <2>4 DEF Types
<1>9. CASE UNCHANGED vars
  BY <1>0, <1>9 DEF vars, Types
<1> QED BY <1>1, <1>2, <1>3, <1>4, <1>5, <1>6, <1>7, <1>8, <1>9 DEF Next, DesiredStep

-----------------------------------------------------------------------------
(* The snapshot.                                                           *)

\* Both goroutines hold what may be swapped in only when they have seen that it
\* fits; before the process is up nothing but its start touches d.
Snapshots ==
    /\ start # "load" => Fits(served)
    /\ \A f \in Files : w.tree[f] \notin Broken
    /\ w.pc \in {"loaded", "swap"} => ListsFit(w.tree)
    /\ d.pc \in {"set", "swap"} \/ start = "restore" => Fits(d.tree)
    /\ start # "up" => d.pc = "idle"

\* What loads fits together.
LEMMA LoadableFits == ASSUME NEW t \in Trees, Loadable(t) PROVE Fits(Loaded(t))
<1>1. \A f \in Files : Loaded(t)[f] = t[f]
  BY Marked DEF Loaded
<1>2. Fits(t)
  BY DEF Loadable
<1>3. NamesLists(Loaded(t)) <=> NamesLists(t)
  BY <1>1 DEF NamesLists
<1>4. NamesLists(t) => Loaded(t)["lists"] = t["lists"]
  BY Marked DEF Loaded
<1>5. ListsFit(Loaded(t))
  BY <1>2, <1>3, <1>4 DEF Fits, ListsFit
<1> QED BY <1>1, <1>2, <1>5 DEF Fits

\* Before the start nothing is served.
LEMMA InitSnapshots == Init => Snapshots
<1> SUFFICES ASSUME Init PROVE Snapshots
  OBVIOUS
<1>1. start = "load" /\ d.pc = "idle" /\ w.pc = "tick" /\ w.tree = Nothing
  BY IdleTypes DEF Init
<1>2. \A f \in Files : w.tree[f] \notin Broken
  BY <1>1, Marked DEF Nothing
<1> QED BY <1>1, <1>2 DEF Snapshots

\* Every step keeps what is served, or carried to be served, fitting.
LEMMA SnapshotsInductive == Types /\ Snapshots /\ [Next]_vars => Snapshots'
<1> SUFFICES ASSUME Types, Snapshots, [Next]_vars PROVE Snapshots'
  OBVIOUS
<1>rec. w \in Watchers /\ d \in Appliers
  BY DEF Types
<1>pc. w.pc \in WatchLabels /\ d.pc \in DesiredLabels
  BY <1>rec DEF Watchers, Appliers
<1>disk. disk["boot"] \in Trees /\ disk["live"] \in Trees /\ disk[w.dir] \in Trees
  <2>1. disk \in Disks /\ w.dir \in Places
    BY <1>rec DEF Types, Watchers, Places
  <2> QED BY <2>1 DEF Disks, Places
<1>idle. DIdle.pc = "idle" /\ WIdle.pc = "tick" /\ WIdle.tree = Nothing
  BY IdleTypes
<1>nothing. \A f \in Files : Nothing[f] \notin Broken
  BY Marked DEF Nothing
<1>now. /\ start # "load" => Fits(served)
        /\ \A f \in Files : w.tree[f] \notin Broken
        /\ w.pc \in {"loaded", "swap"} => ListsFit(w.tree)
        /\ d.pc \in {"set", "swap"} \/ start = "restore" => Fits(d.tree)
        /\ start # "up" => d.pc = "idle"
  BY DEF Snapshots
<1>keep. /\ served' = served => (Fits(served) => Fits(served'))
         /\ w' = w => (ListsFit(w.tree) => ListsFit(w'.tree))
  OBVIOUS
<1> USE DEF storeVars, world, harm
\* A step that leaves the watcher alone.
<1>5. ASSUME UNCHANGED w, start' # "load" => Fits(served'),
             start' # "up" => d'.pc = "idle",
             d'.pc \in {"set", "swap"} \/ start' = "restore" => Fits(d'.tree)
      PROVE  Snapshots'
  <2>1. \A f \in Files : w'.tree[f] \notin Broken
    BY <1>now, <1>5
  <2>2. w'.pc \in {"loaded", "swap"} => ListsFit(w'.tree)
    BY <1>now, <1>5
  <2> QED BY <1>5, <2>1, <2>2 DEF Snapshots
<1>1. CASE NewStoreLoad
  <2>1. served' = Loaded(disk["boot"]) /\ start = "load" /\ start' = "print" /\ UNCHANGED <<w, d>>
    BY <1>1 DEF NewStoreLoad
  <2>2. Fits(served')
    BY <1>1, <1>disk, <2>1, LoadableFits DEF NewStoreLoad
  <2>3. d'.pc = "idle"
    BY <1>now, <2>1
  <2> QED BY <1>5, <2>1, <2>2, <2>3
<1>2. CASE NewStorePrint
  <2>1. /\ start = "print" /\ start' = IF Loadable(disk["live"]) THEN "restore" ELSE "up"
        /\ d' = [d EXCEPT !.tree = Loaded(disk["live"])] /\ UNCHANGED <<served, w>>
    BY <1>2 DEF NewStorePrint
  <2>2. d'.tree = Loaded(disk["live"]) /\ d'.pc = d.pc /\ d.pc = "idle"
    BY <1>rec, <1>now, <2>1 DEF Appliers
  <2>3. start' = "restore" => Fits(d'.tree)
    BY <1>disk, <2>1, <2>2, LoadableFits
  <2>4. Fits(served')
    BY <1>now, <1>keep, <2>1
  <2> QED BY <1>5, <2>1, <2>2, <2>3, <2>4
<1>3. CASE Bootstrap
  <2>1. start = "restore" /\ served' = d.tree /\ start' = "up" /\ d' = DIdle /\ UNCHANGED w
    BY <1>3 DEF Bootstrap
  <2>2. Fits(served')
    BY <1>now, <2>1
  <2> QED BY <1>5, <1>idle, <2>1, <2>2
<1>4. CASE WatchStep
  <2>1. UNCHANGED <<d, start>>
    BY <1>4 DEF WatchStep, watchMissing, watchLook, watchSame, watchList, watchLoadProfile,
                watchLoadLists, setPrint, watchSwap, vars
  <2>2. /\ start # "load" => Fits(served')
        /\ \A f \in Files : w'.tree[f] \notin Broken
        /\ w'.pc \in {"loaded", "swap"} => ListsFit(w'.tree)
    <3>1. CASE watchMissing
      BY <1>now, <3>1 DEF watchMissing, vars
    <3>2. CASE watchLook
      <4>1. w'.pc = "check" /\ w'.tree = w.tree /\ served' = served
        BY <1>rec, <3>2 DEF watchLook, Watchers
      <4> QED BY <1>now, <4>1
    <3>3. CASE watchSame
      <4>1. served' = served /\ (w' = WIdle \/ (w'.pc = "list" /\ w'.tree = w.tree))
        BY <1>rec, <3>3 DEF watchSame, Watchers
      <4> QED BY <1>now, <1>idle, <1>nothing, <4>1
    <3>4. CASE watchList
      <4>1. served' = served /\ w'.tree = w.tree /\ w'.pc \in {"failed", "read"}
        BY <1>rec, <3>4 DEF watchList, Watchers
      <4> QED BY <1>now, <4>1
    <3>5. CASE watchLoadProfile
      <4> DEFINE f == IF "first" \in w.names THEN "first" ELSE "second"
                 v == disk[w.dir][f]
      <4>1. /\ w.pc = "read" /\ served' = served
            /\ w' = IF v = Missing \/ v \in Broken THEN [w EXCEPT !.pc = "failed"]
                    ELSE [w EXCEPT !.names = @ \ {f}, !.tree[f] = v]
        BY <3>5 DEF watchLoadProfile
      <4>2. f \in Held
        BY DEF Held, Files
      <4> HIDE DEF f, v
      <4>3. CASE w' = [w EXCEPT !.pc = "failed"]
        <5>1. w'.pc = "failed" /\ w'.tree = w.tree
          BY <1>rec, <4>3 DEF Watchers
        <5> QED BY <1>now, <4>1, <5>1
      <4>4. CASE v \notin Broken /\ w' = [w EXCEPT !.names = @ \ {f}, !.tree[f] = v]
        <5>1. w'.pc = "read" /\ w'.tree = [w.tree EXCEPT ![f] = v]
          BY <1>rec, <4>1, <4>4 DEF Watchers
        <5>2. \A g \in Files : w'.tree[g] \in {w.tree[g], v}
          BY <1>rec, <4>2, <5>1, Marked DEF Watchers, Snaps
        <5>3. \A g \in Files : w'.tree[g] \notin Broken
          BY <1>now, <4>4, <5>2
        <5> QED BY <1>now, <4>1, <5>1, <5>3
      <4> QED BY <4>1, <4>3, <4>4
    <3>6. CASE watchLoadLists
      <4> DEFINE x == IF NamesLists(w.tree) THEN disk[w.dir]["lists"] ELSE Missing
                 t == [w.tree EXCEPT !["lists"] = x]
      <4>1. /\ served' = served
            /\ w' = [w EXCEPT !.pc = IF ListsFit(t) THEN "loaded" ELSE "failed", !.tree = t]
        BY <3>6 DEF watchLoadLists
      <4>2. \A f \in Files : t[f] = w.tree[f]
        BY <1>rec, Marked DEF Watchers, Snaps
      <4> HIDE DEF t
      <4>3. w'.tree = t /\ w'.pc = IF ListsFit(t) THEN "loaded" ELSE "failed"
        BY <1>rec, <4>1 DEF Watchers
      <4> QED BY <1>now, <4>1, <4>2, <4>3
    <3>7. CASE setPrint
      <4>1. /\ w.pc \in {"loaded", "failed"} /\ served' = served
            /\ w' = IF w.pc = "loaded" THEN [w EXCEPT !.pc = "swap"] ELSE WIdle
        BY <3>7 DEF setPrint
      <4>2. CASE w.pc = "loaded"
        <5>1. w'.pc = "swap" /\ w'.tree = w.tree
          BY <1>rec, <4>1, <4>2 DEF Watchers
        <5> QED BY <1>now, <4>1, <4>2, <5>1
      <4>3. CASE w.pc # "loaded"
        BY <1>now, <1>idle, <1>nothing, <4>1, <4>3
      <4> QED BY <4>2, <4>3
    <3>8. CASE watchSwap
      <4>1. w.pc = "swap" /\ served' = w.tree /\ w' = WIdle
        BY <3>8 DEF watchSwap
      <4>2. Fits(served')
        BY <1>now, <4>1 DEF Fits
      <4> QED BY <1>idle, <1>nothing, <4>1, <4>2
    <3> QED BY <1>4, <3>1, <3>2, <3>3, <3>4, <3>5, <3>6, <3>7, <3>8 DEF WatchStep
  <2>3. d'.pc \in {"set", "swap"} \/ start' = "restore" => Fits(d'.tree)
    BY <1>now, <2>1
  <2>4. start' # "up" => d'.pc = "idle"
    BY <1>now, <2>1
  <2> QED BY <2>1, <2>2, <2>3, <2>4 DEF Snapshots
<1>6. ASSUME NEW m, handle(m) PROVE d'.pc \in {"idle", "fetch"}
  BY <1>6, <1>idle DEF handle, DIdle
<1>7. CASE Receive \/ Retry
  <2>1. start = "up" /\ UNCHANGED <<served, w, start>> /\ d.pc = "idle"
    BY <1>7 DEF Receive, Retry
  <2>2. UNCHANGED d \/ \E m : handle(m)
    BY <1>7 DEF Receive, Retry
  <2>3. d'.pc \in {"idle", "fetch"}
    BY <1>6, <2>1, <2>2
  <2>4. Fits(served')
    BY <1>now, <1>keep, <2>1
  <2> QED BY <1>5, <2>1, <2>3, <2>4
<1>8. CASE FetchLists \/ Apply
  <2>1. d.pc # "idle" /\ UNCHANGED <<w, start>>
    BY <1>8 DEF FetchLists, Apply, ApplyClean, ApplyWrite, ApplyClearPrev, ApplyPark,
       ApplyPromote, ApplyUnpark, ApplyUnstage, ReloadLoad, ReloadSet, ReloadSwap, ApplyRemove,
       ApplyRestore, ApplyDone, applyFrame
  <2>2. start = "up" /\ start' = "up" /\ UNCHANGED w
    BY <1>now, <2>1
  <2>fin. ASSUME NEW status, finish(status) PROVE d'.pc = "idle"
    BY <1>idle, <2>fin DEF finish
  <2>step. ASSUME NEW label, Step(label) PROVE d'.pc = label /\ d'.tree = d.tree
    BY <1>rec, <2>step DEF Step, Appliers
  \* A step that neither swaps nor loads.
  <2>quiet. ASSUME UNCHANGED served, d'.pc \notin {"set", "swap"} PROVE Snapshots'
    <3>1. Fits(served')
      BY <1>now, <1>keep, <2>2, <2>quiet
    <3> QED BY <1>5, <2>2, <2>quiet, <3>1
  <2>3. CASE FetchLists
    <3>1. d'.pc \in {"idle", "clean"} /\ UNCHANGED served
      <4>1. CASE d' = [d EXCEPT !.pc = "clean"]
        BY <1>rec, <2>3, <4>1 DEF Appliers, FetchLists
      <4> QED BY <2>fin, <2>3, <4>1 DEF FetchLists
    <3> QED BY <2>quiet, <3>1
  <2>4. CASE ReloadLoad
    <3>1. UNCHANGED served
      BY <2>4 DEF ReloadLoad
    <3>2. CASE Loadable(disk["live"])
      <4>1. d'.tree = Loaded(disk["live"])
        BY <1>rec, <2>4, <3>2 DEF ReloadLoad, Appliers
      <4>2. Fits(d'.tree)
        BY <1>disk, <3>2, <4>1, LoadableFits
      <4>3. Fits(served')
        BY <1>now, <1>keep, <2>2, <3>1
      <4> QED BY <1>5, <2>2, <4>2, <4>3
    <3>3. CASE ~Loadable(disk["live"])
      <4>1. d'.pc \in {"idle", "remove"}
        BY <2>fin, <2>step, <2>4, <3>3 DEF ReloadLoad
      <4> QED BY <2>quiet, <3>1, <4>1
    <3> QED BY <3>2, <3>3
  <2>5. CASE ReloadSet
    <3>1. d.pc = "set" /\ Step("swap") /\ UNCHANGED served
      BY <2>5 DEF ReloadSet
    <3>2. Fits(d'.tree) /\ Fits(served')
      BY <1>now, <1>keep, <2>2, <2>step, <3>1
    <3> QED BY <1>5, <2>2, <3>2
  <2>6. CASE ReloadSwap
    <3>1. d.pc = "swap" /\ served' = d.tree
      BY <2>6 DEF ReloadSwap
    <3>2. d'.pc \in {"idle", "done"}
      BY <2>fin, <2>step, <2>6 DEF ReloadSwap
    <3>3. Fits(served')
      BY <1>now, <3>1
    <3> QED BY <1>5, <2>2, <3>2, <3>3
  <2>7. CASE \/ ApplyClean \/ ApplyWrite \/ ApplyClearPrev \/ ApplyPromote \/ ApplyUnpark
             \/ ApplyUnstage \/ ApplyDone
    <3>1. UNCHANGED served
      BY <2>7 DEF ApplyClean, ApplyWrite, ApplyClearPrev, ApplyPromote, ApplyUnpark,
         ApplyUnstage, ApplyDone
    <3>2. d'.pc \in {"write", "clear", "park", "load", "unpark", "unstage", "idle"}
      BY <2>fin, <2>step, <2>7 DEF ApplyClean, ApplyWrite, ApplyClearPrev, ApplyPromote,
         ApplyUnpark, ApplyUnstage, ApplyDone
    <3> QED BY <2>quiet, <3>1, <3>2
  <2>8. CASE ApplyPark \/ ApplyRestore \/ ApplyRemove
    <3>1. UNCHANGED served
      BY <2>8 DEF ApplyPark, ApplyRestore, ApplyRemove
    <3>2. CASE \/ \E b \in BOOLEAN : d' = [d EXCEPT !.pc = "promote", !.lived = b]
               \/ d' = [d EXCEPT !.pc = "load", !.restoring = TRUE]
               \/ d' = d /\ d.pc = "remove"
      <4>1. d'.pc \in {"promote", "load", "remove"}
        BY <1>rec, <3>2 DEF Appliers
      <4> QED BY <2>quiet, <3>1, <4>1
    <3>3. CASE Step("unstage") \/ Step("restore") \/ finish("apply_failed")
      BY <2>fin, <2>step, <2>quiet, <3>1, <3>3
    <3> QED BY <2>8, <3>2, <3>3 DEF ApplyPark, ApplyRestore, ApplyRemove
  <2> QED BY <1>8, <2>3, <2>4, <2>5, <2>6, <2>7, <2>8 DEF Apply
<1>9. CASE Crash
  <2>1. start' = "load" /\ w' = WIdle /\ d' = DIdle
    BY <1>9 DEF Crash
  <2> QED BY <1>idle, <1>nothing, <2>1 DEF Snapshots
<1>10. CASE \/ Publish \/ DeleteKey \/ RedisLeaves \/ RedisReturns \/ UNCHANGED vars
            \/ NewStoreFails \/ \E e \in Editable, v \in Edits : Edit(e[1], e[2], v)
  <2>1. UNCHANGED <<served, w, d, start>>
    BY <1>10 DEF Publish, DeleteKey, RedisLeaves, RedisReturns, vars, NewStoreFails, Edit
  <2>2. start' # "load" => Fits(served')
    BY <1>now, <1>keep, <2>1
  <2>3. start' # "up" => d'.pc = "idle"
    BY <1>now, <2>1
  <2>4. d'.pc \in {"set", "swap"} \/ start' = "restore" => Fits(d'.tree)
    BY <1>now, <2>1
  <2> QED BY <1>5, <2>1, <2>2, <2>3, <2>4
<1> QED BY <1>1, <1>2, <1>3, <1>4, <1>7, <1>8, <1>9, <1>10 DEF Next, StartStep, DesiredStep

\* Requests never see a profile that LoadDir rejects, nor profiles that name lists
\* without those lists, however the watcher's reading falls between the steps of
\* Apply and the edits by hand.
THEOREM SnapshotAlwaysLoadable == Spec => []ServedLoadable
<1>1. Snapshots => ServedLoadable
  BY DEF Snapshots, ServedLoadable
<1>2. Types /\ Snapshots /\ [Next]_vars => (Types /\ Snapshots)'
  BY TypesInductive, SnapshotsInductive
<1>3. Init => Types /\ Snapshots
  BY InitTypes, InitSnapshots
<1> QED BY <1>1, <1>2, <1>3, PTL DEF Spec

-----------------------------------------------------------------------------
(* The order of the manifests.                                             *)

\* What is still to be delivered is newer than what is applied, being applied
\* or waiting for a retry, and these are not older than what is applied.
Ahead ==
    /\ kv <= published /\ applied.rev <= published /\ pending <= published /\ d.m <= published
    /\ \A i \in 1 .. Len(updates) : updates[i] <= published
    /\ \A i, j \in 1 .. Len(updates) :
           i < j /\ updates[i] # 0 /\ updates[j] # 0 => updates[i] < updates[j]
    /\ \A i \in 1 .. Len(updates) : updates[i] # 0 =>
           updates[i] > pending /\ updates[i] > applied.rev /\ updates[i] > d.m
    /\ d.pc # "idle" => pending = 0 /\ applied.rev <= d.m
    /\ pending # 0 => applied.rev <= pending
    /\ d.pc = "idle" => d.m = 0

\* At first nothing is published.
LEMMA InitAhead == Init => Ahead
<1> SUFFICES ASSUME Init PROVE Ahead
  OBVIOUS
<1>1. kv = 0 /\ published = 0 /\ pending = 0 /\ d.m = 0 /\ d.pc = "idle" /\ applied.rev = 0
  BY IdleTypes DEF Init, Delete
<1>2. updates = <<>> /\ Len(updates) = 0
  BY DEF Init
<1> QED BY <1>1, <1>2 DEF Ahead

\* Revisions are numbers.
LEMMA Numbers ==
    Types => /\ published \in Nat /\ pending \in Nat /\ d.m \in Nat /\ applied.rev \in Nat
             /\ updates \in Seq(Nat)
BY DEF Types, Appliers, Reports

\* What the steps do to the numbers, the parts of Ahead that do not look into
\* the queue of updates first.
LEMMA AheadKept ==
    ASSUME Types, Ahead, UNCHANGED <<kv, published, updates>>,
           pending' \in Nat, d'.m \in Nat, applied'.rev \in Nat,
           pending' <= published, d'.m <= published, applied'.rev <= published,
           \/ pending' = pending \/ pending' = 0 \/ pending' = d.m,
           \/ d'.m = d.m \/ d'.m = 0 \/ d'.m = pending,
           \/ applied'.rev = applied.rev \/ applied'.rev = d.m,
           d'.pc # "idle" => pending' = 0 /\ applied'.rev <= d'.m,
           pending' # 0 => applied'.rev <= pending',
           d'.pc = "idle" => d'.m = 0
    PROVE  Ahead'
<1>num. /\ published \in Nat /\ pending \in Nat /\ d.m \in Nat /\ applied.rev \in Nat
  BY Numbers
<1>1. updates \in Seq(Nat)
  BY Numbers
<1>2. ASSUME NEW i \in 1 .. Len(updates), updates[i] # 0
      PROVE  updates[i] > pending' /\ updates[i] > applied'.rev /\ updates[i] > d'.m
  <2>1. updates[i] \in Nat
    BY <1>1
  <2>2. updates[i] > pending /\ updates[i] > applied.rev /\ updates[i] > d.m /\ updates[i] > 0
    BY <1>2, <2>1 DEF Ahead
  <2> QED BY <1>num, <2>1, <2>2
<1>3. /\ kv' <= published' /\ applied'.rev <= published' /\ pending' <= published'
      /\ d'.m <= published'
  BY DEF Ahead
<1>4. /\ \A i \in 1 .. Len(updates') : updates'[i] <= published'
      /\ \A i, j \in 1 .. Len(updates') :
           i < j /\ updates'[i] # 0 /\ updates'[j] # 0 => updates'[i] < updates'[j]
  BY DEF Ahead
<1> QED BY <1>2, <1>3, <1>4 DEF Ahead

\* Every step keeps what is to come ahead.
LEMMA AheadInductive ==
    Types /\ Ahead /\ [Next]_vars
        => Ahead' /\ (UNCHANGED vars \/ start' = "load" \/ applied'.rev >= applied.rev)
<1> DEFINE Forward == start' = "load" \/ applied'.rev >= applied.rev
<1> SUFFICES ASSUME Types, Ahead, [Next]_vars PROVE Ahead' /\ (UNCHANGED vars \/ Forward)
  OBVIOUS
<1>rec. d \in Appliers /\ applied \in Reports
  BY DEF Types
<1>num. /\ published \in Nat /\ pending \in Nat /\ kv \in Nat /\ d.m \in Nat
        /\ applied.rev \in Nat
  BY DEF Types, Appliers, Reports
<1>seq. updates \in Seq(Nat) /\ Len(updates) \in Nat
  BY Numbers
<1>idle. DIdle.pc = "idle" /\ DIdle.m = 0
  BY IdleTypes
<1>low. /\ kv <= published /\ applied.rev <= published /\ pending <= published
        /\ d.m <= published
        /\ d.pc # "idle" => pending = 0 /\ applied.rev <= d.m
        /\ pending # 0 => applied.rev <= pending
        /\ d.pc = "idle" => d.m = 0
  BY DEF Ahead
<1>que. /\ \A i \in 1 .. Len(updates) : updates[i] <= published
        /\ \A i, j \in 1 .. Len(updates) :
               i < j /\ updates[i] # 0 /\ updates[j] # 0 => updates[i] < updates[j]
        /\ \A i \in 1 .. Len(updates) : updates[i] # 0 =>
               updates[i] > pending /\ updates[i] > applied.rev /\ updates[i] > d.m
  BY DEF Ahead
<1>fin. ASSUME NEW status \in {"ok", "apply_failed"}, finish(status)
        PROVE  /\ d'.pc = "idle" /\ d'.m = 0
               /\ applied'.rev = IF status = "ok" THEN d.m ELSE applied.rev
  BY <1>rec, <1>idle, <1>fin DEF finish, Reports
<1>take. ASSUME NEW m \in Nat, handle(m)
         PROVE  \/ d'.pc = "idle" /\ d'.m = 0
                \/ d'.pc = "fetch" /\ d'.m = m
  BY <1>idle, <1>take DEF handle, DIdle
<1>step. ASSUME NEW label, Step(label) PROVE d'.pc = label /\ d'.m = d.m /\ applied' = applied
  BY <1>rec, <1>step DEF Step, Appliers
<1> USE DEF storeVars, world, harm
<1>1. CASE \/ StartStep \/ WatchStep \/ RedisLeaves \/ RedisReturns \/ UNCHANGED vars
           \/ \E e \in Editable, v \in Edits : Edit(e[1], e[2], v)
  <2>1. UNCHANGED <<kv, published, updates, pending, applied>>
    BY <1>1 DEF StartStep, NewStoreLoad, NewStoreFails, NewStorePrint, Bootstrap, WatchStep,
       watchMissing, watchLook, watchSame, watchList, watchLoadProfile, watchLoadLists, setPrint,
       watchSwap, RedisLeaves, RedisReturns, Edit, vars
  <2>2. (d'.pc = d.pc /\ d'.m = d.m) \/ (d'.pc = "idle" /\ d'.m = 0)
    BY <1>1, <1>rec, <1>idle DEF Appliers, StartStep, NewStoreLoad, NewStoreFails, NewStorePrint, Bootstrap,
       WatchStep, watchMissing, watchLook, watchSame, watchList, watchLoadProfile,
       watchLoadLists, setPrint, watchSwap, RedisLeaves, RedisReturns, Edit, vars
  <2>3. Ahead'
    BY <1>low, <1>num, <2>1, <2>2, AheadKept
  <2> QED BY <1>num, <2>1, <2>3
<1>2. CASE Receive
  <2>1. /\ updates # <<>> /\ updates' = Tail(updates) /\ d.pc = "idle"
        /\ UNCHANGED <<kv, published, applied>>
        /\ \/ UNCHANGED <<d, pending>>
           \/ Head(updates) # 0 /\ handle(Head(updates)) /\ pending' = 0
    BY <1>2 DEF Receive, Delete
  <2>2. /\ Head(updates) = updates[1] /\ 1 \in 1 .. Len(updates) /\ updates[1] \in Nat
        /\ updates' \in Seq(Nat) /\ Len(updates') = Len(updates) - 1
        /\ \A i \in 1 .. Len(updates') : updates'[i] = updates[i + 1]
    BY <1>seq, <2>1
  <2>3. \A i \in 1 .. Len(updates') : i + 1 \in 1 .. Len(updates) /\ 1 < i + 1
    BY <1>seq, <2>2
  <2>4. /\ \A i \in 1 .. Len(updates') : updates'[i] <= published
        /\ \A i, j \in 1 .. Len(updates') :
               i < j /\ updates'[i] # 0 /\ updates'[j] # 0 => updates'[i] < updates'[j]
    <3>1. \A i, j \in 1 .. Len(updates') : i < j => i + 1 < j + 1
      BY <1>seq, <2>2
    <3> QED BY <1>que, <2>2, <2>3, <3>1
  <2>5. /\ \A i \in 1 .. Len(updates') : updates'[i] # 0 =>
               updates'[i] > pending /\ updates'[i] > applied.rev /\ updates'[i] > 0
        /\ Head(updates) # 0 =>
               /\ Head(updates) > applied.rev /\ Head(updates) <= published
               /\ \A i \in 1 .. Len(updates') : updates'[i] # 0 => updates'[i] > Head(updates)
    <3>1. \A i \in 1 .. Len(updates') : updates'[i] \in Nat
      BY <2>2
    <3>2. \A n \in Nat : n # 0 => n > 0
      OBVIOUS
    <3>3. Head(updates) \in Nat
      BY <2>2
    <3>4. \A m, n \in Nat : m < n => n > m
      OBVIOUS
    <3>5. ASSUME NEW i \in 1 .. Len(updates'), updates'[i] # 0
          PROVE  /\ updates'[i] > pending /\ updates'[i] > applied.rev /\ updates'[i] > 0
                 /\ Head(updates) # 0 => updates'[i] > Head(updates)
      <4>1. /\ i + 1 \in 1 .. Len(updates) /\ 1 < i + 1 /\ updates'[i] = updates[i + 1]
            /\ 1 \in 1 .. Len(updates) /\ Head(updates) = updates[1]
        BY <2>2, <2>3
      <4>2. updates'[i] > pending /\ updates'[i] > applied.rev
        BY <1>que, <3>5, <4>1
      <4>3. Head(updates) # 0 => Head(updates) < updates'[i]
        BY <1>que, <3>5, <4>1
      <4> QED BY <3>1, <3>2, <3>3, <3>4, <3>5, <4>2, <4>3
    <3>6. Head(updates) # 0 => Head(updates) > applied.rev /\ Head(updates) <= published
      BY <1>que, <2>2
    <3> QED BY <3>5, <3>6
  <2>6. CASE UNCHANGED <<d, pending>>
    <3>1. d'.m = 0
      BY <1>low, <2>1, <2>6
    <3> QED BY <1>low, <1>num, <2>1, <2>4, <2>5, <2>6, <3>1 DEF Ahead
  <2>7. CASE Head(updates) # 0 /\ handle(Head(updates)) /\ pending' = 0
    <3>1. \/ d'.pc = "idle" /\ d'.m = 0
          \/ d'.pc = "fetch" /\ d'.m = Head(updates)
      BY <1>take, <2>2, <2>7
    <3>2. Head(updates) \in Nat /\ Head(updates) > applied.rev /\ Head(updates) <= published
      BY <2>2, <2>5, <2>7
    <3>3. /\ d'.m <= published /\ d'.m \in Nat
          /\ d'.pc # "idle" => applied.rev <= d'.m
          /\ d'.pc = "idle" => d'.m = 0
      BY <1>num, <3>1, <3>2
    <3>4. \A i \in 1 .. Len(updates') : updates'[i] # 0 =>
              updates'[i] > pending' /\ updates'[i] > applied'.rev /\ updates'[i] > d'.m
      BY <2>1, <2>5, <2>7, <3>1
    <3> QED BY <1>low, <1>num, <2>1, <2>4, <2>7, <3>3, <3>4 DEF Ahead
  <2> QED BY <1>num, <2>1, <2>6, <2>7
<1>3. CASE Retry
  <2>1. /\ d.pc = "idle" /\ pending # 0 /\ handle(pending) /\ pending' = 0
        /\ UNCHANGED <<kv, published, updates, applied>>
    BY <1>3 DEF Retry
  <2>2. \/ d'.pc = "idle" /\ d'.m = 0
        \/ d'.pc = "fetch" /\ d'.m = pending
    BY <1>num, <1>take, <2>1
  <2>3. Ahead'
    BY <1>low, <1>num, <2>1, <2>2, AheadKept
  <2> QED BY <1>num, <2>1, <2>3
<1>4. CASE FetchLists
  <2>1. /\ d.pc = "fetch" /\ UNCHANGED <<kv, published, updates>>
        /\ \/ finish("apply_failed") /\ pending' \in {d.m, 0}
           \/ d' = [d EXCEPT !.pc = "clean"] /\ UNCHANGED <<applied, pending>>
    BY <1>4 DEF FetchLists
  <2>2. CASE finish("apply_failed") /\ pending' \in {d.m, 0}
    <3>1. d'.pc = "idle" /\ d'.m = 0 /\ applied'.rev = applied.rev
      BY <1>fin, <2>2
    <3>2. Ahead'
      BY <1>low, <1>num, <2>1, <2>2, <3>1, AheadKept
    <3> QED BY <1>num, <3>1, <3>2
  <2>3. CASE d' = [d EXCEPT !.pc = "clean"] /\ UNCHANGED <<applied, pending>>
    <3>1. d'.pc = "clean" /\ d'.m = d.m
      BY <1>rec, <2>3
    <3>2. Ahead'
      BY <1>low, <1>num, <2>1, <2>3, <3>1, AheadKept
    <3> QED BY <1>num, <2>3, <3>2
  <2> QED BY <2>1, <2>2, <2>3
<1>5. CASE Apply
  <2>1. d.pc # "idle" /\ UNCHANGED <<kv, published, updates, pending>>
    BY <1>5 DEF Apply, ApplyClean, ApplyWrite, ApplyClearPrev, ApplyPark, ApplyPromote, ApplyUnpark,
       ApplyUnstage, ReloadLoad, ReloadSet, ReloadSwap, ApplyRemove, ApplyRestore, ApplyDone,
       applyFrame
  <2>2. \/ d'.pc = "idle" /\ d'.m = 0 /\ applied'.rev \in {d.m, applied.rev}
        \/ d'.pc # "idle" /\ d'.m = d.m /\ applied'.rev = applied.rev
    <3>1. CASE \/ ApplyClean \/ ApplyWrite \/ ApplyClearPrev \/ ApplyPromote \/ ApplyUnpark \/ ApplyUnstage
               \/ ReloadSet \/ ReloadSwap \/ ApplyRemove \/ ApplyDone
      BY <1>fin, <1>step, <3>1 DEF ApplyClean, ApplyWrite, ApplyClearPrev, ApplyPromote, ApplyUnpark,
         ApplyUnstage, ReloadSet, ReloadSwap, ApplyRemove, ApplyDone
    <3>2. CASE ApplyPark
      <4>1. CASE Step("unstage")
        BY <1>step, <4>1
      <4>2. CASE /\ \E b \in BOOLEAN : d' = [d EXCEPT !.pc = "promote", !.lived = b]
                 /\ UNCHANGED applied
        BY <1>rec, <4>2 DEF Appliers
      <4> QED BY <3>2, <4>1, <4>2 DEF ApplyPark
    <3>3. CASE ReloadLoad
      <4>1. CASE d' = [d EXCEPT !.pc = "set", !.tree = Loaded(disk["live"])] /\ UNCHANGED applied
        BY <1>rec, <4>1
      <4>2. CASE finish("apply_failed")
        BY <1>fin, <4>2
      <4>3. CASE Step("remove")
        BY <1>step, <4>3
      <4> QED BY <3>3, <4>1, <4>2, <4>3 DEF ReloadLoad
    <3>4. CASE ApplyRestore
      BY <1>fin, <1>rec, <3>4 DEF ApplyRestore, Appliers
    <3> QED BY <1>5, <3>1, <3>2, <3>3, <3>4 DEF Apply
  <2>3. Ahead'
    BY <1>low, <1>num, <2>1, <2>2, AheadKept
  <2>4. applied'.rev >= applied.rev
    BY <1>low, <1>num, <2>1, <2>2
  <2> QED BY <2>3, <2>4
\* The controller appends to the queue of updates.
<1>6. ASSUME NEW n \in Nat, updates' = Append(updates, n), published' \in Nat,
             published <= published', kv' <= published',
             n = 0 \/ (n = published' /\ published < published'),
             UNCHANGED <<d, pending, applied>>
      PROVE  Ahead'
  <2>1. /\ updates' \in Seq(Nat) /\ Len(updates') = Len(updates) + 1
        /\ \A i \in 1 .. Len(updates) : updates'[i] = updates[i]
        /\ updates'[Len(updates) + 1] = n
    BY <1>seq, <1>6
  <2>2. \A i \in 1 .. Len(updates') : i \in 1 .. Len(updates) \/ i = Len(updates) + 1
    BY <1>seq, <2>1
  <2>3. \A i \in 1 .. Len(updates) : updates[i] \in Nat /\ updates[i] <= published
    BY <1>seq, <1>que
  <2>4. \A i \in 1 .. Len(updates') : updates'[i] <= published'
    <3>1. \A i \in 1 .. Len(updates) : updates[i] <= published'
      BY <1>num, <1>6, <2>3
    <3>2. n <= published'
      BY <1>6
    <3> QED BY <2>1, <2>2, <3>1, <3>2
  <2>5. ASSUME NEW i \in 1 .. Len(updates'), NEW j \in 1 .. Len(updates'), i < j,
               updates'[i] # 0, updates'[j] # 0
        PROVE  updates'[i] < updates'[j]
    <3>1. i \in 1 .. Len(updates)
      BY <1>seq, <2>1, <2>5
    <3>2. CASE j \in 1 .. Len(updates)
      BY <1>que, <2>1, <2>5, <3>1, <3>2
    <3>3. CASE j = Len(updates) + 1
      <4>1. updates'[j] = n /\ n # 0 /\ updates'[i] = updates[i]
        BY <2>1, <2>5, <3>1, <3>3
      <4>2. updates[i] \in Nat /\ updates[i] <= published
        BY <2>3, <3>1
      <4> QED BY <1>num, <1>6, <4>1, <4>2
    <3> QED BY <2>2, <3>2, <3>3
  <2>6. ASSUME NEW i \in 1 .. Len(updates'), updates'[i] # 0
        PROVE  updates'[i] > pending' /\ updates'[i] > applied'.rev /\ updates'[i] > d'.m
    <3>1. CASE i \in 1 .. Len(updates)
      BY <1>que, <1>6, <2>1, <2>6, <3>1
    <3>2. CASE i = Len(updates) + 1
      <4>1. updates'[i] = published' /\ published < published'
        BY <1>6, <2>1, <2>6, <3>2
      <4> QED BY <1>low, <1>num, <1>6, <4>1
    <3> QED BY <2>2, <3>1, <3>2
  <2>7. applied'.rev <= published' /\ pending' <= published' /\ d'.m <= published'
    BY <1>low, <1>num, <1>6
  <2> QED BY <1>low, <1>6, <2>4, <2>5, <2>6, <2>7 DEF Ahead
<1>7. CASE Publish
  <2>1. /\ updates' = Append(updates, published + 1) /\ published' = published + 1
        /\ kv' = published + 1 /\ UNCHANGED <<d, pending, applied>>
    BY <1>7 DEF Publish
  <2>2. published + 1 \in Nat /\ published < published + 1 /\ published <= published + 1
    BY <1>num
  <2> QED BY <1>6, <1>num, <2>1, <2>2
<1>8. CASE DeleteKey
  <2>1. /\ updates' = Append(updates, 0) /\ published' = published /\ kv' = 0
        /\ UNCHANGED <<d, pending, applied>>
    BY <1>8 DEF DeleteKey, Delete
  <2>2. kv' <= published' /\ published <= published' /\ published' \in Nat
    BY <1>num, <2>1
  <2> QED BY <1>6, <1>num, <2>1, <2>2
<1>9. CASE Crash
  <2>1. /\ updates' = <<kv>> /\ published' = published /\ kv' = kv /\ pending' = 0
        /\ d' = DIdle /\ applied' = [rev |-> 0, apply |-> ""] /\ start' = "load"
    BY <1>9 DEF Crash
  <2>2. applied'.rev = 0 /\ d'.pc = "idle" /\ d'.m = 0
    BY <1>idle, <2>1
  <2>3. Len(updates') = 1 /\ updates'[1] = kv
    BY <2>1
  <2>4. \A i \in 1 .. Len(updates') : i = 1
    BY <2>3
  <2>5. \A i \in 1 .. Len(updates') : updates'[i] <= published'
    BY <1>low, <2>1, <2>3, <2>4
  <2>6. \A i, j \in 1 .. Len(updates') : ~(i < j)
    BY <2>3
  <2>7. \A i \in 1 .. Len(updates') : updates'[i] # 0 =>
            updates'[i] > pending' /\ updates'[i] > applied'.rev /\ updates'[i] > d'.m
    <3>1. kv # 0 => kv > 0
      BY <1>num
    <3> QED BY <2>1, <2>2, <2>3, <2>4, <3>1
  <2>8. Ahead'
    BY <1>low, <1>num, <2>1, <2>2, <2>5, <2>6, <2>7 DEF Ahead
  <2> QED BY <2>1, <2>8
<1>10. CASE Publish \/ DeleteKey
  <2>1. applied' = applied
    BY <1>10 DEF Publish, DeleteKey
  <2> QED BY <1>7, <1>8, <1>10, <1>num, <2>1
<1> QED BY <1>1, <1>2, <1>3, <1>4, <1>5, <1>9, <1>10 DEF Next, DesiredStep

\* Within one life of the process the applied revision never goes back.
THEOREM RevisionMonotone == Spec => RevisionNeverGoesBack
<1>1. Types /\ Ahead /\ [Next]_vars => (Types /\ Ahead)'
  BY TypesInductive, AheadInductive
<1>2. Types /\ Ahead /\ [Next]_vars => [start' = "load" \/ applied'.rev >= applied.rev]_vars
  BY AheadInductive
<1>3. Init => Types /\ Ahead
  BY InitTypes, InitAhead
<1> QED BY <1>1, <1>2, <1>3, PTL DEF Spec, RevisionNeverGoesBack

-----------------------------------------------------------------------------
(* The last generation applied stays whole on disk. Staging says where the    *)
(* new generation is, Place where the good one is, by how far Apply has come. *)

Intact == Holds(disk["live"], good)
Parked == Holds(disk["prev"], good) /\ d.lived

Staging ==
    /\ good \notin Broken
    /\ start # "up" => d.pc = "idle"
    /\ d.restoring => d.pc \in {"load", "set", "swap"}
    /\ d.pc \in {"clear", "park", "promote"} => Holds(disk["next"], d.m)
    /\ d.pc \in {"load", "set", "swap", "done"} /\ ~d.restoring => Holds(disk["live"], d.m)
    /\ d.pc \in {"set", "swap", "done"} /\ ~d.restoring => d.m \notin Broken
    /\ d.pc \in {"swap", "done"} => dir = "live"

Place ==
    good # 0 /\ ~stranded =>
        /\ start = "up" => dir = "live"
        /\ d.pc \in {"idle", "fetch", "clean", "write", "clear", "park", "unstage"} => Intact
        /\ d.pc \in {"promote", "unpark", "remove", "restore"} => Parked
        /\ d.pc \in {"load", "set", "swap", "done"} => IF d.restoring THEN Intact ELSE Parked

Kept == Types /\ Staging /\ Place

\* What a version wrote, and no hand touched, is there, and it loads when the
\* version is not broken.
LEMMA HeldTree ==
    ASSUME NEW t \in Trees, NEW v \in Nat, Holds(t, v)
    PROVE  /\ t["dir"] # Missing /\ (\A f \in Files : t[f] = v)
           /\ v \notin Broken => Loadable(t)
<1>1. t["dir"] = v /\ (\A f \in Files : t[f] = v)
  BY DEF Holds, Contents
<1>2. v # Missing
  BY Marked
<1>3. ASSUME NamesLists(t) PROVE t["lists"] = v
  <2>1. v \in WithLists
    BY <1>1, <1>3 DEF NamesLists
  <2> QED BY <2>1 DEF Holds, Contents
<1>4. v \notin Broken => Loadable(t)
  BY <1>1, <1>2, <1>3 DEF Loadable, Fits, ListsFit
<1> QED BY <1>1, <1>2, <1>4

\* The staging tree holds what was written over it.
LEMMA WrittenTree ==
    ASSUME NEW t \in Trees, NEW v \in Nat
    PROVE  Holds(Over(t, v), v)
<1>1. Contents(v) \subseteq Parts
  BY DEF Contents, Parts, Held, Files
<1> QED BY <1>1 DEF Over, Holds

\* A step of the watcher, of the start or of the world leaves the data directory
\* and the place of Apply alone.
LEMMA KeptElsewhere ==
    ASSUME Staging, Place,
           UNCHANGED <<d, good, stranded, start, dir>>,
           disk'["live"] = disk["live"], disk'["next"] = disk["next"],
           disk'["prev"] = disk["prev"]
    PROVE  Staging' /\ Place'
BY DEF Staging, Place, Intact, Parked, Holds

\* Every step of Apply keeps the good generation.
LEMMA KeptByApply == ASSUME Kept, Apply PROVE Staging' /\ Place'
<1>hyp. Types /\ Staging /\ Place
  BY DEF Kept
<1>rec. d \in Appliers /\ disk \in Disks /\ good \in Nat /\ stranded \in BOOLEAN
  BY <1>hyp DEF Types
<1>bool. d.restoring \in BOOLEAN /\ d.lived \in BOOLEAN /\ d.m \in Nat /\ d.pc \in DesiredLabels
  BY <1>rec DEF Appliers
<1>idle. DIdle.pc = "idle" /\ DIdle.restoring = FALSE
  BY IdleTypes
<1>places. /\ "live" \in Places /\ "next" \in Places /\ "prev" \in Places
           /\ disk["live"] \in Trees /\ disk["next"] \in Trees /\ disk["prev"] \in Trees
  BY <1>rec DEF Places, Disks
<1>up. start = "up" /\ start' = "up"
  <2>1. d.pc # "idle" /\ start' = start
    BY DEF Apply, ApplyClean, ApplyWrite, ApplyClearPrev, ApplyPark, ApplyPromote, ApplyUnpark,
       ApplyUnstage, ReloadLoad, ReloadSet, ReloadSwap, ApplyRemove, ApplyRestore, ApplyDone,
       applyFrame
  <2> QED BY <1>hyp, <2>1 DEF Staging
<1>good. good \notin Broken
  BY <1>hyp DEF Staging
<1>fin. ASSUME NEW status, finish(status) PROVE d'.pc = "idle" /\ d'.restoring = FALSE
  BY <1>idle, <1>fin DEF finish
<1>step. ASSUME NEW label, Step(label)
         PROVE  /\ d'.pc = label /\ d'.m = d.m /\ d'.lived = d.lived
                /\ d'.restoring = d.restoring
  BY <1>rec, <1>step DEF Step, Appliers
<1>plain. ASSUME d.pc \notin {"load", "set", "swap"} PROVE d.restoring = FALSE
  BY <1>hyp, <1>bool, <1>plain DEF Staging
\* A step that ends, or goes on to one, where the good generation is to be live and
\* nothing else is asked of the disk.
<1>intact. ASSUME good' = good, dir' = dir, stranded' = stranded \/ stranded' = TRUE,
                  d'.pc \in {"idle", "clean", "write", "unstage"}, d'.restoring = FALSE,
                  good # 0 /\ ~stranded' => Holds(disk'["live"], good)
           PROVE  Staging' /\ Place'
  <2>1. Staging'
    BY <1>good, <1>up, <1>intact DEF Staging
  <2>2. good # 0 /\ ~stranded' => dir = "live"
    BY <1>hyp, <1>up, <1>rec, <1>intact DEF Place
  <2>3. Place'
    BY <1>intact, <2>2 DEF Place, Intact
  <2> QED BY <2>1, <2>3
\* The good generation is live, in the words of Place.
<1>live. ASSUME d.pc \in {"clean", "write", "clear", "park", "unstage"} \/ d.restoring
         PROVE  good # 0 /\ ~stranded => Holds(disk["live"], good)
  BY <1>hyp, <1>live DEF Place, Staging, Intact
<1>parked. ASSUME d.pc \in {"promote", "unpark", "remove", "restore"}
                  \/ (d.pc \in {"load", "set", "swap", "done"} /\ ~d.restoring)
           PROVE  good # 0 /\ ~stranded => Holds(disk["prev"], good) /\ d.lived
  BY <1>hyp, <1>parked DEF Place, Staging, Parked
<1>dir. good # 0 /\ ~stranded => dir = "live"
  BY <1>hyp, <1>up DEF Place
<1> USE DEF storeVars, harm
<1>1. CASE ApplyClean
  <2>1. d.pc = "clean" /\ removeAll("next") /\ Step("write") /\ UNCHANGED <<dir, good, stranded>>
    BY <1>1 DEF ApplyClean
  <2>2. disk'["live"] = disk["live"]
    BY <1>rec, <1>places, <2>1, RemoveAllEffect
  <2>3. d'.pc = "write" /\ d'.restoring = FALSE
    BY <1>step, <1>plain, <2>1
  <2> QED BY <1>intact, <1>live, <2>1, <2>2, <2>3
<1>2. CASE ApplyWrite
  <2>1. d.pc = "write" /\ UNCHANGED <<dir, good, stranded>>
    BY <1>2 DEF ApplyWrite
  <2>2. disk'["live"] = disk["live"]
    BY <1>rec, <1>places, <1>2, WriteEffect
  <2>3. CASE Step("unstage")
    <3>1. d'.pc = "unstage" /\ d'.restoring = FALSE
      BY <1>step, <1>plain, <2>1, <2>3
    <3> QED BY <1>intact, <1>live, <2>1, <2>2, <3>1
  <2>4. CASE disk' = [disk EXCEPT !["next"] = Over(@, d.m)] /\ Step("clear")
    <3>1. disk'["next"] = Over(disk["next"], d.m)
      BY <1>rec, <1>places, <2>4 DEF Disks
    <3>2. Holds(disk'["next"], d.m)
      BY <1>bool, <1>places, <3>1, WrittenTree
    <3>3. d'.pc = "clear" /\ d'.restoring = FALSE /\ d'.m = d.m
      BY <1>step, <1>plain, <2>1, <2>4
    <3>4. Staging'
      BY <1>good, <1>up, <2>1, <3>2, <3>3 DEF Staging
    <3>5. Place'
      BY <1>live, <1>dir, <2>1, <2>2, <3>3 DEF Place, Intact
    <3> QED BY <3>4, <3>5
  <2> QED BY <1>2, <2>3, <2>4 DEF ApplyWrite
<1>3. CASE ApplyClearPrev
  <2>1. d.pc = "clear" /\ removeAll("prev") /\ Step("park") /\ UNCHANGED <<dir, good, stranded>>
    BY <1>3 DEF ApplyClearPrev
  <2>2. disk'["live"] = disk["live"] /\ disk'["next"] = disk["next"]
    BY <1>rec, <1>places, <2>1, RemoveAllEffect
  <2>3. d'.pc = "park" /\ d'.restoring = FALSE /\ d'.m = d.m
    BY <1>step, <1>plain, <2>1
  <2>4. Holds(disk["next"], d.m)
    BY <1>hyp, <2>1 DEF Staging
  <2>5. Staging'
    BY <1>good, <1>up, <2>1, <2>2, <2>3, <2>4 DEF Staging
  <2>6. Place'
    BY <1>live, <1>dir, <2>1, <2>2, <2>3 DEF Place, Intact
  <2> QED BY <2>5, <2>6
<1>4. CASE ApplyPark
  <2>1. d.pc = "park" /\ UNCHANGED <<dir, good, stranded>>
    BY <1>4 DEF ApplyPark
  <2>2. Holds(disk["next"], d.m) /\ d.restoring = FALSE
    BY <1>hyp, <1>plain, <2>1 DEF Staging
  <2>3. CASE rename("live", "prev") /\ d' = [d EXCEPT !.pc = "promote", !.lived = TRUE]
    <3>1. disk'["prev"] = disk["live"] /\ disk'["next"] = disk["next"]
      BY <1>rec, <1>places, <2>3, RenameEffect
    <3>2. d'.pc = "promote" /\ d'.m = d.m /\ d'.restoring = FALSE /\ d'.lived = TRUE
      BY <1>rec, <2>2, <2>3 DEF Appliers
    <3>3. Staging'
      BY <1>good, <1>up, <2>1, <2>2, <3>1, <3>2 DEF Staging
    <3>4. Place'
      BY <1>live, <1>dir, <2>1, <3>1, <3>2 DEF Place, Parked
    <3> QED BY <3>3, <3>4
  <2>4. CASE /\ disk["live"]["dir"] = Missing /\ UNCHANGED disk
             /\ d' = [d EXCEPT !.pc = "promote", !.lived = FALSE]
    <3>1. d'.pc = "promote" /\ d'.m = d.m /\ d'.restoring = FALSE
      BY <1>rec, <2>2, <2>4 DEF Appliers
    <3>2. ~(good # 0 /\ ~stranded)
      BY <1>rec, <1>places, <1>live, <2>1, <2>4, HeldTree
    <3>3. Staging'
      BY <1>good, <1>up, <2>1, <2>2, <2>4, <3>1 DEF Staging
    <3>4. Place'
      BY <2>1, <3>2 DEF Place
    <3> QED BY <3>3, <3>4
  <2>5. CASE Step("unstage") /\ UNCHANGED disk
    <3>1. d'.pc = "unstage" /\ d'.restoring = FALSE
      BY <1>step, <2>2, <2>5
    <3> QED BY <1>intact, <1>live, <2>1, <2>5, <3>1
  <2> QED BY <1>4, <2>3, <2>4, <2>5 DEF ApplyPark
<1>5. CASE ApplyPromote
  <2>1. d.pc = "promote" /\ UNCHANGED <<dir, good, stranded>>
    BY <1>5 DEF ApplyPromote
  <2>2. Holds(disk["next"], d.m) /\ d.restoring = FALSE
    BY <1>hyp, <1>plain, <2>1 DEF Staging
  <2>3. CASE rename("next", "live") /\ Step("load")
    <3>1. disk'["live"] = disk["next"] /\ disk'["prev"] = disk["prev"]
      BY <1>rec, <1>places, <2>3, RenameEffect
    <3>2. d'.pc = "load" /\ d'.m = d.m /\ d'.restoring = FALSE /\ d'.lived = d.lived
      BY <1>step, <2>2, <2>3
    <3>3. Staging'
      BY <1>good, <1>up, <2>1, <2>2, <3>1, <3>2 DEF Staging
    <3>4. Place'
      BY <1>parked, <1>dir, <2>1, <3>1, <3>2 DEF Place, Parked
    <3> QED BY <3>3, <3>4
  <2>4. CASE Step(IF d.lived THEN "unpark" ELSE "unstage") /\ UNCHANGED disk
    <3>1. /\ d'.pc = (IF d.lived THEN "unpark" ELSE "unstage") /\ d'.restoring = FALSE
          /\ d'.lived = d.lived
      BY <1>step, <2>2, <2>4
    <3>2. Staging'
      BY <1>good, <1>up, <3>1, <2>1 DEF Staging
    <3>3. Place'
      BY <1>parked, <1>dir, <2>1, <2>4, <3>1 DEF Place, Parked
    <3> QED BY <3>2, <3>3
  <2> QED BY <1>5, <2>3, <2>4 DEF ApplyPromote
<1>6. CASE ApplyUnpark
  <2>1. d.pc = "unpark" /\ Step("unstage") /\ UNCHANGED <<dir, good>>
    BY <1>6 DEF ApplyUnpark
  <2>2. d'.pc = "unstage" /\ d'.restoring = FALSE
    BY <1>step, <1>plain, <2>1
  <2>3. CASE rename("prev", "live") /\ UNCHANGED stranded
    <3>1. disk'["live"] = disk["prev"]
      BY <1>rec, <1>places, <2>3, RenameEffect
    <3> QED BY <1>intact, <1>parked, <2>1, <2>2, <2>3, <3>1
  <2>4. CASE stranded' = TRUE
    BY <1>intact, <2>1, <2>2, <2>4
  <2> QED BY <1>6, <2>3, <2>4 DEF ApplyUnpark
<1>7. CASE ApplyUnstage
  <2>1. /\ d.pc = "unstage" /\ removeAll("next") /\ finish("apply_failed")
        /\ UNCHANGED <<dir, good, stranded>>
    BY <1>7 DEF ApplyUnstage
  <2>2. disk'["live"] = disk["live"]
    BY <1>rec, <1>places, <2>1, RemoveAllEffect
  <2>3. d'.pc = "idle" /\ d'.restoring = FALSE
    BY <1>fin, <2>1
  <2> QED BY <1>intact, <1>live, <2>1, <2>2, <2>3
<1>8. CASE ReloadLoad
  <2>1. d.pc = "load" /\ UNCHANGED <<dir, good, stranded, disk>>
    BY <1>8 DEF ReloadLoad
  <2>2. CASE Loadable(disk["live"]) /\ d' = [d EXCEPT !.pc = "set", !.tree = Loaded(disk["live"])]
    <3>1. d'.pc = "set" /\ d'.m = d.m /\ d'.restoring = d.restoring /\ d'.lived = d.lived
      BY <1>rec, <2>2 DEF Appliers
    <3>2. ~d.restoring => Holds(disk["live"], d.m)
      BY <1>hyp, <2>1 DEF Staging
    <3>3. ~d.restoring => d.m \notin Broken
      <4>1. "first" \in Files /\ disk["live"]["first"] \notin Broken
        BY <2>2 DEF Loadable, Fits, Files
      <4> QED BY <1>bool, <1>places, <3>2, <4>1, HeldTree
    <3>4. Staging'
      BY <1>good, <1>up, <2>1, <3>1, <3>2, <3>3 DEF Staging
    <3>5. Place'
      BY <1>live, <1>parked, <1>dir, <2>1, <3>1 DEF Place, Intact, Parked
    <3> QED BY <3>4, <3>5
  <2>3. CASE d.restoring /\ finish("apply_failed")
    <3>1. d'.pc = "idle" /\ d'.restoring = FALSE
      BY <1>fin, <2>3
    <3> QED BY <1>intact, <1>live, <2>1, <2>3, <3>1
  <2>4. CASE ~d.restoring /\ Step("remove")
    <3>1. d'.pc = "remove" /\ d'.restoring = FALSE /\ d'.lived = d.lived
      BY <1>step, <1>bool, <2>4
    <3>2. Staging'
      BY <1>good, <1>up, <2>1, <3>1 DEF Staging
    <3>3. Place'
      BY <1>parked, <1>dir, <2>1, <2>4, <3>1 DEF Place, Parked
    <3> QED BY <3>2, <3>3
  <2> QED BY <1>8, <2>2, <2>3, <2>4 DEF ReloadLoad
<1>9. CASE ReloadSet
  <2>1. d.pc = "set" /\ dir' = "live" /\ Step("swap") /\ UNCHANGED <<disk, good, stranded>>
    BY <1>9 DEF ReloadSet
  <2>2. d'.pc = "swap" /\ d'.m = d.m /\ d'.restoring = d.restoring /\ d'.lived = d.lived
    BY <1>step, <2>1
  <2>3. ~d.restoring => Holds(disk["live"], d.m) /\ d.m \notin Broken
    BY <1>hyp, <2>1 DEF Staging
  <2>4. Staging'
    BY <1>good, <1>up, <2>1, <2>2, <2>3 DEF Staging
  <2>5. Place'
    BY <1>live, <1>parked, <2>1, <2>2 DEF Place, Intact, Parked
  <2> QED BY <2>4, <2>5
<1>10. CASE ReloadSwap
  <2>1. d.pc = "swap" /\ UNCHANGED <<dir, good, stranded, disk>>
    BY <1>10 DEF ReloadSwap
  <2>2. CASE d.restoring /\ finish("apply_failed")
    <3>1. d'.pc = "idle" /\ d'.restoring = FALSE
      BY <1>fin, <2>2
    <3> QED BY <1>intact, <1>live, <2>1, <2>2, <3>1
  <2>3. CASE ~d.restoring /\ Step("done")
    <3>1. d'.pc = "done" /\ d'.m = d.m /\ d'.restoring = d.restoring /\ d'.lived = d.lived
      BY <1>step, <2>3
    <3>2. Holds(disk["live"], d.m) /\ d.m \notin Broken /\ dir = "live"
      BY <1>hyp, <2>1, <2>3 DEF Staging
    <3>3. Staging'
      BY <1>good, <1>up, <2>1, <2>3, <3>1, <3>2 DEF Staging
    <3>4. Place'
      BY <1>parked, <1>dir, <2>1, <2>3, <3>1 DEF Place, Parked
    <3> QED BY <3>3, <3>4
  <2> QED BY <1>10, <2>2, <2>3 DEF ReloadSwap
<1>11. CASE ApplyRemove
  <2>1. d.pc = "remove" /\ d.restoring = FALSE /\ UNCHANGED <<dir, good, stranded>>
    BY <1>11, <1>plain DEF ApplyRemove
  <2>2. disk'["prev"] = disk["prev"]
    BY <1>rec, <1>places, <1>11, RemoveEffect
  <2>3. CASE d' = d \/ Step("restore")
    <3>1. d'.pc \in {"remove", "restore"} /\ d'.restoring = FALSE /\ d'.lived = d.lived
      BY <1>step, <2>1, <2>3
    <3>2. Staging'
      BY <1>good, <1>up, <2>1, <3>1 DEF Staging
    <3>3. Place'
      BY <1>parked, <1>dir, <2>1, <2>2, <3>1 DEF Place, Parked
    <3> QED BY <3>2, <3>3
  <2>4. CASE ~d.lived /\ finish("apply_failed")
    <3>1. d'.pc = "idle" /\ d'.restoring = FALSE
      BY <1>fin, <2>4
    <3>2. ~(good # 0 /\ ~stranded)
      BY <1>parked, <2>1, <2>4
    <3> QED BY <1>intact, <2>1, <3>1, <3>2
  <2> QED BY <1>11, <2>3, <2>4 DEF ApplyRemove
<1>12. CASE ApplyRestore
  <2>1. d.pc = "restore" /\ d.restoring = FALSE /\ UNCHANGED <<dir, good>>
    BY <1>12, <1>plain DEF ApplyRestore
  <2>2. CASE /\ rename("prev", "live") /\ UNCHANGED stranded
             /\ d' = [d EXCEPT !.pc = "load", !.restoring = TRUE]
    <3>1. disk'["live"] = disk["prev"]
      BY <1>rec, <1>places, <2>2, RenameEffect
    <3>2. d'.pc = "load" /\ d'.restoring = TRUE
      BY <1>rec, <2>2 DEF Appliers
    <3>3. Staging'
      BY <1>good, <1>up, <2>1, <3>2 DEF Staging
    <3>4. Place'
      BY <1>parked, <1>dir, <2>1, <2>2, <3>1, <3>2 DEF Place, Intact
    <3> QED BY <3>3, <3>4
  <2>3. CASE stranded' = TRUE /\ finish("apply_failed")
    BY <1>intact, <1>fin, <2>1, <2>3
  <2> QED BY <1>12, <2>2, <2>3 DEF ApplyRestore
<1>13. CASE ApplyDone
  <2>1. /\ d.pc = "done" /\ d.restoring = FALSE /\ dir' = dir /\ finish("ok")
        /\ removeAll("prev") /\ good' = d.m
    BY <1>13, <1>plain DEF ApplyDone
  <2>2. Holds(disk["live"], d.m) /\ d.m \notin Broken /\ dir = "live"
    BY <1>hyp, <2>1 DEF Staging
  <2>3. disk'["live"] = disk["live"]
    BY <1>rec, <1>places, <2>1, RemoveAllEffect
  <2>4. d'.pc = "idle" /\ d'.restoring = FALSE
    BY <1>fin, <2>1
  <2>5. Staging'
    BY <1>up, <2>1, <2>2, <2>4 DEF Staging
  <2>6. Place'
    BY <2>1, <2>2, <2>3, <2>4 DEF Place, Intact
  <2> QED BY <2>5, <2>6
<1> QED BY <1>1, <1>2, <1>3, <1>4, <1>5, <1>6, <1>7, <1>8, <1>9, <1>10, <1>11, <1>12, <1>13
        DEF Apply

\* Every step keeps the good generation; a crash strikes while it is live or
\* leaves it stranded, and a start loads it.
LEMMA KeptInductive ==
    ASSUME \A e \in Editable : e[1] # "live"
    PROVE  Kept /\ [Next]_vars => Kept'
<1> SUFFICES ASSUME Kept, [Next]_vars PROVE Staging' /\ Place'
  BY TypesInductive DEF Kept
<1>hyp. Types /\ Staging /\ Place
  BY DEF Kept
<1>rec. d \in Appliers /\ disk \in Disks /\ good \in Nat /\ stranded \in BOOLEAN
  BY <1>hyp DEF Types
<1>live. disk["live"] \in Trees /\ good \notin Broken
  BY <1>hyp, <1>rec DEF Places, Disks, Staging
<1>idle. DIdle.pc = "idle" /\ DIdle.restoring = FALSE
  BY IdleTypes
<1>rest. ASSUME d.pc = "idle" PROVE d.restoring = FALSE
  BY <1>hyp, <1>rec, <1>rest DEF Staging, Appliers
\* Steps outside Apply of a goroutine that is, and stays, before it.
<1>before. ASSUME UNCHANGED <<disk, good, stranded>>, start' # "up" => d'.pc = "idle",
                  d.pc \in {"idle", "fetch"}, d'.pc \in {"idle", "fetch", "clean"},
                  d'.restoring = FALSE,
                  good # 0 /\ ~stranded /\ start' = "up" => dir' = "live"
           PROVE  Staging' /\ Place'
  <2>1. Staging'
    BY <1>live, <1>before DEF Staging
  <2>2. good # 0 /\ ~stranded => Holds(disk["live"], good)
    BY <1>hyp, <1>before DEF Place, Intact
  <2>3. Place'
    BY <1>before, <2>2 DEF Place, Intact
  <2> QED BY <2>1, <2>3
<1> USE DEF storeVars, world, harm
<1>1. CASE WatchStep \/ RedisLeaves \/ RedisReturns \/ Publish \/ DeleteKey \/ UNCHANGED vars
  <2>1. UNCHANGED <<d, good, stranded, start, dir, disk>>
    BY <1>1 DEF WatchStep, watchMissing, watchLook, watchSame, watchList, watchLoadProfile,
       watchLoadLists, setPrint, watchSwap, RedisLeaves, RedisReturns, Publish, DeleteKey, vars
  <2> QED BY <1>hyp, <2>1, KeptElsewhere
<1>2. ASSUME NEW e \in Editable, NEW v \in Edits, Edit(e[1], e[2], v)
      PROVE  Staging' /\ Place'
  <2>1. UNCHANGED <<d, good, stranded, start, dir>>
    BY <1>2 DEF Edit
  <2>2. e[1] = "boot"
    BY RolloutAssumption
  <2>3. disk'["live"] = disk["live"] /\ disk'["next"] = disk["next"] /\ disk'["prev"] = disk["prev"]
    BY <1>rec, <1>2, <2>2, EditEffect DEF Places
  <2> QED BY <1>hyp, <2>1, <2>3, KeptElsewhere
<1>3. CASE Crash
  <2>1. /\ d' = DIdle /\ start' = "load" /\ UNCHANGED <<disk, good>>
        /\ stranded' = (stranded \/ ~Holds(disk["live"], good))
    BY <1>3 DEF Crash
  <2>2. d'.pc = "idle" /\ d'.restoring = FALSE
    BY <1>idle, <2>1
  <2>3. Staging'
    BY <1>live, <2>1, <2>2 DEF Staging
  <2>4. Place'
    BY <2>1, <2>2 DEF Place, Intact
  <2> QED BY <2>3, <2>4
<1>4. CASE StartStep
  <2>1. CASE NewStoreFails
    BY <1>1, <2>1 DEF NewStoreFails
  <2>2. CASE NewStoreLoad \/ NewStorePrint \/ Bootstrap
    <3>1. /\ start # "up" /\ UNCHANGED <<disk, good, stranded>>
          /\ d' = d \/ d' = DIdle \/ d' = [d EXCEPT !.tree = Loaded(disk["live"])]
      BY <2>2 DEF NewStoreLoad, NewStorePrint, Bootstrap
    <3>2. d.pc = "idle" /\ d.restoring = FALSE
      BY <1>hyp, <1>rest, <3>1 DEF Staging
    <3>3. d'.pc = "idle" /\ d'.restoring = FALSE
      <4>1. CASE d' = [d EXCEPT !.tree = Loaded(disk["live"])]
        BY <1>rec, <3>2, <4>1 DEF Appliers
      <4> QED BY <1>idle, <3>1, <3>2, <4>1
    <3>4. good # 0 /\ ~stranded => Loadable(disk["live"])
      <4>1. good # 0 /\ ~stranded => Holds(disk["live"], good)
        BY <1>hyp, <3>2 DEF Place, Intact
      <4> QED BY <1>rec, <1>live, <4>1, HeldTree
    <3>5. good # 0 /\ ~stranded /\ start' = "up" => dir' = "live"
      BY <2>2, <3>4 DEF NewStoreLoad, NewStorePrint, Bootstrap
    <3> QED BY <1>before, <3>1, <3>2, <3>3, <3>5
  <2> QED BY <1>4, <2>1, <2>2 DEF StartStep
<1>dir. good # 0 /\ ~stranded /\ start = "up" => dir = "live"
  BY <1>hyp DEF Place
<1>5. CASE Receive \/ Retry
  <2>1. /\ start = "up" /\ d.pc = "idle" /\ UNCHANGED <<disk, good, stranded, start, dir>>
        /\ \/ d' = d \/ d' = DIdle \/ \E m \in {pending, Head(updates)} :
                                         d' = [DIdle EXCEPT !.pc = "fetch", !.m = m]
    BY <1>5 DEF Receive, Retry, handle
  <2>2. d'.pc \in {"idle", "fetch"} /\ d'.restoring = FALSE
    <3>1. CASE \E m \in {pending, Head(updates)} : d' = [DIdle EXCEPT !.pc = "fetch", !.m = m]
      BY <3>1 DEF DIdle
    <3> QED BY <1>idle, <1>rest, <2>1, <3>1
  <2> QED BY <1>before, <1>dir, <2>1, <2>2
<1>6. CASE FetchLists
  <2>1. /\ d.pc = "fetch" /\ UNCHANGED <<disk, good, stranded, start, dir>>
        /\ finish("apply_failed") \/ d' = [d EXCEPT !.pc = "clean"]
    BY <1>6 DEF FetchLists
  <2>2. d.restoring = FALSE
    BY <1>hyp, <1>rec, <2>1 DEF Staging, Appliers
  <2>3. d'.pc \in {"idle", "clean"} /\ d'.restoring = FALSE
    <3>1. CASE finish("apply_failed")
      BY <1>idle, <3>1 DEF finish
    <3>2. CASE d' = [d EXCEPT !.pc = "clean"]
      BY <1>rec, <2>2, <3>2 DEF Appliers
    <3> QED BY <2>1, <3>1, <3>2
  <2>4. start = "up"
    BY <1>hyp, <2>1 DEF Staging
  <2> QED BY <1>before, <1>dir, <2>1, <2>3, <2>4
<1>7. CASE Apply
  BY <1>7, KeptByApply
<1> QED BY <1>1, <1>2, <1>3, <1>4, <1>5, <1>6, <1>7 DEF Next, DesiredStep

\* When nobody edits the live directory by hand, the last generation applied stays
\* whole on disk through every step of Apply and through crashes and restarts, and
\* it is live, in the directory the store reads, whenever the process is up and no
\* Apply is under way, unless the rename that brings it back failed or a crash
\* struck while it was parked.
THEOREM LastGoodWhole ==
    (\A e \in Editable : e[1] # "live") => (Spec => []LastGoodKept)
<1> SUFFICES ASSUME \A e \in Editable : e[1] # "live" PROVE Spec => []LastGoodKept
  OBVIOUS
<1>1. Init => Kept
  <2> SUFFICES ASSUME Init PROVE Kept
    OBVIOUS
  <2>1. Types
    BY InitTypes
  <2>2. d.pc = "idle" /\ d.restoring = FALSE /\ good = 0
    BY DEF Init, DIdle
  <2>3. 0 \notin Broken
    BY RolloutAssumption
  <2>4. Staging /\ Place
    BY <2>2, <2>3 DEF Staging, Place
  <2> QED BY <2>1, <2>4 DEF Kept
<1>2. Kept /\ [Next]_vars => Kept'
  BY KeptInductive
<1>3. Kept => LastGoodKept
  <2> SUFFICES ASSUME Kept, good # 0, ~stranded
               PROVE  /\ Holds(disk["live"], good) \/ Holds(disk["prev"], good)
                      /\ start = "up" /\ d.pc = "idle" =>
                            Holds(disk["live"], good) /\ dir = "live"
    BY DEF LastGoodKept
  <2>1. d.pc \in DesiredLabels
    BY DEF Kept, Types, Appliers
  <2> QED BY <2>1 DEF Kept, Place, Intact, Parked, DesiredLabels, ApplyLabels
<1> QED BY <1>1, <1>2, <1>3, PTL DEF Spec

=============================================================================
