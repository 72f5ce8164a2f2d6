------------------------------- MODULE Mirror -------------------------------
(***************************************************************************)
(* The mirror of one live list (internal/livelist/livelist.go): a          *)
(* goroutine per list follows the frames of the keeper, reads packages and *)
(* snapshots from Redis and gives the workers a list to look values up in. *)
(*                                                                         *)
(* The keeper is external and modelled from what the mirror reads: epochs  *)
(* (a restart begins one), numbered changes, a frame for each change and   *)
(* ticks that repeat the last number. Frames arrive in order; they may be  *)
(* lost or dropped at the limit of the queue. A package is a change of the *)
(* list, kept in Redis under its number alone until it is gone. A hash     *)
(* stands for the list it was computed from (no collisions).               *)
(*                                                                         *)
(* Assumed of the keeper: the object it names in answer to a request is    *)
(* the list as it was at the request. The mirror takes what it is given    *)
(* (snapshot compares no numbers): an older one would take it back.        *)
(***************************************************************************)
EXTENDS Integers, Sequences

CONSTANTS
    Value,      \* values of the list
    Odd,        \* values whose hash the mirror cannot reproduce
    MaxEpoch,   \* bound: epochs of the keeper
    MaxSeq,     \* bound: changes in an epoch
    QueueDepth, \* capacity of st.in
    Batch,      \* packagesPerRead
    MaxLosses,  \* bound: frames lost
    MaxFaults   \* bound: failed requests and reads, malformed frames and objects,
                \*        packages gone

ASSUME MirrorAssumption ==
    /\ Odd \subseteq Value
    /\ {MaxEpoch, QueueDepth, Batch} \subseteq Nat \ {0}
    /\ {MaxSeq, MaxLosses, MaxFaults} \subseteq Nat

VARIABLES
    hist,    \* hist[e]: the lists of epoch e, one for each number from 0 on
    store,   \* store[n]: the epoch of the package under number n, 0: none
    in,      \* st.in
    pc,      \* where the goroutine of the list is
    ready, epoch, seq, list,  \* the fields of set; list is comp
    snapBad, \* the last snapshot did not have its own hash
    upto,    \* catchUp: the frame to catch up with
    objs,    \* catchUp: packages read and not yet applied
    ref,     \* snapshot: the object named by the keeper
    losses, faults

keeper == <<hist, store>>
local == <<ready, epoch, seq, list, snapBad>>
vars == <<keeper, in, pc, local, upto, objs, ref, losses, faults>>

Epochs == 1 .. MaxEpoch
Point == [epoch : Epochs, seq : 0 .. MaxSeq]
Frame == [op : {"diff", "tick", "resync"}, at : Point, inline : BOOLEAN]

TypeOK ==
    /\ hist \in Seq(Seq(SUBSET Value)) /\ Len(hist) \in Epochs
    /\ store \in [1 .. MaxSeq -> 0 .. MaxEpoch]
    /\ in \in Seq(Frame) /\ Len(in) <= QueueDepth
    /\ pc \in {"idle", "snapshot", "object", "read", "apply"}
    /\ ready \in BOOLEAN /\ snapBad \in BOOLEAN
    /\ epoch \in 0 .. MaxEpoch /\ seq \in 0 .. MaxSeq
    /\ list \in SUBSET Value
    /\ upto \in Point /\ ref \in Point
    /\ objs \in Seq(0 .. MaxEpoch) /\ Len(objs) <= Batch
    /\ losses \in 0 .. MaxLosses /\ faults \in 0 .. MaxFaults

\* Ensure: the subscription exists before run asks for the first snapshot.
Init ==
    /\ hist = <<<<{}>>>>
    /\ store = [n \in 1 .. MaxSeq |-> 0]
    /\ in = <<>>
    /\ pc = "snapshot"
    /\ ready = FALSE /\ epoch = 0 /\ seq = 0 /\ list = {} /\ snapBad = FALSE
    /\ upto = [epoch |-> 1, seq |-> 0] /\ ref = upto
    /\ objs = <<>>
    /\ losses = 0 /\ faults = 0

-----------------------------------------------------------------------------
(* The keeper and the bus.                                                 *)

\* The keeper's list at a point, and where the keeper is.
At(p) == hist[p.epoch][p.seq + 1]
Now == [epoch |-> Len(hist), seq |-> Len(hist[Len(hist)]) - 1]

\* Defect: the callback of the subscription does not look at the capacity.
Deliver_unbounded(f) == in' = Append(in, f) /\ UNCHANGED losses

\* The callback of the subscription: a frame that finds the queue full is dropped.
\* The bus may lose it before.
Deliver(f) ==
    \/ /\ in' = IF Len(in) < QueueDepth THEN Append(in, f) ELSE in
       /\ UNCHANGED losses
    \/ losses < MaxLosses /\ losses' = losses + 1 /\ UNCHANGED in

mirror == <<pc, local, upto, objs, ref>>

\* A value is added or removed: the package is stored, the frame may carry it.
KeeperDiff(v) ==
    /\ Now.seq < MaxSeq
    /\ LET next == IF v \in At(Now) THEN At(Now) \ {v} ELSE At(Now) \cup {v}
           n == Now.seq + 1
       IN  /\ hist' = [hist EXCEPT ![Now.epoch] = Append(@, next)]
           /\ store' = [store EXCEPT ![n] = Now.epoch]
           /\ \E b \in BOOLEAN :
                 Deliver([op |-> "diff", at |-> [epoch |-> Now.epoch, seq |-> n], inline |-> b])
    /\ UNCHANGED <<mirror, faults>>

KeeperTick ==
    /\ Deliver([op |-> "tick", at |-> Now, inline |-> FALSE])
    /\ UNCHANGED <<keeper, mirror, faults>>

\* A restart: a new epoch from number 0 on, with the list it had.
KeeperRestart ==
    /\ Now.epoch < MaxEpoch
    /\ hist' = Append(hist, <<At(Now)>>)
    /\ UNCHANGED <<store, in, mirror, losses, faults>>

\* A package's time in Redis is over.
PackageGone(n) ==
    /\ store[n] # 0 /\ faults < MaxFaults
    /\ store' = [store EXCEPT ![n] = 0]
    /\ faults' = faults + 1
    /\ UNCHANGED <<hist, in, mirror, losses>>

\* resync: every two seconds a list that is not ready is reminded to try again.
resync ==
    /\ ~ready /\ Len(in) < QueueDepth
    /\ in' = Append(in, [op |-> "resync", at |-> upto, inline |-> FALSE])
    /\ UNCHANGED <<keeper, mirror, losses, faults>>

-----------------------------------------------------------------------------
(* verify and applyPackage.                                                *)

\* Defect: a mirror that cannot go on waits for the next frame instead.
Resnap_never == "idle"

\* Every call of snapshot is the last thing its caller does. A list whose snapshot
\* was bad takes no other in this epoch.
Resnap == IF snapBad THEN "idle" ELSE "snapshot"

\* verify: the hash of a list against the one a frame or a package carries.
verify(mine, p, next) == pc' = IF mine = At(p) THEN next ELSE Resnap

\* composition.apply over the records of the package at point p.
Patch(l, p) ==
    LET before == hist[p.epoch][p.seq]
    IN  ((l \cup (At(p) \ before)) \ (before \ At(p))) \ Odd

\* Defect: the header of the package is not compared with the list's epoch.
applyPackage_any_epoch(p, next) ==
    /\ list' = Patch(list, p) /\ seq' = p.seq
    /\ verify(list', p, next)

\* A package of another epoch sits under the same number after a restart.
applyPackage(p, next) ==
    IF p.epoch # epoch THEN pc' = Resnap /\ UNCHANGED <<list, seq>>
    ELSE /\ list' = Patch(list, p) /\ seq' = p.seq
         /\ verify(list', p, next)

-----------------------------------------------------------------------------
(* onFrame.                                                                *)

\* The package of the next number rides inside the frame.
Rides(f) == f.op = "diff" /\ f.inline /\ f.at.seq = seq + 1

Behind(f) == f.at.seq < seq

Take == pc = "idle" /\ in # <<>> /\ in' = Tail(in)
F == Head(in)

\* Nothing is known yet, or the keeper has restarted: take a snapshot.
FrameSnapshot ==
    /\ Take
    /\ ~ready \/ (F.op # "resync" /\ F.at.epoch # epoch)
    /\ snapBad' = FALSE
    /\ pc' = "snapshot"
    /\ UNCHANGED <<keeper, ready, epoch, seq, list, upto, objs, ref, losses, faults>>

\* A frame of the epoch the mirror is in.
TakeKnown == Take /\ ready /\ F.op # "resync" /\ F.at.epoch = epoch

FrameIgnored ==
    /\ \/ Take /\ ready /\ F.op = "resync"
       \/ TakeKnown /\ Behind(F)
    /\ UNCHANGED <<keeper, mirror, losses, faults>>

\* A frame of another version, or with an epoch that is not a number.
FrameUnread ==
    /\ Take /\ F.op # "resync"
    /\ faults < MaxFaults /\ faults' = faults + 1
    /\ UNCHANGED <<keeper, mirror, losses>>

FrameVerify ==
    /\ TakeKnown /\ ~Behind(F) /\ F.at.seq = seq
    /\ verify(list, F.at, "idle")
    /\ UNCHANGED <<keeper, local, upto, objs, ref, losses, faults>>

FrameInline ==
    /\ TakeKnown /\ ~Behind(F) /\ F.at.seq # seq /\ Rides(F)
    /\ applyPackage(F.at, "idle")
    /\ UNCHANGED <<keeper, ready, epoch, snapBad, upto, objs, ref, losses, faults>>

\* The package in the frame is decoded and cannot be unpacked.
FrameMalformed ==
    /\ TakeKnown /\ ~Behind(F) /\ F.at.seq # seq /\ Rides(F)
    /\ faults < MaxFaults /\ faults' = faults + 1
    /\ pc' = Resnap
    /\ UNCHANGED <<keeper, local, upto, objs, ref, losses>>

\* A number further ahead, or a package in the frame that is not base64.
FrameAhead ==
    /\ TakeKnown /\ ~Behind(F) /\ F.at.seq # seq
    /\ \/ ~Rides(F) /\ UNCHANGED faults
       \/ Rides(F) /\ faults < MaxFaults /\ faults' = faults + 1
    /\ upto' = F.at
    /\ pc' = "read"
    /\ UNCHANGED <<keeper, local, objs, ref, losses>>

-----------------------------------------------------------------------------
(* catchUp.                                                                *)

CatchUpRead ==
    /\ pc = "read" /\ seq < upto.seq
    /\ LET n == IF upto.seq - seq > Batch THEN Batch ELSE upto.seq - seq
       IN  objs' = [i \in 1 .. n |-> store[seq + i]]
    /\ pc' = "apply"
    /\ UNCHANGED <<keeper, in, local, upto, ref, losses, faults>>

CatchUpEnd ==
    /\ pc = "read" /\ seq >= upto.seq
    /\ verify(list, upto, "idle")
    /\ UNCHANGED <<keeper, in, local, upto, objs, ref, losses, faults>>

\* One package of those read; the first that is gone ends the catching up.
CatchUpApply ==
    /\ pc = "apply"
    /\ IF objs = <<>> THEN pc' = "read" /\ UNCHANGED <<list, seq, objs>>
       ELSE IF Head(objs) = 0
       THEN pc' = Resnap /\ objs' = <<>> /\ UNCHANGED <<list, seq>>
       ELSE /\ applyPackage([epoch |-> Head(objs), seq |-> seq + 1], "apply")
            /\ objs' = IF pc' = "apply" THEN Tail(objs) ELSE <<>>
    /\ UNCHANGED <<keeper, in, ready, epoch, snapBad, upto, ref, losses, faults>>

-----------------------------------------------------------------------------
(* snapshot.                                                               *)

\* The keeper answers with its list of the moment (assumed, see above).
SnapshotRequest ==
    /\ pc = "snapshot"
    /\ ref' = Now
    /\ pc' = "object"
    /\ UNCHANGED <<keeper, in, local, upto, objs, losses, faults>>

\* The fields of the set are replaced under one lock.
Install(p) ==
    /\ ready' = TRUE /\ epoch' = p.epoch /\ seq' = p.seq
    /\ list' = At(p) \ Odd
    /\ snapBad' = (list' # At(p))

SnapshotObject ==
    /\ pc = "object"
    /\ Install(ref)
    /\ pc' = "idle"
    /\ UNCHANGED <<keeper, in, upto, objs, ref, losses, faults>>

\* A request without an answer or with a refusal, an object that is gone or
\* malformed, a read of packages that failed: the goroutine waits for the next
\* frame. A malformed package is followed by a snapshot.
Fault ==
    /\ pc \in {"snapshot", "object", "read", "apply"} /\ faults < MaxFaults
    /\ pc = "read" => seq < upto.seq
    /\ pc = "apply" => objs # <<>> /\ Head(objs) # 0
    /\ pc' = IF pc = "apply" THEN Resnap ELSE "idle"
    /\ objs' = <<>>
    /\ faults' = faults + 1
    /\ UNCHANGED <<keeper, in, local, upto, ref, losses>>

-----------------------------------------------------------------------------
Run == \/ FrameSnapshot \/ FrameIgnored \/ FrameUnread \/ FrameVerify
       \/ FrameInline \/ FrameMalformed \/ FrameAhead
       \/ CatchUpRead \/ CatchUpEnd \/ CatchUpApply
       \/ SnapshotRequest \/ SnapshotObject \/ Fault

Keeper == (\E v \in Value : KeeperDiff(v)) \/ KeeperTick \/ KeeperRestart
            \/ \E n \in 1 .. MaxSeq : PackageGone(n)

Next == Run \/ Keeper \/ resync

Spec == Init /\ [][Next]_vars

\* run never waits for anything but frames, its timeouts end every call, the timer
\* of resync keeps going, and the keeper ticks for ever.
FairSpec == Spec /\ WF_vars(Run) /\ WF_vars(resync) /\ WF_vars(KeeperTick)

-----------------------------------------------------------------------------
(* Properties.                                                             *)

\* The mirror implements Follower: what a worker finds is the keeper's list exactly
\* as it was at the epoch and number the mirror claims (up to the values it cannot
\* reproduce), whatever was lost, late, gone or left over from another epoch, never
\* a mixture of two states; and it never goes back to an older epoch or number,
\* although frames and packages of the past are still under way.
Readers == INSTANCE Follower WITH
    view <- IF ready THEN [at |-> <<epoch, seq + 1>>, list |-> list]
            ELSE [at |-> <<0, 0>>, list |-> {}]
Follows == Readers!Spec

\* Once the keeper changes nothing more, and with failures at an end, the mirror
\* follows the keeper's epoch for good and has its list, unless it is in the state
\* in which it cannot reproduce the hashes of this epoch.
CatchesUp ==
    <>[](/\ ready /\ epoch = Now.epoch
         /\ snapBad \/ (seq = Now.seq /\ list = At(Now)))
=============================================================================
