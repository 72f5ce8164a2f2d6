---------------------------- MODULE MirrorProofs ----------------------------
(***************************************************************************)
(* Theorems about Mirror, for every set of values, every number of epochs  *)
(* and changes, every depth of the queue and size of a batch, and any      *)
(* number of lost frames and faults.                                       *)
(***************************************************************************)
EXTENDS Mirror, SequenceTheorems, TLAPS

\* A point the keeper has been at.
PastIn(h, p) == p.epoch \in DOMAIN h /\ p.seq \in 0 .. Len(h[p.epoch]) - 1
Past(p) == PastIn(hist, p)

\* The keeper's past has no empty epoch and stays within its bounds.
Recorded ==
    /\ hist \in Seq(Seq(SUBSET Value))
    /\ Len(hist) \in Epochs
    /\ \A e \in DOMAIN hist : Len(hist[e]) \in 1 .. MaxSeq + 1

\* Frames, packages and what the goroutine has in hand speak of the past. A
\* package read for number seq + i is kept in objs[i] while seq follows.
UnderWay ==
    /\ \A n \in 1 .. MaxSeq : store[n] # 0 => Past([epoch |-> store[n], seq |-> n])
    /\ \A i \in DOMAIN in : Past(in[i].at)
    /\ Past(upto) /\ Past(ref)
    /\ pc # "apply" => objs = <<>>
    /\ \A i \in DOMAIN objs : objs[i] # 0 => Past([epoch |-> objs[i], seq |-> seq + i])

Mine == [epoch |-> epoch, seq |-> seq]

\* The list is the keeper's at the point the mirror claims, and the snapshot the
\* goroutine waits for is not older.
Exact ==
    /\ ready => Past(Mine) /\ list = At(Mine) \ Odd
    /\ pc \in {"read", "apply"} => ready
    /\ ready /\ pc = "object" =>
           ref.epoch > epoch \/ (ref.epoch = epoch /\ ref.seq >= seq)

Inv == TypeOK /\ Recorded /\ UnderWay /\ Exact

-----------------------------------------------------------------------------
(* Facts about the operators.                                              *)

\* The bounds are numbers.
LEMMA Bounds ==
    /\ MaxEpoch \in Nat \ {0} /\ QueueDepth \in Nat \ {0} /\ Batch \in Nat \ {0}
    /\ MaxSeq \in Nat /\ MaxLosses \in Nat /\ MaxFaults \in Nat
    /\ Odd \subseteq Value
  BY MirrorAssumption

\* Where the keeper is belongs to its past, and nothing of it comes later.
LEMMA NowIsLast ==
    ASSUME Recorded
    PROVE  /\ Past(Now) /\ Now \in Point
           /\ \A e, n : Past([epoch |-> e, seq |-> n]) =>
                  e < Now.epoch \/ (e = Now.epoch /\ n <= Now.seq)
<1> DEFINE l == Len(hist)
<1>1. /\ l \in Epochs /\ l \in DOMAIN hist /\ DOMAIN hist = 1 .. l
      /\ Len(hist[l]) \in 1 .. MaxSeq + 1
  BY Bounds DEF Recorded, Epochs
<1>2. Past(Now) /\ Now \in Point
  BY <1>1, Bounds DEF Past, PastIn, Now, Point
<1>3. ASSUME NEW e, NEW n, Past([epoch |-> e, seq |-> n])
      PROVE  e < Now.epoch \/ (e = Now.epoch /\ n <= Now.seq)
  <2>1. e \in 1 .. l /\ n \in 0 .. Len(hist[e]) - 1
    BY <1>1, <1>3 DEF Past, PastIn
  <2>2. Now.epoch = l /\ Now.seq = Len(hist[l]) - 1
    BY DEF Now
  <2>3. CASE e = l
    BY <1>1, <2>1, <2>2, <2>3
  <2>4. CASE e # l
    <3>1. l \in Nat /\ e \in 1 .. l
      BY <1>1, <2>1, Bounds DEF Epochs
    <3>2. e < l
      BY <2>4, <3>1
    <3> QED BY <2>2, <3>2
  <2> QED BY <2>3, <2>4
<1> QED BY <1>2, <1>3

\* A point of the past is a point, and its list is a list of values.
LEMMA PastIsPoint ==
    ASSUME Recorded, NEW e, NEW n, Past([epoch |-> e, seq |-> n])
    PROVE  /\ e \in Epochs /\ n \in 0 .. MaxSeq
           /\ hist[e][n + 1] \in SUBSET Value
<1>1. e \in 1 .. Len(hist) /\ Len(hist[e]) \in 1 .. MaxSeq + 1 /\ hist[e] \in Seq(SUBSET Value)
  BY DEF Past, PastIn, Recorded
<1>2. n \in 0 .. Len(hist[e]) - 1
  BY DEF Past, PastIn
<1> QED BY <1>1, <1>2, Bounds DEF Epochs, Recorded

\* Applying the package of the next number to the list of a point gives the list of
\* the next point, up to the values the mirror cannot reproduce.
LEMMA PatchIsNext ==
    ASSUME NEW p, NEW l, l = hist[p.epoch][p.seq] \ Odd
    PROVE  Patch(l, p) = At(p) \ Odd
  BY DEF Patch, At

\* One package: the list stays, or becomes the list of the next number.
LEMMA ApplyIsNext ==
    ASSUME Inv, ready, NEW p, p.seq = seq + 1, NEW next, applyPackage(p, next)
    PROVE  /\ pc' \in {next, "idle", "snapshot"}
           /\ \/ pc' \in {"idle", "snapshot"} /\ UNCHANGED <<list, seq>>
              \/ p.epoch = epoch /\ seq' = seq + 1 /\ list' = At(p) \ Odd
<1>1. Resnap \in {"idle", "snapshot"}
  BY DEF Resnap
<1>2. CASE p.epoch # epoch
  BY <1>1, <1>2 DEF applyPackage
<1>3. CASE p.epoch = epoch
  <2>1. list = hist[p.epoch][p.seq] \ Odd
    BY <1>3 DEF Inv, Exact, At, Mine
  <2>2. Patch(list, p) = At(p) \ Odd
    BY <2>1, PatchIsNext
  <2> QED BY <1>1, <1>3, <2>2 DEF applyPackage, verify
<1> QED BY <1>2, <1>3

\* The queue after a delivery: what was there, and the frame or not.
LEMMA DeliverTypes ==
    ASSUME TypeOK, NEW f \in Frame, Deliver(f)
    PROVE  /\ in' \in Seq(Frame) /\ Len(in') <= QueueDepth
           /\ losses' \in 0 .. MaxLosses
           /\ \A i \in DOMAIN in' : in'[i] = f \/ (i \in DOMAIN in /\ in'[i] = in[i])
<1>1. CASE UNCHANGED in
  BY <1>1, Bounds DEF Deliver, TypeOK
<1>2. CASE in' = Append(in, f) /\ Len(in) < QueueDepth /\ UNCHANGED losses
  <2>1. in \in Seq(Frame) /\ Len(in) \in Nat
    BY DEF TypeOK
  <2>2. in' \in Seq(Frame) /\ Len(in') = Len(in) + 1
    BY <1>2, <2>1
  <2>3. \A i \in 1 .. Len(in) + 1 : in'[i] = IF i = Len(in) + 1 THEN f ELSE in[i]
    BY <1>2, <2>1
  <2> QED BY <1>2, <2>1, <2>2, <2>3, Bounds DEF TypeOK
<1> QED BY <1>1, <1>2 DEF Deliver

\* Taking a frame off the queue keeps the types.
LEMMA TakeTypes ==
    ASSUME TypeOK, Take
    PROVE  /\ in' \in Seq(Frame) /\ Len(in') <= QueueDepth
           /\ F \in Frame /\ 1 \in DOMAIN in /\ F = in[1]
           /\ \A i \in DOMAIN in' : i + 1 \in DOMAIN in /\ in'[i] = in[i + 1]
<1>1. in \in Seq(Frame) /\ in # <<>> /\ in' = Tail(in) /\ Len(in) <= QueueDepth
  BY DEF TypeOK, Take
<1>2. in' \in Seq(Frame) /\ Len(in') = Len(in) - 1
  BY <1>1
<1>3. \A i \in 1 .. Len(in) - 1 : in'[i] = in[i + 1]
  BY <1>1
<1> QED BY <1>1, <1>2, <1>3, Bounds DEF F

-----------------------------------------------------------------------------
(* The invariant.                                                          *)

\* A mirror that was just subscribed satisfies the invariant.
LEMMA InitInv == Init => Inv
<1> SUFFICES ASSUME Init PROVE Inv
  OBVIOUS
<1>1. Recorded
  <2>1. <<{}>> \in Seq(SUBSET Value) /\ Len(<<{}>>) = 1
    OBVIOUS
  <2>2. hist \in Seq(Seq(SUBSET Value)) /\ Len(hist) = 1 /\ hist[1] = <<{}>>
    BY <2>1 DEF Init
  <2>3. \A e \in DOMAIN hist : Len(hist[e]) = 1
    BY <2>1, <2>2
  <2>4. 1 \in 1 .. MaxSeq + 1 /\ 1 \in 1 .. MaxEpoch
    BY Bounds
  <2> QED BY <2>2, <2>3, <2>4 DEF Recorded, Epochs
<1>2. TypeOK
  <2>1. hist \in Seq(Seq(SUBSET Value)) /\ Len(hist) \in Epochs
    BY <1>1 DEF Recorded
  <2>2. /\ upto \in Point /\ ref \in Point
        /\ in \in Seq(Frame) /\ Len(in) <= QueueDepth
        /\ objs \in Seq(0 .. MaxEpoch) /\ Len(objs) <= Batch
    BY Bounds DEF Init, Point, Epochs
  <2>3. /\ store \in [1 .. MaxSeq -> 0 .. MaxEpoch]
        /\ epoch \in 0 .. MaxEpoch /\ seq \in 0 .. MaxSeq
        /\ losses \in 0 .. MaxLosses /\ faults \in 0 .. MaxFaults
    BY Bounds DEF Init
  <2> QED BY <2>1, <2>2, <2>3 DEF Init, TypeOK
<1>3. UnderWay
  BY Bounds DEF Init, UnderWay, Past, PastIn
<1>4. Exact
  BY DEF Init, Exact
<1> QED BY <1>1, <1>2, <1>3, <1>4 DEF Inv

\* The keeper's past only grows: a point stays a point, with its list.
LEMMA PastStays ==
    ASSUME Recorded,
           \/ \E v \in Value : KeeperDiff(v)
           \/ KeeperRestart
    PROVE  /\ Recorded'
           /\ \A p : Past(p) => PastIn(hist', p) /\ At(p)' = At(p)
           /\ \A v \in Value : \A p : KeeperDiff(v) /\ p.epoch = Now.epoch /\ p.seq = Now.seq + 1
                  => PastIn(hist', p)
<1> DEFINE l == Len(hist)
           H == Seq(SUBSET Value)
<1>1. l \in 1 .. MaxEpoch /\ DOMAIN hist = 1 .. l /\ hist \in Seq(H) /\ l \in Nat
  BY Bounds DEF Recorded, Epochs
<1>2. \A e \in 1 .. l : hist[e] \in H /\ Len(hist[e]) \in 1 .. MaxSeq + 1
  <2>1. \A e \in 1 .. l : Len(hist[e]) \in 1 .. MaxSeq + 1
    BY <1>1 DEF Recorded
  <2> HIDE DEF H
  <2>2. \A e \in 1 .. l : hist[e] \in H
    BY <1>1, ElementOfSeq
  <2> QED BY <2>1, <2>2
<1>3. At(Now) \in SUBSET Value /\ Now.epoch = l /\ Now.seq = Len(hist[l]) - 1
  BY <1>1, <1>2, Bounds DEF At, Now
<1>4. ASSUME NEW p, Past(p)
      PROVE  /\ p.epoch \in 1 .. l /\ p.seq + 1 \in 1 .. Len(hist[p.epoch])
             /\ p.seq \in Nat /\ Len(hist[p.epoch]) \in Nat
  <2>1. p.epoch \in 1 .. l /\ p.seq \in 0 .. Len(hist[p.epoch]) - 1
    BY <1>1, <1>4 DEF Past, PastIn
  <2>2. Len(hist[p.epoch]) \in Nat
    BY <1>2, <2>1, Bounds
  <2> QED BY <2>1, <2>2
\* What is left to show of a longer past.
<1>5. ASSUME NEW m \in 1 .. MaxEpoch, hist' \in Seq(H), Len(hist') = m, l <= m,
             \A e \in 1 .. m : Len(hist'[e]) \in 1 .. MaxSeq + 1,
             \A e \in 1 .. l : /\ Len(hist[e]) <= Len(hist'[e])
                               /\ \A i \in 1 .. Len(hist[e]) : hist'[e][i] = hist[e][i]
      PROVE  Recorded' /\ \A p : Past(p) => PastIn(hist', p) /\ At(p)' = At(p)
  <2>1. DOMAIN hist' = 1 .. m
    BY <1>5
  <2>2. Recorded'
    BY <1>5, <2>1 DEF Recorded, Epochs
  <2>3. ASSUME NEW p, Past(p)
        PROVE  PastIn(hist', p) /\ At(p)' = At(p)
    <3>1. /\ p.epoch \in 1 .. l /\ p.seq + 1 \in 1 .. Len(hist[p.epoch])
          /\ p.seq \in Nat /\ Len(hist[p.epoch]) \in Nat
      BY <1>4, <2>3
    <3>2. p.epoch \in 1 .. m
      BY <1>1, <1>5, <3>1, Bounds
    <3>3. Len(hist[p.epoch]) <= Len(hist'[p.epoch]) /\ Len(hist'[p.epoch]) \in Nat
      BY <1>5, <3>1, <3>2, Bounds
    <3>4. hist'[p.epoch][p.seq + 1] = hist[p.epoch][p.seq + 1]
      BY <1>5, <3>1
    <3>5. p.seq \in 0 .. Len(hist'[p.epoch]) - 1
      BY <3>1, <3>3
    <3> QED BY <2>1, <3>2, <3>4, <3>5 DEF Past, PastIn, At
  <2> QED BY <2>2, <2>3
<1>6. CASE \E v \in Value : KeeperDiff(v)
  <2>1. PICK v \in Value : KeeperDiff(v)
    BY <1>6
  <2> DEFINE next == IF v \in At(Now) THEN At(Now) \ {v} ELSE At(Now) \cup {v}
             longer == Append(hist[l], next)
  <2>2. next \in SUBSET Value
    BY <1>3
  <2>3. hist' = [hist EXCEPT ![l] = longer] /\ Len(hist[l]) - 1 < MaxSeq
    BY <1>1, <1>3, <2>1 DEF KeeperDiff
  <2> HIDE DEF next
  <2>4. hist[l] \in H /\ Len(hist[l]) \in Nat /\ l \in 1 .. l
    BY <1>1, <1>2, Bounds
  <2>5. /\ longer \in H /\ Len(longer) = Len(hist[l]) + 1
        /\ \A i \in 1 .. Len(hist[l]) : longer[i] = hist[l][i]
    BY <2>2, <2>4
  <2> HIDE DEF longer, H
  <2>6. hist' \in Seq(H) /\ Len(hist') = l
    BY <1>1, <2>3, <2>4, <2>5, ExceptSeq
  <2>7. \A e \in 1 .. l : hist'[e] = IF e = l THEN longer ELSE hist[e]
    BY <1>1, <2>3
  <2>8. ASSUME NEW e \in 1 .. l
        PROVE  /\ Len(hist'[e]) \in 1 .. MaxSeq + 1 /\ Len(hist[e]) <= Len(hist'[e])
               /\ \A i \in 1 .. Len(hist[e]) : hist'[e][i] = hist[e][i]
    <3>1. CASE e = l
      BY <2>3, <2>4, <2>5, <2>7, <3>1, Bounds
    <3>2. CASE e # l
      BY <1>2, <2>7, <3>2, Bounds
    <3> QED BY <3>1, <3>2
  <2>9. Recorded' /\ \A p : Past(p) => PastIn(hist', p) /\ At(p)' = At(p)
    <3>1. /\ \A e \in 1 .. l : Len(hist'[e]) \in 1 .. MaxSeq + 1
          /\ \A e \in 1 .. l : /\ Len(hist[e]) <= Len(hist'[e])
                              /\ \A i \in 1 .. Len(hist[e]) : hist'[e][i] = hist[e][i]
      BY <2>8
    <3>2. l \in 1 .. MaxEpoch /\ l <= l
      BY <1>1
    <3> QED BY <1>5, <2>6, <3>1, <3>2
  <2>10. ASSUME NEW p, p.epoch = Now.epoch, p.seq = Now.seq + 1
        PROVE  PastIn(hist', p)
    <3>1. p.epoch = l /\ p.seq = Len(hist[l])
      BY <1>3, <2>4, <2>10
    <3>2. DOMAIN hist' = 1 .. l /\ Len(hist'[l]) = Len(hist[l]) + 1
      BY <2>4, <2>5, <2>6, <2>7
    <3> QED BY <2>4, <3>1, <3>2 DEF Past, PastIn
  <2> QED BY <2>9, <2>10
<1>7. CASE KeeperRestart
  <2>1. hist' = Append(hist, <<At(Now)>>) /\ Now.epoch < MaxEpoch
    BY <1>7 DEF KeeperRestart
  <2>2. <<At(Now)>> \in H /\ Len(<<At(Now)>>) = 1
    BY <1>3
  <2> HIDE DEF H
  <2>3. hist' \in Seq(H) /\ Len(hist') = l + 1
    BY <1>1, <2>1, <2>2
  <2>4. \A e \in 1 .. l + 1 : hist'[e] = IF e = l + 1 THEN <<At(Now)>> ELSE hist[e]
    BY <1>1, <2>1, <2>2
  <2>5. l + 1 \in 1 .. MaxEpoch /\ l <= l + 1
    BY <1>1, <1>3, <2>1, Bounds
  <2>6. \A e \in 1 .. l + 1 : Len(hist'[e]) \in 1 .. MaxSeq + 1
    <3> SUFFICES ASSUME NEW e \in 1 .. l + 1
                 PROVE  Len(hist'[e]) \in 1 .. MaxSeq + 1
      OBVIOUS
    <3>1. CASE e = l + 1
      <4>1. hist'[e] = <<At(Now)>>
        BY <2>4, <3>1
      <4>2. Len(hist'[e]) = 1
        BY <2>2, <4>1
      <4> QED BY <4>2, Bounds
    <3>2. CASE e # l + 1
      <4>1. e \in 1 .. l
        BY <1>1, <3>2
      <4> QED BY <1>2, <2>4, <3>2, <4>1
    <3> QED BY <3>1, <3>2
  <2>7. \A e \in 1 .. l : hist'[e] = hist[e]
    BY <1>1, <2>4
  <2>8. \A e \in 1 .. l : Len(hist[e]) <= Len(hist'[e])
    BY <1>2, <2>7, Bounds
  <2>9. Recorded' /\ \A p : Past(p) => PastIn(hist', p) /\ At(p)' = At(p)
    BY <1>5, <2>3, <2>5, <2>6, <2>7, <2>8
  <2>10. ASSUME NEW v \in Value, KeeperDiff(v)
         PROVE  FALSE
    <3>1. DOMAIN hist' = DOMAIN hist
      BY <2>10 DEF KeeperDiff
    <3>2. DOMAIN hist' = 1 .. l + 1
      BY <2>3
    <3> QED BY <1>1, <3>1, <3>2
  <2> QED BY <2>9, <2>10
<1> QED BY <1>6, <1>7

\* A step of the keeper or of the bus keeps the invariant.
LEMMA KeeperPreserves ==
    ASSUME Inv, Keeper \/ resync
    PROVE  Inv' /\ UNCHANGED <<ready, epoch, seq, list>>
<1> USE DEF Inv
<1>0. UNCHANGED mirror => UNCHANGED <<ready, epoch, seq, list>>
  BY DEF mirror, local
\* A step of the keeper that leaves the past alone, or adds to it.
<1>1. ASSUME Recorded', \A p : Past(p) => PastIn(hist', p) /\ At(p)' = At(p), UNCHANGED mirror,
             \A n \in 1 .. MaxSeq : store'[n] # 0 =>
                 store'[n] = store[n] \/ PastIn(hist', [epoch |-> store'[n], seq |-> n]),
             \A i \in DOMAIN in' : PastIn(hist', in'[i].at) \/ (i \in DOMAIN in /\ in'[i] = in[i])
      PROVE  UnderWay' /\ Exact'
  <2>1. UNCHANGED <<pc, ready, epoch, seq, list, upto, objs, ref>>
    BY <1>1 DEF mirror, local
  <2>2. \A n \in 1 .. MaxSeq : store'[n] # 0 => PastIn(hist', [epoch |-> store'[n], seq |-> n])
    BY <1>1 DEF UnderWay, Past, PastIn
  <2>3. \A i \in DOMAIN in' : PastIn(hist', in'[i].at)
    BY <1>1 DEF UnderWay, Past, PastIn
  <2>4. PastIn(hist', upto) /\ PastIn(hist', ref)
    BY <1>1, <2>1 DEF UnderWay, Past, PastIn
  <2>5. \A i \in DOMAIN objs' : objs'[i] # 0 => PastIn(hist', [epoch |-> objs[i], seq |-> seq + i])
    BY <1>1, <2>1 DEF UnderWay, Past, PastIn
  <2>6. ready => PastIn(hist', Mine) /\ At(Mine)' = At(Mine)
    BY <1>1, <2>1 DEF Exact, Past, PastIn, At, Mine
  <2>7. UnderWay'
    BY <2>1, <2>2, <2>3, <2>4, <2>5 DEF UnderWay, Past
  <2>8. Exact'
    BY <2>1, <2>6 DEF Exact, Past, Mine
  <2> QED BY <2>7, <2>8
<1>2. ASSUME NEW v \in Value, KeeperDiff(v)
      PROVE  Inv' /\ UNCHANGED mirror
  <2> DEFINE p == [epoch |-> Now.epoch, seq |-> Now.seq + 1]
  <2>1. /\ Recorded' /\ \A o : Past(o) => PastIn(hist', o) /\ At(o)' = At(o)
        /\ \A o : o.epoch = Now.epoch /\ o.seq = Now.seq + 1 => PastIn(hist', o)
    BY <1>2, PastStays
  <2>2. Now.epoch \in Epochs /\ Now.seq + 1 \in 1 .. MaxSeq
    BY <1>2, NowIsLast, Bounds DEF KeeperDiff, Point
  <2>3. PICK b \in BOOLEAN : Deliver([op |-> "diff", at |-> p, inline |-> b])
    BY <1>2 DEF KeeperDiff
  <2> DEFINE f == [op |-> "diff", at |-> p, inline |-> b]
  <2>4. f \in Frame
    BY <2>2, Bounds DEF Frame, Point
  <2>5. /\ in' \in Seq(Frame) /\ Len(in') <= QueueDepth
        /\ losses' \in 0 .. MaxLosses
        /\ \A i \in DOMAIN in' : in'[i] = f \/ (i \in DOMAIN in /\ in'[i] = in[i])
    BY <2>3, <2>4, DeliverTypes
  <2>6. store' = [store EXCEPT ![Now.seq + 1] = Now.epoch] /\ UNCHANGED <<mirror, faults>>
    BY <1>2 DEF KeeperDiff
  <2>7. TypeOK'
    <3>1. Now.epoch \in 0 .. MaxEpoch
      BY <2>2, Bounds DEF Epochs
    <3>2. store \in [1 .. MaxSeq -> 0 .. MaxEpoch]
      BY DEF TypeOK
    <3>3. store' \in [1 .. MaxSeq -> 0 .. MaxEpoch]
      BY <2>6, <3>1, <3>2
    <3>4. hist' \in Seq(Seq(SUBSET Value)) /\ Len(hist') \in Epochs
      BY <2>1 DEF Recorded
    <3> QED BY <2>5, <2>6, <3>3, <3>4 DEF TypeOK, mirror, local
  <2>8. \A n \in 1 .. MaxSeq : store'[n] # 0 =>
            store'[n] = store[n] \/ PastIn(hist', [epoch |-> store'[n], seq |-> n])
    BY <2>1, <2>6 DEF TypeOK, Past, PastIn
  <2>9. \A i \in DOMAIN in' : PastIn(hist', in'[i].at) \/ (i \in DOMAIN in /\ in'[i] = in[i])
    BY <2>1, <2>5 DEF Past, PastIn
  <2> QED BY <1>1, <2>1, <2>6, <2>7, <2>8, <2>9
<1>3. CASE KeeperTick
  <2>1. Now \in Point /\ Past(Now)
    BY NowIsLast
  <2> DEFINE f == [op |-> "tick", at |-> Now, inline |-> FALSE]
  <2>2. f \in Frame
    BY <2>1 DEF Frame
  <2>3. /\ in' \in Seq(Frame) /\ Len(in') <= QueueDepth
        /\ losses' \in 0 .. MaxLosses
        /\ \A i \in DOMAIN in' : in'[i] = f \/ (i \in DOMAIN in /\ in'[i] = in[i])
    BY <1>3, <2>2, DeliverTypes DEF KeeperTick
  <2>4. UNCHANGED <<keeper, mirror, faults>>
    BY <1>3 DEF KeeperTick
  <2>5. TypeOK' /\ Recorded' /\ \A o : Past(o) => PastIn(hist', o) /\ At(o)' = At(o)
    <3>1. TypeOK'
      BY <2>3, <2>4 DEF TypeOK, keeper, mirror, local
    <3>2. Recorded' /\ \A o : Past(o) => PastIn(hist', o) /\ At(o)' = At(o)
      BY <2>3, <2>4 DEF Recorded, Past, PastIn, At, keeper
    <3> QED BY <3>1, <3>2
  <2>6. \A i \in DOMAIN in' : PastIn(hist', in'[i].at) \/ (i \in DOMAIN in /\ in'[i] = in[i])
    BY <2>1, <2>3, <2>5 DEF Past, PastIn
  <2>7. store' = store /\ UNCHANGED mirror
    BY <2>4 DEF keeper
  <2> QED BY <1>0, <1>1, <2>5, <2>6, <2>7
<1>4. CASE KeeperRestart
  <2>1. /\ Recorded' /\ \A o : Past(o) => PastIn(hist', o) /\ At(o)' = At(o)
    BY <1>4, PastStays
  <2>2. UNCHANGED <<store, in, mirror, losses, faults>>
    BY <1>4 DEF KeeperRestart
  <2>3. TypeOK'
    BY <2>1, <2>2 DEF TypeOK, Recorded, mirror, local
  <2>4. store' = store /\ in' = in /\ UNCHANGED mirror
    BY <2>2
  <2> QED BY <1>0, <1>1, <2>1, <2>3, <2>4
<1>5. ASSUME NEW n \in 1 .. MaxSeq, PackageGone(n)
      PROVE  Inv' /\ UNCHANGED mirror
  <2>1. UNCHANGED <<hist, in, mirror, losses>> /\ store' = [store EXCEPT ![n] = 0]
    BY <1>5 DEF PackageGone
  <2>2. Recorded' /\ \A o : Past(o) => PastIn(hist', o) /\ At(o)' = At(o)
    BY <2>1 DEF Recorded, Past, PastIn, At
  <2>3. TypeOK'
    BY <1>5, <2>1, Bounds DEF TypeOK, PackageGone, mirror, local
  <2>4. \A m \in 1 .. MaxSeq : store'[m] # 0 => store'[m] = store[m]
    BY <2>1 DEF TypeOK
  <2> QED BY <1>1, <2>1, <2>2, <2>3, <2>4
<1>6. CASE resync
  <2> DEFINE f == [op |-> "resync", at |-> upto, inline |-> FALSE]
  <2>1. UNCHANGED <<keeper, mirror, losses, faults>> /\ in' = Append(in, f) /\ f \in Frame
    BY <1>6 DEF resync, Frame, TypeOK
  <2>2. /\ in' \in Seq(Frame) /\ Len(in') <= QueueDepth
        /\ losses' \in 0 .. MaxLosses
        /\ \A i \in DOMAIN in' : in'[i] = f \/ (i \in DOMAIN in /\ in'[i] = in[i])
    BY <1>6, <2>1, DeliverTypes DEF resync, Deliver
  <2>3. TypeOK' /\ Recorded' /\ \A o : Past(o) => PastIn(hist', o) /\ At(o)' = At(o)
    <3>1. TypeOK'
      BY <2>1, <2>2 DEF TypeOK, keeper, mirror, local
    <3>2. Recorded' /\ \A o : Past(o) => PastIn(hist', o) /\ At(o)' = At(o)
      BY <2>1, <2>2 DEF Recorded, Past, PastIn, At, keeper
    <3> QED BY <3>1, <3>2
  <2>4. \A i \in DOMAIN in' : PastIn(hist', in'[i].at) \/ (i \in DOMAIN in /\ in'[i] = in[i])
    BY <2>2, <2>3 DEF UnderWay, Past, PastIn
  <2>5. store' = store /\ UNCHANGED mirror
    BY <2>1 DEF keeper
  <2> QED BY <1>0, <1>1, <2>3, <2>4, <2>5
<1> QED BY <1>0, <1>2, <1>3, <1>4, <1>5, <1>6 DEF Keeper

\* What the readers see moves to a point that is not older, or stays.
Forward ==
    \/ UNCHANGED <<ready, epoch, seq, list>>
    \/ ready' /\ (ready => epoch' > epoch \/ (epoch' = epoch /\ seq' >= seq))

\* The goroutine takes a frame and does not touch what the readers see.
LEMMA FramePreserves ==
    ASSUME Inv, Take, pc' \in {"idle", "snapshot"} \/ (pc' = "read" /\ ready),
           UNCHANGED <<keeper, ready, epoch, seq, list, objs, ref, losses>>,
           snapBad' \in BOOLEAN, faults' \in 0 .. MaxFaults,
           upto' = upto \/ upto' = F.at
    PROVE  Inv' /\ UNCHANGED hist /\ Forward
<1> USE DEF Inv
<1>1. UNCHANGED <<hist, store>>
  BY DEF keeper
<1>2. /\ in' \in Seq(Frame) /\ Len(in') <= QueueDepth
      /\ F \in Frame /\ 1 \in DOMAIN in /\ F = in[1]
      /\ \A i \in DOMAIN in' : i + 1 \in DOMAIN in /\ in'[i] = in[i + 1]
  BY TakeTypes
<1>3. Past(F.at) /\ F.at \in Point
  BY <1>2 DEF UnderWay, Frame
<1>4. TypeOK'
  BY <1>1, <1>2, <1>3 DEF TypeOK
<1>5. Recorded'
  BY <1>1 DEF Recorded
<1>6. UnderWay'
  BY <1>1, <1>2, <1>3 DEF UnderWay, Past, Take
<1>7. Exact'
  BY <1>1 DEF Exact, Past, Mine, At
<1> QED BY <1>1, <1>4, <1>5, <1>6, <1>7 DEF Forward

\* A package is applied, from a frame or from those read.
LEMMA PackagePreserves ==
    ASSUME Inv, ready, NEW p, Past(p), p.seq = seq + 1, NEW next, applyPackage(p, next),
           next \in {"idle", "apply"},
           UNCHANGED <<keeper, ready, epoch, snapBad, upto, ref, losses, faults>>,
           in' \in Seq(Frame), Len(in') <= QueueDepth,
           \A i \in DOMAIN in' : Past(in'[i].at),
           objs' \in Seq(0 .. MaxEpoch), Len(objs') <= Batch,
           pc' # "apply" => objs' = <<>>,
           pc' = "apply" => \A i \in DOMAIN objs' :
               objs'[i] # 0 => Past([epoch |-> objs'[i], seq |-> seq + 1 + i])
    PROVE  Inv' /\ UNCHANGED hist /\ Forward
<1> USE DEF Inv
<1>1. UNCHANGED <<hist, store>>
  BY DEF keeper
<1>2. /\ pc' \in {next, "idle", "snapshot"}
      /\ \/ pc' \in {"idle", "snapshot"} /\ UNCHANGED <<list, seq>>
         \/ p.epoch = epoch /\ seq' = seq + 1 /\ list' = At(p) \ Odd
  BY ApplyIsNext
<1>3. At(p) \in SUBSET Value /\ seq + 1 \in 0 .. MaxSeq
  BY PastIsPoint DEF Past, PastIn, At
<1>4. TypeOK'
  BY <1>1, <1>2, <1>3 DEF TypeOK
<1>5. Recorded'
  BY <1>1 DEF Recorded
<1>6. \A i \in DOMAIN objs' : objs'[i] # 0 => Past([epoch |-> objs'[i], seq |-> seq' + i])
  BY <1>2
<1>7. UnderWay'
  BY <1>1, <1>6 DEF UnderWay, Past
<1>8. Exact'
  <2>1. CASE UNCHANGED <<list, seq>>
    BY <1>1, <1>2, <2>1 DEF Exact, Past, Mine, At
  <2>2. CASE p.epoch = epoch /\ seq' = seq + 1 /\ list' = At(p) \ Odd
    <3>1. Past(Mine)' /\ At(Mine)' = At(p)
      BY <1>1, <2>2 DEF Past, PastIn, Mine, At
    <3> QED BY <1>2, <2>2, <3>1 DEF Exact
  <2> QED BY <1>2, <2>1, <2>2
<1>9. Forward
  BY <1>2 DEF Forward, TypeOK
<1> QED BY <1>1, <1>4, <1>5, <1>7, <1>8, <1>9

\* A step of the goroutine of the mirror keeps the invariant.
LEMMA RunPreserves ==
    ASSUME Inv, Run
    PROVE  Inv' /\ UNCHANGED hist /\ Forward
<1> USE DEF Inv
<1>0. Resnap \in {"idle", "snapshot"}
  BY DEF Resnap
<1>1. CASE FrameSnapshot
  BY <1>1, FramePreserves DEF FrameSnapshot, TypeOK
<1>2. CASE FrameIgnored
  BY <1>2, FramePreserves DEF FrameIgnored, TakeKnown, Take, TypeOK, mirror, local
<1>3. CASE FrameVerify
  BY <1>0, <1>3, FramePreserves DEF FrameVerify, TakeKnown, verify, TypeOK, local
<1>4. CASE FrameInline
  <2>1. Take /\ ready /\ applyPackage(F.at, "idle") /\ F.at.seq = seq + 1
    BY <1>4 DEF FrameInline, TakeKnown, Rides
  <2>2. /\ in' \in Seq(Frame) /\ Len(in') <= QueueDepth
        /\ F \in Frame /\ 1 \in DOMAIN in /\ F = in[1]
        /\ \A i \in DOMAIN in' : i + 1 \in DOMAIN in /\ in'[i] = in[i + 1]
    BY <2>1, TakeTypes
  <2>3. Past(F.at) /\ \A i \in DOMAIN in' : Past(in'[i].at)
    BY <2>2 DEF UnderWay
  <2>4. pc' \in {"idle", "snapshot"}
    BY <2>1, ApplyIsNext
  <2>5. objs' = <<>> /\ objs' \in Seq(0 .. MaxEpoch) /\ Len(objs') <= Batch
    BY <1>4, <2>1 DEF FrameInline, Take, UnderWay, TypeOK
  <2> QED BY <1>4, <2>1, <2>2, <2>3, <2>4, <2>5, PackagePreserves DEF FrameInline
<1>5. CASE FrameMalformed
  BY <1>0, <1>5, FramePreserves, Bounds DEF FrameMalformed, TakeKnown, TypeOK, local
<1>6. CASE FrameAhead
  BY <1>0, <1>6, FramePreserves, Bounds DEF FrameAhead, TakeKnown, TypeOK, local
<1>7. CASE CatchUpRead
  <2> DEFINE n == IF upto.seq - seq > Batch THEN Batch ELSE upto.seq - seq
  <2>1. /\ UNCHANGED <<hist, store, in, ready, epoch, seq, list, snapBad, upto, ref, losses, faults>>
        /\ pc = "read" /\ pc' = "apply" /\ seq < upto.seq
        /\ objs' = [i \in 1 .. n |-> store[seq + i]]
    BY <1>7 DEF CatchUpRead, keeper, local
  <2>2. seq \in 0 .. MaxSeq /\ upto.seq \in 0 .. MaxSeq
    BY DEF TypeOK, Point
  <2>3. n \in 1 .. Batch /\ n <= upto.seq - seq /\ n \in Nat
    BY <2>1, <2>2, Bounds
  <2> HIDE DEF n
  <2>4. \A i \in 1 .. n : seq + i \in 1 .. MaxSeq
    BY <2>2, <2>3, Bounds
  <2>5. \A i \in 1 .. n : store[seq + i] \in 0 .. MaxEpoch
    BY <2>4 DEF TypeOK
  <2>6. objs' \in Seq(0 .. MaxEpoch) /\ Len(objs') = n /\ DOMAIN objs' = 1 .. n
    BY <2>1, <2>3, <2>5
  <2>7. TypeOK'
    BY <2>1, <2>3, <2>6, Bounds DEF TypeOK
  <2>8. Recorded'
    BY <2>1 DEF Recorded
  <2>9. \A i \in DOMAIN objs' : objs'[i] # 0 => Past([epoch |-> objs'[i], seq |-> seq + i])
    BY <2>1, <2>4, <2>6 DEF UnderWay
  <2>10. UnderWay'
    BY <2>1, <2>9 DEF UnderWay, Past
  <2>11. Exact'
    BY <2>1 DEF Exact, Past, Mine, At
  <2> QED BY <2>1, <2>7, <2>8, <2>10, <2>11 DEF Forward
<1>8. CASE CatchUpEnd
  <2>1. /\ UNCHANGED <<hist, store, in, ready, epoch, seq, list, snapBad, upto, objs, ref, losses, faults>>
        /\ pc = "read" /\ pc' \in {"idle", "snapshot"}
    BY <1>0, <1>8 DEF CatchUpEnd, keeper, local, verify
  <2> QED BY <2>1 DEF Forward, TypeOK, Recorded, UnderWay, Exact, Past, Mine, At
<1>9. CASE CatchUpApply
  <2>1. /\ UNCHANGED <<hist, store, in, ready, epoch, snapBad, upto, ref, losses, faults>>
        /\ UNCHANGED keeper /\ pc = "apply" /\ ready
    BY <1>9 DEF CatchUpApply, keeper, Exact
  <2>2. objs \in Seq(0 .. MaxEpoch) /\ Len(objs) <= Batch
    BY DEF TypeOK
  <2>3. CASE objs = <<>>
    <3>1. pc' = "read" /\ UNCHANGED <<list, seq, objs>>
      BY <1>9, <2>3 DEF CatchUpApply
    <3> QED BY <2>1, <2>3, <3>1
            DEF Forward, TypeOK, Recorded, UnderWay, Exact, Past, Mine, At
  <2>4. CASE objs # <<>> /\ Head(objs) = 0
    <3>1. pc' \in {"idle", "snapshot"} /\ objs' = <<>> /\ UNCHANGED <<list, seq>>
      BY <1>0, <1>9, <2>4 DEF CatchUpApply
    <3>2. objs' \in Seq(0 .. MaxEpoch) /\ Len(objs') <= Batch
      BY <3>1, Bounds
    <3> QED BY <2>1, <2>4, <3>1, <3>2
            DEF Forward, TypeOK, Recorded, UnderWay, Exact, Past, Mine, At
  <2>5. CASE objs # <<>> /\ Head(objs) # 0
    <3> DEFINE p == [epoch |-> Head(objs), seq |-> seq + 1]
    <3>1. applyPackage(p, "apply") /\ objs' = IF pc' = "apply" THEN Tail(objs) ELSE <<>>
      BY <1>9, <2>5 DEF CatchUpApply
    <3>2. /\ Head(objs) = objs[1] /\ 1 \in DOMAIN objs
          /\ Tail(objs) \in Seq(0 .. MaxEpoch) /\ Len(Tail(objs)) = Len(objs) - 1
          /\ DOMAIN Tail(objs) = 1 .. Len(objs) - 1
      BY <2>2, <2>5
    <3>3. \A i \in DOMAIN Tail(objs) : i + 1 \in DOMAIN objs /\ Tail(objs)[i] = objs[i + 1]
      BY <2>2, <2>5
    <3>4. Past(p)
      BY <2>5, <3>2 DEF UnderWay
    <3>5. seq \in Nat
      BY Bounds DEF TypeOK
    <3>6. \A i \in DOMAIN Tail(objs) : Tail(objs)[i] # 0 =>
              Past([epoch |-> Tail(objs)[i], seq |-> seq + (i + 1)])
      BY <3>3 DEF UnderWay
    <3>7. \A i \in DOMAIN Tail(objs) : seq + (i + 1) = seq + 1 + i
      BY <3>2, <3>5
    <3>8. objs' \in Seq(0 .. MaxEpoch) /\ Len(objs') <= Batch
      <4>1. <<>> \in Seq(0 .. MaxEpoch) /\ Len(<<>>) <= Batch
        BY Bounds
      <4>2. Len(objs) - 1 <= Batch
        BY <2>2, Bounds
      <4> QED BY <3>1, <3>2, <4>1, <4>2
    <3>9. pc' = "apply" => \A i \in DOMAIN objs' :
              objs'[i] # 0 => Past([epoch |-> objs'[i], seq |-> seq + 1 + i])
      BY <3>1, <3>6, <3>7
    <3>10. in' \in Seq(Frame) /\ Len(in') <= QueueDepth /\ \A i \in DOMAIN in' : Past(in'[i].at)
      BY <2>1 DEF TypeOK, UnderWay
    <3>11. pc' # "apply" => objs' = <<>>
      BY <3>1
    <3> HIDE DEF p
    <3>12. p.seq = seq + 1
      BY DEF p
    <3> QED BY <2>1, <3>1, <3>4, <3>8, <3>9, <3>10, <3>11, <3>12, PackagePreserves
  <2> QED BY <2>3, <2>4, <2>5
<1>10. CASE SnapshotRequest
  <2>1. /\ UNCHANGED <<hist, store, in, ready, epoch, seq, list, snapBad, upto, objs, losses, faults>>
        /\ pc = "snapshot" /\ pc' = "object" /\ ref' = Now
    BY <1>10 DEF SnapshotRequest, keeper, local
  <2>2. /\ Past(Now) /\ Now \in Point
        /\ \A e, n : Past([epoch |-> e, seq |-> n]) =>
               e < Now.epoch \/ (e = Now.epoch /\ n <= Now.seq)
    BY NowIsLast
  <2>3. TypeOK' /\ Recorded' /\ UnderWay'
    BY <2>1, <2>2 DEF TypeOK, Recorded, UnderWay, Past
  <2>4. ready => ref'.epoch > epoch \/ (ref'.epoch = epoch /\ ref'.seq >= seq)
    BY <2>1, <2>2 DEF Exact, Mine
  <2>5. Exact'
    BY <2>1, <2>4 DEF Exact, Past, Mine, At
  <2> QED BY <2>1, <2>3, <2>5 DEF Forward
<1>11. CASE SnapshotObject
  <2>1. /\ UNCHANGED <<hist, store, in, upto, objs, ref, losses, faults>>
        /\ pc = "object" /\ pc' = "idle"
        /\ ready' = TRUE /\ epoch' = ref.epoch /\ seq' = ref.seq
        /\ list' = At(ref) \ Odd /\ snapBad' = (list' # At(ref))
    BY <1>11 DEF SnapshotObject, Install, keeper
  <2>2. Past(ref) /\ ref \in Point /\ objs = <<>>
    BY <2>1 DEF UnderWay, TypeOK
  <2>3. At(ref) \in SUBSET Value
    BY <2>2, PastIsPoint DEF Past, PastIn, At
  <2>4. TypeOK' /\ Recorded'
    BY <2>1, <2>2, <2>3, Bounds DEF TypeOK, Recorded, Point, Epochs
  <2>5. UnderWay'
    BY <2>1, <2>2 DEF UnderWay, Past
  <2>6. Exact'
    BY <2>1, <2>2 DEF Exact, Past, PastIn, Mine, At
  <2>7. Forward
    BY <2>1 DEF Forward, Exact
  <2> QED BY <2>1, <2>4, <2>5, <2>6, <2>7
<1>12. CASE Fault
  <2>1. /\ UNCHANGED <<hist, store, in, ready, epoch, seq, list, snapBad, upto, ref, losses>>
        /\ pc' \in {"idle", "snapshot"} /\ objs' = <<>> /\ faults' \in 0 .. MaxFaults
    BY <1>0, <1>12, Bounds DEF Fault, keeper, local, TypeOK
  <2>2. objs' \in Seq(0 .. MaxEpoch) /\ Len(objs') <= Batch
    BY <2>1, Bounds
  <2> QED BY <2>1, <2>2 DEF Forward, TypeOK, Recorded, UnderWay, Exact, Past, Mine, At
<1>13. CASE FrameUnread
  BY <1>13, FramePreserves, Bounds DEF FrameUnread, Take, TypeOK, mirror, local
<1> QED BY <1>1, <1>2, <1>3, <1>4, <1>5, <1>6, <1>7, <1>8, <1>9, <1>10, <1>11, <1>12, <1>13
        DEF Run

-----------------------------------------------------------------------------
(* Theorems.                                                               *)

\* The invariant holds in every state.
LEMMA Invariant == Spec => []Inv
<1>1. Inv /\ [Next]_vars => Inv'
  <2> SUFFICES ASSUME Inv, [Next]_vars PROVE Inv'
    OBVIOUS
  <2>1. CASE Next
    BY <2>1, RunPreserves, KeeperPreserves DEF Next
  <2>2. CASE UNCHANGED vars
    BY <2>2 DEF vars, keeper, local, Inv, TypeOK, Recorded, UnderWay, Exact, Past, Mine, At
  <2> QED BY <2>1, <2>2
<1> QED BY <1>1, InitInv, PTL DEF Spec

\* Every variable of the mirror keeps its type: the queue of frames never exceeds its
\* capacity, and no frame, package or snapshot takes the mirror out of the keeper's
\* numbers.
THEOREM TypeCorrect == Spec => []TypeOK
<1>1. Inv => TypeOK
  BY DEF Inv
<1> QED BY <1>1, Invariant, PTL

\* The mirror implements Follower: onFrame, catchUp, applyPackage and snapshot give
\* the readers the keeper's list at one point of its past, and never an older one than
\* before, whatever is lost, gone or left over from another epoch.
THEOREM MirrorFollows == Spec => Follows
<1>1. Init => Readers!Init
  BY DEF Init, Readers!Init, Readers!NotReady
<1>2. Inv /\ Inv' /\ [Next]_vars =>
      [Readers!Next]_<<hist, IF ready THEN [at |-> <<epoch, seq + 1>>, list |-> list]
                             ELSE [at |-> <<0, 0>>, list |-> {}]>>
  <2> SUFFICES ASSUME Inv, Inv', [Next]_vars
               PROVE  [Readers!Next]_<<hist, IF ready THEN [at |-> <<epoch, seq + 1>>, list |-> list]
                                             ELSE [at |-> <<0, 0>>, list |-> {}]>>
    OBVIOUS
  <2> DEFINE view == IF ready THEN [at |-> <<epoch, seq + 1>>, list |-> list]
                     ELSE [at |-> <<0, 0>>, list |-> {}]
  <2>1. CASE Run
    <3>1. UNCHANGED hist /\ Forward
      BY <2>1, RunPreserves
    <3>2. CASE UNCHANGED <<ready, epoch, seq, list>>
      BY <3>1, <3>2
    <3>3. CASE ready' /\ (ready => epoch' > epoch \/ (epoch' = epoch /\ seq' >= seq))
      <4>1. epoch' \in DOMAIN hist /\ seq' \in 0 .. Len(hist[epoch']) - 1
        BY <3>1, <3>3 DEF Inv, Exact, Past, PastIn, Mine
      <4>2. list' = hist[epoch'][seq' + 1] \ Odd
        BY <3>1, <3>3 DEF Inv, Exact, Mine, At
      <4>3. /\ hist[epoch'] \in Seq(SUBSET Value) /\ epoch' \in Nat \ {0}
            /\ epoch \in Nat /\ seq \in Nat /\ seq' \in Nat
        <5>1. epoch' \in 1 .. Len(hist) /\ Len(hist) \in Nat
          BY <4>1 DEF Inv, Recorded
        <5>2. hist[epoch'] \in Seq(SUBSET Value) /\ epoch' \in Nat \ {0}
          BY <5>1 DEF Inv, Recorded
        <5>3. epoch \in Nat /\ seq \in Nat /\ seq' \in Nat
          BY Bounds DEF Inv, TypeOK
        <5> QED BY <5>2, <5>3
      <4>4. seq' + 1 \in DOMAIN hist[epoch']
        BY <4>1, <4>3
      <4>5. Readers!NotBefore(epoch', seq' + 1, view.at)
        <5>1. CASE ready
          <6>1. view.at[1] = epoch /\ view.at[2] = seq + 1
            BY <5>1
          <6>2. epoch' > epoch \/ (epoch' = epoch /\ seq' + 1 >= seq + 1)
            <7>1. epoch' > epoch \/ (epoch' = epoch /\ seq' >= seq)
              BY <3>3, <5>1
            <7>2. seq \in Nat /\ seq' \in Nat
              BY <4>3
            <7>3. \A m, n \in Nat : m >= n => m + 1 >= n + 1
              OBVIOUS
            <7> QED BY <7>1, <7>2, <7>3
          <6> QED BY <6>1, <6>2 DEF Readers!NotBefore
        <5>2. CASE ~ready
          <6>1. view.at[1] = 0
            BY <5>2
          <6>2. epoch' > 0
            BY <4>3
          <6> QED BY <6>1, <6>2 DEF Readers!NotBefore
        <5> QED BY <5>1, <5>2
      <4>6. view' = [at |-> <<epoch', seq' + 1>>, list |-> hist[epoch'][seq' + 1] \ Odd]
        BY <3>3, <4>2
      <4>7. Readers!Follow
        BY <3>1, <4>1, <4>4, <4>5, <4>6 DEF Readers!Follow
      <4> QED BY <4>7 DEF Readers!Next
    <3> QED BY <3>1, <3>2, <3>3 DEF Forward
  <2>2. CASE Keeper \/ resync
    <3>1. UNCHANGED <<ready, epoch, seq, list>>
      BY <2>2, KeeperPreserves
    <3>2. view' = view
      BY <3>1
    <3>3. ASSUME NEW v \in Value, KeeperDiff(v)
          PROVE  Readers!Change
      <4>1. At(Now) = Readers!Last(hist[Len(hist)]) /\ Now.epoch = Len(hist)
        BY DEF At, Now, Readers!Last, Inv, Recorded, Epochs
      <4> QED BY <3>2, <3>3, <4>1 DEF Readers!Change, KeeperDiff
    <3>4. CASE KeeperRestart
      <4>1. At(Now) = Readers!Last(Readers!Last(hist))
        BY DEF At, Now, Readers!Last, Inv, Recorded, Epochs
      <4> QED BY <3>2, <3>4, <4>1 DEF Readers!Next, Readers!Change, KeeperRestart
    <3>5. KeeperTick \/ resync \/ (\E n \in 1 .. MaxSeq : PackageGone(n)) => UNCHANGED hist
      BY DEF KeeperTick, resync, PackageGone, keeper
    <3> QED BY <2>2, <3>2, <3>3, <3>4, <3>5 DEF Keeper, Readers!Next
  <2>3. CASE UNCHANGED vars
    BY <2>3 DEF vars, keeper, local
  <2> QED BY <2>1, <2>2, <2>3 DEF Next
<1> QED BY <1>1, <1>2, Invariant, PTL DEF Spec, Follows, Readers!Spec

=============================================================================
