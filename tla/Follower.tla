------------------------------ MODULE Follower ------------------------------
(***************************************************************************)
(* What a mirrored list promises the conditions that look values up in it  *)
(* (Contains, ContainsAddr and Lookup of internal/livelist/livelist.go):   *)
(* either it is not ready, or it is the keeper's list as it was at one     *)
(* point of the past, and that point only moves forward. Nothing is said   *)
(* of frames, packages, snapshots or failures.                             *)
(***************************************************************************)
EXTENDS Integers, Sequences

CONSTANTS Value, Odd

VARIABLES
    hist,  \* hist[e][n]: the keeper's lists, epoch by epoch
    view   \* what the readers see, and which point of the past it is

NotReady == [at |-> <<0, 0>>, list |-> {}]

Init == hist = <<<<{}>>>> /\ view = NotReady

Last(s) == s[Len(s)]

\* The keeper adds or removes a value, or begins an epoch with the list it has.
Change ==
    /\ \/ \E v \in Value :
             hist' = [hist EXCEPT ![Len(hist)] =
                         Append(@, IF v \in Last(@) THEN Last(@) \ {v} ELSE Last(@) \cup {v})]
       \/ hist' = Append(hist, <<Last(Last(hist))>>)
    /\ UNCHANGED view

\* Not before the point p: in a later epoch, or in the same with no lower number.
NotBefore(e, n, p) == e > p[1] \/ (e = p[1] /\ n >= p[2])

\* The readers see the list of another point, at once.
Follow ==
    /\ \E e \in DOMAIN hist : \E n \in DOMAIN hist[e] :
          /\ NotBefore(e, n, view.at)
          /\ view' = [at |-> <<e, n>>, list |-> hist[e][n] \ Odd]
    /\ UNCHANGED hist

Next == Change \/ Follow

Spec == Init /\ [][Next]_<<hist, view>>
=============================================================================
