------------------------------- MODULE MCPool -------------------------------
(* Instances of Pool for TLC. *)
EXTENDS Pool, TLC

CONSTANTS t1, t2, t3, w1, w2, s1, sw, nil

Tasks2 == {t1, t2}
Tasks3 == {t1, t2, t3}
TwoWorkers == {w1, w2}
OneSubmitter == {s1}
\* Ticks: too short for the queue, just enough, and long enough to wait.
ShortAndLong == {1, 3, 4}

\* Tasks are interchangeable, and so are workers.
Symmetry == Permutations(Tasks3) \cup Permutations(TwoWorkers)
=============================================================================
