----------------------------- MODULE MCShutdown -----------------------------
(* Instances of Shutdown for TLC. *)
EXTENDS Shutdown, TLC

CONSTANTS t1, t2, w1, s1, sw, nil

Tasks2 == {t1, t2}
OneWorker == {w1}
OneSubmitter == {s1}
\* Ticks: the second in the queue is one too many.
ShortDeadlines == {2}
=============================================================================
