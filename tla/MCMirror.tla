------------------------------ MODULE MCMirror ------------------------------
(* Instances of Mirror.                                                    *)
EXTENDS Mirror

CONSTANTS x, y

Both == {x, y}
OddY == {y}
=============================================================================
