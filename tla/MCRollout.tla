------------------------------ MODULE MCRollout ------------------------------
(* Instances of Rollout for TLC. *)
EXTENDS Rollout

None == {}
RejectedThird == {3}
Lists14 == {1, 4}
BrokenEdit == {102}
BrokenSecondAndEdit == {2, 102}
BootSecond == {<<"boot", "second">>}
FirstOnly == {1}
=============================================================================
