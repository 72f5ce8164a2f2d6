------------------------------ MODULE Answering ------------------------------
(***************************************************************************)
(* What the pool promises its callers: a request that arrived gets one     *)
(* answer, served, refused for its deadline or refused for the queue       *)
(* limit, and keeps it.                                                    *)
(***************************************************************************)
EXTENDS Sequences

CONSTANT Task
VARIABLES arrived, answers

contractVars == <<arrived, answers>>

InitContract == arrived = {} /\ answers = [t \in Task |-> <<>>]

Arrive(t) ==
    /\ t \notin arrived
    /\ arrived' = arrived \cup {t}
    /\ UNCHANGED answers

Reply(t) ==
    /\ t \in arrived /\ answers[t] = <<>>
    /\ \E o \in {"served", "deadline", "limit"} :
          answers' = [answers EXCEPT ![t] = <<o>>]
    /\ UNCHANGED arrived

NextContract == \E t \in Task : Arrive(t) \/ Reply(t)

Spec == InitContract /\ [][NextContract]_contractVars
FairSpec == Spec /\ \A t \in Task : WF_contractVars(Reply(t))
=============================================================================
