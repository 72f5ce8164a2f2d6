----------------------------- MODULE MCProfiles -----------------------------
(* Instances of Profiles for TLC. *)
EXTENDS Profiles, TLC
Names == {"a", "b", "c"}
PlainA == "a" :> <<"none">>
=============================================================================
