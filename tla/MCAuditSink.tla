----------------------------- MODULE MCAuditSink -----------------------------
(* Instances of AuditSink for TLC. *)
EXTENDS AuditSink, TLC
CONSTANTS sa, sb
TwoSubjects == {sa, sb}
Symmetry == Permutations(TwoSubjects)
=============================================================================
