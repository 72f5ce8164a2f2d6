------------------------------ MODULE Selection ------------------------------
(***************************************************************************)
(* The loop that goes through a slice and appends what it wants to keep:   *)
(* groupBySubject of internal/audit/sink.go, Collect and CollectOverload   *)
(* of internal/policy/policy.go.                                           *)
(***************************************************************************)
EXTENDS Integers, Sequences

\* The elements of es at the places in I, in order.
SelectAt(es, I) ==
    LET upTo[i \in 0 .. Len(es)] ==
            IF i = 0 THEN <<>>
            ELSE IF i \in I THEN Append(upTo[i - 1], es[i]) ELSE upTo[i - 1]
    IN  upTo[Len(es)]
=============================================================================
