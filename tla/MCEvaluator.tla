---------------------------- MODULE MCEvaluator ----------------------------
(* Instance of Evaluator: a refers to b and c, b to c, c compares.          *)
EXTENDS Evaluator, TLC

CONSTANTS a, b, c, v1, v2

Conds == {a, b, c}
Vals == {v1, v2}

Atom(x, t, n) == [ref |-> NoCond, operand |-> x, test |-> t, negated |-> n]
Ref(d, n) == [ref |-> d, operand |-> "uri", test |-> "text", negated |-> n]

\* Clauses of the first condition: both kinds of reference, and comparisons with
\* and without the buffer and the mirror.
Outer == {Ref(b, FALSE), Ref(b, TRUE), Ref(c, TRUE),
          Atom("cookie", "text", FALSE), Atom("request_uri", "static", TRUE)}

Middle == {<<Ref(c, FALSE)>>, <<Ref(c, TRUE), Atom("arg", "live", FALSE)>>}

Rules == <<[applies |-> TRUE, cond |-> a, negate |-> FALSE],
           [applies |-> TRUE, cond |-> NoCond, negate |-> FALSE],
           [applies |-> TRUE, cond |-> b, negate |-> FALSE],
           [applies |-> FALSE, cond |-> c, negate |-> FALSE],
           [applies |-> TRUE, cond |-> a, negate |-> TRUE]>>

MCProfile ==
    {[conds |-> (a :> [any |-> any, clauses |-> <<x, y>>]) @@
                (b :> [any |-> ~any, clauses |-> m]) @@
                (c :> [any |-> any, clauses |-> <<Atom("header", "live", FALSE)>>]),
      rules |-> Rules] : any \in BOOLEAN, x \in Outer, y \in Outer, m \in Middle}

\* Two headers; cookies, arguments and the query string vary; no path matches.
MCContent ==
    {[x \in Operand |-> CASE x = "header" -> {v1, v2}
                          [] x \in {"cookie", "request_uri"} -> q
                          [] x = "arg" -> Vals \ q
                          [] OTHER -> {}] : q \in {{}, {v1}}}

FirstValue == v1
JustV1 == {v1}
=============================================================================
