------------------------------ MODULE MCLists ------------------------------
(* Instances of Lists for TLC: v4 addresses of two bits, v6 of three, the  *)
(* upper half of them mapped.                                              *)
EXTENDS Lists

CONSTANTS v1, v2

V4(n) == [fam |-> 4, n |-> n]
V6(n) == [fam |-> 6, n |-> n]
Prefix(a, b) == [fam |-> a.fam, n |-> a.n, bits |-> b]

\* Nested prefixes of one family, and a short one of the other.
NestedPrefixes == {Prefix(V4(0), 0), Prefix(V4(2), 1), Prefix(V4(2), 2), Prefix(V6(0), 1)}
TwoValues == {v1, v2}
NeverOrSoon == {0, 2}

Line(k, a, b) == [kind |-> k, addr |-> a, bits |-> b]
AllLines ==
    {Line("neither", V4(0), 0)}
    \cup {Line("address", a, 0) : a \in {V4(1), V6(2), V6(5)}}
    \cup {Line("prefix", V4(3), b) : b \in 0 .. 2}
    \cup {Line("prefix", V6(1), b) : b \in {0, 2}}
    \cup {Line("prefix", V6(6), b) : b \in 1 .. 3}
=============================================================================
