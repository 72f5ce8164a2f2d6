----------------------------- MODULE MCHandler -----------------------------
(* Instance of Handler.                                                    *)
EXTENDS Handler

Plain(c, w) == [overload |-> FALSE, at |-> 100, cond |-> c, write |-> w]
Over(a, w) == [overload |-> TRUE, at |-> a, cond |-> FALSE, write |-> w]

\* A rule that may have a condition, an overload rule for a half full or a full
\* queue, and an address write after them.
Enforced ==
    {[mode |-> "enforce", rules |-> <<Plain(c, w1), Over(a, w2), Plain(FALSE, "addr"), Over(50, "addr")>>] :
        c \in BOOLEAN, a \in {50, 100}, w1 \in {"none", "net", "addr"}, w2 \in {"none", "net"}}
MCProfile == Enforced \cup {[mode |-> "off", rules |-> <<Plain(FALSE, "addr")>>]}

Requests == [kind : {"request"}, reply : BOOLEAN, addr : BOOLEAN]
Others == [kind : {"malformed", "unsupported", "release", "idle"}, reply : BOOLEAN, addr : {TRUE}]
MCMessage == Requests \cup Others
MCFill == {0, 50, 100}
=============================================================================
