----------------------------- MODULE Evaluator -----------------------------
(***************************************************************************)
(* One request's pass over the rules of its profile: Collect of            *)
(* internal/policy/policy.go, the Evaluator of internal/policy/cond.go,    *)
(* the lazily filled source of cmd/inspector/source.go and the loader of   *)
(* internal/body/body.go.                                                  *)
(*                                                                         *)
(* Holds calls itself through the clauses that refer to other conditions;  *)
(* its call stack is the variable stack, and the memo (done) is where a    *)
(* call leaves its result. The mirror of the live lists is changed by      *)
(* other goroutines between any two lookups. Values are members of Value:  *)
(* what the operands of a clause give is a set of them.                    *)
(***************************************************************************)
EXTENDS Integers, Sequences, FiniteSets

CONSTANTS
    Cond,       \* names of conditions
    NoCond,     \* a rule or a clause without a condition
    Value,      \* request values
    Text,       \* the value that eq and ne compare with
    StaticList, \* the content of the static list
    Profile,    \* the profiles looked at
    Content,    \* the requests looked at: the values behind each operand
    MaxChanges  \* bound: changes of the mirror during the request

\* What an operand reads: fields of the message, or an object of the buffer.
Operand == {"uri", "request_uri", "var", "header", "cookie", "arg"}
Object == {"headers", "args"}
FromHeaders == {"header", "cookie"}
FromArgs == {"request_uri", "arg"}

Clause == [ref : Cond \cup {NoCond}, operand : Operand,
           test : {"text", "static", "live"}, negated : BOOLEAN]
Condition == [any : BOOLEAN, clauses : Seq(Clause)]
Rule == [applies : BOOLEAN, cond : Cond \cup {NoCond}, negate : BOOLEAN]

\* Loading refuses an empty condition, an undeclared reference and a cycle
\* (module ConditionGraph): some order of the names has every reference of a
\* condition before the condition.
Loadable(p) ==
    /\ p.conds \in [Cond -> Condition] /\ p.rules \in Seq(Rule)
    /\ \A c \in Cond : p.conds[c].clauses # <<>>
    /\ \E rank \in [Cond -> 1 .. Cardinality(Cond)] :
          \A c \in Cond : \A i \in DOMAIN p.conds[c].clauses :
             LET r == p.conds[c].clauses[i].ref
             IN  r # NoCond => rank[r] < rank[c]

ASSUME EvaluatorAssumption ==
    /\ NoCond \notin Cond /\ IsFiniteSet(Cond)
    /\ Text \in Value /\ StaticList \subseteq Value
    /\ MaxChanges \in Nat
    /\ Content \subseteq [Operand -> SUBSET Value]
    /\ \A p \in Profile : Loadable(p)

VARIABLES
    profile,  \* the profile of the request
    locator,  \* locator[o]: how the message describes object o
    content,  \* content[x]: the non-empty values behind operand x
    list,     \* the live list in the mirror
    ready,    \* the mirror has received the list
    changes,  \* how often the mirror changed
    rule,     \* the rule Collect looks at
    stack,    \* the calls of Holds in progress, the innermost first
    done,     \* e.done: the conditions evaluated
    holds,    \* those of done that hold
    loaded,   \* loaded[o]: "no", "ok" or "missing"
    fault,    \* src.Fault
    fired,    \* the rules that fired, in order
    begun,    \* begun[c]: evaluations of c started, counted up to 2
    fetches   \* fetches[o]: reads of object o from the buffer, up to 2

env == <<profile, locator, content>>
mirror == <<list, ready, changes>>
vars == <<env, mirror, rule, stack, done, holds, loaded, fault, fired,
          begun, fetches>>

\* "none": the message has no locator, "empty": it says that there are no
\* arguments, "unavailable": the route captured nothing, "address": a key.
Locator == [headers : {"none", "unavailable", "address"},
            args : {"none", "empty", "unavailable", "address"}]

Init ==
    /\ profile \in Profile
    /\ locator \in Locator
    /\ content \in Content
    /\ list \in SUBSET Value /\ ready \in BOOLEAN /\ (~ready => list = {})
    /\ changes = 0
    /\ rule = 1
    /\ stack = <<>>
    /\ done = {} /\ holds = {}
    /\ loaded = [o \in Object |-> "no"]
    /\ fault = FALSE
    /\ fired = <<>>
    /\ begun = [c \in Cond |-> 0]
    /\ fetches = [o \in Object |-> 0]

-----------------------------------------------------------------------------
(* Collect: the loop over the rules.                                       *)

Collecting == stack = <<>> /\ rule <= Len(profile.rules)

Finished == stack = <<>> /\ rule = Len(profile.rules) + 1

\* Holds(c) of a condition that is neither in the memo nor being evaluated.
Call(c) ==
    /\ stack' = <<[cond |-> c, at |-> 1, read |-> FALSE, left |-> {}]>> \o stack
    /\ begun' = [begun EXCEPT ![c] = IF @ < 2 THEN @ + 1 ELSE @]

\* Defect: every rule is given an evaluator, and so a memo, of its own.
Fire_fresh(yes) ==
    /\ fired' = IF yes THEN Append(fired, rule) ELSE fired
    /\ rule' = rule + 1
    /\ done' = {} /\ holds' = {}
    /\ UNCHANGED <<env, mirror, stack, loaded, fault, begun, fetches>>

Fire(yes) ==
    /\ fired' = IF yes THEN Append(fired, rule) ELSE fired
    /\ rule' = rule + 1
    /\ UNCHANGED <<env, mirror, stack, done, holds, loaded, fault, begun, fetches>>

\* A rule for another request, an overload rule, or one without a condition.
PlainRule ==
    /\ Collecting
    /\ LET r == profile.rules[rule]
       IN  /\ ~r.applies \/ r.cond = NoCond
           /\ Fire(r.applies)

CallRule ==
    /\ Collecting
    /\ LET r == profile.rules[rule]
       IN  /\ r.applies /\ r.cond # NoCond /\ r.cond \notin done
           /\ Call(r.cond)
    /\ UNCHANGED <<env, mirror, rule, done, holds, loaded, fault, fired, fetches>>

DecideRule ==
    /\ Collecting
    /\ LET r == profile.rules[rule]
       IN  /\ r.applies /\ r.cond \in done
           /\ Fire((r.cond \in holds) # r.negate)

-----------------------------------------------------------------------------
(* The innermost call of Holds and its clause.                             *)

Top == Head(stack)
Cur == profile.conds[Top.cond]
Cl == Cur.clauses[Top.at]

Evaluating == stack # <<>>

Busy == {stack[i].cond : i \in DOMAIN stack}

\* Defect: only a condition that holds is kept in the memo.
Return_forget(v) ==
    /\ stack' = Tail(stack)
    /\ done' = IF v THEN done \cup {Top.cond} ELSE done
    /\ holds' = IF v THEN holds \cup {Top.cond} ELSE holds

\* Holds stores the value of the condition and returns to its caller.
Return(v) ==
    /\ stack' = Tail(stack)
    /\ done' = done \cup {Top.cond}
    /\ holds' = IF v THEN holds \cup {Top.cond} ELSE holds \ {Top.cond}

\* Defect: a condition made of any stops at the first clause that fails.
Decide_eager(hit) ==
    LET h == hit # Cl.negated
    IN  IF h = Cur.any \/ ~h THEN Return(h)
        ELSE IF Top.at = Len(Cur.clauses) THEN Return(~Cur.any)
        ELSE /\ stack' = <<[Top EXCEPT !.at = @ + 1, !.read = FALSE, !.left = {}]>>
                            \o Tail(stack)
             /\ UNCHANGED <<done, holds>>

\* The loop over the clauses after one of them hit or did not: any stops at the
\* first clause that holds, all at the first that does not.
Decide(hit) ==
    LET h == hit # Cl.negated
    IN  IF h = Cur.any THEN Return(h)
        ELSE IF Top.at = Len(Cur.clauses) THEN Return(~Cur.any)
        ELSE /\ stack' = <<[Top EXCEPT !.at = @ + 1, !.read = FALSE, !.left = {}]>>
                            \o Tail(stack)
             /\ UNCHANGED <<done, holds>>

\* A clause that refers to a condition whose value is known, or that is being
\* evaluated further out (Holds then answers false and keeps nothing).
RefClause ==
    /\ Evaluating /\ Cl.ref # NoCond
    /\ Cl.ref \in done \cup Busy
    /\ Decide(Cl.ref \in holds)
    /\ UNCHANGED <<env, mirror, rule, loaded, fault, fired, begun, fetches>>

CallClause ==
    /\ Evaluating /\ Cl.ref # NoCond
    /\ Cl.ref \notin done \cup Busy
    /\ Call(Cl.ref)
    /\ UNCHANGED <<env, mirror, rule, done, holds, loaded, fault, fired, fetches>>

\* The objects of the buffer an operand needs. Without arguments $request_uri is
\* the path and asks for nothing.
Needs(x) ==
    CASE x \in FromHeaders -> {"headers"}
      [] x = "arg" \/ (x = "request_uri" /\ locator.args # "empty") -> {"args"}
      [] OTHER -> {}

\* What asking for object o can give: whether its content is there, and whether
\* that is a fault. Headers without a locator come from the vars section, when the
\* message has one. Reading an address fails when no store is configured, and may
\* fail in the store, in decryption, in the digest or in the decoding; an empty
\* headers object counts as missing.
Outcomes(o) ==
    CASE locator[o] = "unavailable" -> {<<"missing", FALSE>>}
      [] locator[o] = "empty" -> {<<"ok", FALSE>>}
      [] locator[o] = "none" -> IF o = "headers" THEN {<<"missing", FALSE>>, <<"ok", FALSE>>}
                                ELSE {<<"missing", FALSE>>}
      [] OTHER -> {<<"ok", FALSE>>, <<"missing", TRUE>>}
                  \cup (IF o = "headers" THEN {<<"missing", FALSE>>} ELSE {})

\* Defect: an object that could not be read is tried again for the next clause.
Keep_retry(objects, state) ==
    loaded' = [o \in Object |->
                 IF o \in objects /\ (state = "ok" \/ locator[o] # "address")
                 THEN state ELSE loaded[o]]

\* The objects asked for are done with, whatever happened (headersDone, rawDone).
Keep(objects, state) ==
    loaded' = [o \in Object |-> IF o \in objects THEN state ELSE loaded[o]]

\* Operand.Values over the objects as they are: nothing when the object is missing;
\* $request_uri falls back to the path, and the vars section has no cookies.
Values(x, state) ==
    CASE x = "request_uri" /\ (state["args"] # "ok" \/ locator.args = "empty") -> content["uri"]
      [] x = "arg" /\ (state["args"] # "ok" \/ locator.args = "empty") -> {}
      [] x \in FromHeaders /\ state["headers"] # "ok" -> {}
      [] x = "cookie" /\ locator.headers = "none" -> {}
      [] OTHER -> content[x]

Read == stack' = <<[Top EXCEPT !.read = TRUE, !.left = Values(Cl.operand, loaded')]>>
                    \o Tail(stack)

\* The operand's object was asked for by an earlier clause, or there is none.
ReadKnown ==
    /\ Evaluating /\ Cl.ref = NoCond /\ ~Top.read
    /\ \A o \in Needs(Cl.operand) : loaded[o] # "no"
    /\ UNCHANGED loaded
    /\ Read
    /\ UNCHANGED <<env, mirror, rule, done, holds, fault, fired, begun, fetches>>

\* The first clause that needs the object asks for it.
ReadObject(o) ==
    /\ Evaluating /\ Cl.ref = NoCond /\ ~Top.read
    /\ o \in Needs(Cl.operand) /\ loaded[o] = "no"
    /\ \E r \in Outcomes(o) : Keep({o}, r[1]) /\ fault' = (fault \/ r[2])
    /\ fetches' = IF locator[o] = "address" /\ fetches[o] < 2
                THEN [fetches EXCEPT ![o] = @ + 1] ELSE fetches
    /\ Read
    /\ UNCHANGED <<env, mirror, rule, done, holds, fired, begun>>

\* Evaluator.hit: a list the mirror has not received contains nothing.
Hit(test, v) ==
    CASE test = "text" -> v = Text
      [] test = "static" -> v \in StaticList
      [] test = "live" -> ready /\ v \in list

\* One value is looked up; the mirror may change before the next.
TestValue(v) ==
    /\ Evaluating /\ Cl.ref = NoCond /\ Top.read
    /\ v \in Top.left
    /\ IF Hit(Cl.test, v) THEN Decide(TRUE)
       ELSE /\ stack' = <<[Top EXCEPT !.left = @ \ {v}]>> \o Tail(stack)
            /\ UNCHANGED <<done, holds>>
    /\ UNCHANGED <<env, mirror, rule, loaded, fault, fired, begun, fetches>>

NoValueLeft ==
    /\ Evaluating /\ Cl.ref = NoCond /\ Top.read
    /\ Top.left = {}
    /\ Decide(FALSE)
    /\ UNCHANGED <<env, mirror, rule, loaded, fault, fired, begun, fetches>>

-----------------------------------------------------------------------------
\* Frames of the keeper reach the mirror while the request is evaluated.
MirrorChanges ==
    /\ ~Finished /\ changes < MaxChanges
    /\ changes' = changes + 1
    /\ list' \in SUBSET Value /\ ready' = TRUE
    /\ UNCHANGED <<env, rule, stack, done, holds, loaded, fault, fired, begun, fetches>>

Done == Finished /\ UNCHANGED vars

Step ==
    \/ PlainRule \/ CallRule \/ DecideRule
    \/ RefClause \/ CallClause
    \/ ReadKnown \/ NoValueLeft
    \/ \E o \in Object : ReadObject(o)
    \/ \E v \in Value : TestValue(v)

Next == Step \/ MirrorChanges \/ Done

Spec == Init /\ [][Next]_vars

\* A worker runs Collect to its end: no step of it waits for another goroutine.
FairSpec == Spec /\ WF_vars(Step)

-----------------------------------------------------------------------------
(* Properties.                                                             *)

ClauseHolds(cl, f, state) ==
    (IF cl.ref # NoCond THEN f[cl.ref]
     ELSE \E v \in Values(cl.operand, state) : Hit(cl.test, v)) # cl.negated

\* f gives every condition the value its definition asks for.
Meaning(f, state) ==
    \A c \in Cond :
       LET cs == profile.conds[c].clauses
       IN  f[c] = IF profile.conds[c].any
                  THEN \E i \in DOMAIN cs : ClauseHolds(cs[i], f, state)
                  ELSE \A i \in DOMAIN cs : ClauseHolds(cs[i], f, state)

\* The objects as they were read, the others in any way.
Completions ==
    {s \in [Object -> {"ok", "missing"}] :
        \A o \in Object : loaded[o] # "no" => s[o] = loaded[o]}

Fired == {fired[k] : k \in DOMAIN fired}

\* Collect fires exactly the rules that the declared meaning of the conditions
\* asks for, each once and in the order of the profile. Laziness loses nothing: the
\* result is the one a full evaluation gives, whatever the objects that were never
\* read would have contained. (Said of requests during which the mirror is quiet.)
LazyIsExact ==
    Finished /\ changes = 0 =>
        /\ \A j, k \in DOMAIN fired : j < k => fired[j] < fired[k]
        /\ \A s \in Completions : \A f \in [Cond -> BOOLEAN] : Meaning(f, s) =>
              Fired = {i \in DOMAIN profile.rules :
                          LET r == profile.rules[i]
                          IN  r.applies /\ (r.cond # NoCond => f[r.cond] # r.negate)}

\* Two rules on one condition see one value of it although the mirror changed
\* between them: of "if c" and "unless c" exactly one fires.
OneValuePerCondition ==
    Finished =>
        \A i, j \in DOMAIN profile.rules :
           LET r == profile.rules[i]
               q == profile.rules[j]
           IN  r.applies /\ q.applies /\ r.cond = q.cond /\ r.cond # NoCond
                 => (i \in Fired <=> (j \in Fired <=> r.negate = q.negate))

\* A condition is evaluated at most once per request however many clauses and
\* rules refer to it, and Holds never meets a condition it is in the middle of.
\* An object is read from the buffer at most once, also after it failed.
DoneOnce ==
    /\ \A c \in Cond : begun[c] <= 1
    /\ Evaluating /\ Cl.ref # NoCond => Cl.ref \notin Busy
    /\ \A o \in Object : fetches[o] <= 1

\* Every request's evaluation ends.
Terminates == <>Finished
=============================================================================
