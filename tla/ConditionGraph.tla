--------------------------- MODULE ConditionGraph ---------------------------
(***************************************************************************)
(* Loading the named conditions of a profile (parseConditions and          *)
(* findCycle in internal/policy/cond.go): which graphs of references       *)
(* between conditions are accepted. A clause that compares a value is kept *)
(* as NoRef, a clause that refers to a condition as its name.              *)
(*                                                                         *)
(* findCycle calls itself through the clauses: its call stack is the       *)
(* variable path, one call for each condition on it.                       *)
(***************************************************************************)
EXTENDS Integers, Sequences, FiniteSets, Functions

CONSTANTS
    Name,      \* condition names
    NoRef,     \* a clause without a reference
    MaxClauses \* bound: clauses of a condition

ASSUME GraphAssumption ==
    NoRef \notin Name /\ IsFiniteSet(Name) /\ MaxClauses \in Nat \ {0}

VARIABLES
    order,   \* names in the order of the file
    conds,   \* conds[n]: the references of the clauses of n
    place,   \* the name of order that is checked
    path,    \* calls of findCycle in progress: name and the clause it is at
    walked,  \* the map state of findCycle: absent 0, on the path 1, finished 2
    result   \* "unread", "checking", then "accepted", "rejected" or "panic"

graphVars == <<order, conds, place, path, walked, result>>

Clauses == UNION {[1 .. k -> Name \cup {NoRef}] : k \in 1 .. MaxClauses}
Refs(n) == {conds[n][i] : i \in DOMAIN conds[n]} \ {NoRef}

Unwalked == [n \in Name |-> 0]

InitGraph ==
    /\ \E D \in SUBSET Name :
          order \in Bijection(1 .. Cardinality(D), D) /\ conds \in [D -> Clauses]
    /\ place = 1 /\ path = <<>> /\ walked = Unwalked
    /\ result = "unread"

\* The first loop of parseConditions. A condition that names itself is refused
\* while it is read, before the others are looked at. The rows here have different,
\* proper names and one list of clauses: module Profiles checks a single row.
readConditions ==
    /\ result = "unread"
    /\ result' = IF \E n \in DOMAIN conds : n \in Refs(n) THEN "rejected" ELSE "checking"
    /\ UNCHANGED <<order, conds, place, path, walked>>

Checking == result = "checking" /\ path = <<>>

\* The second loop, for one name: its own references, then findCycle with a new
\* map.
checkName ==
    /\ Checking /\ place <= Len(order)
    /\ LET n == order[place] IN
       IF Refs(n) \subseteq DOMAIN conds
       THEN /\ path' = <<[name |-> n, at |-> 1]>>
            /\ walked' = [Unwalked EXCEPT ![n] = 1]
            /\ UNCHANGED result
       ELSE result' = "rejected" /\ UNCHANGED <<path, walked>>
    /\ UNCHANGED <<order, conds, place>>

accept ==
    /\ Checking /\ place > Len(order)
    /\ result' = "accepted"
    /\ UNCHANGED <<order, conds, place, path, walked>>

Deepest == path[Len(path)]
Walking == result = "checking" /\ path # <<>>

\* The loop of the innermost call goes on to its next clause.
Advance(calls) ==
    IF calls = <<>> THEN calls ELSE [calls EXCEPT ![Len(calls)].at = @ + 1]

\* Defect: a finished condition counts as a cycle when it is met again.
findCycle_diamond(m) ==
    \/ walked[m] # 0 /\ result' = "rejected" /\ UNCHANGED <<path, walked>>
    \/ /\ walked[m] = 0 /\ m \notin DOMAIN conds
       /\ result' = "panic" /\ UNCHANGED <<path, walked>>
    \/ /\ walked[m] = 0 /\ m \in DOMAIN conds
       /\ path' = Append(path, [name |-> m, at |-> 1])
       /\ walked' = [walked EXCEPT ![m] = 1]
       /\ UNCHANGED result

\* findCycle is called for m. conds[name].Clauses of a name that is not in the map
\* dereferences nil.
findCycle(m) ==
    \/ walked[m] = 1 /\ result' = "rejected" /\ UNCHANGED <<path, walked>>
    \/ walked[m] = 2 /\ path' = Advance(path) /\ UNCHANGED <<walked, result>>
    \/ /\ walked[m] = 0 /\ m \notin DOMAIN conds
       /\ result' = "panic" /\ UNCHANGED <<path, walked>>
    \/ /\ walked[m] = 0 /\ m \in DOMAIN conds
       /\ path' = Append(path, [name |-> m, at |-> 1])
       /\ walked' = [walked EXCEPT ![m] = 1]
       /\ UNCHANGED result

\* One round of the loop over the clauses.
nextClause ==
    /\ Walking /\ Deepest.at <= Len(conds[Deepest.name])
    /\ LET m == conds[Deepest.name][Deepest.at] IN
       IF m = NoRef THEN path' = Advance(path) /\ UNCHANGED <<walked, result>>
       ELSE findCycle(m)
    /\ UNCHANGED <<order, conds, place>>

\* The loop is through: the caller goes on with its next clause, and after the
\* outermost call parseConditions with its next name.
finish ==
    /\ Walking /\ Deepest.at > Len(conds[Deepest.name])
    /\ walked' = [walked EXCEPT ![Deepest.name] = 2]
    /\ path' = Advance(SubSeq(path, 1, Len(path) - 1))
    /\ place' = IF Len(path) = 1 THEN place + 1 ELSE place
    /\ UNCHANGED <<order, conds, result>>

parseConditions == readConditions \/ checkName \/ nextClause \/ finish \/ accept

Ended == result \in {"accepted", "rejected", "panic"}
Parsed == Ended /\ UNCHANGED graphVars

NextGraph == parseConditions \/ Parsed

SpecGraph == InitGraph /\ [][NextGraph]_graphVars

-----------------------------------------------------------------------------
(* Properties.                                                             *)

Undeclared == \E n \in DOMAIN conds : ~(Refs(n) \subseteq DOMAIN conds)

\* Some set of conditions each of which refers into the set.
Cyclic ==
    \E C \in SUBSET DOMAIN conds : C # {} /\ \A n \in C : Refs(n) \cap C # {}

\* A profile is accepted exactly when every reference is declared and no
\* conditions refer to each other in a cycle: shared references (a diamond) are
\* fine and no cycle slips through, whatever the order of the file.
AcceptsWellFormed ==
    Ended => (result = "accepted" <=> ~Undeclared /\ ~Cyclic)

\* A profile with an undeclared reference is rejected.
UndeclaredRejected == Ended /\ Undeclared => result = "rejected"
=============================================================================
