------------------------------ MODULE Profiles ------------------------------
(***************************************************************************)
(* Loading a profile (Parse in internal/policy/policy.go): its mode, the   *)
(* references between its conditions (ConditionGraph, extended), a         *)
(* condition and its clauses (parseConditions and parseClause in cond.go)  *)
(* and the rules (parseRule, parseWrite and parseAction), each of which is *)
(* accepted or rejects the whole profile.                                  *)
(*                                                                         *)
(* An entry of the file is its fields; "-" is a field left out. The text   *)
(* of a field is one of the kinds that the checks tell apart: a name or    *)
(* code is "ok" or "bad", a number is one at or just beyond each of its    *)
(* limits. Somebody writes the entry field by field and it may be loaded   *)
(* at any moment.                                                          *)
(***************************************************************************)
EXTENDS ConditionGraph

CONSTANTS
    Plain,    \* a condition without references
    MaxFields \* bound: fields of a rule besides the verb and the recipient

\* A name begins with a letter, a digit or an underscore.
ASSUME NamesAssumption == "-" \notin Name

VARIABLES
    part,    \* the entry that is written: "profile", "condition", "clause" or "rule"
    entry,   \* its fields
    verdict  \* "none", then "accepted" or "rejected"

profileVars == <<graphVars, part, entry, verdict>>

-----------------------------------------------------------------------------
(* The fields and what may be written in them.                             *)

\* The name of a condition may be that of one before it.
ConditionFields == [name |-> {"ok", "bad", "taken"}, all |-> {"ok"}, any |-> {"ok"}]

ClauseFields ==
    [cond |-> {"ok", "bad"}, op |-> {"in", "not_in", "eq", "ne", "is", "is_not", "other"},
     value |-> {"remote_addr", "uri", "header", "cookie", "bad"}, dataset |-> {"ok"},
     text |-> {"ok"}, type |-> {"string", "cidr", "other"}, hash |-> {"md5", "other"},
     static |-> {"true"}]

RuleFields ==
    [on |-> {"overload", "other"}, at |-> {"24", "25", "100", "101"}, match |-> {"ok", "empty"},
     if |-> Name, unless |-> Name,
     apply |-> {"request", "session", "conn", "ip", "response"},
     phase |-> {"request", "frame", "other"}, code |-> {"ok", "bad"},
     delta |-> {"-101", "-100", "900", "901"}, value |-> {"-101", "-100", "0", "100", "101"},
     counter |-> {"ok", "bad"}, group |-> {"ok", "bad"}, set |-> {"on", "off", "other"},
     marker |-> {"ok", "bad"}, ttl |-> {"0s", "1m", "bad"}, when |-> {"deny", "deny deny"},
     headers |-> {"ok", "bad"}, args |-> {"ok"}, body |-> {"ok"}, list |-> {"ok", "bad"},
     write |-> {"net", "other"}]

\* The fields of an action or a write, without the selection of requests.
ActionFields == DOMAIN RuleFields \ {"on", "at", "match", "if", "unless"}

\* verbs: the axes of each verb, the first of them the default.
verbs ==
    [challenge |-> <<"request">>, threshold |-> <<"request">>, skip |-> <<"request">>,
     mutate |-> <<"request">>, mark |-> <<"request">>, score |-> <<"request">>,
     active |-> <<"request", "conn">>, passive |-> <<"request", "conn">>,
     off |-> <<"request", "conn">>, vote |-> <<"request", "conn">>,
     audit |-> <<"request", "response">>, archive |-> <<"request", "response">>,
     reauth |-> <<"session">>, note |-> <<"request", "ip", "asn", "session">>]

\* Of a rule the fields that are not written one by one: whether it has an action,
\* and of the action its verb and recipient.
Heading == [actions : {"none"}, do : {"-"}, to : {"-"}] \cup
           [actions : {"one"}, do : DOMAIN verbs \cup {"-", "other"}, to : {"-", "*", "peer"}]

InitProfile ==
    /\ InitGraph /\ verdict = "none"
    /\ \/ /\ part = "profile" /\ entry \in [mode : {"-", "enforce", "off", "other"}]
          /\ entry.mode # "other" => conds = Plain
       \/ part = "clause" /\ entry = [f \in DOMAIN ClauseFields |-> "-"]
       \/ /\ part = "condition" /\ conds = Plain
          /\ entry = [f \in DOMAIN ConditionFields |-> "-"]
       \/ /\ part = "rule" /\ conds = Plain
          /\ \E head \in Heading :
                entry = [f \in DOMAIN RuleFields \cup {"actions", "do", "to"} |->
                            IF f \in DOMAIN RuleFields THEN "-" ELSE head[f]]

\* An entry is varied in profiles with one plain condition. The conditions are
\* loaded without a look at it, so that it may as well be written once they are.
Written == {f \in DOMAIN entry \ {"actions", "do", "to"} : entry[f] # "-"}
Write(f) ==
    /\ result = "accepted" /\ conds = Plain /\ verdict = "none"
    /\ part # "profile" /\ entry[f] = "-"
    /\ part = "rule" => /\ Cardinality(Written) < MaxFields
                        /\ f \in ActionFields => entry.actions = "one"
    /\ \E v \in (CASE part = "rule" -> RuleFields [] part = "clause" -> ClauseFields
                   [] OTHER -> ConditionFields)[f] :
          entry' = [entry EXCEPT ![f] = v]
    /\ UNCHANGED <<graphVars, part, verdict>>

Blank(fields) == \A f \in fields : entry[f] = "-"

-----------------------------------------------------------------------------
(* parseConditions, for the row of one condition, and parseClause.         *)

parseCondition ==
    /\ entry.name # "bad" /\ entry.name # "-"
    /\ entry.name # "taken"
    /\ entry.all = "-" \/ entry.any = "-"
    /\ entry.all # "-" \/ entry.any # "-"

addressable == entry.value \in {"remote_addr", "header"}

parseClause ==
    IF entry.cond # "-" \/ entry.op \in {"is", "is_not"}
    THEN /\ entry.cond = "ok" /\ entry.op \in {"is", "is_not"}
         /\ Blank({"value", "dataset", "text", "type", "hash", "static"})
    ELSE /\ entry.value \notin {"-", "bad"}
         /\ \/ /\ entry.op \in {"in", "not_in"}
               /\ entry.dataset # "-" /\ entry.text = "-"
               /\ entry.type # "other" /\ entry.hash # "other"
               /\ entry.type = "cidr" => entry.hash = "-" /\ addressable
            \/ /\ entry.op \in {"eq", "ne"}
               /\ entry.text # "-"
               /\ Blank({"dataset", "type", "hash", "static"})

-----------------------------------------------------------------------------
(* parseWrite, parseAction and parseRule.                                  *)

auditVerb == entry.do \in {"audit", "archive"}
recordVerb == auditVerb \/ entry.do \in {"mark", "score"}
controlVerb == entry.do \in {"active", "passive", "vote", "off"}

parseWrite ==
    /\ entry.list # "bad" /\ entry.write # "other"
    /\ Blank({"do", "to"} \cup (ActionFields \ {"list", "write", "ttl", "code"}))
    /\ entry.ttl = "1m"
    /\ entry.code # "bad"

Apply ==
    IF entry.apply = "-" /\ (Len(verbs[entry.do]) = 1 \/ recordVerb)
    THEN verbs[entry.do][1] ELSE entry.apply

checkPhaseAsk ==
    entry.phase # "-" =>
        /\ controlVerb
        /\ entry.phase # "other"
        /\ Apply = "conn" => entry.phase = "frame"

checkNumbers ==
    /\ IF entry.do = "threshold" THEN entry.delta \in {"-100", "900"} ELSE entry.delta = "-"
    /\ CASE entry.do = "score" -> /\ entry.value \in {"-100", "100"}
                                  /\ entry.to \in {"-", "*"} /\ entry.counter = "-"
         [] entry.do = "note"  -> entry.value \notin {"-101", "101"} /\ entry.counter # "bad"
         [] OTHER              -> Blank({"value", "counter"})

\* Defect: set is let through for every verb.
checkNames_lenient ==
    /\ IF entry.do = "mutate" THEN entry.group = "ok" /\ entry.set \in {"on", "off"}
       ELSE entry.group = "-"
    /\ IF entry.do = "mark" THEN entry.to \in {"-", "*"} /\ entry.marker = "ok"
       ELSE entry.marker = "-"

checkNames ==
    /\ IF entry.do = "mutate" THEN entry.group = "ok" /\ entry.set \in {"on", "off"}
       ELSE entry.group = "-" /\ (entry.set = "-" \/ auditVerb)
    /\ IF entry.do = "mark" THEN entry.to \in {"-", "*"} /\ entry.marker = "ok"
       ELSE entry.marker = "-"

\* A ttl below a second counts as none here, but not for the verbs without one.
\* The checks of the three objects are the same: one of them stands for all.
checkRecord ==
    LET ttl == entry.ttl = "1m"
        objects == {"headers", "args", "body"}
    IN  IF auditVerb
        THEN /\ entry.to \in {"-", "*"}
             /\ entry.set \in {"on", "off"}
             /\ entry.set = "off" => ~ttl /\ Blank({"when"} \cup objects)
             /\ entry.do = "audit" => ~ttl /\ entry.when = "-"
             /\ Apply = "response" => entry.args = "-"
             /\ entry.headers # "bad"
        ELSE Blank({"ttl", "when"} \cup objects)

parseAction ==
    /\ entry.write = "-" /\ entry.ttl # "bad" /\ entry.when # "deny deny"
    /\ entry.to # "-" \/ recordVerb
    /\ entry.do \in DOMAIN verbs
    /\ Apply \in {verbs[entry.do][i] : i \in DOMAIN verbs[entry.do]}
    /\ checkPhaseAsk
    /\ entry.code # "bad"
    /\ checkNumbers /\ checkNames /\ checkRecord

parseRule ==
    /\ \/ entry.on = "-" /\ entry.at = "-"
       \/ entry.on = "overload" /\ entry.at \notin {"24", "101"} /\ Blank({"match", "if", "unless"})
    /\ entry.if = "-" \/ entry.unless = "-"
    /\ ({entry.if, entry.unless} \ {"-"}) \subseteq DOMAIN conds
    /\ entry.match # "empty"
    /\ entry.actions # "none"
    /\ entry.actions = "one" => IF entry.list # "-" THEN parseWrite ELSE parseAction

-----------------------------------------------------------------------------
badMode == part = "profile" /\ entry.mode = "other"

\* Parse: the mode, then the conditions, then the rules. (A condition and its clauses
\* are checked while it is read; in a profile without references the order makes no
\* difference.)
Parse ==
    \/ ~badMode /\ parseConditions /\ UNCHANGED <<part, entry, verdict>>
    \/ /\ badMode \/ (result = "accepted" /\ conds = Plain)
       /\ verdict = "none"
       /\ verdict' = IF CASE part = "rule" -> parseRule [] part = "clause" -> parseClause
                        [] part = "condition" -> parseCondition [] OTHER -> ~badMode
                     THEN "accepted" ELSE "rejected"
       /\ UNCHANGED <<graphVars, part, entry>>

Loaded ==
    /\ verdict # "none" \/ (Ended /\ conds # Plain)
    /\ UNCHANGED profileVars

NextProfile ==
    (\E f \in DOMAIN entry \ {"actions", "do", "to"} : Write(f)) \/ Parse \/ Loaded

SpecProfile == InitProfile /\ [][NextProfile]_profileVars

-----------------------------------------------------------------------------
(* Properties.                                                             *)

\* The grammar by verb: the fields it cannot do without, and those it may have.
VerbNeeds == [v \in DOMAIN verbs |->
            CASE v = "threshold" -> {"delta"} [] v = "score" -> {"value"}
              [] v = "mutate" -> {"group", "set"} [] v = "mark" -> {"marker"}
              [] v \in {"audit", "archive"} -> {"set"} [] v = "note" -> {"apply"}
              [] v \in {"active", "passive", "off", "vote"} -> {"apply"} [] OTHER -> {}]
VerbMay == [v \in DOMAIN verbs |->
            CASE v = "note" -> {"value", "counter"}
              [] v \in {"active", "passive", "off", "vote"} -> {"phase"}
              [] v = "audit" -> {"headers", "args", "body"}
              [] v = "archive" -> {"headers", "args", "body", "ttl", "when"} [] OTHER -> {}]
Wrong == {"bad", "other", "-101", "101", "901", "deny deny"}

WellFormedAction ==
    /\ entry.do \in DOMAIN verbs
    /\ LET given == Written \cap ActionFields IN
       /\ VerbNeeds[entry.do] \subseteq given
       /\ given \subseteq VerbNeeds[entry.do] \cup VerbMay[entry.do] \cup {"apply", "code"}
                          \cup (IF entry.do = "audit" /\ entry.ttl = "0s" THEN {"ttl"} ELSE {})
       /\ \A f \in given : entry[f] \notin Wrong
    /\ entry.apply \in {"-", "request", "conn", "ip", "session", "response"}
    /\ entry.apply # "-" => \E i \in DOMAIN verbs[entry.do] : verbs[entry.do][i] = entry.apply
    /\ entry.do = "score" => entry.value # "0"
    /\ entry.do = "score" => entry.to = "-"
    /\ (entry.do \in {"mark", "audit", "archive"}) => entry.to # "peer"
    /\ (entry.do \notin {"score", "mark", "audit", "archive"}) => entry.to # "-"
    /\ entry.apply = "conn" => entry.phase \in {"-", "frame"}
    /\ entry.set = "off" /\ entry.do # "mutate" =>
          entry.ttl # "1m" /\ Blank({"when", "headers", "args", "body"})
    /\ entry.apply = "response" => entry.args = "-"

WellFormedWrite ==
    /\ entry.do = "-" /\ entry.to = "-" /\ entry.ttl = "1m"
    /\ Written \cap ActionFields \subseteq {"list", "write", "ttl", "code"}
    /\ \A f \in {"list", "write", "code"} : entry[f] \notin Wrong

\* A clause by its operator: the fields it needs, and those it may have.
ClauseNeeds == [op \in ClauseFields.op \ {"other"} |->
    CASE op \in {"is", "is_not"} -> {"cond"} [] op \in {"eq", "ne"} -> {"value", "text"}
      [] OTHER -> {"value", "dataset"}]
WellFormedClause ==
    /\ entry.op \in DOMAIN ClauseNeeds
    /\ ClauseNeeds[entry.op] \subseteq Written
    /\ Written \subseteq {"op"} \cup ClauseNeeds[entry.op] \cup
          (IF entry.op \in {"in", "not_in"} THEN {"type", "hash", "static"} ELSE {})
    /\ \A f \in Written : entry[f] \notin Wrong
    /\ entry.type = "cidr" => entry.hash = "-" /\ entry.value \in {"remote_addr", "header"}

\* Exactly one of the keys all and any.
WellFormedCondition ==
    /\ entry.name = "ok"
    /\ \E key \in {"all", "any"} : Written \cap {"all", "any"} = {key}

WellFormedRule ==
    /\ entry.actions = "one"
    /\ IF entry.list = "-" THEN WellFormedAction ELSE WellFormedWrite
    /\ entry.if = "-" \/ entry.unless = "-"
    /\ \A n \in Name : n \in {entry.if, entry.unless} => n \in DOMAIN conds
    /\ entry.on = "overload" => Blank({"match", "if", "unless"})
    /\ entry.on # "other" /\ entry.match # "empty"
    /\ entry.at # "-" => entry.on = "overload" /\ entry.at \in {"25", "100"}

\* The README refuses every recipient of a score, the code lets "*" through (the README
\* of this project, section 5): the property says nothing of that one.
Disputed == part = "rule" /\ entry.do = "score" /\ entry.to = "*"

WellFormed ==
    CASE part = "rule" -> WellFormedRule [] part = "clause" -> WellFormedClause
      [] part = "condition" -> WellFormedCondition [] OTHER -> entry.mode # "other"

\* Apart from the disputed recipient, a rule is accepted exactly when it has an action
\* and that is one the grammar of its verb, or of the list writes, allows, with every
\* number within its limits: nothing that belongs to another verb slips through the
\* checks, which go field by field, and nothing the README offers is refused; its
\* condition is declared, and an overload rule has none. A clause is accepted exactly
\* when it has the fields of its operator, a condition when it has a name of its own
\* and one of the two keys, and a profile never with an unknown mode.
EntriesFollowGrammar ==
    verdict # "none" /\ ~Disputed => (verdict = "accepted" <=> WellFormed)
=============================================================================
