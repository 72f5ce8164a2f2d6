------------------------------ MODULE Handler ------------------------------
(***************************************************************************)
(* The life of one message in cmd/inspector/handler.go: receive, evaluate, *)
(* inspect, overloadOnShed and send, with the writes to live lists of      *)
(* cmd/inspector/lists.go.                                                 *)
(*                                                                         *)
(* The pool (module Pool) is seen through its contract: it calls evaluate  *)
(* once for a submitted task, with or without a reason to shed it. Which   *)
(* conditional rules fire and whether the buffer failed is decided by      *)
(* module Evaluator. Meanwhile the profiles are swapped (module Rollout),  *)
(* and the network directory answers or not.                               *)
(***************************************************************************)
EXTENDS Integers, Sequences, FiniteSets, Selection

CONSTANTS
    Profile,    \* what a snapshot may hold under the name of the route
    NoProfile,  \* the snapshot has no such profile
    Message,    \* the messages looked at
    Fill,       \* fills of the queue, in percent
    MaxSwaps    \* bound: swaps of the snapshot during the message

AtMax == 100

\* A rule sends one action; it may also write to a live list: the address of the
\* client, or its network, which the network directory has to be asked for.
Rule == [overload : BOOLEAN, at : 25 .. AtMax, cond : BOOLEAN,
         write : {"none", "addr", "net"}]

ASSUME HandlerAssumption ==
    /\ \A p \in Profile : p.mode \in {"off", "enforce"} /\ p.rules \in Seq(Rule)
    /\ NoProfile \notin Profile
    /\ Message \subseteq
         [kind : {"malformed", "unsupported", "release", "idle", "request"},
          reply : BOOLEAN, addr : BOOLEAN]
    /\ Fill \subseteq 0 .. 100
    /\ MaxSwaps \in Nat

VARIABLES
    msg,      \* the message
    snap,     \* h.store.Current(): <<version, profile>>
    swaps,    \* swaps of the snapshot so far
    pc,       \* where the handler is
    shed,     \* the pool's reason, or ""
    fill,     \* t.Fill
    held,     \* the snapshot that the handler read
    asked,    \* actions collected: <<version, rule>>
    writes,   \* writes not yet done: <<version, rule>>
    out,      \* writes published
    geoErr,   \* a question to the network directory failed
    saying,   \* send: the reply, and whether the request is known to the audit
    guards,   \* deferred calls of recoverInto on the stack
    replies,  \* replies published
    audited,  \* events handed to the audit
    refused,  \* history: writes that AddMany could not publish
    faults    \* history: what failed in send, and panics

work == <<msg, shed, fill, held, asked, writes, out, refused, geoErr>>
sending == <<saying, guards, replies, audited, faults>>
vars == <<work, sending, snap, swaps, pc>>

NewReply(verdict, code, class, actions) ==
    [verdict |-> verdict, code |-> code, class |-> class, actions |-> actions]

ErrorReply(code) == NewReply("error", code, "none", <<>>)

\* plain: allow with a code.
plain(code) == NewReply("allow", code, "none", <<>>)

\* FallbackReply with codeInternalError.
Internal == ErrorReply("INTERNAL_ERROR")
Nothing == [reply |-> Internal, known |-> FALSE]

Init ==
    /\ msg \in Message
    /\ snap \in {0} \X (Profile \cup {NoProfile})
    /\ swaps = 0
    /\ pc = "receive"
    /\ shed = "" /\ fill \in Fill
    /\ held = snap
    /\ asked = <<>> /\ writes = <<>> /\ out = {} /\ refused = {}
    /\ geoErr = FALSE
    /\ saying = Nothing /\ guards = 1
    /\ replies = <<>> /\ audited = 0
    /\ faults = {}

-----------------------------------------------------------------------------
(* send, in steps: it is called at the end of every path.                  *)

\* send returns at once without a reply subject.
send(reply, known) ==
    /\ pc' = IF msg.reply THEN "send" ELSE "done"
    /\ saying' = [reply |-> reply, known |-> known]

\* Marshal and Publish. A reply that cannot be marshalled is replaced by the
\* fallback, and nothing is sent when that fails too; a failing Publish is logged.
sendPublish ==
    /\ pc = "send"
    /\ \/ /\ replies' = Append(replies, saying.reply)
          /\ pc' = "audit" /\ UNCHANGED faults
       \/ /\ replies' = Append(replies, Internal)
          /\ pc' = "audit" /\ faults' = faults \cup {"marshal"}
       \/ /\ pc' \in {"audit", "done"} /\ faults' = faults \cup {"lost"}
          /\ UNCHANGED replies
    /\ UNCHANGED <<work, snap, swaps, saying, guards, audited>>

\* audit.Add: does nothing without a request.
sendAudit ==
    /\ pc = "audit"
    /\ audited' = IF saying.known THEN audited + 1 ELSE audited
    /\ pc' = "done"
    /\ UNCHANGED <<work, snap, swaps, saying, guards, replies, faults>>

\* Defect: the answer to a panic comes with the request, so that it is audited.
recoverInto_audits ==
    IF guards = 0 THEN pc' = "dead" /\ UNCHANGED <<saying, guards>>
    ELSE send(Internal, TRUE) /\ guards' = guards - 1

\* The innermost recoverInto answers, without the request: the audit sees nothing.
\* A panic with no recoverInto left ends the process.
recoverInto ==
    IF guards = 0 THEN pc' = "dead" /\ UNCHANGED <<saying, guards>>
    ELSE send(Internal, FALSE) /\ guards' = guards - 1

\* A call made by receive, evaluate or recoverInto panics, in send before the reply
\* is out or in the audit after it. Writes that are out stay out.
panic ==
    /\ \/ /\ pc \in {"receive", "inspect", "collect", "overload", "write", "send"}
          /\ faults' = faults \cup {"panic"}
       \/ /\ pc = "audit" /\ saying.known
          /\ faults' = faults \cup {"audit"}
    /\ recoverInto
    /\ UNCHANGED <<work, snap, swaps, replies, audited>>

-----------------------------------------------------------------------------
(* receive runs in the goroutine of the subscription.                      *)

\* The early returns, in the order of the code: a message that does not parse, a
\* version that is not supported, a release, another phase.
receive ==
    /\ pc = "receive"
    /\ CASE msg.kind = "malformed" -> send(ErrorReply("MALFORMED_REQUEST"), FALSE)
         [] msg.kind = "unsupported" -> send(plain("UNSUPPORTED_VERSION"), TRUE)
         [] msg.kind = "release" -> pc' = "done" /\ UNCHANGED saying
         [] msg.kind = "idle" -> send(plain("IDLE"), TRUE)
         [] msg.kind = "request" -> pc' = "queued" /\ UNCHANGED saying
    /\ UNCHANGED <<work, snap, swaps, guards, replies, audited, faults>>

\* The pool calls evaluate, once: from a worker or the sweeper, or, when the task is
\* shed, from Submit, inside receive and its recoverInto.
evaluate ==
    /\ pc = "queued"
    /\ shed' \in {"", "queue_limit", "deadline_exceeded"}
    /\ guards' \in IF shed' = "" THEN {1} ELSE {1, 2}
    /\ CASE shed' = "" -> pc' = "inspect" /\ UNCHANGED saying
         [] shed' = "queue_limit" -> pc' = "overload" /\ UNCHANGED saying
         [] OTHER -> send(NewReply("error", shed', "overload", <<>>), TRUE)
    /\ UNCHANGED <<msg, snap, swaps, fill, held, asked, writes, out, refused, geoErr>>
    /\ UNCHANGED <<replies, audited, faults>>

-----------------------------------------------------------------------------
(* Collecting.                                                             *)

Tagged(version, rules) == [k \in DOMAIN rules |-> <<version, rules[k]>>]

\* The rules of p in I, by index, in order.
Chosen(p, I) == SelectAt([i \in 1 .. Len(p.rules) |-> i], I)

Writing(p, rules) == SelectAt(rules, {k \in DOMAIN rules : p.rules[rules[k]].write # "none"})

\* Defect: the queue has to be fuller than the mark.
Fires_above(at, f, isShed) == isShed \/ (at < AtMax /\ f > at)

\* overload.Fires
Fires(at, f, isShed) == isShed \/ (at < AtMax /\ f >= at)

CollectOverload(p, f, isShed) ==
    Chosen(p, {i \in DOMAIN p.rules : p.rules[i].overload /\ Fires(p.rules[i].at, f, isShed)})

\* Collect with the conditions in S holding the way their rules ask for.
Collect(p, S) ==
    Chosen(p, {i \in DOMAIN p.rules : ~p.rules[i].overload /\ (p.rules[i].cond => i \in S)})

\* The two collections are joined, actions and writes alike.
Take(version, p, rules) ==
    /\ asked' = Tagged(version, rules)
    /\ writes' = IF msg.addr THEN Tagged(version, Writing(p, rules)) ELSE <<>>

\* Defect: the overload rules are collected from the snapshot of that moment.
TakeAll_reread(S) ==
    LET first == Collect(held[2], S)
        now == IF snap[2] = NoProfile THEN held ELSE snap
        more == CollectOverload(now[2], fill, FALSE)
    IN  /\ asked' = Tagged(held[1], first) \o Tagged(now[1], more)
        /\ writes' = IF msg.addr THEN Tagged(held[1], Writing(held[2], first)) ELSE <<>>

\* inspect: Collect, then the overload rules that fire at this fill.
TakeAll(S) ==
    Take(held[1], held[2], Collect(held[2], S) \o CollectOverload(held[2], fill, FALSE))

\* inspect reads the snapshot once and keeps the profile.
inspect ==
    /\ pc = "inspect"
    /\ held' = snap
    /\ IF snap[2] = NoProfile THEN send(ErrorReply("UNKNOWN_PROFILE"), TRUE)
       ELSE IF snap[2].mode = "off" THEN send(plain("PROFILE_OFF"), TRUE)
       ELSE pc' = "collect" /\ UNCHANGED saying
    /\ UNCHANGED <<msg, snap, swaps, shed, fill, asked, writes, out, refused, geoErr>>
    /\ UNCHANGED <<guards, replies, audited, faults>>

\* The conditional rules in S fire. A fault of the buffer, which only a profile
\* with conditions can meet, discards everything collected.
collect ==
    /\ pc = "collect"
    /\ LET conditional == {i \in DOMAIN held[2].rules : held[2].rules[i].cond}
       IN  \/ /\ \E S \in SUBSET conditional : TakeAll(S)
              /\ pc' = "write"
              /\ UNCHANGED saying
           \/ /\ conditional # {}
              /\ send(ErrorReply("STORE_ERROR"), TRUE)
              /\ UNCHANGED <<asked, writes>>
    /\ UNCHANGED <<msg, snap, swaps, shed, fill, held, out, refused, geoErr>>
    /\ UNCHANGED <<guards, replies, audited, faults>>

\* overloadOnShed reads the snapshot itself; every overload rule fires.
overloadOnShed ==
    /\ pc = "overload"
    /\ held' = snap
    /\ IF snap[2] = NoProfile \/ (snap[2] # NoProfile /\ snap[2].mode = "off")
       THEN /\ send(NewReply("error", shed, "overload", <<>>), TRUE)
            /\ UNCHANGED <<asked, writes>>
       ELSE /\ Take(snap[1], snap[2], CollectOverload(snap[2], fill, TRUE))
            /\ pc' = "write"
            /\ UNCHANGED saying
    /\ UNCHANGED <<msg, snap, swaps, shed, fill, out, refused, geoErr>>
    /\ UNCHANGED <<guards, replies, audited, faults>>

-----------------------------------------------------------------------------
(* writeLists: the writes one by one.                                      *)

Write == Head(writes)
Networked == held[2].rules[Write[2]].write = "net"

\* Defect: the first failure of the directory ends the loop.
geoFail_stops ==
    /\ geoErr' = TRUE
    /\ writes' = <<>>

\* The error is kept, the loop goes on.
geoFail ==
    /\ geoErr' = TRUE
    /\ writes' = Tail(writes)

\* The address itself, or what the directory answered, goes out in one frame; the
\* directory may know nothing about the address. A failing AddMany is logged.
writeOne ==
    /\ pc = "write" /\ writes # <<>>
    /\ \/ out' = out \cup {Write} /\ UNCHANGED refused
       \/ refused' = refused \cup {Write} /\ UNCHANGED out
       \/ Networked /\ UNCHANGED <<out, refused>>
    /\ writes' = Tail(writes)
    /\ UNCHANGED <<msg, snap, swaps, pc, shed, fill, held, asked, geoErr, sending>>

geoError ==
    /\ pc = "write" /\ writes # <<>> /\ Networked
    /\ geoFail
    /\ UNCHANGED <<msg, snap, swaps, pc, shed, fill, held, asked, out, refused, sending>>

\* The end of inspect: the failure of a network write is the answer.
Outcome ==
    IF geoErr THEN ErrorReply("GEO_UNAVAILABLE")
    ELSE NewReply("allow", "OK", "none", asked)

\* The reply of inspect, or of a shed task with the actions of its overload rules:
\* overloadOnShed only logs the failure of the directory.
answer ==
    /\ pc = "write" /\ writes = <<>>
    /\ send(IF shed = "" THEN Outcome ELSE NewReply("error", shed, "overload", asked), TRUE)
    /\ UNCHANGED <<work, snap, swaps, guards, replies, audited, faults>>

-----------------------------------------------------------------------------
(* The surroundings.                                                       *)

\* Another generation or an edit is loaded.
Swap ==
    /\ pc \notin {"done", "dead"} /\ swaps < MaxSwaps
    /\ swaps' = swaps + 1
    /\ snap' \in {swaps + 1} \X (Profile \cup {NoProfile})
    /\ UNCHANGED <<work, sending, pc>>

Done == pc \in {"done", "dead"} /\ UNCHANGED vars

Step == receive \/ evaluate \/ inspect \/ collect \/ overloadOnShed
          \/ writeOne \/ geoError \/ answer \/ sendPublish \/ sendAudit \/ panic

Next == Step \/ Swap \/ Done

Spec == Init /\ [][Next]_vars

-----------------------------------------------------------------------------
(* Properties.                                                             *)

Answered == replies # <<>>
Answer == replies[1]
Ruled == Answered /\ held[2] # NoProfile /\ Answer.code \in {"OK", "GEO_UNAVAILABLE", "queue_limit"}

\* The replies that are due, send failing or not.
Due == IF msg.kind = "release" /\ "panic" \notin faults THEN 0 ELSE 1
Again == IF "audit" \in faults THEN 1 ELSE 0

\* A message with a reply subject gets exactly one reply, whichever call before or
\* in send panics, a fallback of send included; a release gets none, unless receive
\* itself panicked. The exceptions are those of the code: a reply is lost only with a
\* failing Marshal of the fallback, a failing Publish or the end of the process, and
\* a panic of the audit, when the reply is out, sends INTERNAL_ERROR after it: once,
\* although the recovery may panic as well. Nothing is sent without a subject.
OneReply ==
    /\ msg.reply \/ replies = <<>>
    /\ Len(replies) <= Due + Again
    /\ \A i \in DOMAIN replies : i > 1 \/ msg.kind = "release" => replies[i] = Internal
    /\ pc = "done" /\ msg.reply /\ "lost" \notin faults => Len(replies) = Due + Again

\* The address writes of a request are all handed to AddMany although the network
\* directory failed for another write of the same request: before it, after it, or on
\* the shed path. On the evaluated path that failure is the answer, and nothing else
\* is answered so; the shed path keeps its own (handler.go:277-284).
AddressWritesOut ==
    Ruled =>
        /\ msg.addr => \A i \in DOMAIN asked :
              held[2].rules[asked[i][2]].write = "addr" => asked[i] \in out \cup refused
        /\ shed = "" => (geoErr <=> Answer.code = "GEO_UNAVAILABLE")

\* Everything a message asks for and writes comes from one snapshot although the
\* profiles are swapped while it is handled.
OneSnapshot ==
    /\ Answered => \A i, j \in DOMAIN Answer.actions :
                      Answer.actions[i][1] = Answer.actions[j][1]
    /\ \A w \in out : \A i \in DOMAIN asked : w[1] = asked[i][1]

AskedRules == {Answer.actions[i][2] : i \in DOMAIN Answer.actions}

\* What rule i of the profile held asks for, given how the message ended.
Fits(i, rules) ==
    LET r == held[2].rules[i]
    IN  IF shed = "queue_limit"
        THEN i \in rules <=> r.overload /\ held[2].mode # "off"
        ELSE IF r.overload THEN i \in rules <=> r.at < 100 /\ r.at <= fill
        ELSE r.cond \/ i \in rules

\* A rule's actions are sent at most once. A shed request sends the actions of all
\* overload rules and of no other, also when the directory failed for one of their
\* writes; an evaluated one sends those of exactly the overload rules whose mark
\* below 100 the queue has reached, besides all rules without a condition. Any other
\* error asks for nothing.
OverloadAsksUnderLoad ==
    /\ Answered /\ Answer.verdict = "error" /\ Answer.actions # <<>>
          => Answer.code = "queue_limit" /\ Answer.class = "overload"
    /\ Ruled /\ Answer.code # "GEO_UNAVAILABLE" =>
        /\ Cardinality(AskedRules) = Len(Answer.actions)
        /\ \A i \in DOMAIN held[2].rules : Fits(i, AskedRules)
=============================================================================
