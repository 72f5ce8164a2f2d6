--------------------------- MODULE HandlerProofs ---------------------------
(***************************************************************************)
(* Theorems about Handler, for all profiles, messages and fills of the     *)
(* queue, and any number of swaps of the snapshot.                         *)
(***************************************************************************)
EXTENDS Handler, SelectionProofs, FiniteSetTheorems

-----------------------------------------------------------------------------
(* The inductive invariant.                                                *)

\* Before send is called for the first time.
Early == {"receive", "queued", "inspect", "collect", "overload", "write"}
Labels == Early \cup {"send", "audit", "done", "dead"}
Snapshot == Nat \X (Profile \cup {NoProfile})
\* The codes of replies that say nothing about rules.
QuietCode == {"MALFORMED_REQUEST", "UNSUPPORTED_VERSION", "IDLE", "UNKNOWN_PROFILE",
              "PROFILE_OFF", "STORE_ERROR", "INTERNAL_ERROR", "deadline_exceeded"}
Code == QuietCode \cup {"OK", "GEO_UNAVAILABLE", "queue_limit"}
Reply == [verdict : {"allow", "error"}, code : Code, class : {"none", "overload"},
          actions : Seq(Nat \X Nat)]

Types ==
    /\ msg \in Message /\ snap \in Snapshot /\ held \in Snapshot /\ swaps \in Nat
    /\ pc \in Labels /\ shed \in {"", "queue_limit", "deadline_exceeded"} /\ fill \in Fill
    /\ asked \in Seq(Nat \X Nat) /\ writes \in Seq(Nat \X Nat) /\ out \subseteq Nat \X Nat
    /\ geoErr \in BOOLEAN
    /\ saying \in [reply : Reply, known : BOOLEAN] /\ replies \in Seq(Reply)

\* How many replies are out, by the place in send and what failed.
Counted ==
    /\ pc \in Early => Len(replies) = 0 /\ faults = {}
    /\ pc = "send" => Len(replies) <= Again
    /\ pc = "audit" => Len(replies) <= 1 + Again
    /\ pc \in {"done", "dead"} => Len(replies) <= Due + Again
    /\ "lost" \notin faults =>
         /\ pc = "send" => Len(replies) = Again
         /\ pc = "audit" => Len(replies) = 1 + Again
         /\ pc = "done" /\ msg.reply => Len(replies) = Due + Again

\* What send is about to say after a panic, and to a release.
Replied ==
    /\ Counted
    /\ pc \in {"send", "audit"} => msg.reply /\ Due = 1
    /\ msg.reply \/ Len(replies) = 0
    /\ pc \in {"send", "audit"} /\ ("audit" \in faults \/ msg.kind = "release") => saying = Nothing
    /\ \A i \in 1 .. Len(replies) : i > 1 \/ msg.kind = "release" => replies[i] = Internal

\* Where the handler is tells what it holds.
Stages ==
    /\ pc \in {"receive", "queued", "inspect", "collect"} => shed = ""
    /\ pc \in Early /\ pc # "receive" => msg.kind = "request"
    /\ pc = "overload" => shed = "queue_limit"
    /\ pc = "write" => shed \in {"", "queue_limit"} /\ held[2] \in Profile
    /\ pc = "write" /\ shed = "queue_limit" => held[2].mode # "off"
    /\ pc = "collect" => held[2] \in Profile
    /\ pc \in Early /\ pc # "write" => asked = <<>> /\ writes = <<>> /\ out = {}

\* Everything collected comes from the snapshot held, no rule twice.
Collected ==
    /\ \A i \in 1 .. Len(asked) : asked[i][1] = held[1]
    /\ \A i \in 1 .. Len(writes) : writes[i][1] = held[1]
    /\ \A w \in out : w[1] = held[1]
    /\ \A i, j \in 1 .. Len(asked) : asked[i][2] = asked[j][2] => i = j
    /\ held[2] \in Profile => \A i \in 1 .. Len(asked) : asked[i][2] \in DOMAIN held[2].rules

\* An address write is out, refused or still to come.
Outgoing ==
    msg.addr /\ held[2] \in Profile =>
        \A i \in 1 .. Len(asked) :
            held[2].rules[asked[i][2]].write = "addr" =>
                asked[i] \in out \cup refused \/ \E k \in 1 .. Len(writes) : writes[k] = asked[i]

Indices == {asked[i][2] : i \in 1 .. Len(asked)}

\* What was collected fits the load.
Fitting == held[2] \in Profile => \A i \in DOMAIN held[2].rules : Fits(i, Indices)

\* The reply r agrees with what was collected and how the directory answered.
Sent(r) ==
    /\ r.actions = <<>> \/ r.actions = asked
    /\ r.verdict = "error" /\ r.actions # <<>> => r.code = "queue_limit" /\ r.class = "overload"
    /\ r.code \in {"OK", "GEO_UNAVAILABLE", "queue_limit"} => writes = <<>>
    /\ r.code \in {"OK", "queue_limit"} => r.actions = asked /\ Fitting
    /\ r.code = "OK" => ~geoErr
    /\ r.code = "GEO_UNAVAILABLE" => geoErr
    /\ r.code = "queue_limit" => shed = "queue_limit"

Answers ==
    /\ pc = "write" => Fitting
    /\ pc = "send" => Sent(saying.reply)
    /\ replies # <<>> => Sent(replies[1])

Inv == Types /\ Replied /\ Stages /\ Collected /\ Outgoing /\ Answers

-----------------------------------------------------------------------------
(* What collecting returns.                                                *)

\* s runs through the numbers in I, each once.
Listing(s, I) ==
    /\ s \in Seq(Nat)
    /\ \A i \in 1 .. Len(s) : s[i] \in I
    /\ \A i, j \in 1 .. Len(s) : s[i] = s[j] => i = j
    /\ \A n \in I : \E i \in 1 .. Len(s) : s[i] = n

\* Choosing rules by index lists these indices.
LEMMA ChosenLists ==
    ASSUME NEW p, p.rules \in Seq(Rule), NEW I \in SUBSET DOMAIN p.rules
    PROVE  Listing(Chosen(p, I), I)
<1> DEFINE es == [i \in 1 .. Len(p.rules) |-> i]
           g == SelectAt(es, I)
<1>1. Len(p.rules) \in Nat /\ DOMAIN p.rules = 1 .. Len(p.rules)
  BY LenProperties
<1>2. es \in Seq(Nat) /\ Len(es) = Len(p.rules) /\ \A i \in 1 .. Len(p.rules) : es[i] = i
  <2>1. es \in [1 .. Len(p.rules) -> Nat]
    BY <1>1
  <2> QED BY <1>1, <2>1, SeqDef, LenProperties
<1> HIDE DEF es
<1>3. g \in Seq(Nat) /\ Picked(es, I, g, Len(es))
  BY <1>2, SelectAtIsExact
<1>eq. Chosen(p, I) = g
  BY DEF Chosen, es
<1> HIDE DEF g
<1>4. PICK h \in [1 .. Len(g) -> 1 .. Len(es)] : Enumerates(es, I, g, Len(es), h)
  BY <1>3 DEF Picked
<1>5. \A i \in 1 .. Len(g) : h[i] \in 1 .. Len(p.rules) /\ h[i] \in I /\ g[i] = h[i]
  BY <1>2, <1>4 DEF Enumerates
<1>6. \A i, j \in 1 .. Len(g) : g[i] = g[j] => i = j
  <2>1. \A i, j \in 1 .. Len(g) : i < j => h[i] < h[j]
    BY <1>4 DEF Enumerates
  <2>2. \A i \in 1 .. Len(g) : i \in Int /\ h[i] \in Int
    BY <1>5
  <2> QED BY <1>5, <2>1, <2>2
<1>7. ASSUME NEW n \in I PROVE \E i \in 1 .. Len(g) : g[i] = n
  <2>1. n \in 1 .. Len(es)
    BY <1>1, <1>2
  <2>2. PICK i \in 1 .. Len(g) : h[i] = n
    BY <1>4, <2>1 DEF Enumerates
  <2> QED BY <1>5, <2>2
<1> QED BY <1>3, <1>5, <1>6, <1>7, <1>eq DEF Listing

\* Two disjoint lists, one after the other.
LEMMA JoinedLists ==
    ASSUME NEW s, NEW t, NEW I, NEW J, Listing(s, I), Listing(t, J), I \cap J = {}
    PROVE  Listing(s \o t, I \cup J)
<1> DEFINE u == s \o t
<1>1. s \in Seq(Nat) /\ t \in Seq(Nat)
  BY DEF Listing
<1>2. Len(s) \in Nat /\ Len(t) \in Nat
  BY <1>1, LenProperties
<1>3. /\ u \in Seq(Nat) /\ Len(u) = Len(s) + Len(t)
      /\ \A i \in 1 .. Len(u) : u[i] = IF i <= Len(s) THEN s[i] ELSE t[i - Len(s)]
  BY <1>1, ConcatProperties
<1> HIDE DEF u
<1>4. ASSUME NEW i \in 1 .. Len(u)
      PROVE  \/ i \in 1 .. Len(s) /\ u[i] = s[i] /\ u[i] \in I
             \/ i > Len(s) /\ i - Len(s) \in 1 .. Len(t) /\ u[i] = t[i - Len(s)] /\ u[i] \in J
  <2>1. CASE i <= Len(s)
    <3>1. i \in 1 .. Len(s)
      BY <1>2, <1>3, <2>1
    <3>2. u[i] = s[i]
      BY <1>3, <2>1
    <3> QED BY <3>1, <3>2 DEF Listing
  <2>2. CASE ~(i <= Len(s))
    <3>1. i - Len(s) \in 1 .. Len(t) /\ i > Len(s)
      BY <1>2, <1>3, <2>2
    <3> QED BY <1>3, <2>2, <3>1 DEF Listing
  <2> QED BY <2>1, <2>2
<1>5. ASSUME NEW i \in 1 .. Len(u), NEW j \in 1 .. Len(u), u[i] = u[j] PROVE i = j
  <2>1. CASE i \in 1 .. Len(s) /\ u[i] = s[i] /\ u[i] \in I
    <3>1. j \in 1 .. Len(s) /\ u[j] = s[j]
      BY <1>4, <1>5, <2>1
    <3> QED BY <1>5, <2>1, <3>1 DEF Listing
  <2>2. CASE i > Len(s) /\ i - Len(s) \in 1 .. Len(t) /\ u[i] = t[i - Len(s)] /\ u[i] \in J
    <3>1. j - Len(s) \in 1 .. Len(t) /\ u[j] = t[j - Len(s)]
      BY <1>4, <1>5, <2>2
    <3>2. i - Len(s) = j - Len(s)
      BY <1>5, <2>2, <3>1 DEF Listing
    <3>3. i \in Int /\ j \in Int
      BY <1>2, <1>3
    <3> QED BY <1>2, <3>2, <3>3
  <2> QED BY <1>4, <2>1, <2>2
<1>6. ASSUME NEW n \in I \cup J PROVE \E i \in 1 .. Len(u) : u[i] = n
  <2>1. CASE n \in I
    <3>1. PICK i \in 1 .. Len(s) : s[i] = n
      BY <2>1 DEF Listing
    <3>2. i \in 1 .. Len(u) /\ i <= Len(s)
      BY <1>2, <1>3
    <3> QED BY <1>3, <3>1, <3>2
  <2>2. CASE n \in J
    <3>1. PICK i \in 1 .. Len(t) : t[i] = n
      BY <2>2 DEF Listing
    <3> DEFINE k == i + Len(s)
    <3>2. k \in 1 .. Len(u) /\ ~(k <= Len(s)) /\ k - Len(s) = i
      BY <1>2, <1>3
    <3> HIDE DEF k
    <3> QED BY <1>3, <3>1, <3>2
  <2> QED BY <2>1, <2>2
<1>7. \A i \in 1 .. Len(u) : u[i] \in I \cup J
  BY <1>4
<1>8. Listing(u, I \cup J)
  BY <1>3, <1>5, <1>6, <1>7 DEF Listing
<1> QED BY <1>8 DEF u

\* a and w are the actions and the writes of the rules of p in I, at version v.
Gathered(v, p, I, a, w) ==
    /\ a \in Seq(Nat \X Nat) /\ w \in Seq(Nat \X Nat)
    /\ \A i \in 1 .. Len(a) : a[i][1] = v /\ a[i][2] \in I
    /\ \A i \in 1 .. Len(w) : w[i][1] = v
    /\ \A i, j \in 1 .. Len(a) : a[i][2] = a[j][2] => i = j
    /\ \A n \in I : \E i \in 1 .. Len(a) : a[i][2] = n
    /\ \A i \in 1 .. Len(a) : p.rules[a[i][2]].write # "none"
                               => \E k \in 1 .. Len(w) : w[k] = a[i]

\* A version put before each index.
LEMMA TaggedSeq ==
    ASSUME NEW v \in Nat, NEW s \in Seq(Nat)
    PROVE  /\ Tagged(v, s) \in Seq(Nat \X Nat) /\ Len(Tagged(v, s)) = Len(s)
           /\ \A i \in 1 .. Len(s) : Tagged(v, s)[i] = <<v, s[i]>>
<1> DEFINE t == [k \in 1 .. Len(s) |-> <<v, s[k]>>]
<1>1. Len(s) \in Nat /\ DOMAIN s = 1 .. Len(s) /\ \A i \in 1 .. Len(s) : s[i] \in Nat
  BY LenProperties, ElementOfSeq
<1>2. t \in [1 .. Len(s) -> Nat \X Nat]
  BY <1>1
<1>3. t \in Seq(Nat \X Nat) /\ Len(t) = Len(s)
  BY <1>1, <1>2, SeqDef, LenProperties
<1>4. Tagged(v, s) = t
  BY <1>1 DEF Tagged
<1> QED BY <1>3, <1>4

\* Every rule listed that writes is among the writing ones.
LEMMA WritingLists ==
    ASSUME NEW p, NEW s \in Seq(Nat)
    PROVE  /\ Writing(p, s) \in Seq(Nat)
           /\ \A i \in 1 .. Len(s) : p.rules[s[i]].write # "none"
                  => \E k \in 1 .. Len(Writing(p, s)) : Writing(p, s)[k] = s[i]
<1> DEFINE I == {k \in DOMAIN s : p.rules[s[k]].write # "none"}
           g == SelectAt(s, I)
<1>1. DOMAIN s = 1 .. Len(s)
  BY LenProperties
<1>2. Writing(p, s) = g
  BY DEF Writing
<1>3. \A i \in 1 .. Len(s) : p.rules[s[i]].write # "none" => i \in I
  BY <1>1
<1> HIDE DEF I
<1>4. g \in Seq(Nat) /\ Picked(s, I, g, Len(s))
  BY SelectAtIsExact
<1> HIDE DEF g
<1>5. PICK h \in [1 .. Len(g) -> 1 .. Len(s)] : Enumerates(s, I, g, Len(s), h)
  BY <1>4 DEF Picked
<1>6. ASSUME NEW i \in 1 .. Len(s), p.rules[s[i]].write # "none"
      PROVE  \E k \in 1 .. Len(g) : g[k] = s[i]
  <2>1. PICK k \in 1 .. Len(g) : h[k] = i
    BY <1>3, <1>5, <1>6 DEF Enumerates
  <2> QED BY <1>5, <2>1 DEF Enumerates
<1> QED BY <1>2, <1>4, <1>6

\* What Take collects of the rules listed.
LEMMA TakeGathers ==
    ASSUME NEW p, NEW v \in Nat, NEW I, NEW s, Listing(s, I)
    PROVE  Gathered(v, p, I, Tagged(v, s), Tagged(v, Writing(p, s)))
<1> DEFINE a == Tagged(v, s)
           r == Writing(p, s)
           w == Tagged(v, r)
<1>1. s \in Seq(Nat)
  BY DEF Listing
<1>2. /\ r \in Seq(Nat)
      /\ \A i \in 1 .. Len(s) : p.rules[s[i]].write # "none" => \E k \in 1 .. Len(r) : r[k] = s[i]
  BY <1>1, WritingLists
<1> HIDE DEF r
<1>3. /\ a \in Seq(Nat \X Nat) /\ Len(a) = Len(s)
      /\ \A i \in 1 .. Len(s) : a[i] = <<v, s[i]>>
  BY <1>1, TaggedSeq
<1>4. /\ w \in Seq(Nat \X Nat) /\ Len(w) = Len(r)
      /\ \A i \in 1 .. Len(r) : w[i] = <<v, r[i]>>
  BY <1>2, TaggedSeq
<1> HIDE DEF a, w
<1>5. \A i \in 1 .. Len(a) : a[i][1] = v /\ a[i][2] = s[i]
  BY <1>3
<1>6. \A i \in 1 .. Len(w) : w[i][1] = v
  BY <1>4
<1>7. /\ \A i \in 1 .. Len(a) : a[i][2] \in I
      /\ \A i, j \in 1 .. Len(a) : a[i][2] = a[j][2] => i = j
      /\ \A n \in I : \E i \in 1 .. Len(a) : a[i][2] = n
  <2>1. \A i, j \in 1 .. Len(a) : a[i][2] = a[j][2] => i = j
    BY <1>3, <1>5 DEF Listing
  <2>2. \A i \in 1 .. Len(a) : a[i][2] \in I
    BY <1>3, <1>5 DEF Listing
  <2>3. ASSUME NEW n \in I PROVE \E i \in 1 .. Len(a) : a[i][2] = n
    <3>1. PICK i \in 1 .. Len(s) : s[i] = n
      BY DEF Listing
    <3> QED BY <1>3, <1>5, <3>1
  <2> QED BY <2>1, <2>2, <2>3
<1>8. ASSUME NEW i \in 1 .. Len(a), p.rules[a[i][2]].write # "none"
      PROVE  \E k \in 1 .. Len(w) : w[k] = a[i]
  <2>1. i \in 1 .. Len(s) /\ a[i] = <<v, s[i]>> /\ a[i][2] = s[i]
    BY <1>3, <1>5
  <2>2. PICK k \in 1 .. Len(r) : r[k] = s[i]
    BY <1>2, <1>8, <2>1
  <2> QED BY <1>4, <2>1, <2>2
<1>9. Gathered(v, p, I, a, w)
  BY <1>3, <1>4, <1>5, <1>6, <1>7, <1>8 DEF Gathered
<1> QED BY <1>9 DEF a, w, r

-----------------------------------------------------------------------------
(* The steps.                                                              *)

\* A profile has rules and a mode.
LEMMA ProfileTypes ==
    ASSUME NEW p \in Profile
    PROVE  p.rules \in Seq(Rule) /\ p.mode \in {"off", "enforce"}
BY HandlerAssumption

\* A message has one of five kinds.
LEMMA MessageTypes ==
    ASSUME NEW m \in Message
    PROVE  /\ m.kind \in {"malformed", "unsupported", "release", "idle", "request"}
           /\ m.reply \in BOOLEAN /\ m.addr \in BOOLEAN
BY HandlerAssumption

\* The types that a step relies on.
LEMMA Typed ==
    ASSUME Types
    PROVE  /\ msg.kind \in {"malformed", "unsupported", "release", "idle", "request"}
           /\ msg.reply \in BOOLEAN /\ msg.addr \in BOOLEAN
           /\ snap[1] \in Nat /\ held[1] \in Nat
           /\ snap[2] \in Profile \cup {NoProfile} /\ held[2] \in Profile \cup {NoProfile}
           /\ Len(replies) \in Nat
<1>1. msg \in Message /\ snap \in Snapshot /\ held \in Snapshot /\ replies \in Seq(Reply)
  BY DEF Types
<1>2. /\ msg.kind \in {"malformed", "unsupported", "release", "idle", "request"}
      /\ msg.reply \in BOOLEAN /\ msg.addr \in BOOLEAN
  BY <1>1, MessageTypes
<1>3. Len(replies) \in Nat
  BY <1>1, LenProperties
<1> QED BY <1>1, <1>2, <1>3 DEF Snapshot

\* A reply that asks for nothing, with a code that is not about rules.
Quiet(r) == r \in Reply /\ r.actions = <<>> /\ r.code \notin {"OK", "GEO_UNAVAILABLE", "queue_limit"}

\* Error replies and plain ones.
LEMMA QuietReplies ==
    (\A c \in QuietCode : Quiet(ErrorReply(c)) /\ Quiet(plain(c))) /\ Quiet(Internal)
<1>1. <<>> \in Seq(Nat \X Nat)
  OBVIOUS
<1>2. ASSUME NEW c \in QuietCode
      PROVE  Quiet(ErrorReply(c)) /\ Quiet(plain(c))
  <2>1. c \in Code /\ c \notin {"OK", "GEO_UNAVAILABLE", "queue_limit"}
    BY DEF Code, QuietCode
  <2>2. \A v \in {"allow", "error"} :
           /\ NewReply(v, c, "none", <<>>) \in Reply
           /\ NewReply(v, c, "none", <<>>).code = c /\ NewReply(v, c, "none", <<>>).actions = <<>>
    BY <1>1, <2>1 DEF NewReply, Reply
  <2>3. \A v \in {"allow", "error"} : Quiet(NewReply(v, c, "none", <<>>))
    BY <2>1, <2>2 DEF Quiet
  <2> QED BY <2>3 DEF ErrorReply, plain
<1> QED BY <1>2 DEF Internal, QuietCode

\* send begins: with a subject it goes on, otherwise the message is over.
LEMMA SendBegins ==
    ASSUME Types, Replied, pc \in Early, msg.kind # "release",
           UNCHANGED <<msg, replies, faults>>, NEW r \in Reply, NEW b \in BOOLEAN, send(r, b)
    PROVE  /\ Replied' /\ pc' \in {"send", "done"}
           /\ saying' = [reply |-> r, known |-> b]
           /\ saying' \in [reply : Reply, known : BOOLEAN] /\ saying'.reply = r
           /\ replies' = <<>>
<1>1. /\ Len(replies) = 0 /\ faults = {} /\ Due = 1 /\ Again = 0
      /\ replies \in Seq(Reply) /\ msg.reply \in BOOLEAN
  BY Typed DEF Replied, Counted, Types, Due, Again
<1>2. /\ pc' = IF msg.reply THEN "send" ELSE "done"
      /\ saying' = [reply |-> r, known |-> b]
  BY DEF send
<1>3. replies' = <<>> /\ Len(replies') = 0 /\ faults' = {} /\ Due' = 1 /\ Again' = 0
  BY <1>1, EmptySeq DEF Due, Again
<1>4. Counted'
  BY <1>2, <1>3 DEF Counted, Early
<1>5. Replied'
  <2>1. \A i \in 1 .. 0 : FALSE
    OBVIOUS
  <2>2. \A i \in 1 .. Len(replies') : FALSE
    BY <1>3, <2>1
  <2> QED BY <1>1, <1>2, <1>3, <1>4, <2>2 DEF Replied
<1> QED BY <1>1, <1>2, <1>3, <1>5

\* A quiet reply agrees with whatever was collected.
LEMMA QuietAnswer ==
    ASSUME Types, Replied, pc \in Early, msg.kind # "release",
           UNCHANGED <<msg, replies, faults>>, NEW r, Quiet(r), NEW b \in BOOLEAN, send(r, b)
    PROVE  /\ Replied' /\ Answers' /\ pc' \in {"send", "done"}
           /\ saying' \in [reply : Reply, known : BOOLEAN]
<1>1. /\ Replied' /\ pc' \in {"send", "done"} /\ saying'.reply = r /\ replies' = <<>>
      /\ saying' \in [reply : Reply, known : BOOLEAN]
  BY SendBegins DEF Quiet
<1>2. Answers'
  BY <1>1 DEF Answers, Sent, Quiet
<1> QED BY <1>1, <1>2

\* What was collected stays as it is.
LEMMA Kept ==
    ASSUME Collected, Outgoing, UNCHANGED <<msg, held, asked, writes, out, refused>>
    PROVE  Collected' /\ Outgoing'
BY DEF Collected, Outgoing

\* So does the agreement of a reply with it.
LEMMA SentKept ==
    ASSUME NEW r, Sent(r), UNCHANGED <<shed, fill, held, asked, writes, geoErr>>
    PROVE  Sent(r)'
BY DEF Sent, Fitting, Indices, Fits

\* Nothing was collected yet.
LEMMA NothingYet ==
    ASSUME asked' = <<>>, writes' = <<>>, out' = {}
    PROVE  Collected' /\ Outgoing' /\ Indices' = {}
<1>1. Len(asked') = 0 /\ Len(writes') = 0 /\ 1 .. 0 = {}
  OBVIOUS
<1> QED BY <1>1 DEF Collected, Outgoing, Indices

\* The rules in I were collected.
LEMMA TakenHolds ==
    ASSUME NEW I, NEW w, held'[2] \in Profile, I \subseteq DOMAIN held'[2].rules,
           Gathered(held'[1], held'[2], I, asked', w), msg.addr \in BOOLEAN,
           writes' = IF msg.addr THEN w ELSE <<>>, msg' = msg, out' = {}
    PROVE  /\ asked' \in Seq(Nat \X Nat) /\ writes' \in Seq(Nat \X Nat)
           /\ Collected' /\ Outgoing' /\ Indices' = I
<1>1. asked' \in Seq(Nat \X Nat) /\ w \in Seq(Nat \X Nat)
  BY DEF Gathered
<1>2. writes' \in Seq(Nat \X Nat) /\ (msg.addr => writes' = w)
  BY <1>1
<1>3. \A i \in 1 .. Len(writes') : writes'[i][1] = held'[1]
  <2>1. CASE msg.addr = TRUE
    BY <2>1 DEF Gathered
  <2>2. CASE msg.addr = FALSE
    <3>1. writes' = <<>> /\ Len(writes') = 0 /\ 1 .. 0 = {}
      BY <2>2
    <3> QED BY <3>1
  <2> QED BY <2>1, <2>2
<1>4. Collected'
  BY <1>3 DEF Collected, Gathered
<1>5. Outgoing'
  BY <1>2 DEF Outgoing, Gathered
<1>6. Indices' = I
  <2>1. \A n \in I : \E i \in 1 .. Len(asked') : asked'[i][2] = n
    BY DEF Gathered
  <2>2. \A i \in 1 .. Len(asked') : asked'[i][2] \in I
    BY DEF Gathered
  <2>3. Indices' = {asked'[i][2] : i \in 1 .. Len(asked')}
    BY DEF Indices
  <2> QED BY <2>1, <2>2, <2>3
<1> QED BY <1>1, <1>2, <1>4, <1>5, <1>6

\* One write is done or refused, or the directory did not know the network.
LEMMA Popped ==
    ASSUME Types, Collected, Outgoing, writes # <<>>, writes' = Tail(writes),
           UNCHANGED <<msg, held, asked>>, refused \subseteq refused',
           \/ out' = out \cup {Head(writes)}
           \/ out' = out /\ Head(writes) \in refused'
           \/ out' = out /\ Networked
    PROVE  /\ writes' \in Seq(Nat \X Nat) /\ out' \subseteq Nat \X Nat
           /\ Collected' /\ Outgoing'
<1>1. writes \in Seq(Nat \X Nat) /\ out \subseteq Nat \X Nat
  BY DEF Types
<1>2. /\ Head(writes) \in Nat \X Nat /\ Head(writes) = writes[1]
      /\ writes' \in Seq(Nat \X Nat)
      /\ Len(writes) \in Nat /\ Len(writes) > 0 /\ Len(writes') = Len(writes) - 1
      /\ \A k \in 1 .. Len(writes') : writes'[k] = writes[k + 1]
  BY <1>1, HeadTailProperties, LenProperties, ElementOfSeq, EmptySeq
<1>3. 1 \in 1 .. Len(writes) /\ \A k \in 1 .. Len(writes') : k + 1 \in 1 .. Len(writes)
  BY <1>2
<1>4. out' \subseteq Nat \X Nat
  BY <1>1, <1>2
<1>5. Collected'
  <2>1. \A i \in 1 .. Len(writes') : writes'[i][1] = held[1]
    BY <1>2, <1>3 DEF Collected
  <2>2. \A x \in out' : x[1] = held[1]
    BY <1>2, <1>3 DEF Collected
  <2> QED BY <2>1, <2>2 DEF Collected
<1>6. ASSUME msg.addr, held[2] \in Profile, NEW i \in 1 .. Len(asked),
             held[2].rules[asked[i][2]].write = "addr"
      PROVE  asked[i] \in out' \cup refused' \/ \E k \in 1 .. Len(writes') : writes'[k] = asked[i]
  <2>1. CASE asked[i] \in out \cup refused
    BY <2>1
  <2>2. CASE asked[i] \notin out \cup refused
    <3>1. PICK k \in 1 .. Len(writes) : writes[k] = asked[i]
      BY <1>6, <2>2 DEF Outgoing
    <3>2. CASE k = 1
      <4>1. asked[i] = Head(writes)
        BY <1>2, <3>1, <3>2
      <4>2. ~Networked
        BY <1>6, <4>1 DEF Networked, Write
      <4> QED BY <4>1, <4>2
    <3>3. CASE k # 1
      <4>1. k - 1 \in 1 .. Len(writes') /\ (k - 1) + 1 = k
        BY <1>2, <3>3
      <4>2. writes'[k - 1] = asked[i]
        BY <1>2, <3>1, <4>1
      <4> QED BY <4>1, <4>2
    <3> QED BY <3>2, <3>3
  <2> QED BY <2>1, <2>2
<1>7. Outgoing'
  BY <1>6 DEF Outgoing
<1> QED BY <1>2, <1>4, <1>5, <1>7

\* A message that arrives satisfies the invariant.
LEMMA Starts ==
    Init => Inv
<1> SUFFICES ASSUME Init PROVE Inv
  OBVIOUS
<1>1. /\ asked = <<>> /\ writes = <<>> /\ out = {} /\ replies = <<>> /\ pc = "receive"
      /\ shed = "" /\ held = snap /\ snap \in {0} \X (Profile \cup {NoProfile})
      /\ saying = Nothing /\ faults = {}
  BY DEF Init
<1>2. Len(<<>>) = 0 /\ 1 .. 0 = {}
  OBVIOUS
<1>3. Types
  <2>0. <<>> \in Seq(Nat \X Nat) /\ {0} \X (Profile \cup {NoProfile}) \subseteq Snapshot
    BY DEF Snapshot
  <2>1. snap \in Snapshot
    BY <1>1, <2>0
  <2>2. asked \in Seq(Nat \X Nat) /\ writes \in Seq(Nat \X Nat) /\ replies \in Seq(Reply)
    BY <1>1, <2>0, EmptySeq
  <2>3. msg \in Message /\ fill \in Fill /\ swaps = 0 /\ geoErr = FALSE
    BY DEF Init
  <2>4. saying \in [reply : Reply, known : BOOLEAN]
    BY <1>1, QuietReplies DEF Nothing, Quiet
  <2> QED BY <1>1, <2>1, <2>2, <2>3, <2>4 DEF Types, Labels, Early
<1>4. Replied
  <2>1. Counted
    BY <1>1, <1>2 DEF Counted
  <2> QED BY <1>1, <1>2, <2>1 DEF Replied
<1>5. Stages
  BY <1>1 DEF Stages
<1>6. Collected /\ Outgoing
  BY <1>1, <1>2 DEF Collected, Outgoing
<1>7. Answers
  BY <1>1 DEF Answers
<1> QED BY <1>3, <1>4, <1>5, <1>6, <1>7 DEF Inv

\* A step within the early part that says nothing.
LEMMA SilentStep ==
    ASSUME Types, Replied, pc \in Early, pc' \in Early,
           UNCHANGED <<msg, replies, faults, saying>>
    PROVE  Replied' /\ replies' = <<>>
<1>1. Len(replies) = 0 /\ faults = {} /\ replies \in Seq(Reply)
  BY DEF Replied, Counted, Types
<1>2. replies' = <<>> /\ Len(replies') = 0 /\ faults' = {}
  BY <1>1, EmptySeq
<1>3. Counted'
  BY <1>2 DEF Counted, Early
<1> QED BY <1>2, <1>3 DEF Replied, Early

\* receive answers at once or queues the message.
LEMMA ReceiveStep ==
    ASSUME Inv, receive
    PROVE  Inv'
<1>1. Types /\ Replied /\ Stages /\ Collected /\ Outgoing /\ pc = "receive" /\ pc \in Early
  BY DEF Inv, receive, Early
<1>2. /\ msg.reply \in BOOLEAN
      /\ msg.kind \in {"malformed", "unsupported", "release", "idle", "request"}
  BY <1>1, Typed
<1>3. UNCHANGED <<msg, snap, swaps, shed, fill, held, asked, writes, out, refused, geoErr,
                  guards, replies, audited, faults>>
  BY DEF receive, work
<1>4. Collected' /\ Outgoing'
  BY <1>1, <1>3, Kept
<1>5. /\ Replied' /\ Answers'
      /\ pc' \in {"send", "done"} \/ (pc' = "queued" /\ msg.kind = "request")
      /\ saying' \in [reply : Reply, known : BOOLEAN]
  <2>1. CASE msg.kind = "malformed"
    <3> DEFINE r == ErrorReply("MALFORMED_REQUEST")
    <3>1. send(r, FALSE) /\ Quiet(r)
      BY <2>1, QuietReplies DEF receive, QuietCode
    <3> HIDE DEF r
    <3> QED BY <1>1, <1>3, <2>1, <3>1, QuietAnswer
  <2>2. CASE msg.kind = "unsupported"
    <3> DEFINE r == plain("UNSUPPORTED_VERSION")
    <3>1. send(r, TRUE) /\ Quiet(r)
      BY <2>2, QuietReplies DEF receive, QuietCode
    <3> HIDE DEF r
    <3> QED BY <1>1, <1>3, <2>2, <3>1, QuietAnswer
  <2>3. CASE msg.kind = "release"
    <3>1. pc' = "done" /\ UNCHANGED saying
      BY <2>3 DEF receive
    <3>2. replies = <<>> /\ Len(replies) = 0 /\ faults = {}
      BY <1>1, EmptySeq DEF Replied, Counted, Types
    <3>3. Due' = 0 /\ Again' = 0
      BY <1>3, <2>3, <3>2 DEF Due, Again
    <3>4. Counted'
      BY <1>3, <3>1, <3>2, <3>3 DEF Counted, Early
    <3>5. Replied'
      BY <1>1, <1>3, <3>1, <3>2, <3>4 DEF Replied
    <3>6. Answers'
      BY <1>3, <3>1, <3>2 DEF Answers
    <3> QED BY <1>1, <3>1, <3>5, <3>6 DEF Types
  <2>4. CASE msg.kind = "idle"
    <3> DEFINE r == plain("IDLE")
    <3>1. send(r, TRUE) /\ Quiet(r)
      BY <2>4, QuietReplies DEF receive, QuietCode
    <3> HIDE DEF r
    <3> QED BY <1>1, <1>3, <2>4, <3>1, QuietAnswer
  <2>5. CASE msg.kind = "request"
    <3>1. pc' = "queued" /\ UNCHANGED saying /\ pc' \in Early
      BY <2>5 DEF receive, Early
    <3>2. Replied' /\ replies' = <<>>
      BY <1>1, <1>3, <3>1, SilentStep
    <3> QED BY <1>1, <2>5, <3>1, <3>2 DEF Answers, Types
  <2> QED BY <1>2, <2>1, <2>2, <2>3, <2>4, <2>5
<1>6. Types'
  BY <1>1, <1>3, <1>5 DEF Types, Labels, Early
<1>7. Stages'
  BY <1>1, <1>3, <1>5 DEF Stages, Early
<1> QED BY <1>4, <1>5, <1>6, <1>7 DEF Inv

\* evaluate refuses the task or sends it one of two ways.
LEMMA EvaluateStep ==
    ASSUME Inv, evaluate
    PROVE  Inv'
<1>1. /\ Types /\ Replied /\ Stages /\ Collected /\ Outgoing
      /\ pc = "queued" /\ pc \in Early /\ pc # "receive"
  BY DEF Inv, evaluate, Early
<1>2. msg.reply \in BOOLEAN /\ msg.kind = "request"
  BY <1>1, Typed DEF Stages
<1>3. /\ UNCHANGED <<msg, snap, swaps, fill, held, asked, writes, out, refused, geoErr,
                     replies, audited, faults>>
      /\ shed' \in {"", "queue_limit", "deadline_exceeded"}
  BY DEF evaluate
<1>4. Collected' /\ Outgoing'
  BY <1>1, <1>3, Kept
<1>5. /\ Replied' /\ Answers' /\ saying' \in [reply : Reply, known : BOOLEAN]
      /\ \/ pc' = "inspect" /\ shed' = ""
         \/ pc' = "overload" /\ shed' = "queue_limit"
         \/ pc' \in {"send", "done"}
  <2>2. CASE shed' = ""
    <3>1. pc' = "inspect" /\ UNCHANGED saying /\ pc' \in Early
      BY <2>2 DEF evaluate, Early
    <3>2. Replied' /\ replies' = <<>>
      BY <1>1, <1>3, <3>1, SilentStep
    <3> QED BY <1>1, <2>2, <3>1, <3>2 DEF Answers, Types
  <2>3. CASE shed' = "queue_limit"
    <3>1. pc' = "overload" /\ UNCHANGED saying /\ pc' \in Early
      BY <2>3 DEF evaluate, Early
    <3>2. Replied' /\ replies' = <<>>
      BY <1>1, <1>3, <3>1, SilentStep
    <3> QED BY <1>1, <2>3, <3>1, <3>2 DEF Answers, Types
  <2>4. CASE shed' = "deadline_exceeded"
    <3> DEFINE r == NewReply("error", "deadline_exceeded", "overload", <<>>)
    <3>1. send(r, TRUE)
      BY <2>4 DEF evaluate
    <3>2. Quiet(r)
      <4>1. "deadline_exceeded" \in Code /\ <<>> \in Seq(Nat \X Nat)
        BY DEF Code, QuietCode
      <4>2. r \in Reply /\ r.code = "deadline_exceeded" /\ r.actions = <<>>
        BY <4>1 DEF NewReply, Reply
      <4> HIDE DEF r
      <4> QED BY <4>2 DEF Quiet
    <3> HIDE DEF r
    <3> QED BY <1>1, <1>2, <1>3, <3>1, <3>2, QuietAnswer
  <2> QED BY <1>3, <2>2, <2>3, <2>4
<1>6. Types'
  BY <1>1, <1>3, <1>5 DEF Types, Labels, Early
<1>7. Stages'
  BY <1>1, <1>2, <1>3, <1>5 DEF Stages, Early
<1> QED BY <1>4, <1>5, <1>6, <1>7 DEF Inv

\* inspect reads the snapshot; an unknown or switched off profile ends the message.
LEMMA InspectStep ==
    ASSUME Inv, inspect
    PROVE  Inv'
<1>1. Types /\ Replied /\ Stages /\ pc = "inspect" /\ pc \in Early /\ pc # "receive"
  BY DEF Inv, inspect, Early
<1>2. /\ msg.reply \in BOOLEAN /\ snap[2] \in Profile \cup {NoProfile} /\ msg.kind = "request"
      /\ asked = <<>> /\ writes = <<>> /\ out = {} /\ shed = ""
  BY <1>1, Typed DEF Stages
<1>3. /\ UNCHANGED <<msg, snap, swaps, shed, fill, asked, writes, out, refused, geoErr>>
      /\ UNCHANGED <<guards, replies, audited, faults>> /\ held' = snap
  BY DEF inspect
<1>4. Collected' /\ Outgoing'
  BY <1>2, <1>3, NothingYet
<1>5. /\ Replied' /\ Answers' /\ saying' \in [reply : Reply, known : BOOLEAN]
      /\ pc' \in {"send", "done"} \/ (pc' = "collect" /\ held'[2] \in Profile)
  <2>1. CASE snap[2] = NoProfile
    <3> DEFINE r == ErrorReply("UNKNOWN_PROFILE")
    <3>1. send(r, TRUE) /\ Quiet(r)
      BY <2>1, QuietReplies DEF inspect, QuietCode
    <3> HIDE DEF r
    <3> QED BY <1>1, <1>2, <1>3, <3>1, QuietAnswer
  <2>2. CASE snap[2] # NoProfile /\ snap[2].mode = "off"
    <3> DEFINE r == plain("PROFILE_OFF")
    <3>1. send(r, TRUE) /\ Quiet(r)
      BY <2>2, QuietReplies DEF inspect, QuietCode
    <3> HIDE DEF r
    <3> QED BY <1>1, <1>2, <1>3, <3>1, QuietAnswer
  <2>3. CASE snap[2] # NoProfile /\ snap[2].mode # "off"
    <3>1. pc' = "collect" /\ UNCHANGED saying /\ held'[2] \in Profile /\ pc' \in Early
      BY <1>2, <1>3, <2>3 DEF inspect, Early
    <3>2. Replied' /\ replies' = <<>>
      BY <1>1, <1>3, <3>1, SilentStep
    <3> QED BY <1>1, <3>1, <3>2 DEF Answers, Types
  <2> QED BY <2>1, <2>2, <2>3
<1>6. Types'
  BY <1>1, <1>3, <1>5 DEF Types, Labels, Early
<1>7. Stages'
  BY <1>2, <1>3, <1>5 DEF Stages, Early
<1> QED BY <1>4, <1>5, <1>6, <1>7 DEF Inv

\* collect takes the rules that fire, each once, or a fault of the buffer ends the message.
LEMMA CollectStep ==
    ASSUME Inv, collect
    PROVE  Inv'
<1>1. /\ Types /\ Replied /\ Stages /\ Collected /\ Outgoing
      /\ pc = "collect" /\ pc \in Early /\ pc # "receive"
  BY DEF Inv, collect, Early
<1>2. /\ msg.reply \in BOOLEAN /\ msg.addr \in BOOLEAN /\ held[1] \in Nat /\ msg.kind = "request"
      /\ held[2] \in Profile /\ out = {} /\ shed = ""
  BY <1>1, Typed DEF Stages
<1>3. UNCHANGED <<msg, snap, swaps, shed, fill, held, out, refused, geoErr,
                  guards, replies, audited, faults>>
  BY DEF collect
<1> DEFINE conditional == {i \in DOMAIN held[2].rules : held[2].rules[i].cond}
<1>4. \/ /\ \E S \in SUBSET conditional : TakeAll(S)
         /\ pc' = "write" /\ UNCHANGED saying
      \/ send(ErrorReply("STORE_ERROR"), TRUE) /\ UNCHANGED <<asked, writes>>
  BY DEF collect
<1> HIDE DEF conditional
<1>5. ASSUME NEW S \in SUBSET conditional, TakeAll(S), pc' = "write", UNCHANGED saying
      PROVE  Inv'
  <2> DEFINE p == held[2]
             A == {i \in DOMAIN p.rules : ~p.rules[i].overload /\ (p.rules[i].cond => i \in S)}
             B == {i \in DOMAIN p.rules : p.rules[i].overload /\ Fires(p.rules[i].at, fill, FALSE)}
             s == Collect(p, S) \o CollectOverload(p, fill, FALSE)
  <2>1. p.rules \in Seq(Rule)
    BY <1>2, ProfileTypes
  <2>2. A \in SUBSET DOMAIN p.rules /\ B \in SUBSET DOMAIN p.rules /\ A \cap B = {}
    OBVIOUS
  <2>3. Collect(p, S) = Chosen(p, A) /\ CollectOverload(p, fill, FALSE) = Chosen(p, B)
    BY DEF Collect, CollectOverload
  <2>4. ASSUME NEW i \in DOMAIN p.rules
        PROVE  /\ p.rules[i].overload
                    => (i \in A \cup B <=> p.rules[i].at < 100 /\ p.rules[i].at <= fill)
               /\ ~p.rules[i].overload => p.rules[i].cond \/ i \in A \cup B
    <3>1. p.rules[i] \in Rule
      BY <2>1
    <3>2. p.rules[i].at \in 25 .. AtMax
      BY <3>1 DEF Rule
    <3>3. fill \in Fill /\ Fill \subseteq 0 .. 100
      BY <1>1, HandlerAssumption DEF Types
    <3>4. p.rules[i].at \in Int /\ fill \in Int
      BY <3>2, <3>3 DEF AtMax
    <3>5. Fires(p.rules[i].at, fill, FALSE) <=> p.rules[i].at < 100 /\ p.rules[i].at <= fill
      BY <3>4 DEF Fires, AtMax
    <3>6. p.rules[i].overload => (i \in A \cup B <=> Fires(p.rules[i].at, fill, FALSE))
      OBVIOUS
    <3> QED BY <3>5, <3>6
  <2>6. /\ asked' = Tagged(held[1], s)
        /\ writes' = IF msg.addr THEN Tagged(held[1], Writing(p, s)) ELSE <<>>
    BY <1>5 DEF TakeAll, Take
  <2>eq. p = held[2]
    OBVIOUS
  <2> HIDE DEF A, B, p
  <2>7. Listing(Chosen(p, A), A) /\ Listing(Chosen(p, B), B)
    BY <2>1, <2>2, ChosenLists
  <2>8. Listing(s, A \cup B)
    BY <2>2, <2>3, <2>7, JoinedLists
  <2> HIDE DEF s
  <2>9. Gathered(held[1], p, A \cup B, asked', Tagged(held[1], Writing(p, s)))
    BY <1>2, <2>6, <2>8, TakeGathers
  <2>10. /\ asked' \in Seq(Nat \X Nat) /\ writes' \in Seq(Nat \X Nat)
         /\ Collected' /\ Outgoing' /\ Indices' = A \cup B
    <3>1. A \cup B \subseteq DOMAIN held'[2].rules
      BY <1>3, <2>2, <2>eq
    <3> QED BY <1>2, <1>3, <2>6, <2>9, <2>eq, <3>1, TakenHolds
  <2>11. Fitting'
    <3>1. shed' # "queue_limit"
      BY <1>2, <1>3
    <3>2. ASSUME NEW i \in DOMAIN held'[2].rules PROVE Fits(i, Indices)'
      BY <1>3, <2>4, <2>10, <2>eq, <3>1, <3>2 DEF Fits
    <3> QED BY <3>2 DEF Fitting
  <2>12. Replied' /\ Answers'
    <3>1. pc' \in Early
      BY <1>5 DEF Early
    <3>2. Replied' /\ replies' = <<>>
      BY <1>1, <1>3, <1>5, <3>1, SilentStep
    <3> QED BY <1>5, <2>11, <3>2 DEF Answers
  <2>13. Types'
    BY <1>1, <1>3, <1>5, <2>10 DEF Types, Labels, Early
  <2>14. Stages'
    BY <1>2, <1>3, <1>5 DEF Stages, Early
  <2> QED BY <2>10, <2>12, <2>13, <2>14 DEF Inv
<1>6. ASSUME send(ErrorReply("STORE_ERROR"), TRUE), UNCHANGED <<asked, writes>>
      PROVE  Inv'
  <2> DEFINE r == ErrorReply("STORE_ERROR")
  <2>1. send(r, TRUE) /\ Quiet(r)
    BY <1>6, QuietReplies DEF QuietCode
  <2> HIDE DEF r
  <2>3. /\ Replied' /\ Answers' /\ pc' \in {"send", "done"}
        /\ saying' \in [reply : Reply, known : BOOLEAN]
    BY <1>1, <1>2, <1>3, <2>1, QuietAnswer
  <2>4. Collected' /\ Outgoing'
    BY <1>1, <1>3, <1>6, Kept
  <2>5. Types' /\ Stages'
    BY <1>1, <1>3, <1>6, <2>3 DEF Types, Labels, Stages, Early
  <2> QED BY <2>3, <2>4, <2>5 DEF Inv
<1> QED BY <1>4, <1>5, <1>6

\* A shed task takes exactly the overload rules.
LEMMA OverloadStep ==
    ASSUME Inv, overloadOnShed
    PROVE  Inv'
<1>1. Types /\ Replied /\ Stages /\ pc = "overload" /\ pc \in Early /\ pc # "receive"
  BY DEF Inv, overloadOnShed, Early
<1>2. /\ msg.reply \in BOOLEAN /\ msg.addr \in BOOLEAN /\ snap[1] \in Nat /\ msg.kind = "request"
      /\ snap[2] \in Profile \cup {NoProfile} /\ shed = "queue_limit"
      /\ asked = <<>> /\ writes = <<>> /\ out = {}
  BY <1>1, Typed DEF Stages
<1>3. /\ UNCHANGED <<msg, snap, swaps, shed, fill, out, refused, geoErr>>
      /\ UNCHANGED <<guards, replies, audited, faults>> /\ held' = snap
  BY DEF overloadOnShed
<1>4. CASE snap[2] = NoProfile \/ (snap[2] # NoProfile /\ snap[2].mode = "off")
  <2> DEFINE r == NewReply("error", "queue_limit", "overload", <<>>)
  <2>1. send(r, TRUE) /\ UNCHANGED <<asked, writes>>
    BY <1>2, <1>4 DEF overloadOnShed
  <2>2. /\ r \in Reply /\ r.actions = <<>> /\ r.code = "queue_limit" /\ r.class = "overload"
    <3>1. "queue_limit" \in Code /\ <<>> \in Seq(Nat \X Nat)
      BY DEF Code
    <3> QED BY <3>1 DEF NewReply, Reply
  <2> HIDE DEF r
  <2>3. /\ Replied' /\ pc' \in {"send", "done"} /\ saying'.reply = r /\ replies' = <<>>
        /\ saying' \in [reply : Reply, known : BOOLEAN]
    BY <1>1, <1>2, <1>3, <2>1, <2>2, SendBegins
  <2>4. Collected' /\ Outgoing' /\ Indices' = {}
    BY <1>2, <1>3, <2>1, NothingYet
  <2>5. Fitting'
    <3>1. held'[2] \in Profile => held'[2].mode = "off"
      BY <1>3, <1>4, HandlerAssumption
    <3> QED BY <1>2, <1>3, <2>4, <3>1 DEF Fitting, Fits
  <2>6. Answers'
    BY <1>2, <1>3, <2>1, <2>2, <2>3, <2>5 DEF Answers, Sent
  <2>7. Types' /\ Stages'
    BY <1>1, <1>3, <2>1, <2>3 DEF Types, Labels, Stages, Early
  <2> QED BY <2>3, <2>4, <2>6, <2>7 DEF Inv
<1>5. CASE ~(snap[2] = NoProfile \/ (snap[2] # NoProfile /\ snap[2].mode = "off"))
  <2> DEFINE p == snap[2]
             B == {i \in DOMAIN p.rules : p.rules[i].overload /\ Fires(p.rules[i].at, fill, TRUE)}
             s == CollectOverload(p, fill, TRUE)
  <2>1. p \in Profile /\ p.mode # "off" /\ p.rules \in Seq(Rule)
    BY <1>2, <1>5, ProfileTypes
  <2>2. B \in SUBSET DOMAIN p.rules /\ \A i \in DOMAIN p.rules : i \in B <=> p.rules[i].overload
    BY DEF Fires
  <2>3. s = Chosen(p, B)
    BY DEF CollectOverload
  <2>4. /\ asked' = Tagged(snap[1], s) /\ pc' = "write" /\ UNCHANGED saying
        /\ writes' = IF msg.addr THEN Tagged(snap[1], Writing(p, s)) ELSE <<>>
    BY <1>5 DEF overloadOnShed, Take
  <2>eq. p = held'[2] /\ snap[1] = held'[1]
    BY <1>3
  <2> HIDE DEF B, p
  <2>5. Listing(s, B)
    BY <2>1, <2>2, <2>3, ChosenLists
  <2> HIDE DEF s
  <2>6. Gathered(snap[1], p, B, asked', Tagged(snap[1], Writing(p, s)))
    BY <1>2, <2>4, <2>5, TakeGathers
  <2>7. /\ asked' \in Seq(Nat \X Nat) /\ writes' \in Seq(Nat \X Nat)
        /\ Collected' /\ Outgoing' /\ Indices' = B
    BY <1>2, <1>3, <2>1, <2>2, <2>4, <2>6, <2>eq, TakenHolds
  <2>8. Fitting'
    BY <1>2, <1>3, <2>1, <2>2, <2>7, <2>eq DEF Fitting, Fits
  <2>9. Replied' /\ Answers'
    <3>1. pc' \in Early
      BY <2>4 DEF Early
    <3>2. Replied' /\ replies' = <<>>
      BY <1>1, <1>3, <2>4, <3>1, SilentStep
    <3> QED BY <2>4, <2>8, <3>2 DEF Answers
  <2>10. Types'
    BY <1>1, <1>3, <2>4, <2>7 DEF Types, Labels, Early
  <2>11. Stages'
    BY <1>2, <1>3, <2>1, <2>4, <2>eq DEF Stages, Early
  <2> QED BY <2>7, <2>9, <2>10, <2>11 DEF Inv
<1> QED BY <1>4, <1>5

\* One write is done or refused, or the directory failed for it.
LEMMA WriteSteps ==
    ASSUME Inv, writeOne \/ geoError
    PROVE  Inv'
<1>1. Types /\ Replied /\ Stages /\ Collected /\ Outgoing /\ Answers
  BY DEF Inv
<1>2. /\ UNCHANGED <<msg, snap, swaps, pc, shed, fill, held, asked, replies, saying, faults>>
      /\ pc = "write" /\ writes # <<>> /\ writes' = Tail(writes)
      /\ geoErr' = geoErr \/ geoErr' = TRUE
  BY DEF writeOne, geoError, geoFail, Write, sending
<1>3. /\ refused \subseteq refused'
      /\ \/ out' = out \cup {Head(writes)}
         \/ out' = out /\ Head(writes) \in refused'
         \/ out' = out /\ Networked
  BY DEF writeOne, geoError, Write
<1>4. /\ writes' \in Seq(Nat \X Nat) /\ out' \subseteq Nat \X Nat
      /\ Collected' /\ Outgoing'
  BY <1>1, <1>2, <1>3, Popped
<1>5. Replied' /\ replies' = <<>>
  <2>1. pc \in Early /\ pc' \in Early
    BY <1>2 DEF Early
  <2> QED BY <1>1, <1>2, <2>1, SilentStep
<1>6. Stages'
  BY <1>1, <1>2 DEF Stages, Early
<1>7. Answers'
  BY <1>1, <1>2, <1>5 DEF Answers, Fitting, Indices, Fits
<1>8. Types'
  BY <1>1, <1>2, <1>4 DEF Types
<1> QED BY <1>4, <1>5, <1>6, <1>7, <1>8 DEF Inv

\* The reply carries what was collected, or nothing when the directory failed.
LEMMA AnswerStep ==
    ASSUME Inv, answer
    PROVE  Inv'
<1>1. /\ Types /\ Replied /\ Stages /\ Collected /\ Outgoing /\ Answers
      /\ pc = "write" /\ writes = <<>> /\ pc \in Early /\ pc # "receive"
  BY DEF Inv, answer, Early
<1>2. /\ msg.reply \in BOOLEAN /\ geoErr \in BOOLEAN /\ msg.kind = "request"
      /\ shed \in {"", "queue_limit"} /\ Fitting /\ asked \in Seq(Nat \X Nat)
  BY <1>1, Typed DEF Stages, Answers, Types
<1>3. UNCHANGED <<msg, snap, swaps, shed, fill, held, asked, writes, out, refused, geoErr,
                  guards, replies, audited, faults>>
  BY DEF answer, work
<1>4. Collected' /\ Outgoing' /\ Fitting'
  <2>1. Collected' /\ Outgoing'
    BY <1>1, <1>3, Kept
  <2>2. Fitting'
    BY <1>2, <1>3 DEF Fitting, Indices, Fits
  <2> QED BY <2>1, <2>2
<1>5. PICK r : /\ send(r, TRUE)
               /\ r = IF shed = "" THEN Outcome ELSE NewReply("error", shed, "overload", asked)
  BY DEF answer
<1>6. /\ r \in Reply
      /\ \/ r.actions = <<>> /\ r.code = "GEO_UNAVAILABLE" /\ geoErr
         \/ r.actions = asked /\ r.verdict = "allow" /\ r.code = "OK" /\ ~geoErr
         \/ r.actions = asked /\ r.code = "queue_limit" /\ r.class = "overload" /\ shed = "queue_limit"
  <2>1. CASE shed = "queue_limit"
    <3>1. "queue_limit" \in Code
      BY DEF Code
    <3>2. r = NewReply("error", "queue_limit", "overload", asked)
      BY <1>5, <2>1
    <3> QED BY <1>2, <2>1, <3>1, <3>2 DEF NewReply, Reply
  <2>2. CASE shed = "" /\ geoErr
    <3>1. "GEO_UNAVAILABLE" \in Code /\ <<>> \in Seq(Nat \X Nat)
      BY DEF Code
    <3>2. r = NewReply("error", "GEO_UNAVAILABLE", "none", <<>>)
      BY <1>5, <2>2 DEF Outcome, ErrorReply
    <3> QED BY <2>2, <3>1, <3>2 DEF NewReply, Reply
  <2>3. CASE shed = "" /\ ~geoErr
    <3>1. "OK" \in Code
      BY DEF Code
    <3>2. r = NewReply("allow", "OK", "none", asked)
      BY <1>5, <2>3 DEF Outcome
    <3> QED BY <1>2, <2>3, <3>1, <3>2 DEF NewReply, Reply
  <2> QED BY <1>2, <2>1, <2>2, <2>3
<1>7. /\ Replied' /\ pc' \in {"send", "done"} /\ saying'.reply = r /\ replies' = <<>>
      /\ saying' \in [reply : Reply, known : BOOLEAN]
  BY <1>1, <1>2, <1>3, <1>5, <1>6, SendBegins
<1>8. Answers'
  BY <1>1, <1>3, <1>4, <1>6, <1>7 DEF Answers, Sent
<1>9. Types' /\ Stages'
  BY <1>1, <1>3, <1>7 DEF Types, Labels, Stages, Early
<1> QED BY <1>4, <1>7, <1>8, <1>9 DEF Inv

\* Once a reply was decided nothing of what it was made from changes.
LEMMA Settled ==
    ASSUME Inv, UNCHANGED work, UNCHANGED <<snap, swaps>>, pc' \in {"send", "audit", "done", "dead"}
    PROVE  /\ Collected' /\ Outgoing' /\ Stages'
           /\ \A r : Sent(r) => Sent(r)'
<1>1. UNCHANGED <<msg, shed, fill, held, asked, writes, out, refused, geoErr>>
  BY DEF work
<1>2. Collected' /\ Outgoing'
  BY <1>1, Kept DEF Inv
<1>3. Stages'
  BY DEF Stages, Early
<1>4. \A r : Sent(r) => Sent(r)'
  BY <1>1, SentKept
<1> QED BY <1>2, <1>3, <1>4

\* One more reply at the end of the replies.
LEMMA OneMore ==
    ASSUME Types, NEW r \in Reply, replies' = Append(replies, r)
    PROVE  /\ replies' \in Seq(Reply) /\ Len(replies') = Len(replies) + 1
           /\ \A i \in 1 .. Len(replies) : replies'[i] = replies[i]
           /\ replies'[Len(replies) + 1] = r
           /\ Len(replies) \in Nat
<1>1. replies \in Seq(Reply)
  BY DEF Types
<1>2. Len(replies) \in Nat
  BY <1>1, LenProperties
<1> QED BY <1>1, <1>2, AppendProperties

\* A reply leaves: the one decided on, or the fallback.
LEMMA PublishStep ==
    ASSUME Inv, sendPublish
    PROVE  Inv'
<1>1. Types /\ Replied /\ Answers /\ pc = "send"
  BY DEF Inv, sendPublish
<1>2. UNCHANGED work /\ UNCHANGED <<snap, swaps, saying, guards, audited, msg>>
  BY DEF sendPublish, work
<1>3. /\ msg.reply /\ Due = 1 /\ Len(replies) <= Again
      /\ Again \in {0, 1} /\ Len(replies) \in Nat
      /\ "lost" \notin faults => Len(replies) = Again
      /\ "audit" \in faults \/ msg.kind = "release" => saying = Nothing /\ saying.reply = Internal
  BY <1>1, Typed DEF Replied, Counted, Again, Nothing
<1>4. Due' = 1 /\ Again' = Again /\ pc' \in {"audit", "done"} /\ faults \subseteq faults'
  BY <1>1, <1>2, <1>3 DEF sendPublish, Due, Again
<1>5. /\ Collected' /\ Outgoing' /\ Stages'
      /\ \A r : Sent(r) => Sent(r)'
  BY <1>2, <1>4, Settled
<1>6. Sent(saying.reply) /\ Sent(Internal) /\ Internal \in Reply /\ saying.reply \in Reply
  BY <1>1, QuietReplies DEF Answers, Sent, Quiet, Types
<1>7. CASE \E r \in {saying.reply, Internal} :
             replies' = Append(replies, r) /\ pc' = "audit" /\ faults' \subseteq faults \cup {"marshal"}
  <2>1. PICK r \in {saying.reply, Internal} :
           /\ replies' = Append(replies, r) /\ pc' = "audit" /\ faults' \subseteq faults \cup {"marshal"}
    BY <1>7
  <2>2. r \in Reply /\ Sent(r)'
    BY <1>5, <1>6, <2>1
  <2>3. /\ replies' \in Seq(Reply) /\ Len(replies') = Len(replies) + 1
        /\ \A i \in 1 .. Len(replies) : replies'[i] = replies[i]
        /\ replies'[Len(replies) + 1] = r
    BY <1>1, <2>1, <2>2, OneMore
  <2>4. Counted'
    BY <1>3, <1>4, <2>1, <2>3 DEF Counted, Early
  <2>5. ASSUME NEW i \in 1 .. Len(replies'), i > 1 \/ msg.kind = "release"
        PROVE  replies'[i] = Internal
    <3>1. CASE i \in 1 .. Len(replies)
      BY <1>1, <2>3, <2>5, <3>1 DEF Replied
    <3>2. CASE i = Len(replies) + 1
      <4>1. "audit" \in faults \/ msg.kind = "release"
        BY <1>3, <2>5, <3>2 DEF Again
      <4> QED BY <1>3, <2>1, <2>3, <3>2, <4>1
    <3> QED BY <1>3, <2>3, <2>5, <3>1, <3>2
  <2>6. Replied'
    <3>1. "audit" \in faults' \/ msg'.kind = "release" => saying' = Nothing
      BY <1>2, <1>3, <2>1
    <3> QED BY <1>2, <1>3, <1>4, <2>4, <2>5, <3>1 DEF Replied
  <2>7. Sent(replies[1])'
    <3>1. CASE Len(replies) = 0
      BY <2>2, <2>3, <3>1
    <3>2. CASE Len(replies) # 0
      <4>1. 1 \in 1 .. Len(replies) /\ replies # <<>>
        BY <1>3, <3>2, EmptySeq
      <4>2. Sent(replies[1])
        BY <1>1, <4>1 DEF Answers
      <4>3. PICK q : q = replies[1]
        OBVIOUS
      <4>4. Sent(q)' /\ q = replies'[1]
        BY <1>5, <2>3, <4>1, <4>2, <4>3
      <4> QED BY <4>4
    <3> QED BY <3>1, <3>2
  <2>8. Answers'
    BY <2>1, <2>7 DEF Answers
  <2>9. Types'
    BY <1>1, <1>2, <2>1, <2>3 DEF Types, Labels, work
  <2> QED BY <1>5, <2>6, <2>8, <2>9 DEF Inv
<1>8. CASE /\ UNCHANGED replies /\ faults' = faults \cup {"lost"}
  <2>1. Counted'
    BY <1>3, <1>4, <1>8 DEF Counted, Early
  <2>2. Replied'
    BY <1>1, <1>2, <1>3, <1>4, <1>8, <2>1 DEF Replied
  <2>3. Answers'
    <3>1. CASE replies # <<>>
      <4>1. PICK q : q = replies[1]
        OBVIOUS
      <4>2. Sent(q)' /\ q = replies'[1]
        BY <1>1, <1>5, <1>8, <3>1, <4>1 DEF Answers
      <4> QED BY <1>4, <4>2 DEF Answers
    <3>2. CASE replies = <<>>
      BY <1>4, <1>8, <3>2 DEF Answers
    <3> QED BY <3>1, <3>2
  <2>4. Types'
    BY <1>1, <1>2, <1>4, <1>8 DEF Types, Labels, work
  <2> QED BY <1>5, <2>2, <2>3, <2>4 DEF Inv
<1> QED BY <1>7, <1>8 DEF sendPublish

\* The event is handed to the audit.
LEMMA AuditStep ==
    ASSUME Inv, sendAudit
    PROVE  Inv'
<1>1. Types /\ Replied /\ Answers /\ pc = "audit" /\ pc' = "done"
  BY DEF Inv, sendAudit
<1>2. UNCHANGED work /\ UNCHANGED <<snap, swaps, saying, guards, replies, faults, msg>>
  BY DEF sendAudit, work
<1>3. /\ Due = 1 /\ Len(replies) <= 1 + Again /\ Again \in {0, 1} /\ Len(replies) \in Nat
      /\ "lost" \notin faults => Len(replies) = 1 + Again
  BY <1>1, Typed DEF Replied, Counted, Again
<1>4. Due' = 1 /\ Again' = Again
  BY <1>2, <1>3 DEF Due, Again
<1>5. Collected' /\ Outgoing' /\ Stages' /\ \A r : Sent(r) => Sent(r)'
  BY <1>1, <1>2, Settled
<1>6. Counted'
  BY <1>1, <1>2, <1>3, <1>4 DEF Counted, Early
<1>7. Replied'
  BY <1>1, <1>2, <1>6 DEF Replied
<1>8. Answers'
  <2>1. CASE replies # <<>>
    <3>1. PICK q : q = replies[1]
      OBVIOUS
    <3>2. Sent(q)' /\ q = replies'[1]
      BY <1>1, <1>2, <1>5, <2>1, <3>1 DEF Answers
    <3> QED BY <1>1, <3>2 DEF Answers
  <2>2. CASE replies = <<>>
    BY <1>1, <1>2, <2>2 DEF Answers
  <2> QED BY <2>1, <2>2
<1>9. Types'
  BY <1>1, <1>2 DEF Types, Labels, work
<1> QED BY <1>5, <1>7, <1>8, <1>9 DEF Inv

\* A panic answers for whatever was under way, or ends the process.
LEMMA PanicStep ==
    ASSUME Inv, panic
    PROVE  Inv'
<1>1. Types /\ Replied /\ Stages /\ Answers
  BY DEF Inv
<1>2. UNCHANGED work /\ UNCHANGED <<snap, swaps, replies, audited, msg>>
  BY DEF panic, work
<1>3. /\ msg.reply \in BOOLEAN /\ Len(replies) \in Nat /\ Again \in {0, 1} /\ Due \in {0, 1}
  BY <1>1, Typed DEF Again, Due
<1>4. /\ \/ pc' = "dead" /\ saying' = saying
         \/ /\ pc' = IF msg.reply THEN "send" ELSE "done"
            /\ saying' = Nothing
  BY DEF panic, recoverInto, send, Nothing
<1>5. pc' \in {"send", "done", "dead"}
  BY <1>3, <1>4
<1>6. Collected' /\ Outgoing' /\ Stages' /\ \A r : Sent(r) => Sent(r)'
  BY <1>2, <1>5, Settled
<1>7. /\ saying' \in [reply : Reply, known : BOOLEAN]
      /\ saying' = saying \/ (saying' = Nothing /\ saying'.reply = Internal)
  <2>1. Internal \in Reply
    BY QuietReplies DEF Quiet
  <2>2. Nothing \in [reply : Reply, known : BOOLEAN] /\ Nothing.reply = Internal
    BY <2>1 DEF Nothing
  <2>3. saying \in [reply : Reply, known : BOOLEAN]
    BY <1>1 DEF Types
  <2> QED BY <1>4, <2>2, <2>3
<1>8. Sent(Internal)'
  BY QuietReplies DEF Sent, Quiet
<1>9. Due' = 1 /\ Len(replies') <= Again' /\ ("lost" \notin faults' => Len(replies') = Again')
      /\ Again' \in {0, 1}
  <2>1. CASE pc \in Early \cup {"send"}
    <3>1. faults' = faults \cup {"panic"}
      BY <2>1 DEF panic, Early
    <3>2. Due' = 1 /\ Again' = Again
      BY <1>2, <3>1 DEF Due, Again
    <3>3. Len(replies) <= Again /\ ("lost" \notin faults => Len(replies) = Again)
      <4>1. CASE pc \in Early
        BY <1>1, <4>1 DEF Replied, Counted, Again
      <4>2. CASE pc = "send"
        BY <1>1, <4>2 DEF Replied, Counted
      <4> QED BY <2>1, <4>1, <4>2
    <3> QED BY <1>2, <1>3, <3>1, <3>2, <3>3
  <2>2. CASE pc = "audit" /\ saying.known
    <3>1. faults' = faults \cup {"audit"} /\ Again' = 1
      BY <2>2 DEF panic, Again
    <3>2. Due = 1 /\ Due' = 1
      <4>1. Due = 1
        BY <1>1, <2>2 DEF Replied
      <4> QED BY <1>2, <3>1, <4>1 DEF Due
    <3>3. "audit" \notin faults
      BY <1>1, <2>2 DEF Replied, Nothing
    <3>4. Len(replies) <= 1 /\ ("lost" \notin faults => Len(replies) = 1)
      BY <1>1, <2>2, <3>3 DEF Replied, Counted, Again
    <3> QED BY <1>2, <3>1, <3>2, <3>4
  <2> QED BY <2>1, <2>2 DEF panic, Early
<1>10. Counted'
  <2>1. pc' = "done" => ~msg'.reply
    BY <1>2, <1>3, <1>4
  <2>2. Len(replies') \in Nat
    BY <1>2, <1>3
  <2>3. Len(replies') <= Due' + Again'
    BY <1>9, <2>2
  <2> QED BY <1>5, <1>9, <2>1, <2>3 DEF Counted, Early
<1>11. Replied'
  <2>1. pc' \in {"send", "audit"} => msg'.reply /\ Due' = 1
    BY <1>2, <1>3, <1>4, <1>9
  <2>2. msg'.reply \/ Len(replies') = 0
    BY <1>1, <1>2 DEF Replied
  <2>3. pc' \in {"send", "audit"} => saying' = Nothing
    BY <1>4
  <2>4. \A i \in 1 .. Len(replies') : i > 1 \/ msg'.kind = "release" => replies'[i] = Internal
    BY <1>1, <1>2 DEF Replied
  <2> QED BY <1>10, <2>1, <2>2, <2>3, <2>4 DEF Replied
<1>12. Answers'
  <2>1. pc' = "send" => Sent(saying.reply)'
    <3>1. pc' = "send" => saying'.reply = Internal
      BY <1>4 DEF Nothing
    <3> QED BY <1>8, <3>1
  <2>2. replies' # <<>> => Sent(replies[1])'
    <3>1. CASE replies # <<>>
      <4>1. PICK q : q = replies[1]
        OBVIOUS
      <4>2. Sent(q)' /\ q = replies'[1]
        BY <1>1, <1>2, <1>6, <3>1, <4>1 DEF Answers
      <4> QED BY <4>2
    <3>2. CASE replies = <<>>
      BY <1>2, <3>2
    <3> QED BY <3>1, <3>2
  <2> QED BY <1>5, <2>1, <2>2 DEF Answers
<1>13. Types'
  BY <1>1, <1>2, <1>5, <1>7 DEF Types, Labels, work
<1> QED BY <1>6, <1>11, <1>12, <1>13 DEF Inv

\* A swap does not reach what the handler holds.
LEMMA SwapStep ==
    ASSUME Inv, Swap
    PROVE  Inv'
<1>1. Types /\ Replied /\ Stages /\ Collected /\ Outgoing /\ Answers
  BY DEF Inv
<1>2. UNCHANGED <<msg, pc, shed, fill, held, asked, writes, out, refused, geoErr, replies,
                  saying, faults>>
  BY DEF Swap, work, sending
<1>3. snap' \in Snapshot /\ swaps' \in Nat
  <2>0. swaps \in Nat
    BY <1>1 DEF Types
  <2>1. swaps + 1 \in Nat
    BY <2>0
  <2>2. snap' \in {swaps + 1} \X (Profile \cup {NoProfile}) /\ swaps' = swaps + 1
    BY DEF Swap
  <2> QED BY <2>1, <2>2 DEF Snapshot
<1>4. Types'
  BY <1>1, <1>2, <1>3 DEF Types
<1>5. Collected' /\ Outgoing'
  BY <1>1, <1>2, Kept
<1>6. Replied' /\ Stages'
  <2>1. Due' = Due /\ Again' = Again
    BY <1>2 DEF Due, Again
  <2>2. Counted'
    BY <1>1, <1>2, <2>1 DEF Replied, Counted
  <2>3. Replied'
    BY <1>1, <1>2, <2>1, <2>2 DEF Replied
  <2> QED BY <1>1, <1>2, <2>3 DEF Stages
<1>7. Answers'
  BY <1>1, <1>2 DEF Answers, Sent, Fitting, Indices, Fits
<1> QED BY <1>4, <1>5, <1>6, <1>7 DEF Inv

\* Nothing happens.
LEMMA Idles ==
    ASSUME Inv, UNCHANGED vars
    PROVE  Inv'
<1>1. UNCHANGED <<msg, snap, swaps, pc, shed, fill, held, asked, writes, out, refused, geoErr,
                  replies, saying, faults>>
  BY DEF vars, work, sending
<1>2. Collected' /\ Outgoing'
  BY <1>1, Kept DEF Inv
<1>3. Types' /\ Replied' /\ Stages'
  <2>1. Due' = Due /\ Again' = Again
    BY <1>1 DEF Due, Again
  <2>2. Counted'
    BY <1>1, <2>1 DEF Inv, Replied, Counted
  <2>3. Replied'
    BY <1>1, <2>1, <2>2 DEF Inv, Replied
  <2> QED BY <1>1, <2>3 DEF Inv, Types, Stages
<1>4. Answers'
  BY <1>1 DEF Inv, Answers, Sent, Fitting, Indices, Fits
<1> QED BY <1>2, <1>3, <1>4 DEF Inv

\* Every step keeps the invariant.
LEMMA Inductive ==
    Inv /\ [Next]_vars => Inv'
<1> SUFFICES ASSUME Inv, [Next]_vars PROVE Inv'
  OBVIOUS
<1>1. CASE receive
  BY <1>1, ReceiveStep
<1>2. CASE evaluate
  BY <1>2, EvaluateStep
<1>3. CASE inspect
  BY <1>3, InspectStep
<1>4. CASE collect
  BY <1>4, CollectStep
<1>5. CASE overloadOnShed
  BY <1>5, OverloadStep
<1>6. CASE writeOne \/ geoError
  BY <1>6, WriteSteps
<1>7. CASE answer
  BY <1>7, AnswerStep
<1>8. CASE sendPublish
  BY <1>8, PublishStep
<1>9. CASE sendAudit
  BY <1>9, AuditStep
<1>10. CASE panic
  BY <1>10, PanicStep
<1>11. CASE Swap
  BY <1>11, SwapStep
<1>12. CASE Done \/ UNCHANGED vars
  BY <1>12, Idles DEF Done
<1> QED BY <1>1, <1>2, <1>3, <1>4, <1>5, <1>6, <1>7, <1>8, <1>9, <1>10, <1>11, <1>12 DEF Next, Step

\* The invariant holds in every state of a message.
LEMMA Always ==
    Spec => []Inv
<1> QED BY Starts, Inductive, PTL DEF Spec

-----------------------------------------------------------------------------
(* The theorems.                                                           *)

\* One reply for a message with a subject, none for a release, and what a panic in
\* any call of receive, evaluate, send and recoverInto makes of it: handler.go sends in
\* many places, and the deferred recoverInto sends once more.
THEOREM RepliesOnce == Spec => []OneReply
<1>1. Inv => OneReply
  <2> SUFFICES ASSUME Inv PROVE OneReply
    OBVIOUS
  <2>1. Types /\ Replied /\ Counted
    BY DEF Inv, Replied
  <2>2. /\ replies \in Seq(Reply) /\ Len(replies) \in Nat /\ DOMAIN replies = 1 .. Len(replies)
        /\ Again \in {0, 1} /\ Due \in {0, 1} /\ msg.reply \in BOOLEAN
    BY <2>1, Typed, LenProperties DEF Types, Again, Due
  <2>3. msg.reply \/ replies = <<>>
    BY <2>1, <2>2, EmptySeq DEF Replied
  <2>4. Len(replies) <= Due + Again
    <3>1. CASE pc \in Early
      BY <2>1, <2>2, <3>1 DEF Counted
    <3>2. CASE pc \in {"send", "audit"}
      <4>1. Due = 1
        BY <2>1, <3>2 DEF Replied
      <4>2. Len(replies) <= Again \/ Len(replies) <= 1 + Again
        BY <2>1, <3>2 DEF Counted
      <4> QED BY <2>2, <4>1, <4>2
    <3>3. CASE pc \in {"done", "dead"}
      BY <2>1, <3>3 DEF Counted
    <3> QED BY <2>1, <3>1, <3>2, <3>3 DEF Types, Labels
  <2>5. \A i \in DOMAIN replies : i > 1 \/ msg.kind = "release" => replies[i] = Internal
    BY <2>1, <2>2 DEF Replied
  <2> QED BY <2>1, <2>3, <2>4, <2>5 DEF OneReply, Counted
<1> QED BY <1>1, Always, PTL

\* The address writes are handed over although the directory fails for others, and on
\* the evaluated path that failure is the answer.
THEOREM AddressWritesLeave == Spec => []AddressWritesOut
<1>1. Inv => AddressWritesOut
  <2> SUFFICES ASSUME Inv, Ruled PROVE AddressWritesOut
    BY DEF AddressWritesOut
  <2>0. Sent(Answer) /\ Answer.code \in {"OK", "GEO_UNAVAILABLE", "queue_limit"}
    BY DEF Inv, Answers, Ruled, Answered, Answer
  <2>1. ASSUME msg.addr, NEW i \in DOMAIN asked, held[2].rules[asked[i][2]].write = "addr"
        PROVE  asked[i] \in out \cup refused
    <3>1. held[2] \in Profile /\ i \in 1 .. Len(asked)
      BY <2>1, Typed, LenProperties DEF Inv, Ruled, Types
    <3>2. writes = <<>>
      BY <2>0 DEF Sent
    <3>3. Len(writes) = 0 /\ 1 .. 0 = {}
      BY <3>2
    <3> QED BY <2>1, <3>1, <3>3 DEF Inv, Outgoing
  <2>2. shed = "" => (geoErr <=> Answer.code = "GEO_UNAVAILABLE")
    BY <2>0 DEF Sent
  <2> QED BY <2>1, <2>2 DEF AddressWritesOut
<1> QED BY <1>1, Always, PTL

\* One snapshot for everything a message does.
THEOREM SingleSnapshot == Spec => []OneSnapshot
<1>1. Inv => OneSnapshot
  <2> SUFFICES ASSUME Inv PROVE OneSnapshot
    OBVIOUS
  <2>1. asked \in Seq(Nat \X Nat) /\ DOMAIN asked = 1 .. Len(asked)
    BY LenProperties DEF Inv, Types
  <2>2. \A w \in out : \A i \in DOMAIN asked : w[1] = asked[i][1]
    BY <2>1 DEF Inv, Collected
  <2>3. ASSUME Answered, NEW i \in DOMAIN Answer.actions, NEW j \in DOMAIN Answer.actions
        PROVE  Answer.actions[i][1] = Answer.actions[j][1]
    <3>1. Answer.actions = <<>> \/ Answer.actions = asked
      BY <2>3 DEF Inv, Answers, Sent, Answered, Answer
    <3>2. DOMAIN <<>> = {}
      OBVIOUS
    <3>3. Answer.actions = asked
      BY <2>3, <3>1, <3>2
    <3> QED BY <2>1, <2>3, <3>3 DEF Inv, Collected
  <2> QED BY <2>2, <2>3 DEF OneSnapshot
<1> QED BY <1>1, Always, PTL

\* What is asked for is exactly what the load calls for, no rule twice.
THEOREM OverloadRulesFit == Spec => []OverloadAsksUnderLoad
<1>1. Inv => OverloadAsksUnderLoad
  <2> SUFFICES ASSUME Inv PROVE OverloadAsksUnderLoad
    OBVIOUS
  <2>1. asked \in Seq(Nat \X Nat) /\ DOMAIN asked = 1 .. Len(asked) /\ Len(asked) \in Nat
    BY LenProperties DEF Inv, Types
  <2>2. ASSUME Answered, Answer.verdict = "error", Answer.actions # <<>>
        PROVE  Answer.code = "queue_limit" /\ Answer.class = "overload"
    BY <2>2 DEF Inv, Answers, Sent, Answered, Answer
  <2>3. Cardinality(Indices) = Len(asked)
    <3> DEFINE f == [i \in 1 .. Len(asked) |-> asked[i][2]]
    <3>1. \A i, j \in 1 .. Len(asked) : asked[i][2] = asked[j][2] => i = j
      BY DEF Inv, Collected
    <3>2. f \in Bijection(1 .. Len(asked), Indices)
      BY <3>1 DEF Indices, Bijection, Injection, Surjection, IsInjective
    <3>3. ExistsBijection(1 .. Len(asked), Indices)
      BY <3>2 DEF ExistsBijection
    <3> QED BY <2>1, <3>3, FS_CountingElements
  <2>4. ASSUME Ruled, Answer.code # "GEO_UNAVAILABLE"
        PROVE  AskedRules = Indices /\ Answer.actions = asked /\ Fitting /\ held[2] \in Profile
    <3>1. Answer.code \in {"OK", "queue_limit"} /\ Sent(Answer)
      BY <2>4 DEF Inv, Answers, Ruled, Answered, Answer
    <3>2. Answer.actions = asked /\ Fitting
      BY <3>1 DEF Sent
    <3>3. held[2] \in Profile
      BY <2>4, Typed DEF Inv, Ruled
    <3> QED BY <2>1, <3>2, <3>3 DEF AskedRules, Indices
  <2>5. ASSUME Ruled, Answer.code # "GEO_UNAVAILABLE", NEW i \in DOMAIN held[2].rules
        PROVE  Fits(i, AskedRules)
    BY <2>4, <2>5 DEF Fitting
  <2> QED BY <2>2, <2>3, <2>4, <2>5 DEF OverloadAsksUnderLoad
<1> QED BY <1>1, Always, PTL
=============================================================================
