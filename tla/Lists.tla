-------------------------------- MODULE Lists --------------------------------
(***************************************************************************)
(* One list as the conditions look values up in it: a composition of the   *)
(* mirror, fed with records of the keeper's packages                       *)
(* (internal/livelist/livelist.go), or a static list, read line by line    *)
(* from a file of the generation (internal/policy/static.go). Both keep    *)
(* the prefixes of an address list by length, with a counter per length.   *)
(*                                                                         *)
(* Addresses are numbers of Width4 or Width6 bits. The block of the        *)
(* v4-mapped addresses begins at MappedAt. SipHash is one-way and the list *)
(* hash a xor: it is kept as the set of the members it was taken of, and   *)
(* flipping a member in and out is the xor.                                *)
(***************************************************************************)
EXTENDS Integers, Sequences, FiniteSets, FiniteSetsExt, Functions

CONSTANTS
    Width4, Width6, MappedAt,
    Published,   \* prefixes the keeper publishes: masked, none of them mapped
    Values,      \* members of a list of strings
    Expiries,    \* expiry of a record, 0 for never
    Lines,       \* lines of a static address list, as netip parses them
    MaxRecords, MaxTime  \* bounds

VARIABLES
    form,    \* "mirror" or "static"
    typ,     \* "cidr" or "string"
    comp,    \* composition or staticSet: members, lens, hash
    state,   \* "ready"; a file is "reading", then "ready", "refused" or "panic"
    now,
    log      \* history: the records applied or the lines read

vars == <<form, typ, comp, state, now, log>>

Widths == [f \in {4, 6} |-> IF f = 4 THEN Width4 ELSE Width6]

\* 2^k: how many addresses differ in the last k bits only.
Span[k \in 0 .. Width6] == IF k = 0 THEN 1 ELSE 2 * Span[k - 1]

Addresses == UNION {[fam : {f}, n : 0 .. Span[Widths[f]] - 1] : f \in {4, 6}}
Prefixes == UNION {[fam : {f}, n : 0 .. Span[Widths[f]] - 1, bits : 0 .. Widths[f]] : f \in {4, 6}}

ASSUME ListsAssumption ==
    /\ Width4 \in Nat /\ Width6 \in Nat /\ Width4 < Width6
    /\ MappedAt % Span[Width4] = 0 /\ MappedAt \in 0 .. Span[Width6] - Span[Width4]
    /\ Expiries \subseteq Nat /\ MaxRecords \in Nat /\ MaxTime \in Nat
ASSUME PublishedAssumption ==
    Published \subseteq {p \in Prefixes : p.n % Span[Widths[p.fam] - p.bits] = 0}
ASSUME LinesAssumption ==
    Lines \subseteq [kind : {"address", "prefix", "neither"}, addr : Addresses, bits : 0 .. Width6]

-----------------------------------------------------------------------------
(* net/netip, as far as the lists use it.                                  *)

Unmap(a) ==
    IF a.fam = 6 /\ a.n \in MappedAt .. MappedAt + Span[Width4] - 1
    THEN [fam |-> 4, n |-> a.n - MappedAt] ELSE a

\* PrefixFrom(a, bits).Masked(): more bits than the family has give no prefix.
NoPrefix == [fam |-> 0, n |-> 0, bits |-> -1]
Masked(a, bits) ==
    IF bits > Widths[a.fam] THEN NoPrefix
    ELSE [fam |-> a.fam, n |-> a.n - (a.n % Span[Widths[a.fam] - bits]), bits |-> bits]

-----------------------------------------------------------------------------
(* composition.                                                            *)

Empty == [members |-> [x \in {} |-> 0],
          lens |-> [fb \in {4, 6} \X (0 .. Width6) |-> 0],
          hash |-> {}]

Init ==
    /\ form \in {"mirror", "static"} /\ typ \in {"cidr", "string"}
    /\ comp = Empty
    /\ state = IF form = "mirror" THEN "ready" ELSE "reading"
    /\ now = 1
    /\ log = <<>>

alive(exp) == exp = 0 \/ exp > now

\* The counter of the length of x, for a prefix.
Count(c, x, by) ==
    IF typ = "cidr" THEN [c.lens EXCEPT ![<<x.fam, x.bits>>] = @ + by] ELSE c.lens
Flip(c, x) == SymDiff(c.hash, {x})
\* The map with the value v at the key x.
Put(f, x, v) == [y \in DOMAIN f \cup {x} |-> IF y = x THEN v ELSE f[y]]

\* Defect: a record that only extends the expiry counts and hashes again.
add_again(c, x, exp) ==
    [members |-> Put(c.members, x, exp), lens |-> Count(c, x, 1), hash |-> Flip(c, x)]

add(c, x, exp) ==
    IF x \in DOMAIN c.members THEN [c EXCEPT !.members = Put(c.members, x, exp)]
    ELSE [members |-> Put(c.members, x, exp), lens |-> Count(c, x, 1), hash |-> Flip(c, x)]

remove(c, x) ==
    IF x \notin DOMAIN c.members THEN c
    ELSE [members |-> Restrict(c.members, DOMAIN c.members \ {x}),
          lens |-> Count(c, x, -1), hash |-> Flip(c, x)]

\* composition.apply, one record of a package.
apply(op, x, exp) ==
    /\ form = "mirror" /\ Len(log) < MaxRecords
    /\ comp' = IF op = "add" THEN add(comp, x, exp) ELSE remove(comp, x)
    /\ log' = Append(log, [op |-> op, x |-> x, exp |-> exp])
    /\ UNCHANGED <<form, typ, state, now>>

\* Defect: the search ends at the longest prefix that is there, dead or alive.
containsAddr_longest(ip) ==
    LET a == Unmap(ip)
        there == {b \in 0 .. Widths[a.fam] : Masked(a, b) \in DOMAIN comp.members}
    IN there # {} /\ alive(comp.members[Masked(a, Max(there))])

\* containsAddr of a composition.
containsAddr(ip) ==
    LET a == Unmap(ip) IN
    \E b \in 0 .. Widths[a.fam] :
        /\ comp.lens[<<a.fam, b>>] # 0
        /\ Masked(a, b) \in DOMAIN comp.members
        /\ alive(comp.members[Masked(a, b)])

\* Mirror.Contains with a text that parses as a prefix.
containsPrefix(ip, bits) ==
    LET p == Masked(Unmap(ip), bits) IN
    p \in DOMAIN comp.members /\ alive(comp.members[p])

\* Mirror.Contains and Mirror.Lookup of a value.
Lookup(value) == value \in DOMAIN comp.members /\ alive(comp.members[value])

-----------------------------------------------------------------------------
(* staticSet.                                                              *)

\* containsAddr of a staticSet: nothing expires.
staticContainsAddr(ip) ==
    LET a == Unmap(ip) IN
    \E b \in 0 .. Widths[a.fam] :
        comp.lens[<<a.fam, b>>] # 0 /\ Masked(a, b) \in DOMAIN comp.members

\* Defect: a prefix is taken as it is written.
LinePrefix_unmasked(line) ==
    IF line.kind = "address" THEN Masked(Unmap(line.addr), Widths[Unmap(line.addr).fam])
    ELSE [fam |-> line.addr.fam, n |-> line.addr.n, bits |-> line.bits]

\* The prefix of an address line or a prefix line.
LinePrefix(line) ==
    LET a == Unmap(line.addr) IN
    Masked(a, IF line.kind = "address" THEN Widths[a.fam] ELSE line.bits)

\* One line of readStatic; blank ones are skipped. No prefix has the index -1: the program stops there.
readLine(line) ==
    /\ state = "reading" /\ Len(log) < MaxRecords
    /\ log' = Append(log, line)
    /\ \/ typ = "string" /\ comp' = add(comp, line, 0) /\ UNCHANGED state
       \/ /\ typ = "cidr" /\ line.kind = "neither"
          /\ state' = "refused" /\ UNCHANGED comp
       \/ /\ typ = "cidr" /\ line.kind # "neither" /\ LinePrefix(line) = NoPrefix
          /\ state' = "panic" /\ UNCHANGED comp
       \/ /\ typ = "cidr" /\ line.kind # "neither" /\ LinePrefix(line) # NoPrefix
          /\ comp' = add(comp, LinePrefix(line), 0) /\ UNCHANGED state
    /\ UNCHANGED <<form, typ, now>>

readEnd ==
    /\ state = "reading"
    /\ state' = "ready"
    /\ UNCHANGED <<form, typ, comp, now, log>>

-----------------------------------------------------------------------------

Tick ==
    /\ form = "mirror" /\ now < MaxTime
    /\ now' = now + 1
    /\ UNCHANGED <<form, typ, comp, state, log>>

Next ==
    \/ \E x \in IF typ = "cidr" THEN Published ELSE Values :
           (\E exp \in Expiries : apply("add", x, exp)) \/ apply("remove", x, 0)
    \/ \E line \in IF typ = "cidr" THEN Lines ELSE Values : readLine(line)
    \/ readEnd
    \/ Tick

Spec == Init /\ [][Next]_vars

-----------------------------------------------------------------------------
(* Properties.                                                             *)

\* The members by the history alone: what the last record of each says.
LastOf(x) == log[Max({i \in DOMAIN log : log[i].x = x})]
Declared == {x \in {log[i].x : i \in DOMAIN log} : LastOf(x).op = "add"}
Live(x) == x \in Declared /\ alive(LastOf(x).exp)

\* Bit by bit: the address begins with the bits of the prefix.
Begins(a, fam, n, bits) ==
    /\ a.fam = fam /\ bits <= Widths[fam]
    /\ a.n \div Span[Widths[fam] - bits] = n \div Span[Widths[fam] - bits]

\* A lookup in a mirrored list is the lookup in the declared content: an address
\* is in it when some live prefix of its family covers it, written as v4 or as the
\* v4-mapped address; an expired prefix hides no shorter one that lives, a removed
\* one no longer counts, and a later record replaces the expiry of an earlier one.
LookupExact ==
    form = "mirror" =>
        IF typ = "string" THEN \A v \in Values : Lookup(v) <=> Live(v)
        ELSE \A ip \in Addresses :
                /\ containsAddr(ip) <=> \E p \in Declared :
                       Live(p) /\ Begins(Unmap(ip), p.fam, p.n, p.bits)
                /\ \A b \in 0 .. Width6 : containsPrefix(ip, b) <=>
                       \E p \in Declared : Live(p) /\ p.bits = b
                                           /\ Begins(Unmap(ip), p.fam, p.n, b)

\* However often members were added, prolonged, removed when there or not, the hash
\* that verify compares with the keeper's is that of the declared members, expired
\* ones included, and the counters that let containsAddr skip a length count exactly
\* the members of that length.
HashAndCountersExact ==
    form = "mirror" =>
        /\ comp.hash = Declared
        /\ typ = "cidr" => \A f \in {4, 6}, b \in 0 .. Width6 :
               comp.lens[<<f, b>>] = Cardinality({p \in Declared : p.fam = f /\ p.bits = b})

\* A static address list that was loaded holds exactly the addresses its lines name,
\* for each order and repetition of lines, a v4-mapped line and its v4 spelling being
\* the same; a line that is neither an address nor a prefix refuses the list, as the
\* comment of readStatic says. A mapped prefix longer than a v4 address is the
\* exception: the program does not survive it.
Names(line, a) ==
    LET base == Unmap(line.addr) IN
    Begins(a, base.fam, base.n,
           IF line.kind = "address" THEN Widths[base.fam] ELSE line.bits)
StaticExact ==
    form = "static" =>
        /\ state = "refused" <=> typ = "cidr" /\ \E i \in DOMAIN log : log[i].kind = "neither"
        /\ state = "ready" /\ typ = "cidr" => \A ip \in Addresses :
               staticContainsAddr(ip) <=> \E i \in DOMAIN log : Names(log[i], Unmap(ip))
        /\ state = "ready" /\ typ = "string" => \A v \in Values :
               v \in DOMAIN comp.members <=> \E i \in DOMAIN log : log[i] = v
==============================================================================
