--------------------------- MODULE ClaimValidation ---------------------------
(***************************************************************************)
(* The claim boundary: which relationship claims the writers accept, and   *)
(* what the resolver makes of everything that was ever accepted.           *)
(*                                                                         *)
(* A through-model declares its namespace once (a binding).  From that     *)
(* come the schema the validator checks claims with, the claim key, the    *)
(* tombstone a removal writes and the columns the resolver fills; the      *)
(* table's own constraints are written by hand beside it.  A claim stays   *)
(* for good, in JSON, without a foreign key: its target may be deleted, a  *)
(* revert may bring it back, another author's tombstone may cover it.      *)
(*                                                                         *)
(* JSON scalars are pairs <<type, text>>, so that 1 and "1" differ; an     *)
(* object is a function from its keys.                                     *)
(***************************************************************************)
EXTENDS Naturals, FiniteSets, Sequences, Functions, TLC

CONSTANTS Bindings,   \* the relationship specs with their subjects
          Offered,    \* namespace -> values a caller may send
          Tables,     \* table -> the rows that exist at first
          Ladder,     \* namespace -> "one", "most" or None: its target constraint
          Uniques,    \* namespace -> its table's uniqueness rules
          Authors, Source, None,
          MaxClaims   \* bound on the claim log

VARIABLES
    log,     \* [1..n -> [who, claim, active, retracted]]
    alive,   \* table -> the rows that exist and pass the target filter
    rows     \* what the last resolution of each (subject, namespace) left

boundaryVars == <<log, alive, rows>>

Null == <<"null", "">>
Empty == <<"str", "">>
Yes == <<"bool", "true">>
No == <<"bool", "false">>
IsBool(j) == j[1] = "bool"

Namespaces == {b.namespace : b \in Bindings}
Subjects == {b.subject : b \in Bindings}

-----------------------------------------------------------------------------
(* register_catalog_relationship_schemas.                                  *)

ValueKey(x) == IF x.key = None THEN x.field ELSE x.key

BindingOf(ns) == CHOOSE b \in Bindings : b.namespace = ns

(* Only a foreign key may be null: a text that is not there is empty.      *)
MembersOf(ns) ==
    {[name |-> ValueKey(m), column |-> m.field, kind |-> IF m.table = None THEN "str" ELSE "int",
      nullable |-> m.table # None /\ m.nullable, identity |-> m.identity, target |-> m.table] :
        m \in BindingOf(ns).members}

Payload(ns) ==
    {[name |-> ValueKey(p), column |-> p.field, kind |-> "str", nullable |-> p.nullable,
      required |-> p.required, choices |-> p.choices] : p \in BindingOf(ns).payload}

ValidSubjects(ns) == {b.subject : b \in {c \in Bindings : c.namespace = ns}}

(* The xor groups name columns; a value is checked by its keys.            *)
XorGroups(ns) ==
    {{ValueKey(m) : m \in {n \in BindingOf(ns).members : n.field \in g}} : g \in BindingOf(ns).xor}

Identity(ns) == {m \in MembersOf(ns) : m.identity}
Names(specs) == {s.name : s \in specs}

(* What a declaration must satisfy to be registered.                       *)
WellFormed(ns) ==
    /\ BindingOf(ns).members \cap BindingOf(ns).payload = {}
    /\ \A x, y \in BindingOf(ns).members \cup BindingOf(ns).payload : ValueKey(x) = ValueKey(y) => x = y
    /\ \A g \in XorGroups(ns) : g # {} /\ g \subseteq Names(MembersOf(ns))
    /\ \A b \in Bindings : b.namespace = ns =>
          /\ b.members = BindingOf(ns).members /\ b.payload = BindingOf(ns).payload
          /\ ns \notin b.fields

ASSUME SchemaAssumption == \A ns \in Namespaces : WellFormed(ns)

-----------------------------------------------------------------------------
(* check_claim_through_models, when the application starts: a declaration  *)
(* against its table's uniqueness rules.  A rule is over the columns       *)
(* u.fields and, unless u.on is None, for the rows where column u.on is    *)
(* null (u.null) or is not.  A table has a foreign key for each kind of    *)
(* subject, called here as the subject is.                                 *)
KeyColumns(ns) == {m.column : m \in Identity(ns)}
Conditional(ns) == {u \in Uniques[ns] : u.on # None}

MembersDeclared(ns) ==
    Cardinality(BindingOf(ns).members) \in IF BindingOf(ns).xor = {} THEN 1 .. 2 ELSE 2 .. 3

XorDeclared(ns) ==
    LET groups == BindingOf(ns).xor IN
    groups # {} =>
        /\ Cardinality(ValidSubjects(ns)) = 1
        /\ Cardinality(groups) >= 2
        /\ UNION groups \subseteq {m.field : m \in BindingOf(ns).members}
        /\ \A g, h \in groups : g = h \/ g \cap h = {}

(* With a member_xor the rules of the rungs must make up the claim's       *)
(* identity; else one rule is it, for each kind of subject there is.       *)
UniquesDeclared(ns) ==
    LET fks == ValidSubjects(ns) IN
    IF BindingOf(ns).xor # {} THEN
        /\ \A u \in Conditional(ns) : fks \subseteq u.fields /\ u.fields \subseteq fks \cup KeyColumns(ns)
        /\ UNION {u.fields : u \in Conditional(ns)} = fks \cup KeyColumns(ns)
    ELSE IF Cardinality(fks) = 1 THEN
        \E u \in Uniques[ns] : u.on = None /\ u.fields = fks \cup KeyColumns(ns)
    ELSE \A fk \in fks : \E u \in Uniques[ns] :
            u.on = fk /\ ~u.null /\ u.fields = {fk} \cup KeyColumns(ns)

Declared(ns) == MembersDeclared(ns) /\ XorDeclared(ns) /\ UniquesDeclared(ns)

ASSUME ThroughModelAssumption == \A ns \in Namespaces : Declared(ns)

(* What that check leaves to the models and their tests: a column is       *)
(* declared once, foreign keys identify and point at tables there are, a   *)
(* payload whose column is not null is required, the target constraint     *)
(* mirrors the member_xor, and every rule is over the whole identity (a    *)
(* rung's condition stands for the column it says is null).                *)
Mirrored(ns) ==
    LET b == BindingOf(ns) IN
    /\ \A x, y \in b.members \cup b.payload : x.field = y.field => x = y
    /\ \A x \in b.members \cup b.payload : ValueKey(x) # "exists"
    /\ \A m \in b.members : m.table # None => m.identity /\ m.table \in DOMAIN Tables
    /\ \A p \in b.payload : p.required \/ p.nullable
    /\ Ladder[ns] = "one" => b.xor # {} /\ b.xorRequired
    /\ \A u \in Uniques[ns] :
          KeyColumns(ns) \subseteq u.fields \cup (IF u.on # None /\ u.null THEN {u.on} ELSE {})

(* A number is never written "null".                                       *)
ASSUME TableAssumption ==
    /\ \A ns \in Namespaces : Mirrored(ns)
    /\ \A ns \in Namespaces : \A v \in Offered[ns] : \A k \in DOMAIN v :
          v[k] = <<v[k][1], v[k][2]>> /\ v[k] # <<"int", "null">>

-----------------------------------------------------------------------------
(* make_claim_key: the namespace and the identity parts as text.           *)
ClaimKey(ns, v) ==
    <<ns, [n \in Names(Identity(ns)) |-> IF v[n] = Null THEN "null" ELSE v[n][2]]>>

(* build_relationship_claim: a tombstone carries the identity alone.       *)
Build(ns, values, exists) ==
    LET kept == IF exists THEN values ELSE Restrict(values, Names(Identity(ns))) IN
    [subject |-> None, field |-> ns, key |-> ClaimKey(ns, values),
     value |-> [n \in DOMAIN kept \cup {"exists"} |->
                   IF n # "exists" THEN kept[n] ELSE IF exists THEN Yes ELSE No]]

Positive(v) == v["exists"] = Yes

(* Mutant: identity members are demanded, the others never.                *)
CompleteIdentity(ns, v) == \A m \in MembersOf(ns) : m.identity => m.name \in DOMAIN v

(* Rule 4: identity on both polarities, the rest on positive claims only.  *)
Complete(ns, v) ==
    /\ \A m \in MembersOf(ns) : m.identity \/ Positive(v) => m.name \in DOMAIN v
    /\ Positive(v) => \A p \in Payload(ns) : p.required => p.name \in DOMAIN v

(* Rule 5.                                                                 *)
Typed(spec, j) == IF j = Null THEN spec.nullable ELSE j[1] = spec.kind

WellTyped(ns, v) ==
    /\ \A m \in MembersOf(ns) : m.name \in DOMAIN v => Typed(m, v[m.name])
    /\ \A p \in Payload(ns) : p.name \in DOMAIN v =>
          /\ Typed(p, v[p.name])
          /\ v[p.name] # Null /\ p.choices # {} => v[p.name] \in p.choices

Known(ns) == {"exists"} \cup Names(MembersOf(ns)) \cup Names(Payload(ns))

(* A group is there when an FK of it is not null or a text not empty.      *)
Present(v, g) == \E n \in g \cap DOMAIN v : v[n] \notin {Null, Empty}

MostOne(set) == \A x, y \in set : x = y

(* Rule 7, on positive claims.                                             *)
Exclusive(ns, v) ==
    LET present == {g \in XorGroups(ns) : Present(v, g)} IN
    MostOne(present) /\ (BindingOf(ns).xorRequired /\ XorGroups(ns) # {} => present # {})

(* Rule 8, which stands on rule 4: the identity's values are there.        *)
Canonical(c) == c.key = ClaimKey(c.field, c.value)

(* validate_single_relationship_claim, rules in the order they are tried.  *)
ValidateSingle(c) ==
    /\ c.subject \in ValidSubjects(c.field)
    /\ "exists" \in DOMAIN c.value /\ IsBool(c.value["exists"])
    /\ Complete(c.field, c.value)
    /\ WellTyped(c.field, c.value)
    /\ DOMAIN c.value \subseteq Known(c.field)
    /\ Positive(c.value) => Exclusive(c.field, c.value)
    /\ Canonical(c)

(* classify_claim: a subject's own field goes before a namespace; the      *)
(* claims of fields, and of the models' extra data, are not modelled.      *)
Classified(subject, field) ==
    IF \E b \in Bindings : b.subject = subject /\ field \in b.fields THEN "direct"
    ELSE IF field \in Namespaces THEN "relationship" ELSE "other"

(* Every claim a caller may send: any offered value under any key.         *)
KeysOf(ns) ==
    {<<ns, [n \in {} |-> ""]>>} \cup
    {ClaimKey(ns, v) : v \in {w \in Offered[ns] : Names(Identity(ns)) \subseteq DOMAIN w}}

Claims ==
    UNION {{[subject |-> s, field |-> ns, key |-> k, value |-> v] :
               s \in Subjects, k \in KeysOf(ns), v \in Offered[ns]} : ns \in Namespaces}

Shaped ==
    {c \in Claims : Classified(c.subject, c.field) = "relationship" /\ ValidateSingle(c)}

(* validate_relationship_claims_batch: one lookup per (namespace, member), *)
(* in the rows its target filter leaves; a tombstone is not looked up.     *)
TargetsExist(batch) ==
    \A c \in batch : Positive(c.value) =>
        \A m \in MembersOf(c.field) :
            m.target # None /\ c.value[m.name] # Null => c.value[m.name] \in alive[m.target]

(* validate_claims_batch and _validate_claims: all of a patch, or nothing. *)
ValidateBatch(batch) == batch \subseteq Shaped /\ TargetsExist(batch)

-----------------------------------------------------------------------------
(* The resolver.                                                           *)

Rank(who) == IF who = Source THEN 0 ELSE 1
Beats(l, i, j) == Rank(l[i].who) > Rank(l[j].who) \/ (Rank(l[i].who) = Rank(l[j].who) /\ i > j)

(* The winning claim of each key a subject has in a namespace.             *)
Winners(l, subject, ns) ==
    {i \in DOMAIN l : /\ l[i].active /\ l[i].claim.subject = subject /\ l[i].claim.field = ns
                      /\ \A j \in DOMAIN l :
                            /\ l[j].active /\ l[j].claim.subject = subject
                            /\ l[j].claim.key = l[i].claim.key /\ j # i
                            => Beats(l, i, j)}

(* extract: a key member whose target is gone drops the claim; null is a   *)
(* member of its own where the column is nullable.                         *)
Extracted(ns, v, live) ==
    Positive(v) /\ \A m \in Identity(ns) :
        /\ m.name \in DOMAIN v
        /\ IF v[m.name] = Null THEN m.nullable
           ELSE m.target # None => v[m.name] \in live[m.target]

Specs(ns) == {[name |-> m.name, column |-> m.column] : m \in MembersOf(ns)} \cup
             {[name |-> p.name, column |-> p.column] : p \in Payload(ns)}

(* One row: the columns, a missing value written as null.                  *)
Row(ns, v) ==
    [col \in {s.column : s \in Specs(ns)} |->
        LET s == CHOOSE s \in Specs(ns) : s.column = col IN
        IF s.name \in DOMAIN v THEN v[s.name] ELSE Null]

Materialized(l, live, subject, ns) ==
    {Row(ns, l[i].claim.value) : i \in {j \in Winners(l, subject, ns) : Extracted(ns, l[j].claim.value, live)}}

Resolved(l, live, subject, ns) == [rows EXCEPT ![<<subject, ns>>] = Materialized(l, live, subject, ns)]

(* The table's own constraints: a text column is not null, a choice is in  *)
(* its vocabulary, the target ladder, the uniqueness rules.                *)
TargetsSet(ns, r) == {g \in BindingOf(ns).xor : \E c \in g : r[c] \notin {Null, Empty}}

RowAllowed(ns, r) ==
    /\ \A m \in MembersOf(ns) : m.kind = "str" => r[m.column][1] = "str"
    /\ \A m \in MembersOf(ns) : m.kind = "int" => IF r[m.column] = Null THEN m.nullable ELSE r[m.column][1] = "int"
    /\ \A p \in Payload(ns) :
          IF r[p.column] = Null THEN p.nullable ELSE p.choices # {} => r[p.column] \in p.choices
    /\ Ladder[ns] \in {"one", "most"} => MostOne(TargetsSet(ns, r))
    /\ Ladder[ns] = "one" => TargetsSet(ns, r) # {}

(* A row has its subject in the column of that kind, null in the other.    *)
Cell(subject, r, c) ==
    IF c \in DOMAIN r THEN r[c] ELSE IF c = subject THEN <<"int", subject>> ELSE Null

(* Two rows break a rule they are both under; a null equals nothing.       *)
Collide(u, subject, r, q) ==
    /\ \A x \in {r, q} : u.on = None \/ (Cell(subject, x, u.on) = Null <=> u.null)
    /\ \A c \in u.fields : Cell(subject, r, c) = Cell(subject, q, c) /\ Cell(subject, r, c) # Null

TableAllows(subject, ns, rs) ==
    /\ \A r \in rs : RowAllowed(ns, r)
    /\ \A r, q \in rs : \A u \in Uniques[ns] : r # q => ~Collide(u, subject, r, q)

-----------------------------------------------------------------------------
(* A claim supersedes its author's active one of the subject and key.      *)
Supersedes(who, c, e) ==
    /\ e.active /\ e.who = who /\ e.claim.subject = c.subject /\ e.claim.key = c.key

Asserted(l, who, c) ==
    Append([i \in DOMAIN l |-> IF Supersedes(who, c, l[i]) THEN [l[i] EXCEPT !.active = FALSE] ELSE l[i]],
           [who |-> who, claim |-> c, active |-> TRUE, retracted |-> FALSE])

BoundaryInit ==
    /\ log = <<>>
    /\ alive = Tables
    /\ rows = [sn \in Subjects \X Namespaces |-> {}]

(* _assert_claim and the resolution in its transaction: the shape is       *)
(* checked, the target was looked up by the planner, before.               *)
AssertClaim(u) ==
    /\ Len(log) < MaxClaims
    /\ \E c \in Shaped :
          /\ log' = Asserted(log, u, c)
          /\ rows' = Resolved(log', alive, c.subject, c.field)
    /\ UNCHANGED alive

(* A patch of one claim or two.                                            *)
Ingest ==
    /\ Len(log) < MaxClaims
    /\ \E c, d \in Shaped :
        /\ Len(log) + Cardinality({c, d}) <= MaxClaims
        /\ c = d \/ <<c.subject, c.key>> # <<d.subject, d.key>>
        /\ ValidateBatch({c, d})
        /\ log' = IF c = d THEN Asserted(log, Source, c) ELSE Asserted(Asserted(log, Source, c), Source, d)
        /\ rows' = [[rows EXCEPT ![<<c.subject, c.field>>] = Materialized(log', alive, c.subject, c.field)]
                         EXCEPT ![<<d.subject, d.field>>] = Materialized(log', alive, d.subject, d.field)]
        /\ UNCHANGED alive

(* A user's claim is reverted: his claim before it speaks again.           *)
Before(i) ==
    {j \in DOMAIN log : /\ ~log[j].active /\ ~log[j].retracted
                        /\ Supersedes(log[i].who, log[i].claim, [log[j] EXCEPT !.active = TRUE])}

Revert ==
    \E i \in DOMAIN log :
        /\ log[i].active /\ log[i].who \in Authors
        /\ log' = [j \in DOMAIN log |->
              IF j = i THEN [log[i] EXCEPT !.active = FALSE, !.retracted = TRUE]
              ELSE IF j \in Before(i) /\ (\A k \in Before(i) : k <= j) THEN [log[j] EXCEPT !.active = TRUE]
              ELSE log[j]]
        /\ rows' = Resolved(log', alive, log[i].claim.subject, log[i].claim.field)
        /\ UNCHANGED alive

Referenced(t, pk) ==
    \E sn \in Subjects \X Namespaces : \E r \in rows[sn] :
        \E m \in MembersOf(sn[2]) : m.target = t /\ r[m.column] = pk

(* A target row is deleted in the admin; a through-row protects it.        *)
DeleteTarget ==
    \E t \in DOMAIN Tables : \E pk \in alive[t] :
        /\ ~Referenced(t, pk)
        /\ alive' = [alive EXCEPT ![t] = @ \ {pk}]
        /\ UNCHANGED <<log, rows>>

BoundaryNext == (\E u \in Authors : AssertClaim(u)) \/ Ingest \/ Revert \/ DeleteTarget

BoundarySpec == BoundaryInit /\ [][BoundaryNext]_boundaryVars

-----------------------------------------------------------------------------
Standing == {log[i].claim : i \in DOMAIN log}

BoundaryTypeOK ==
    /\ DOMAIN log \subseteq 1 .. MaxClaims
    /\ \A i \in DOMAIN log : log[i].claim \in Claims /\ (log[i].active => ~log[i].retracted)
    /\ \A i, j \in DOMAIN log :
          /\ log[i].active /\ log[j].active /\ log[i].who = log[j].who
          /\ log[i].claim.subject = log[j].claim.subject /\ log[i].claim.key = log[j].claim.key
          => i = j
    /\ \A t \in DOMAIN Tables : alive[t] \subseteq Tables[t]

(* One edge, one key: two claims of a subject share their key exactly when *)
(* they name the same edge, so that an author has one say about it and all *)
(* authors contest one slot.  A label's wording is not the edge.           *)
SameEdge(c, d) ==
    c.field = d.field /\ \A m \in Identity(c.field) : c.value[m.name] = d.value[m.name]
OneKeyPerEdge == \A c, d \in Standing : c.key = d.key <=> SameEdge(c, d)

(* "A missing key can't materialize as a null column write", nor two       *)
(* targets, nor two rows of one key: whichever of the accepted claims win  *)
(* (after reverts, or with an author suppressed), the resolver's rows meet *)
(* the table's constraints, so that no later save fails on an old claim.   *)
AnyWinnersMaterialize ==
    /\ \A c \in Standing : Extracted(c.field, c.value, Tables) => RowAllowed(c.field, Row(c.field, c.value))
    /\ \A sn \in Subjects \X Namespaces :
          /\ TableAllows(sn[1], sn[2], rows[sn])
          /\ \A r, q \in rows[sn] : (\A c \in KeyColumns(sn[2]) : r[c] = q[c]) => r = q

(* A row that came from an accepted claim can always be removed: the       *)
(* tombstone built from that claim's values, or from its identity alone,   *)
(* passes every validator, with the target long gone, and contests the     *)
(* claim's slot.                                                           *)
AlwaysRemovable ==
    \A c \in Standing : Positive(c.value) =>
        LET t == [Build(c.field, Restrict(c.value, DOMAIN c.value \ {"exists"}), FALSE)
                     EXCEPT !.subject = c.subject]
        IN ValidateSingle(t) /\ TargetsExist({t}) /\ t.key = c.key
           /\ DOMAIN t.value = {"exists"} \cup Names(Identity(c.field))

(* What a patch writes points at rows that are there and eligible; what    *)
(* the resolver makes of old claims too.                                   *)
PatchesPointAtRows ==
    [][\A i \in DOMAIN log' \ DOMAIN log : log'[i].who = Source /\ Positive(log'[i].claim.value) =>
          \A m \in MembersOf(log'[i].claim.field) :
              m.target # None => log'[i].claim.value[m.name] \in alive[m.target] \cup {Null}]_boundaryVars
RowsPointAtRows ==
    \A sn \in Subjects \X Namespaces : \A r \in rows[sn] : \A m \in MembersOf(sn[2]) :
        m.target # None => r[m.column] \in alive[m.target] \cup {Null}

(* A slot nobody stands against shows its claim: an accepted positive      *)
(* claim that is alone in its slot, with its targets there, is a row.      *)
NothingSwallowed ==
    \A i \in DOMAIN log :
        LET c == log[i].claim IN
        /\ log[i].active /\ Positive(c.value)
        /\ \A j \in DOMAIN log : log[j].active /\ log[j].claim.subject = c.subject /\ log[j].claim.key = c.key => j = i
        /\ \A m \in Identity(c.field) : m.target # None => c.value[m.name] \in alive[m.target] \cup {Null}
        => \E r \in rows[<<c.subject, c.field>>] : \A m \in Identity(c.field) : r[m.column] = c.value[m.name]
=============================================================================
