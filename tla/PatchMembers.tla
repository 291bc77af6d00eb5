--------------------------- MODULE PatchMembers ---------------------------
(***************************************************************************)
(* The relationship members of a data patch.  A namespace's schema decides *)
(* how a member is authored: a public id with an optional count (feature), *)
(* a public id of the record's own model (parent), a string that folds     *)
(* (alias) or does not (abbreviation), a pair of public ids (credit), or a *)
(* mapping with alternative targets, exactly one of them (edge) or at most *)
(* one (market).  The emitter trims and folds what is authored into an     *)
(* identity, resolves each public id to a committed row or to a create     *)
(* further up, and refuses a member that says what another has said.       *)
(*                                                                         *)
(* Everything else about a plan (fields, deletes, notes, the race between  *)
(* planning and applying) is in PatchPlan.                                 *)
(***************************************************************************)
EXTENDS Integers, Sequences

CONSTANTS Families,     \* what the patches of a behaviour may be about
          None

VARIABLES
    family,     \* the one of Families this behaviour is about
    rows,       \* the records
    claims,     \* the source's active membership claims: [id, ident, present, pay]
    doc         \* the entries of the patch being written: [create, id, adds, drops]

vars == <<family, rows, claims, doc>>
\* patches applied so far: bounded, and part of no decision
VARIABLE patches

Kinds == family.kinds           \* the namespaces used
Firsts == family.firsts         \* public ids a member's target may name
Seconds == family.seconds       \* public ids of a credit's second slot
Subjects == family.subjects     \* records an entry may be about
New == family.new               \* the public ids among these that no record has yet
Countries == family.countries   \* the targets an export market may have
Words == family.words           \* strings, before case and padding
Pads == family.pads             \* whether a padded value is authored
MaxMembers == family.members
MaxEntries == family.entries
MaxPatches == family.patches

Ids == Firsts \cup Seconds \cup Subjects

FamiliesAssumption ==
    \A f \in Families : /\ None \notin f.firsts \cup f.seconds \cup f.subjects
                       /\ f.new \subseteq f.firsts \cup f.seconds \cup f.subjects
                       /\ f.pads \subseteq BOOLEAN

NoRef == [id |-> None, pad |-> FALSE]
NoText == [word |-> None, upper |-> FALSE, pad |-> FALSE]
NoPay == -1

-----------------------------------------------------------------------------
(* What an author writes.                                                  *)
Refs(ids) == [id : ids, pad : Pads]
Texts == [word : Words, upper : BOOLEAN, pad : Pads]

Member(ns, as, bs, texts, pays) == [ns : {ns} \cap Kinds, a : as, b : bs, text : texts, pay : pays]

Members ==
    Member("alias", {NoRef}, {NoRef}, Texts \cup {NoText}, {NoPay}) \cup
    Member("abbreviation", {NoRef}, {NoRef}, Texts \cup {NoText}, {NoPay}) \cup
    Member("feature", Refs(Firsts), {NoRef}, {NoText}, {NoPay, 0, 1, 2}) \cup
    Member("parent", Refs(Firsts), {NoRef}, {NoText}, {NoPay}) \cup
    Member("credit", Refs(Firsts), Refs(Seconds), {NoText}, {NoPay}) \cup
    Member("edge", Refs(Firsts) \cup {NoRef}, {NoRef}, Texts \cup {NoText}, {NoPay, 1}) \cup
    Member("market", Refs(Firsts) \cup {NoRef}, {NoRef}, Texts \cup {NoText}, {NoPay})

-----------------------------------------------------------------------------
(* _member_identity: what a member is, once trimmed; an alias folds.       *)
Identity(m) ==
    CASE m.ns = "alias" -> <<m.ns, m.text.word>>
      [] m.ns = "abbreviation" -> <<m.ns, m.text.word, m.text.upper>>
      [] OTHER -> <<m.ns, m.a.id, m.b.id, m.text.word, m.text.upper>>

(* What rides along: an alias's display, a feature's count, an edge's type.*)
Payload(m) == IF m.ns # "alias" THEN m.pay ELSE IF m.text.upper THEN 1 ELSE 0

(* _unpack_dict_member, _coerce_payload_value, the string and FK shapes.   *)
WellShaped(m) ==
    CASE m.ns \in {"alias", "abbreviation"} -> m.text # NoText
      [] m.ns = "feature" -> m.pay # 0
      [] m.ns = "edge" -> (m.a = NoRef) # (m.text = NoText) /\ m.pay # NoPay
      [] m.ns = "market" -> m.a = NoRef \/ m.text = NoText
      [] OTHER -> TRUE

Slots(m) == {m.a.id, m.b.id} \ {None}

(* What the entries up to i create: a create's own members see it.         *)
Registered(d, i) == {d[j].id : j \in {k \in 1 .. i : d[k].create}}

Deferred(d, i, m) == Slots(m) \cap Registered(d, i) # {}

(* created_handle, else resolve_fk_target_pk under the target filter.      *)
Resolves(s, d, i, m) ==
    \A x \in Slots(m) :
        x \in Registered(d, i) \/ (x \in s.rows /\ (m.ns = "market" => x \in Countries))

(* Mutant: duplicates are looked for in what is written.                   *)
AsWritten(d, i, m) == m

(* The key duplicates are found by: the claim key, or the composite of     *)
(* keys and handles when a slot is not created yet.                        *)
SeenKey(d, i, m) ==
    IF Deferred(d, i, m)
    THEN <<"deferred", m.ns, [x \in Slots(m) |-> IF x \in Registered(d, i) THEN "handle" ELSE "pk"],
           m.a.id, m.b.id>>
    ELSE Identity(m)

Distinct(d, i, list) ==
    \A j, k \in DOMAIN list : j # k => SeenKey(d, i, list[j]) # SeenKey(d, i, list[k])

(* The optional-XOR set rule: no row without a target beside one with.     *)
OneResolution(list) ==
    \A j, k \in DOMAIN list :
        list[j].ns = "market" /\ list[k].ns = "market" =>
            ~(list[j].a = NoRef /\ list[k].a # NoRef)

-----------------------------------------------------------------------------
(* One entry.                                                              *)
TargetFound(s, d, i) ==
    IF d[i].create THEN d[i].id \notin s.rows \cup Registered(d, i - 1)
    ELSE d[i].id \in s.rows \cup Registered(d, i) /\ (d[i].drops # <<>> => d[i].id \in s.rows)

AddsOK(s, d, i) ==
    /\ \A j \in DOMAIN d[i].adds : WellShaped(d[i].adds[j]) /\ Resolves(s, d, i, d[i].adds[j])
    /\ Distinct(d, i, d[i].adds)
    /\ OneResolution(d[i].adds)

(* _add_removals: committed rows only, without payload in a mapping; the   *)
(* target filter does not apply.                                           *)
DropsOK(s, d, i) ==
    /\ \A j \in DOMAIN d[i].drops :
          LET m == d[i].drops[j] IN
          /\ WellShaped(IF m.ns = "edge" THEN [m EXCEPT !.pay = 1] ELSE m)
          /\ m.ns = "edge" => m.pay = NoPay
          /\ Slots(m) \subseteq s.rows
    /\ \A j, k \in DOMAIN d[i].drops : j # k => Identity(d[i].drops[j]) # Identity(d[i].drops[k])

AddsTo(d, id) == UNION {{Identity(d[i].adds[j]) : j \in DOMAIN d[i].adds} : i \in {k \in DOMAIN d : d[k].id = id}}
DropsTo(d, id) == UNION {{Identity(d[i].drops[j]) : j \in DOMAIN d[i].drops} : i \in {k \in DOMAIN d : d[k].id = id}}

Claimed(s, id, ident) == \E c \in s.claims : c.id = id /\ c.ident = ident /\ c.present

(* _validate_plan_wide on members: no two entries assert or remove one,    *)
(* and none is both asserted and removed, written or not.                  *)
DisjointMembers(s, d) ==
    /\ \A i, j \in DOMAIN d : i # j /\ d[i].id = d[j].id =>
          /\ {SeenKey(d, i, d[i].adds[k]) : k \in DOMAIN d[i].adds} \cap
             {SeenKey(d, j, d[j].adds[k]) : k \in DOMAIN d[j].adds} = {}
          /\ {Identity(d[i].drops[k]) : k \in DOMAIN d[i].drops} \cap
             {Identity(d[j].drops[k]) : k \in DOMAIN d[j].drops} = {}
    /\ \A id \in Ids : AddsTo(d, id) \cap DropsTo(d, id) = {}

-----------------------------------------------------------------------------
(* The guard on parents.  Its nodes are authored public ids, and a padded  *)
(* one is none of the rows'.                                               *)
Node(ref) == <<ref.id, ref.pad>>

Existing(s) == {<<<<c.id, FALSE>>, <<c.ident[2], FALSE>>>> : c \in {x \in s.claims : x.present /\ x.ident[1] = "parent"}}

Authored(d) ==
    UNION {{<<<<d[i].id, FALSE>>, Node(d[i].adds[j].a)>> :
              j \in {k \in DOMAIN d[i].adds : d[i].adds[k].ns = "parent"}} : i \in DOMAIN d}

(* The nodes above n, n included: what every set with n has that is closed *)
(* under the edges.                                                        *)
Above(edges, n) ==
    LET within == {n} \cup {e[2] : e \in edges}
        Closed(S) == \A e \in edges : e[1] \in S => e[2] \in S
    IN {m \in within : \A S \in SUBSET within : n \in S /\ Closed(S) => m \in S}

(* _validate_hierarchy_acyclic: the rows' edges and the patch's, removals  *)
(* ignored.                                                                *)
AcyclicOver(s, d) ==
    \A e \in Authored(d) : e[1] # e[2] /\ e[1] \notin Above(Existing(s) \cup Authored(d), e[2])

-----------------------------------------------------------------------------
Planned(s, d) ==
    /\ \A i \in DOMAIN d : TargetFound(s, d, i) /\ AddsOK(s, d, i) /\ DropsOK(s, d, i)
    /\ DisjointMembers(s, d)
    /\ AcyclicOver(s, d)

(* The engine validates each claim again once its handles are rows, under  *)
(* the target filter; a market of this patch's own must be a country too.  *)
Valid(d) ==
    \A i \in DOMAIN d : \A j \in DOMAIN d[i].adds :
        d[i].adds[j].ns = "market" => Slots(d[i].adds[j]) \subseteq Countries

Accepted(s, d) == Planned(s, d) /\ Valid(d)

Assertion(id, m) == [id |-> id, ident |-> Identity(m), present |-> TRUE, pay |-> Payload(m)]
Tombstone(id, m) == [id |-> id, ident |-> Identity(m), present |-> FALSE, pay |-> NoPay]

(* The claims an entry asserts once _patch_handles has filled its keys in. *)
Assertions(d, i) == {Assertion(d[i].id, d[i].adds[j]) : j \in DOMAIN d[i].adds}

(* Tombstones for what the source claims present; the rest is a warning.   *)
Tombstones(s, d, i) ==
    {Tombstone(d[i].id, d[i].drops[j]) :
        j \in {k \in DOMAIN d[i].drops : Claimed(s, d[i].id, Identity(d[i].drops[k]))}}

Written(s, d) == UNION {Assertions(d, i) \cup Tombstones(s, d, i) : i \in DOMAIN d}

Result(s, d) ==
    [rows |-> s.rows \cup Registered(d, Len(d)),
     claims |-> {c \in s.claims : \A w \in Written(s, d) : <<w.id, w.ident>> # <<c.id, c.ident>>}
                \cup Written(s, d)]

-----------------------------------------------------------------------------
Store == [rows |-> rows, claims |-> claims]
Size(d) == LET f[k \in 0 .. Len(d)] == IF k = 0 THEN 0 ELSE f[k - 1] + Len(d[k].adds) + Len(d[k].drops) IN f[Len(d)]

Init == family \in Families /\ rows = Ids \ New /\ claims = {} /\ doc = <<>> /\ patches = 0

(* The author goes on while the patch so far would be planned: what is     *)
(* refused stays refused with more in it.                                  *)
Begin ==
    /\ Len(doc) < MaxEntries /\ patches < MaxPatches
    /\ Planned(Store, doc)
    /\ \E create \in BOOLEAN, id \in Subjects \cup New :
          doc' = Append(doc, [create |-> create, id |-> id, adds |-> <<>>, drops |-> <<>>])
    /\ UNCHANGED <<family, rows, claims, patches>>

Add ==
    /\ doc # <<>> /\ Size(doc) < MaxMembers
    /\ Planned(Store, doc)
    /\ doc[Len(doc)].id \in Subjects
    /\ \E m \in Members : doc' = [doc EXCEPT ![Len(doc)].adds = Append(@, m)]
    /\ UNCHANGED <<family, rows, claims, patches>>

Remove ==
    /\ doc # <<>> /\ Size(doc) < MaxMembers
    /\ Planned(Store, doc)
    /\ doc[Len(doc)].id \in Subjects /\ ~doc[Len(doc)].create
    /\ \E m \in Members : doc' = [doc EXCEPT ![Len(doc)].drops = Append(@, m)]
    /\ UNCHANGED <<family, rows, claims, patches>>

Apply ==
    /\ doc # <<>> /\ Accepted(Store, doc)
    /\ rows' = Result(Store, doc).rows
    /\ claims' = Result(Store, doc).claims
    /\ doc' = <<>> /\ patches' = patches + 1
    /\ UNCHANGED family

Refuse ==
    /\ doc # <<>> /\ ~Accepted(Store, doc)
    /\ doc' = <<>>
    /\ UNCHANGED <<family, rows, claims, patches>>

Next == Begin \/ Add \/ Remove \/ Apply \/ Refuse

Spec == Init /\ [][Next]_<<vars, patches>>

-----------------------------------------------------------------------------
TypeOK ==
    /\ rows \subseteq Ids /\ Ids \ New \subseteq rows
    /\ \A c \in claims : c.id \in rows
    /\ \A c, d \in claims : c.id = d.id /\ c.ident = d.ident => c = d

(* What a member says, whoever reads it: its namespace, the records it     *)
(* names, and its text, in one case when it is an alias.                   *)
Fact(m) ==
    [ns |-> m.ns, a |-> m.a.id, b |-> m.b.id, word |-> m.text.word,
     upper |-> m.ns # "alias" /\ m.text.upper]

AddedFacts(id) ==
    {at \in (1 .. Len(doc)) \X (1 .. MaxMembers) :
        doc[at[1]].id = id /\ at[2] \in DOMAIN doc[at[1]].adds}

(* A planned patch says no fact twice and none both ways: every member in  *)
(* it gets a claim of its own, in the change set of its own entry.         *)
EveryMemberItsOwnClaim ==
    doc # <<>> /\ Planned(Store, doc) =>
        \A id \in Ids :
            /\ \A p, q \in AddedFacts(id) :
                  p # q => Fact(doc[p[1]].adds[p[2]]) # Fact(doc[q[1]].adds[q[2]])
            /\ \A p \in AddedFacts(id), i \in DOMAIN doc :
                  doc[i].id = id => \A j \in DOMAIN doc[i].drops :
                      Fact(doc[i].drops[j]) # Fact(doc[p[1]].adds[p[2]])

(* A member is not refused as a duplicate of one that says something else: *)
(* two people with one new role, one word as two abbreviations.            *)
DifferentMembersPass ==
    \A i \in DOMAIN doc : \A j, k \in DOMAIN doc[i].adds :
        LET m == doc[i].adds[j] n == doc[i].adds[k] IN
        WellShaped(m) /\ WellShaped(n) /\ Fact(m) # Fact(n) => SeenKey(doc, i, m) # SeenKey(doc, i, n)

(* A patch that creates records and uses them says what a patch that only  *)
(* creates them (whose entries say nothing else) and one after it would.   *)
TogetherIsApart ==
    doc # <<>> /\ Accepted(Store, doc) =>
        LET creates == [i \in DOMAIN doc |-> [doc[i] EXCEPT !.adds = <<>>, !.drops = <<>>]]
            first == Result(Store, creates)
            rest == [i \in DOMAIN doc |-> [doc[i] EXCEPT !.create = FALSE]]
        IN Accepted(first, rest) /\ Result(first, rest) = Result(Store, doc)

(* A member removed, in whatever spelling, is not claimed any more.        *)
RemovedIsGone ==
    [][patches' # patches =>
         \A i \in DOMAIN doc : \A j \in DOMAIN doc[i].drops : \A c \in claims' :
             c.id = doc[i].id /\ c.present => c.ident # Identity(doc[i].drops[j])]_<<vars, patches>>

(* One entry says a machine's export at one resolution, and to countries.  *)
MarketsAtOneResolution ==
    \A i \in DOMAIN doc : doc[i].adds # <<>> /\ Planned(Store, doc) =>
        \A j, k \in DOMAIN doc[i].adds :
            LET m == doc[i].adds[j] n == doc[i].adds[k] IN
            m.ns = "market" /\ n.ns = "market" /\ m.a.id = None => n.a.id = None

MarketsAreCountries ==
    \A c \in claims : c.ident[1] = "market" /\ c.present => c.ident[2] \in Countries \cup {None}

(* No record is above itself, where public ids are written without         *)
(* padding.  "It never misses a cycle."                                    *)
ParentsAcyclic ==
    LET edges == {<<c.id, c.ident[2]>> : c \in {x \in claims : x.ident[1] = "parent" /\ x.present}} IN
    TRUE \notin Pads => \A e \in edges : e[1] \notin Above(edges, e[2])
=============================================================================
