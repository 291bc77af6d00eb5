----------------------------- MODULE Lifecycle -----------------------------
(***************************************************************************)
(* The record lifecycle of Titles and their MachineModels over the claim   *)
(* log: create, PATCH, cascading soft delete with its blockers, restore,   *)
(* undo of a delete changeset, per-claim revert.  A record is never        *)
(* removed: it is deleted when its resolved status is "deleted".           *)
(*                                                                         *)
(* Two references are kept: a model's title (a non-null PROTECT foreign    *)
(* key, the relation a title's delete cascades over) and its variant_of (a *)
(* nullable PROTECT self reference declared flat).  A behaviour starts     *)
(* from a catalogue the loader ingested, one changeset per entry.          *)
(***************************************************************************)
EXTENDS ClaimLog

CONSTANTS
    Titles, Models,
    status, title, variantOf,     \* the claim keys
    live, deleted, none,          \* "active", "deleted", and NULL
    Loader,                       \* the source that loaded the catalogue
    Catalog,                      \* sequence of [subject, vals] it loaded
    PatchBodies,                  \* the fields a PATCH may send: functions from keys
    MinEdits,                     \* REVERT_OTHERS_MIN_EDITS
    MaxChangesets                 \* bound: changesets written in a behaviour

Payloads == UNION {[K -> Values] : K \in SUBSET Keys}

ASSUME RecordsAssumption ==
    /\ Titles \cap Models = {}
    /\ Subjects = Titles \cup Models
ASSUME FieldsAssumption ==
    /\ Keys = {status, title, variantOf}
    /\ status # title /\ status # variantOf /\ title # variantOf
    /\ Values = {live, deleted, none} \cup Subjects
    /\ live # deleted /\ none # deleted /\ live # none
    /\ {live, deleted, none} \cap Subjects = {}
ASSUME LoaderAssumption == Loader \in Sources
ASSUME CatalogAssumption ==
    /\ Catalog \in Seq([subject : Subjects, vals : Payloads])
    /\ \A i, j \in DOMAIN Catalog : Catalog[i].subject = Catalog[j].subject => i = j

ASSUME PatchAssumption == PatchBodies \subseteq Payloads

VARIABLE rows     \* created record -> key -> materialised value

vars == <<changesets, claims, active, retractedBy, rows>>

TypeOK ==
    /\ LogTypeOK
    /\ DOMAIN rows \subseteq Subjects
    /\ rows \in [DOMAIN rows -> [Keys -> Values]]

Live(s) == rows[s][status] # deleted

LiveRecords == {s \in DOMAIN rows : Live(s)}

Resolved(act, s, k, fallback) ==
    LET W == Winner(act, {}, s, k)
    IN  IF W # {} THEN (CHOOSE c \in W : TRUE).value ELSE fallback

\* Row s resolved from the active claims act; only the title keeps its value
\* when nothing claims it (get_preserve_fields), the others fall back to NULL
ResolvedRow(act, s, base) ==
    [k \in Keys |-> Resolved(act, s, k, IF k = title THEN base[title] ELSE none)]

Unset == [k \in Keys |-> none]

\* Row inserted by create_entity_with_claims and by _create_entities
Inserted(vals) == [k \in Keys |-> IF k \in DOMAIN vals THEN vals[k] ELSE none]

Init ==
    LET Load(i) == {[cs |-> i, actor |-> Loader, subject |-> Catalog[i].subject,
                     key |-> k, value |-> Catalog[i].vals[k]] : k \in DOMAIN Catalog[i].vals}
        Loaded == {Catalog[i].subject : i \in DOMAIN Catalog}
    IN  /\ changesets = [i \in DOMAIN Catalog |-> [actor |-> Loader, action |-> "ingest"]]
        /\ claims = UNION {Load(i) : i \in DOMAIN Catalog}
        /\ active = claims
        /\ retractedBy = [c \in {} |-> 0]
        /\ rows = [s \in Loaded |-> ResolvedRow(claims, s, Unset)]

\* Mutant: only one of the affected records is resolved
ResolveOne(S) ==
    rows' = [s \in DOMAIN rows |->
                IF s = CHOOSE t \in S : TRUE THEN ResolvedRow(active', s, rows[s]) ELSE rows[s]]

\* resolve_after_mutation of every record in S, in the write's transaction
Resolve(S) ==
    rows' = [s \in DOMAIN rows |->
                IF s \in S THEN ResolvedRow(active', s, rows[s]) ELSE rows[s]]

HasRoom == Len(changesets) < MaxChangesets

-----------------------------------------------------------------------------
\* create_title and create_model: the status claim is written explicitly, and
\* a model claims its title
CreateClaims(s, t) ==
    IF s \in Titles THEN [k \in {status} |-> live]
    ELSE [k \in {status, title} |-> IF k = status THEN live ELSE t]

Create(u, s, t) ==
    LET vals == CreateClaims(s, t)
    IN  /\ HasRoom
        /\ s \notin DOMAIN rows
        /\ s \in Models => t \in LiveRecords
        /\ RecordChangeset(u, "create")
        /\ AssertClaims(Written(u, s, vals))
        /\ rows' = [e \in DOMAIN rows \cup {s} |->
                       IF e = s THEN ResolvedRow(active', s, Inserted(vals)) ELSE rows[e]]

\* Mutant: only the parent's own edge is looked at, not the subject's children
MakesNoChainParentOnly(e, p) ==
    p # none => p # e /\ ~(Live(p) /\ rows[p][variantOf] # none)

\* find_flat_self_fk_chains for the edge e -> p, after the self-reference
\* check: among live records p is no variant and e has none
MakesNoChain(e, p) ==
    p # none =>
        /\ p # e
        /\ ~(Live(p) /\ rows[p][variantOf] # none)
        /\ \A m \in LiveRecords \ {e} : rows[m][variantOf] # e

\* The fields of a PATCH on record e: references name existing records, of any
\* status; the title cannot be cleared
Patchable(e, vals) ==
    /\ DOMAIN vals # {}
    /\ e \in Titles => DOMAIN vals = {status}
    /\ status \in DOMAIN vals => vals[status] \in {live, deleted, none}
    /\ title \in DOMAIN vals => vals[title] \in Titles \cap DOMAIN rows
    /\ variantOf \in DOMAIN vals =>
           /\ vals[variantOf] \in {none} \cup (Models \cap DOMAIN rows)
           /\ MakesNoChain(e, vals[variantOf])

\* patch_title_claims and patch_model_claims
Patch(u, e, vals) ==
    /\ HasRoom
    /\ e \in LiveRecords
    /\ Patchable(e, vals)
    /\ RecordChangeset(u, "edit")
    /\ AssertClaims(Written(u, e, vals))
    /\ Resolve({e})

-----------------------------------------------------------------------------
\* cascade_targets: the record and, under a title, its live models
Cascade(root) == {root} \cup {m \in LiveRecords \cap Models : rows[m][title] = root}

\* Mutant: the walk looks for referrers of the root only
BlockersOfRoot(root) ==
    {m \in (LiveRecords \cap Models) \ Cascade(root) : rows[m][variantOf] = root}

\* soft_delete_walk: the live records outside the cascade that refer into it
Blockers(root) ==
    {m \in (LiveRecords \cap Models) \ Cascade(root) :
        rows[m][variantOf] \in Cascade(root) \/ rows[m][title] \in Cascade(root)}

\* One status claim for each record of S, all in the next changeset
Deletions(u, S) == UNION {Written(u, s, [k \in {status} |-> deleted]) : s \in S}

\* execute_soft_delete
Delete(u, root) ==
    /\ HasRoom
    /\ root \in LiveRecords
    /\ Blockers(root) = {}
    /\ RecordChangeset(u, "delete")
    /\ AssertClaims(Deletions(u, Cascade(root)))
    /\ Resolve(Cascade(root))

\* restore_title and restore_model: a fresh claim, no look at the parents
Restore(u, e) ==
    /\ HasRoom
    /\ e \in DOMAIN rows \ LiveRecords
    /\ RecordChangeset(u, "edit")
    /\ AssertClaims(Written(u, e, [k \in {status} |-> live]))
    /\ Resolve({e})

ClaimsOf(n) == {c \in claims : c.cs = n}

\* undo_changeset: execute_undo_changeset of u's own delete changeset n
Undo(u, n) ==
    /\ HasRoom
    /\ changesets[n] = [actor |-> u, action |-> "delete"]
    /\ ClaimsOf(n) \subseteq active
    /\ RecordChangeset(u, "revert")
    /\ RevertClaims(ClaimsOf(n))
    /\ Resolve({c.subject : c \in ClaimsOf(n)})

\* revert_claim: execute_revert of one active user claim
Revert(u, c) ==
    /\ HasRoom
    /\ c.actor \in Users
    /\ c.actor = u \/ EditCount(u) >= MinEdits
    /\ RecordChangeset(u, "revert")
    /\ RevertClaims({c})
    /\ Resolve({c.subject})

Next ==
    \/ \E u \in Users, s \in Titles : Create(u, s, none)
    \/ \E u \in Users, s \in Models, t \in Titles : Create(u, s, t)
    \/ \E u \in Users, e \in Subjects, vals \in PatchBodies : Patch(u, e, vals)
    \/ \E u \in Users, e \in Subjects : Delete(u, e)
    \/ \E u \in Users, e \in Subjects : Restore(u, e)
    \/ \E u \in Users, n \in ChangeSetIds : Undo(u, n)
    \/ \E u \in Users : \E c \in active : Revert(u, c)

Spec == Init /\ [][Next]_vars

-----------------------------------------------------------------------------
NewChangeset == changesets'[Len(changesets')]

\* The row of every record is the view its claims resolve to, after each kind
\* of write, however many records the write affected.
RowsFollowLog ==
    \A s \in DOMAIN rows : rows[s] = ResolvedRow(active, s, rows[s])

\* A delete leaves no live record referring to a record it deleted: what it
\* does not cascade to blocks it (soft_delete_walk).
DeleteLeavesNoReferrer ==
    [][NewChangeset.action = "delete" =>
          \A e \in LiveRecords \ LiveRecords', m \in LiveRecords' \cap Models :
              e \notin {rows'[m][variantOf], rows'[m][title]}]_vars

\* The status claims written or retracted after changeset n on its records
LaterStatusChanges(n) ==
    {c \in claims : /\ c.key = status
                    /\ \E d \in ClaimsOf(n) : d.subject = c.subject
                    /\ c.cs > n \/ (c \in Retracted /\ retractedBy[c] > n)}

\* Changeset n is undone by this step
Undone(n) ==
    /\ changesets[n].action = "delete"
    /\ NewChangeset.action = "revert"
    /\ ClaimsOf(n) \cap Retracted = {}
    /\ \A c \in ClaimsOf(n) : c \in Retracted'

\* An undo brings back the whole tree the delete took down, unless another
\* status change came in between: whatever older opinions the log holds, the
\* fallback finds the ones that stood.
UndoRestoresTree ==
    [][\A n \in ChangeSetIds :
          Undone(n) /\ LaterStatusChanges(n) = {} =>
              \A c \in ClaimsOf(n) : c.subject \in LiveRecords']_vars

\* Live records m -> p -> q, a variant of a variant
Chains(R, L) ==
    {e \in (L \cap Models) \X (L \cap Models) :
        R[e[1]][variantOf] = e[2] /\ R[e[2]][variantOf] # none}

\* A chain of variants appears only when a record comes back to life or a
\* revert brings an edge back: no PATCH, create or delete makes one
\* (find_flat_self_fk_chains).
WritesMakeNoChain ==
    [][\/ Chains(rows', LiveRecords') \subseteq Chains(rows, LiveRecords)
       \/ NewChangeset.action = "revert"
       \/ LiveRecords' \ LiveRecords # {}]_vars

-----------------------------------------------------------------------------
(* What the models declare.  The walk above is that of a title; in general *)
(* it follows what a model declares of each relation that points at its    *)
(* records, and it trusts the declarations: check_soft_delete_policy looks *)
(* at them when the application starts.                                    *)

\* A relation as _InboundRelation has it: "forward" is the model's own M2M to
\* records that cannot be reached the other way; owned: the referring rows have
\* no status of their own; cascades and blocks: the model lists the relation in
\* soft_delete_cascade_relations, in soft_delete_usage_blockers
Relation == [kind : {"fk", "m2m", "forward", "other"},
             onDelete : {"PROTECT", "CASCADE", "SET_NULL", "DO_NOTHING", "none"},
             owned : BOOLEAN, cascades : BOOLEAN, blocks : BOOLEAN]

\* The relations a model can have: only a foreign key has an on_delete, and
\* what cascades or is blocked on has a status, as the ends of a forward M2M do
WellFormed(r) ==
    /\ r.kind = "fk" <=> r.onDelete # "none"
    /\ r.cascades \/ r.blocks \/ r.kind = "forward" => ~r.owned

\* Mutant: reverse M2Ms are not looked at
ComplaintsNoM2M(r) ==
    (IF r.kind = "fk" /\ r.onDelete \notin {"PROTECT", "CASCADE"} THEN {"E110"} ELSE {})
    \cup (IF r.kind = "fk" /\ r.blocks THEN {"E111"} ELSE {})
    \cup (IF r.kind = "other" THEN {"E113"} ELSE {})
    \cup (IF r.onDelete = "CASCADE" /\ ~r.owned /\ ~r.cascades THEN {"E114"} ELSE {})
    \cup (IF r.kind = "forward" /\ ~r.blocks THEN {"E115"} ELSE {})

\* _classify_soft_delete, on one relation
Complaints(r) ==
    (IF r.kind = "fk" /\ r.onDelete \notin {"PROTECT", "CASCADE"} THEN {"E110"} ELSE {})
    \cup (IF r.kind = "fk" /\ r.blocks THEN {"E111"} ELSE {})
    \cup (IF r.kind = "m2m" /\ ~r.owned /\ ~r.blocks THEN {"E112"} ELSE {})
    \cup (IF r.kind = "other" THEN {"E113"} ELSE {})
    \cup (IF r.onDelete = "CASCADE" /\ ~r.owned /\ ~r.cascades THEN {"E114"} ELSE {})
    \cup (IF r.kind = "forward" /\ ~r.blocks THEN {"E115"} ELSE {})

\* check_soft_delete_policy has nothing to say of the schema
Accepted(schema) == \A r \in DOMAIN schema : Complaints(schema[r]) = {}

\* refs: <<referrer, relation, record>>; alive: the records with a status that
\* are not deleted.  A set the cascade's work list has nothing to add to
ClosedUnderCascade(schema, refs, alive, S) ==
    \A e \in refs : e[3] \in S /\ e[1] \in alive /\ schema[e[2]].cascades => e[1] \in S

\* cascade_targets over whatever is declared
DeclaredCascade(schema, refs, alive, root) ==
    LET closed == {S \in SUBSET (alive \cup {root}) :
                      root \in S /\ ClosedUnderCascade(schema, refs, alive, S)}
    IN  {x \in alive \cup {root} : \A S \in closed : x \in S}

\* _iter_protect_referrers meets a relation it has no policy for
Raises(schema) == \E r \in DOMAIN schema : schema[r].onDelete = "SET_NULL"

\* soft_delete_walk: protecting and blocking referrers outside the cascade
DeclaredBlockers(schema, refs, alive, root) ==
    LET cascade == DeclaredCascade(schema, refs, alive, root)
    IN  {e \in refs : /\ e[3] \in cascade /\ e[1] \in alive \ cascade
                      /\ \/ schema[e[2]].onDelete = "PROTECT" /\ ~schema[e[2]].owned
                         \/ schema[e[2]].blocks}

\* If the check accepts what a model declares, then no delete meets a relation
\* it cannot handle, and one that is not blocked leaves no live record
\* referring to a record it deleted.
DeclarationsAreSafe(schema, refs, alive, root) ==
    Accepted(schema) =>
        /\ ~Raises(schema)
        /\ DeclaredBlockers(schema, refs, alive, root) = {} =>
              LET cascade == DeclaredCascade(schema, refs, alive, root)
              IN  \A e \in refs : e[3] \in cascade /\ ~schema[e[2]].owned
                                   => e[1] \notin alive \ cascade
=============================================================================
