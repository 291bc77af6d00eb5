------------------------------ MODULE ClaimLog ------------------------------
(***************************************************************************)
(* The provenance claim log: ChangeSets, the claims they wrote, which of   *)
(* them are active, and which changeset retracted which.  This module has  *)
(* the tables and the primitive writes; ClaimStore and Lifecycle compose   *)
(* them into the operations of the application.                            *)
(*                                                                         *)
(* A claim is identified by its content: the changeset that wrote it (cs), *)
(* its actor, subject, claim key and value.  One changeset holds at most   *)
(* one claim per (subject, key) - the planners build their specs from      *)
(* dicts and ingest deduplicates - so cs orders the claims of a slot just  *)
(* as (created_at, pk) does.                                               *)
(***************************************************************************)
EXTENDS Naturals, Sequences, FiniteSets

CONSTANTS
    Users,      \* user-backed actors
    Sources,    \* machine actors: the ingest sources
    Subjects,   \* catalog entities (content type and object id)
    Keys,       \* claim keys of a subject
    Values,     \* claim values
    Priority    \* [Users \cup Sources -> Nat], Actor.priority

Actors == Users \cup Sources

ASSUME ActorsAssumption == Users \cap Sources = {}
ASSUME PriorityAssumption == Priority \in [Users \cup Sources -> Nat]

\* ChangeSet.action; "ingest" stands for the NULL action of an ingest changeset
Actions == {"create", "edit", "delete", "revert", "ingest"}

VARIABLES
    changesets,   \* sequence of [actor, action], in commit order
    claims,       \* every claim ever written
    active,       \* the claims with is_active
    retractedBy   \* claim -> changeset that retracted it, for retracted claims

logVars == <<changesets, claims, active, retractedBy>>

ChangeSetIds == 1 .. Len(changesets)

Claim == [cs : ChangeSetIds, actor : Actors, subject : Subjects,
          key : Keys, value : Values]

LogTypeOK ==
    /\ changesets \in Seq([actor : Actors, action : Actions])
    /\ claims \subseteq Claim
    /\ active \subseteq claims
    /\ retractedBy \in [DOMAIN retractedBy -> ChangeSetIds]
    /\ DOMAIN retractedBy \subseteq claims

LogInit ==
    /\ changesets = <<>>
    /\ claims = {}
    /\ active = {}
    /\ retractedBy = [c \in {} |-> 0]

-----------------------------------------------------------------------------
\* One slot is one (content_type, object_id, actor, claim_key)
SameSlot(c, d) ==
    /\ c.actor = d.actor
    /\ c.subject = d.subject
    /\ c.key = d.key

Retracted == DOMAIN retractedBy

NextCs == Len(changesets) + 1

\* record_changeset: the caller's actor is a user exactly for an interactive action
RecordChangeset(a, act) ==
    /\ a \in (IF act = "ingest" THEN Sources ELSE Users)
    /\ changesets' = Append(changesets, [actor |-> a, action |-> act])

\* The claims the next changeset, by actor a, writes on subject s: vals is a
\* function from some of the keys to values
Written(a, s, vals) ==
    {[cs |-> NextCs, actor |-> a, subject |-> s, key |-> k, value |-> vals[k]]
        : k \in DOMAIN vals}

\* The active claims that the new claims W take the slot of
Superseded(W) == {c \in active : \E w \in W : SameSlot(c, w)}

\* _assert_claim for every claim of W: deactivate the slot, then insert
AssertClaims(W) ==
    /\ claims' = claims \cup W
    /\ active' = (active \ Superseded(W)) \cup W
    /\ UNCHANGED retractedBy

\* Stamp the claims T with the next changeset as their retraction
Stamp(T) ==
    retractedBy' = [c \in Retracted \cup T |->
                      IF c \in T THEN NextCs ELSE retractedBy[c]]

\* Mutant: the predecessor query forgets retracted_by_changeset
FallbackRetracted(t) == {c \in claims \ active : SameSlot(c, t) /\ c # t}

\* What a reverted claim may fall back to: superseded, never retracted
Fallback(t) ==
    {c \in claims \ active : SameSlot(c, t) /\ c \notin Retracted /\ c # t}

Newest(S) == {c \in S : \A d \in S : d.cs <= c.cs}

\* The claims reactivated when the claims T are reverted
Predecessors(T) == UNION {Newest(Fallback(t)) : t \in T}

\* execute_revert (T a singleton) and execute_undo_changeset (T a changeset)
RevertClaims(T) ==
    /\ active' = (active \ T) \cup Predecessors(T)
    /\ Stamp(T)
    /\ UNCHANGED claims

\* _persist: supersede, insert W, then retract T with no fallback
PersistIngest(W, T) ==
    /\ claims' = claims \cup W
    /\ active' = ((active \ Superseded(W)) \cup W) \ T
    /\ Stamp(T)

-----------------------------------------------------------------------------
\* The order of ranked_claims: priority, then recency
Outranks(c, d) ==
    \/ Priority[c.actor] > Priority[d.actor]
    \/ Priority[c.actor] = Priority[d.actor] /\ c.cs > d.cs

\* Claims of act that compete for (s, k) when the actors in off are suppressed
Eligible(act, off, s, k) ==
    {c \in act : c.subject = s /\ c.key = k /\ c.actor \notin off}

\* pick_winners: the first ranked claim of the group; empty or a singleton
Winner(act, off, s, k) ==
    LET E == Eligible(act, off, s, k)
    IN  {c \in E : \A d \in E : d = c \/ Outranks(c, d)}

\* ChangeSet.objects.filter(actor = u).count()
EditCount(u) == Cardinality({n \in ChangeSetIds : changesets[n].actor = u})

-----------------------------------------------------------------------------
(* The pages that tell the log: a record's edit history, a changeset's own *)
(* page and the feed of changes.  Parked source fields, which they leave   *)
(* out, are not among Keys.                                                *)

\* ClaimsByKey: every author's claims on one key of a subject, active or not
Chain(s, k) == {c \in claims : c.subject = s /\ c.key = k}

\* Mutant: the claim before c by the same author
PriorOwn(c, chain) == Newest({d \in chain : d.actor = c.actor /\ d.cs < c.cs})

\* _chronological_prior_claim_value: whose claim it was, and whether it won, is
\* no matter; c itself may be missing from the chain
Prior(c, chain) == IF c \in chain THEN Newest({d \in chain : d.cs < c.cs}) ELSE {}

\* One row of build_changes: claim c against the chain of its key
Change(c, chain) ==
    [claim |-> c, old |-> {d.value : d \in Prior(c, chain)},
     standing |-> c \in active, withdrawn |-> c \in Retracted]

WrittenBy(n) == {c \in claims : c.cs = n}

RetractedBy(n) == {c \in Retracted : retractedBy[c] = n}

\* _compute_winning_claim_ids, one claim a key at most
WinningClaims(off, s) == UNION {Winner(active, off, s, k) : k \in Keys}

\* The changesets that wrote or retracted a claim on a subject in S
Touching(S) == {n \in ChangeSetIds : \E c \in WrittenBy(n) \cup RetractedBy(n) : c.subject \in S}

\* What changeset n did to s
Card(s, n, winners) ==
    LET own == {c \in WrittenBy(n) : c.subject = s}
    IN  [changes |-> {Change(c, Chain(s, c.key)) : c \in own},
         winning |-> own \cap winners,
         retractions |-> {c \in RetractedBy(n) : c.subject = s}]

\* build_edit_history: a card for each changeset that touched s
EditHistory(off, s) ==
    LET winners == WinningClaims(off, s)
    IN  [n \in Touching({s}) |-> Card(s, n, winners)]

\* change_detail: everything n did, read against the chains of one record, that
\* of its first claim
ChangeDetail(n) ==
    LET first == CHOOSE c \in IF WrittenBy(n) # {} THEN WrittenBy(n) ELSE RetractedBy(n) : TRUE
    IN  [changes |-> {Change(c, Chain(first.subject, c.key)) : c \in WrittenBy(n)},
         retractions |-> RetractedBy(n)]

\* Those of the changesets Q that are on the page before the cursor
Before(Q, cursor) == {n \in Q : n < cursor}

\* cursor_paginate: the newest limit of them, and the cursor of the next page,
\* 0 when nothing is left
Page(Q, cursor, limit) ==
    LET left == Before(Q, cursor)
        items == {n \in left : Cardinality({m \in left : n < m}) < limit}
    IN  [items |-> items,
         next |-> IF items = left THEN 0 ELSE CHOOSE n \in items : \A m \in items : n <= m]

\* list_changes of the records S (an entity type), between two dates
Feed(S, from, to, cursor, limit) ==
    Page({n \in Touching(S) : from <= n /\ n <= to}, cursor, limit)

-----------------------------------------------------------------------------
(* Invariants of the log, shared by every module that writes it.           *)

\* Each actor has at most one active claim per subject and key, so the index
\* provenance_unique_active_claim_per_actor never rejects a serial write.
UniqueActive ==
    \A c, d \in active : SameSlot(c, d) => c = d

\* A retracted claim is inactive, and was retracted by a later changeset.
RetractedIsInactive ==
    \A c \in Retracted : c \notin active /\ c.cs < retractedBy[c]

\* The active claim of a slot is the newest one not retracted: a revert never
\* brings an older opinion back over a newer one that still stands.
ActiveIsNewest ==
    \A c \in active, d \in claims :
        SameSlot(c, d) /\ d \notin Retracted => d.cs <= c.cs

\* A user's slot never goes silent while one of the user's claims stands
\* unretracted: reverts fall back, they do not drop to the source's value.
UserSlotSpeaks ==
    \A d \in claims \ Retracted :
        d.actor \in Users => \E c \in active : SameSlot(c, d)

\* Only the machine that wrote a machine's claim retracts it; a user's claim
\* is retracted by users only.
RetractionAuthority ==
    \A c \in Retracted :
        LET by == changesets[retractedBy[c]].actor
        IN  IF c.actor \in Sources THEN by = c.actor ELSE by \in Users

\* Every claim of a subject is told once, in the card of its changeset; every
\* retraction once, in a later card and never of a claim that is shown as
\* standing; and a card that withdraws what somebody else said is a user's, of
\* a user's claim (build_edit_history).
CardsTellTheLog(history, s) ==
    \A c \in {d \in claims : d.subject = s} :
        LET at == {n \in DOMAIN history : c \in {ch.claim : ch \in history[n].changes}}
            gone == {n \in DOMAIN history : c \in history[n].retractions}
        IN  /\ at = {c.cs}
            /\ c \notin Retracted => gone = {}
            /\ c \in Retracted =>
                  \E n \in gone : /\ gone = {n} /\ c.cs < n /\ c \notin active
                                 /\ \/ changesets[n].actor = c.actor
                                    \/ {changesets[n].actor, c.actor} \subseteq Users

\* Old values lead back through the whole of a key's history, no claim skipped
\* and none told twice: exactly the first has no claim before it, and no two
\* claims follow the same one.
OldValuesLeadBack(s, k) ==
    LET chain == Chain(s, k)
    IN  /\ \A c \in chain : Prior(c, chain) = {} <=> (\A d \in chain : c.cs <= d.cs)
        /\ \A c \in chain : \E d \in chain : Prior(c, chain) \subseteq {d}
        /\ \A c, d \in chain : Prior(c, chain) = Prior(d, chain) => c = d

\* One change of a key is marked as the winning one, which stands and was not
\* withdrawn, unless nobody who may win claims the key.
OneChangeWins(history, off, s, k) ==
    LET marked == {c \in Chain(s, k) : c \in history[c.cs].winning}
    IN  IF Eligible(active, off, s, k) = {} THEN marked = {}
        ELSE \E c \in active \ Retracted : marked = {c} /\ c.actor \notin off

\* A changeset that touched one record only reads the same on its own page as
\* in the record's history.
PagesAgree(history, s) ==
    \A n \in DOMAIN history :
        (\A c \in WrittenBy(n) \cup RetractedBy(n) : c.subject = s) =>
            ChangeDetail(n) = [changes |-> history[n].changes,
                               retractions |-> history[n].retractions]

\* A page of the feed shows as many as asked for, and what it leaves out is
\* exactly what the next cursor goes on with (cursor_paginate).
FeedGoesOn(S, from, to, cursor, limit) ==
    LET page == Feed(S, from, to, cursor, limit)
        left == Before({n \in Touching(S) : from <= n /\ n <= to}, cursor)
    IN  /\ Cardinality(page.items) <= limit
        /\ left \ page.items = Before(left, page.next)
        /\ page.next \in {0} \cup page.items
=============================================================================
