----------------------------- MODULE ClaimStore -----------------------------
(***************************************************************************)
(* The claim store with its materialised rows: user edits and reverts      *)
(* (execute_claims, execute_revert), ingest (apply_plan), entity creation  *)
(* and the source kill switch, each a transaction that writes the claim    *)
(* log and re-resolves the subject's row.  Transactions are serial here;   *)
(* ClaimTxn interleaves them.                                              *)
(*                                                                         *)
(* Scalar keys are columns of the subject's row; member keys are members   *)
(* of one relationship namespace, a row of the through table each.  A      *)
(* cleared scalar ("") and an exists=false tombstone are the value Cleared *)
(* and materialise as Blank.                                               *)
(***************************************************************************)
EXTENDS ClaimLog

CONSTANTS
    ScalarKeys,     \* keys of columns
    CreateKeys,     \* scalar keys every create claims (slug, name, ...)
    PreserveKeys,   \* columns that keep their value when unclaimed (get_preserve_fields)
    UniqueKeys,     \* columns with a unique constraint
    Cleared,        \* the claim value that clears a field or removes a member
    Blank,          \* the materialised value of a blank field or absent member
    Switchable,     \* sources whose is_enabled an administrator may toggle
    MinEdits,       \* REVERT_OTHERS_MIN_EDITS
    MaxChangesets   \* bound: changesets written in a behaviour

MemberKeys == Keys \ ScalarKeys

ASSUME KeysAssumption ==
    /\ ScalarKeys \subseteq Keys
    /\ UniqueKeys \subseteq PreserveKeys
    /\ PreserveKeys \subseteq CreateKeys
    /\ CreateKeys \subseteq ScalarKeys
    /\ CreateKeys # {}
ASSUME ValuesAssumption == Cleared \in Values /\ Blank \notin Values
ASSUME SwitchableAssumption == Switchable \subseteq Sources
ASSUME BoundsAssumption == MinEdits \in Nat /\ MaxChangesets \in Nat

VARIABLES
    suppressed,   \* actors with resolution_status = suppressed
    rows          \* created subject -> key -> materialised value

vars == <<changesets, claims, active, retractedBy, suppressed, rows>>

RowValues == Values \cup {Blank}

TypeOK ==
    /\ LogTypeOK
    /\ suppressed \subseteq Switchable
    /\ DOMAIN rows \subseteq Subjects
    /\ rows \in [DOMAIN rows -> [Keys -> RowValues]]

Init ==
    /\ LogInit
    /\ suppressed = {}
    /\ rows = [s \in {} |-> [k \in Keys |-> Blank]]

Materialise(v) == IF v = Cleared THEN Blank ELSE v

\* The value of key k of subject s: the winning claim's, else the fallback
Resolved(act, s, k, fallback) ==
    LET W == Winner(act, suppressed, s, k)
    IN  IF W = {} THEN fallback ELSE Materialise((CHOOSE c \in W : TRUE).value)

\* The row inserted for a new subject, before its claims are resolved
Inserted(vals) ==
    [k \in Keys |-> IF k \in DOMAIN vals THEN Materialise(vals[k]) ELSE Blank]

\* Mutant: only the touched fields are resolved
ResolvedRowTouchedOnly(act, s, base, touched) ==
    [k \in Keys |->
        IF k \notin touched
        THEN base[k]
        ELSE Resolved(act, s, k, IF k \in PreserveKeys THEN base[k] ELSE Blank)]

\* The row of s, base before the write, after a write that left act active and
\* touched the given keys: every scalar is re-resolved, the members only if one
\* of them was touched
ResolvedRow(act, s, base, touched) ==
    [k \in Keys |->
        IF k \in MemberKeys /\ touched \cap MemberKeys = {}
        THEN base[k]
        ELSE Resolved(act, s, k, IF k \in PreserveKeys THEN base[k] ELSE Blank)]

\* The database accepts row r for subject s: no unique column collides
Accepts(s, r) ==
    \A t \in DOMAIN rows \ {s} : \A k \in UniqueKeys : rows[t][k] # r[k]

\* Mutant: the row is resolved before the claims are written
ResolveFirst(s, base, touched) ==
    LET r == ResolvedRow(active, s, base, touched)
    IN  /\ Accepts(s, r)
        /\ rows' = [t \in DOMAIN rows \cup {s} |-> IF t = s THEN r ELSE rows[t]]

\* resolve_after_mutation, in the transaction of the write: an IntegrityError
\* rolls the whole transaction back
Resolve(s, base, touched) ==
    LET r == ResolvedRow(active', s, base, touched)
    IN  /\ Accepts(s, r)
        /\ rows' = [t \in DOMAIN rows \cup {s} |-> IF t = s THEN r ELSE rows[t]]

HasRoom == Len(changesets) < MaxChangesets

\* The claim values a planner may write: only a nullable column can be cleared
Assertable(vals) == \A k \in DOMAIN vals \cap CreateKeys : vals[k] # Cleared

\* create_entity_with_claims, by a user
CreateEntity(u, s, vals) ==
    /\ HasRoom
    /\ s \notin DOMAIN rows
    /\ DOMAIN vals = CreateKeys
    /\ Assertable(vals)
    /\ RecordChangeset(u, "create")
    /\ AssertClaims(Written(u, s, vals))
    /\ Resolve(s, Inserted(vals), CreateKeys)
    /\ UNCHANGED suppressed

\* execute_claims: scalar fields are asserted as sent, member specs are the
\* difference between the requested and the current members
Edit(u, s, vals) ==
    /\ HasRoom
    /\ s \in DOMAIN rows
    /\ DOMAIN vals # {}
    /\ Assertable(vals)
    /\ \A k \in DOMAIN vals \cap MemberKeys : Materialise(vals[k]) # rows[s][k]
    /\ RecordChangeset(u, "edit")
    /\ AssertClaims(Written(u, s, vals))
    /\ Resolve(s, rows[s], DOMAIN vals)
    /\ UNCHANGED suppressed

\* The caller may revert claim c: own claims always, others' with experience
MayRevert(u, c) == c.actor = u \/ EditCount(u) >= MinEdits

\* execute_revert of the active user claim c
Revert(u, c) ==
    /\ HasRoom
    /\ c.actor \in Users
    /\ MayRevert(u, c)
    /\ RecordChangeset(u, "revert")
    /\ RevertClaims({c})
    /\ Resolve(c.subject, rows[c.subject], {c.key})
    /\ UNCHANGED suppressed

\* apply_plan for one patch entry on subject s: the assertions that differ
\* from the source's active claims are written, retractions deactivate; of the
\* members, only what changed is resolved again
Ingest(w, s, vals, retracts) ==
    LET mine == {c \in active : c.actor = w /\ c.subject = s}
        W == {n \in Written(w, s, vals) :
                 \A c \in mine : SameSlot(c, n) => c.value # n.value}
        T == {c \in mine : c.key \in retracts}
    IN  /\ HasRoom
        /\ s \in DOMAIN rows \/ DOMAIN vals = CreateKeys
        /\ s \in DOMAIN rows \/ retracts = {}
        /\ DOMAIN vals \cap retracts = {}
        /\ Assertable(vals)
        /\ W \cup T # {}
        /\ RecordChangeset(w, "ingest")
        /\ PersistIngest(W, T)
        /\ Resolve(s, IF s \in DOMAIN rows THEN rows[s] ELSE Inserted(vals),
                   {c.key : c \in W \cup T})
        /\ UNCHANGED suppressed

\* Source.save() from the admin: the Actor mirrors is_enabled, nothing resolves
ToggleSource(w) ==
    /\ suppressed' = IF w \in suppressed THEN suppressed \ {w} ELSE suppressed \cup {w}
    /\ UNCHANGED <<logVars, rows>>

\* The payloads of a request: functions from some keys to values
Payloads == UNION {[K -> Values] : K \in SUBSET Keys}

Next ==
    \/ \E u \in Users, s \in Subjects, vals \in Payloads : CreateEntity(u, s, vals)
    \/ \E u \in Users, s \in Subjects, vals \in Payloads : Edit(u, s, vals)
    \/ \E u \in Users : \E c \in active : Revert(u, c)
    \/ \E w \in Sources, s \in Subjects, vals \in Payloads, retracts \in SUBSET Keys :
          Ingest(w, s, vals, retracts)
    \/ \E w \in Switchable : ToggleSource(w)

Spec == Init /\ [][Next]_vars

-----------------------------------------------------------------------------
\* Every column and member shows the claim that ranks first among the active
\* claims of the enabled actors; an unclaimed field is blank unless its column
\* is preserved.
RowIsResolution ==
    \A s \in DOMAIN rows, k \in Keys :
        rows[s][k] = Resolved(active, s, k, IF k \in PreserveKeys THEN rows[s][k] ELSE Blank)

\* A preserved column is never blank, whatever was reverted or retracted.
PreservedNeverBlank ==
    \A s \in DOMAIN rows, k \in PreserveKeys : rows[s][k] # Blank

\* The log is append-only: a step adds claims and retractions, and it never
\* edits, forgets or re-activates what was retracted.
LogOnlyGrows ==
    [][/\ claims \subseteq claims'
       /\ Retracted \subseteq Retracted'
       /\ \A c \in Retracted : retractedBy'[c] = retractedBy[c]
       /\ \A n \in ChangeSetIds : changesets'[n] = changesets[n]]_vars

\* After a write on a subject its columns agree with the log even when a
\* source was switched off or on since its last write.
WriterResolvesColumns ==
    [][\A s \in DOMAIN rows :
         (\E c \in (active \ active') \cup (active' \ active) : c.subject = s)
           => \A k \in ScalarKeys \ PreserveKeys :
                rows'[s][k] = Resolved(active', s, k, Blank)]_vars

\* A user's write touches other actors' claims only by a revert, and an ingest
\* touches its own source's only: no write silences a rival's claim.
OnlyOwnClaimsChange ==
    [][\A c \in (active \ active') \cup (active' \ active) :
          LET n == Len(changesets') IN
          \/ changesets'[n].actor = c.actor
          \/ changesets'[n].action = "revert"]_vars

\* What the pages of a record tell is the log: its history has a card for each
\* write, the one change of a key it marks as winning is one that may win, old
\* values lead back to the first claim, and the feed of changes drops nothing
\* between two pages.
HistoryIsWhole ==
    \A s \in Subjects :
        LET history == EditHistory(suppressed, s)
        IN  /\ CardsTellTheLog(history, s)
            /\ PagesAgree(history, s)
            /\ \A k \in Keys : OldValuesLeadBack(s, k) /\ OneChangeWins(history, suppressed, s, k)
            /\ \A from, limit \in 1 .. 2, cursor \in 1 .. NextCs :
                  FeedGoesOn({s}, from, NextCs, cursor, limit)

-----------------------------------------------------------------------------
(* The store implements EditStacks: a user's stack holds the values of its *)
(* unretracted claims, a source's register the value of its active claim.  *)
Standing(x) ==
    {c \in claims : SameSlot(c, x)
                    /\ IF x.actor \in Users THEN c \notin Retracted ELSE c \in active}

StackOf(x) == {[at |-> c.cs, value |-> c.value] : c \in Standing(x)}

AllSlots == [actor : Actors, subject : Subjects, key : Keys]

\* What the active claims of a slot say
OpinionOf(x) == {c.value : c \in {d \in active : SameSlot(d, x)}}

Stacks == INSTANCE EditStacks WITH
    clock <- Len(changesets),
    stack <- [x \in AllSlots |-> StackOf(x)],
    opinion <- [x \in AllSlots |-> OpinionOf(x)]

\* Each field of each contributor behaves as an undo stack of its own, and each
\* field of each source as a register: no create, edit, revert or ingest moves
\* a stack in any other way, and what a slot says is always its top.
ImplementsEditStacks == Stacks!Spec
=============================================================================
