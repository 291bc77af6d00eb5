----------------------------- MODULE BulkResolve -----------------------------
(***************************************************************************)
(* _resolve_bulk: the winners of a batch of rows are applied in memory,    *)
(* unique columns are de-conflicted row by row, the flat self-FK is        *)
(* guarded against chains, and the batch is written in one statement.      *)
(*                                                                         *)
(* slug stands for a unique non-null column, xid for a unique nullable one *)
(* (opdb_id, wikidata_id), parent for a flat self-FK (variant_of).  Rows   *)
(* are numbered in the order the batch is loaded.                          *)
(***************************************************************************)
EXTENDS Naturals, FiniteSets

CONSTANTS
    Count,       \* bound: rows in the table
    Slugs,
    Ids,
    None,        \* no claim; NULL
    Cleared      \* the claim that empties an external id ("" or null)

Rows == 1 .. Count

\* A full table needs a slug for each row
BulkAssumption ==
    /\ Count \in Nat \ {0}
    /\ None \notin Slugs /\ None \notin Ids /\ None \notin Rows
    /\ Cleared \notin Ids \cup {None}
    /\ \E f \in [Rows -> Slugs] : \A p, q \in Rows : f[p] = f[q] => p = q

Row == [slug : Slugs, xid : Ids \cup {None}, parent : Rows \cup {None}, live : BOOLEAN]

\* A row's winning claims
Wins == [slug : Slugs \cup {None}, xid : Ids \cup {None, Cleared}, parent : Rows \cup {None},
         live : BOOLEAN]

VARIABLES
    table,    \* the rows as stored
    wins,     \* the winners of the batch's rows
    batch,    \* the rows being resolved
    objs,     \* the batch in memory
    seen,     \* value -> the row that owns it, in the running pass
    pc, i

vars == <<table, wins, batch, objs, seen, pc, i>>

Unique(t, f) == \A q, r \in Rows : q # r /\ t[q][f] = t[r][f] => t[q][f] = None

TypeOK ==
    /\ table \in [Rows -> Row] /\ Unique(table, "slug") /\ Unique(table, "xid")
    /\ batch \subseteq Rows
    /\ wins \in [batch -> Wins]
    /\ objs \in [batch -> Row]
    /\ DOMAIN seen \subseteq Slugs \cup Ids /\ \A v \in DOMAIN seen : seen[v] \in batch
    /\ pc \in {"slugs", "ids", "chains", "write", "done", "refused", "failed"}
    /\ i \in 1 .. Count + 1

-----------------------------------------------------------------------------
\* _apply_claims: an unclaimed unique column keeps its value, any other is
\* reset; a claim that clears the external id leaves NULL
Applied(r, w) ==
    [slug |-> IF w.slug = None THEN table[r].slug ELSE w.slug,
     xid |-> CASE w.xid = None -> table[r].xid [] w.xid = Cleared -> None [] OTHER -> w.xid,
     parent |-> w.parent,
     live |-> w.live]

\* Each row's slug, all of them different
StoredSlug == CHOOSE f \in [Rows -> Slugs] : \A p, q \in Rows : f[p] = f[q] => p = q

\* Stored rows; no row is its own parent (a check constraint)
StoredTables ==
    {[r \in Rows |-> [slug |-> StoredSlug[r], xid |-> xid[r], parent |-> parent[r],
                      live |-> live[r]]] :
        xid \in [Rows -> Ids \cup {None}],
        parent \in {f \in [Rows -> Rows \cup {None}] : \A r \in Rows : f[r] # r},
        live \in [Rows -> BOOLEAN]}

Unclaimed == [slug |-> None, xid |-> None, parent |-> None, live |-> TRUE]

\* One column varies at a time.  (Nothing reads the stored status of a row that
\* is resolved: its claims decide it.)
Init ==
    /\ table \in {t \in StoredTables : Unique(t, "xid")}
    /\ batch \in SUBSET Rows \ {{}}
    /\ \/ /\ \A r \in Rows : table[r] = [table[r] EXCEPT !.xid = None, !.parent = None, !.live = TRUE]
          /\ \E s \in [batch -> Slugs \cup {None}] :
                wins = [r \in batch |-> [Unclaimed EXCEPT !.slug = s[r]]]
       \/ /\ \A r \in Rows : table[r] = [table[r] EXCEPT !.parent = None, !.live = TRUE]
          /\ \E x \in [batch -> Ids \cup {None, Cleared}] :
                wins = [r \in batch |-> [Unclaimed EXCEPT !.xid = x[r]]]
       \/ /\ \A r \in Rows : table[r] = [table[r] EXCEPT !.xid = None]
          /\ \A r \in batch : table[r].live
          /\ \E p \in [batch -> Rows \cup {None}], l \in [batch -> BOOLEAN] :
                wins = [r \in batch |-> [Unclaimed EXCEPT !.parent = p[r], !.live = l[r]]]
    /\ objs = [r \in batch |-> Applied(r, wins[r])]
    /\ seen = [v \in {} |-> None]
    /\ pc = "slugs"
    /\ i = 1

-----------------------------------------------------------------------------
Own(v, r) == [w \in DOMAIN seen \cup {v} |-> IF w = v THEN r ELSE seen[w]]

\* Row i is not in the batch, or it is past the last one
Pass(from, to) ==
    \/ /\ pc = from /\ i <= Count /\ i \notin batch
       /\ i' = i + 1
       /\ UNCHANGED <<table, wins, batch, objs, seen, pc>>
    \/ /\ pc = from /\ i > Count
       /\ pc' = to /\ i' = 1 /\ seen' = [v \in {} |-> None]
       /\ UNCHANGED <<table, wins, batch, objs>>

Changed(r) == objs[r].slug # table[r].slug

\* A preserver beats a changer; otherwise the first row seen keeps the value
SlugLoser(owner, r) == IF Changed(owner) /\ ~Changed(r) THEN owner ELSE r

\* resolve_unique_conflicts, non-nullable: the loser goes back to its old value
SlugStep ==
    /\ pc = "slugs" /\ i \in batch
    /\ LET v == objs[i].slug IN
         IF v \notin DOMAIN seen THEN seen' = Own(v, i) /\ UNCHANGED objs
         ELSE LET loser == SlugLoser(seen[v], i)
                  winner == IF loser = i THEN seen[v] ELSE i
              IN  /\ objs' = [objs EXCEPT ![loser].slug = table[loser].slug]
                  /\ seen' = Own(v, winner)
    /\ i' = i + 1
    /\ UNCHANGED <<table, wins, batch, pc>>

\* resolve_unique_conflicts, nullable: the first row keeps the id, the rest lose it
IdStep ==
    /\ pc = "ids" /\ i \in batch
    /\ LET v == objs[i].xid IN
         IF v \in DOMAIN seen THEN objs' = [objs EXCEPT ![i].xid = None] /\ UNCHANGED seen
         ELSE seen' = (IF v = None THEN seen ELSE Own(v, i)) /\ UNCHANGED objs
    /\ i' = i + 1
    /\ UNCHANGED <<table, wins, batch, pc>>

-----------------------------------------------------------------------------
Moved == {r \in batch : objs[r].parent # table[r].parent}
LiveBatch == {r \in batch : objs[r].live}
Edged == {r \in LiveBatch : objs[r].parent # None}

\* Rows outside the batch answer from the table, while they are active
ActiveOutside == {r \in Rows \ batch : table[r].live}

\* A parent that is itself a child, in the batch or in the table
Chained(p) ==
    \/ p \in Edged
    \/ p \in ActiveOutside /\ table[p].parent # None

\* Mutant: only the subject's own move counts
HangsOffAMiddleNarrow(s) == Chained(objs[s].parent) /\ s \in Moved

HangsOffAMiddle(s) == Chained(objs[s].parent) /\ (s \in Moved \/ objs[s].parent \in Moved)

\* A row outside the batch already points at s
HasChildren(s) == \E c \in ActiveOutside : table[c].parent = s

\* find_flat_self_fk_chains_in_batch: the batch is refused as a whole
CheckChains ==
    /\ pc = "chains"
    /\ pc' = IF \E s \in Edged : HangsOffAMiddle(s) \/ (HasChildren(s) /\ s \in Moved)
             THEN "refused" ELSE "write"
    /\ UNCHANGED <<table, wins, batch, objs, seen, i>>

\* The table after the rows in done have been written
Written(done) == [r \in Rows |-> IF r \in done THEN objs[r] ELSE table[r]]

\* bulk_update: one statement, each row checked against the constraints as
\* it is written, in the order order
Accepted(order) ==
    \A n \in 1 .. Cardinality(batch) :
        LET t == Written({order[k] : k \in 1 .. n})
        IN  Unique(t, "slug") /\ Unique(t, "xid") /\ \A r \in Rows : t[r].parent # r

Orders == {o \in [1 .. Cardinality(batch) -> batch] : {o[k] : k \in DOMAIN o} = batch}

Write ==
    /\ pc = "write"
    /\ \E order \in Orders :
          IF Accepted(order) THEN table' = Written(batch) /\ pc' = "done"
          ELSE pc' = "failed" /\ UNCHANGED table
    /\ UNCHANGED <<wins, batch, objs, seen, i>>

Next ==
    \/ Pass("slugs", "ids") \/ SlugStep
    \/ Pass("ids", "chains") \/ IdStep
    \/ CheckChains
    \/ Write

Spec == Init /\ [][Next]_vars

-----------------------------------------------------------------------------
Wanted(r) == Applied(r, wins[r])

\* A row whose slug no claim changes keeps it for itself, whatever the rest of
\* the batch claims and in whatever order ("the preserver wins - it's the
\* rightful owner").
PreserversKeepTheirSlug ==
    pc = "ids" =>
        \A r \in batch : Wanted(r).slug = table[r].slug =>
            {q \in batch : objs[q].slug = table[r].slug} = {r}

\* An external id that several rows of the batch resolve to ends on exactly one
\* of them, and an id only one resolves to stays there (get_nullable_unique_fields).
ClaimedIdsHaveOneOwner ==
    pc \in {"chains", "write"} =>
        \A v \in Ids :
            (\E r \in batch : Wanted(r).xid = v) =>
                \E r \in batch : {q \in batch : objs[q].xid = v} = {r}

Live(r) == IF r \in batch THEN objs[r].live ELSE table[r].live
Parent(r) == IF r \in batch THEN objs[r].parent ELSE table[r].parent

\* Live rows s -> p -> q as they will stand after the write
Chain(s, p) == Live(s) /\ Live(p) /\ Parent(s) = p /\ Parent(p) # None

MakesAChain == \E s, p \in Rows : Chain(s, p) /\ (s \in Moved \/ p \in Moved)

\* No batch is written that leaves a chain of live rows one of whose edges it
\* moves, not even one that parent and child make together ...
NoBatchMakesAChain == pc = "write" => ~MakesAChain

\* ... and a chain that stands already never stops a batch that does not touch
\* it (find_flat_self_fk_chains).
StandingChainsStopNothing == pc = "refused" => MakesAChain

\* What a batch owes to the owners of slugs, ids and variants, all together.
BatchesKeepOwners ==
    /\ PreserversKeepTheirSlug
    /\ ClaimedIdsHaveOneOwner
    /\ NoBatchMakesAChain
    /\ StandingChainsStopNothing

\* _helpers.py: "reverting never creates a secondary conflict".
RevertsDoNotCollide ==
    pc = "ids" => \A q, r \in batch : objs[q].slug = objs[r].slug => q = r
=============================================================================
