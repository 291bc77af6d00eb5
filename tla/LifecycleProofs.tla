-------------------------- MODULE LifecycleProofs --------------------------
(***************************************************************************)
(* Invariants and action properties of Lifecycle for every catalogue and   *)
(* bound.  That every row follows the log needs no assumption; what a      *)
(* delete and a PATCH guarantee about rows also needs that no actor        *)
(* outranks a user (UsersOnTop), or their claims might not win.  Then, for *)
(* every graph: what the checks of a relationship edit keep; and what      *)
(* holds of the tree of locations, by their parents and by their paths.    *)
(***************************************************************************)
EXTENDS MCRecords, ClaimLogProofs, SequenceTheorems

\* User.priority defaults to 10000, Source.priority to 0
UsersOnTop == \A u \in Users, a \in Actors : Priority[a] <= Priority[u]

RowsTypeOK ==
    /\ DOMAIN rows \subseteq Subjects
    /\ rows \in [DOMAIN rows -> [Keys -> Values]]

\* A claim is about an existing row and by the actor of its changeset
ClaimsAreSane ==
    \A c \in claims : /\ c.subject \in DOMAIN rows
                      /\ c.actor = changesets[c.cs].actor

Inv ==
    /\ LogInv
    /\ RowsTypeOK
    /\ ClaimsAreSane
    /\ RowsFollowLog

-----------------------------------------------------------------------------
\* A resolved value is the fallback or the value of an active claim.
LEMMA ResolvedType ==
    ASSUME NEW act, NEW s, NEW k, NEW fallback \in Values, \A c \in act : c.value \in Values
    PROVE  Resolved(act, s, k, fallback) \in Values
<1> DEFINE W == Winner(act, {}, s, k)
<1>1. W # {} => (CHOOSE c \in W : TRUE) \in act
  BY DEF Winner, Eligible
<1> QED
  BY <1>1 DEF Resolved

\* Resolving claims on a row of values gives a row of values.
LEMMA ResolvedRowType ==
    ASSUME NEW act, NEW s, NEW base \in [Keys -> Values], \A c \in act : c.value \in Values
    PROVE  ResolvedRow(act, s, base) \in [Keys -> Values]
<1>1. none \in Values /\ title \in Keys
  BY FieldsAssumption
<1>2. \A k \in Keys : (IF k = title THEN base[title] ELSE none) \in Values
  BY <1>1
<1> QED
  BY <1>2, ResolvedType DEF ResolvedRow

\* A field's resolution depends on the active claims of that field alone.
LEMMA ResolvedLocal ==
    ASSUME NEW act1, NEW act2, NEW s, NEW k, NEW fallback,
           \A c : c.subject = s /\ c.key = k => (c \in act1 <=> c \in act2)
    PROVE  Resolved(act1, s, k, fallback) = Resolved(act2, s, k, fallback)
<1>1. Eligible(act1, {}, s, k) = Eligible(act2, {}, s, k)
  BY DEF Eligible
<1>2. Winner(act1, {}, s, k) = Winner(act2, {}, s, k)
  BY <1>1 DEF Winner
<1> DEFINE R(W) == IF W # {} THEN (CHOOSE c \in W : TRUE).value ELSE fallback
<1>3. /\ Resolved(act1, s, k, fallback) = R(Winner(act1, {}, s, k))
      /\ Resolved(act2, s, k, fallback) = R(Winner(act2, {}, s, k))
  BY DEF Resolved
<1> HIDE DEF R
<1> QED
  BY <1>2, <1>3

\* Resolving with its own result as the fallback changes nothing.
LEMMA ResolvedStable ==
    ASSUME NEW act, NEW s, NEW k, NEW fallback
    PROVE  Resolved(act, s, k, Resolved(act, s, k, fallback)) = Resolved(act, s, k, fallback)
  BY DEF Resolved

\* A resolved row resolves to itself: its title is a fixed point.
LEMMA ResolvedAgain ==
    ASSUME NEW act, NEW s, NEW base
    PROVE  ResolvedRow(act, s, ResolvedRow(act, s, base)) = ResolvedRow(act, s, base)
<1> DEFINE r == ResolvedRow(act, s, base)
<1>1. title \in Keys
  BY FieldsAssumption
<1>2. ASSUME NEW k \in Keys PROVE ResolvedRow(act, s, r)[k] = r[k]
  <2>1. CASE k = title
    BY <1>1, <2>1, ResolvedStable DEF ResolvedRow
  <2>2. CASE k # title
    BY <2>2 DEF ResolvedRow
  <2> QED
    BY <2>1, <2>2
<1> QED
  BY <1>2 DEF ResolvedRow

-----------------------------------------------------------------------------
\* The log after the loader's run, one changeset per entry.
LEMMA InitInv == Init => Inv
<1> SUFFICES ASSUME Init PROVE Inv
  OBVIOUS
<1> DEFINE E == DOMAIN Catalog
           Loaded == {Catalog[i].subject : i \in E}
<1>1. /\ Len(Catalog) \in Nat /\ E = 1 .. Len(Catalog)
      /\ \A i \in E : /\ Catalog[i].subject \in Subjects
                      /\ \E K \in SUBSET Keys : Catalog[i].vals \in [K -> Values]
  <2>1. Len(Catalog) \in Nat /\ E = 1 .. Len(Catalog)
    BY CatalogAssumption
  <2>2. Catalog \in Seq([subject : Subjects, vals : Payloads])
    BY CatalogAssumption
  <2>3. \A i \in E : Catalog[i] \in [subject : Subjects, vals : Payloads]
    <3> DEFINE Entry == [subject : Subjects, vals : Payloads]
    <3>1. Catalog \in Seq(Entry)
      BY <2>2
    <3> HIDE DEF Entry
    <3>2. \A i \in E : Catalog[i] \in Entry
      BY <3>1
    <3> QED
      BY <3>2 DEF Entry
  <2> QED
    BY <2>1, <2>3 DEF Payloads
<1>2. /\ changesets = [i \in E |-> [actor |-> Loader, action |-> "ingest"]]
      /\ changesets \in Seq([actor : Actors, action : Actions])
      /\ Len(changesets) = Len(Catalog)
  <2>1. Loader \in Actors /\ "ingest" \in Actions
    BY LoaderAssumption DEF Actors, Actions
  <2> QED
    BY <1>1, <2>1 DEF Init
<1>3. \A c \in claims : \E i \in E : \E k \in DOMAIN Catalog[i].vals :
          c = [cs |-> i, actor |-> Loader, subject |-> Catalog[i].subject,
               key |-> k, value |-> Catalog[i].vals[k]]
  BY DEF Init
<1>4. /\ claims \subseteq Claim
      /\ \A c \in claims : /\ c.actor = Loader
                           /\ c.cs \in E /\ c.subject = Catalog[c.cs].subject
                           /\ c.key \in DOMAIN Catalog[c.cs].vals
                           /\ c.value = Catalog[c.cs].vals[c.key]
                           /\ c.subject \in Loaded
  <2> SUFFICES ASSUME NEW c \in claims
               PROVE  /\ c \in Claim /\ c.actor = Loader
                      /\ c.cs \in E /\ c.subject = Catalog[c.cs].subject
                      /\ c.key \in DOMAIN Catalog[c.cs].vals
                      /\ c.value = Catalog[c.cs].vals[c.key]
                      /\ c.subject \in Loaded
    OBVIOUS
  <2>1. PICK i \in E : \E k \in DOMAIN Catalog[i].vals :
          c = [cs |-> i, actor |-> Loader, subject |-> Catalog[i].subject,
               key |-> k, value |-> Catalog[i].vals[k]]
    BY <1>3
  <2>2. PICK k \in DOMAIN Catalog[i].vals :
          c = [cs |-> i, actor |-> Loader, subject |-> Catalog[i].subject,
               key |-> k, value |-> Catalog[i].vals[k]]
    BY <2>1
  <2>3. k \in Keys /\ Catalog[i].vals[k] \in Values /\ Catalog[i].subject \in Subjects
    BY <1>1
  <2>4. i \in ChangeSetIds /\ Loader \in Actors
    BY <1>1, <1>2, LoaderAssumption DEF ChangeSetIds, Actors
  <2> QED
    BY <2>2, <2>3, <2>4 DEF Claim
<1>5. active = claims /\ Retracted = {} /\ retractedBy \in [DOMAIN retractedBy -> ChangeSetIds]
  BY DEF Init, Retracted
<1>6. ASSUME NEW c \in claims, NEW d \in claims, c.subject = d.subject, c.key = d.key
      PROVE  c = d
  <2>1. c.cs = d.cs
    BY <1>4, <1>6, CatalogAssumption
  <2> QED
    BY <1>4, <1>6, <2>1 DEF Claim
<1>7. LogInv
  <2>1. LogTypeOK
    BY <1>2, <1>4, <1>5 DEF LogTypeOK, Retracted
  <2>2. OnePerChangeset /\ UniqueActive
    BY <1>5, <1>6 DEF OnePerChangeset, UniqueActive, SameSlot
  <2>3. RetractedIsInactive /\ RetractionAuthority
    BY <1>5 DEF RetractedIsInactive, RetractionAuthority
  <2>4. ActiveIsNewest
    <3> SUFFICES ASSUME NEW c \in active, NEW d \in claims, SameSlot(c, d) PROVE d.cs <= c.cs
      BY DEF ActiveIsNewest
    <3>1. c = d /\ c.cs \in Nat
      BY <1>1, <1>4, <1>5, <1>6 DEF SameSlot
    <3> QED
      BY <3>1
  <2>5. UserSlotSpeaks
    BY <1>4, LoaderAssumption, ActorsAssumption DEF UserSlotSpeaks
  <2> QED
    BY <2>1, <2>2, <2>3, <2>4, <2>5 DEF LogInv
<1>8. rows = [s \in Loaded |-> ResolvedRow(claims, s, Unset)]
  BY DEF Init
<1>9. ClaimsAreSane
  BY <1>2, <1>4, <1>8 DEF ClaimsAreSane
<1>10. RowsTypeOK
  <2>1. Unset \in [Keys -> Values]
    BY FieldsAssumption DEF Unset
  <2>2. \A s : ResolvedRow(claims, s, Unset) \in [Keys -> Values]
    BY <1>4, <2>1, ResolvedRowType DEF Claim
  <2> QED
    BY <1>1, <1>8, <2>2 DEF RowsTypeOK
<1>11. RowsFollowLog
  BY <1>5, <1>8, ResolvedAgain DEF RowsFollowLog
<1> QED
  BY <1>7, <1>9, <1>10, <1>11 DEF Inv

-----------------------------------------------------------------------------
\* New claims about existing rows, by the actor of the new changeset, are sane.
LEMMA ClaimsStaySane ==
    ASSUME Inv, NEW a, NEW act \in Actions, RecordChangeset(a, act), NEW W, NewClaims(a, W),
           claims' \subseteq claims \cup W, DOMAIN rows \subseteq DOMAIN rows',
           \A w \in W : w.subject \in DOMAIN rows'
    PROVE  ClaimsAreSane'
<1>1. /\ changesets'[NextCs].actor = a
      /\ \A n \in ChangeSetIds : changesets'[n] = changesets[n]
  BY ChangesetStep DEF Inv, LogInv
<1>2. ASSUME NEW c \in claims PROVE c.subject \in DOMAIN rows' /\ c.actor = changesets'[c.cs].actor
  BY <1>1 DEF Inv, ClaimsAreSane, LogInv, LogTypeOK, Claim
<1>3. ASSUME NEW c \in W PROVE c.subject \in DOMAIN rows' /\ c.actor = changesets'[c.cs].actor
  BY <1>1 DEF NewClaims
<1> QED
  BY <1>2, <1>3 DEF ClaimsAreSane

\* A write whose active claims change on the records S only, and which resolves
\* S, keeps every row the view of the log.
LEMMA ResolveKeepsInv ==
    ASSUME Inv, LogInv', NEW S \in SUBSET DOMAIN rows, Resolve(S), ClaimsAreSane',
           \A c : (c \in active /\ c \notin active') \/ (c \in active' /\ c \notin active)
                    => c.subject \in S
    PROVE  Inv'
<1>1. /\ DOMAIN rows' = DOMAIN rows
      /\ \A s \in S : rows'[s] = ResolvedRow(active', s, rows[s])
      /\ \A s \in DOMAIN rows \ S : rows'[s] = rows[s]
  BY DEF Resolve
<1>2. \A c \in active' : c.value \in Values
  BY DEF LogInv, LogTypeOK, Claim
<1>3. RowsTypeOK'
  BY <1>1, <1>2, ResolvedRowType DEF Inv, RowsTypeOK, Resolve
<1>4. ASSUME NEW s \in DOMAIN rows PROVE rows'[s] = ResolvedRow(active', s, rows'[s])
  <2>1. CASE s \in S
    BY <1>1, <2>1, ResolvedAgain
  <2>2. CASE s \notin S
    <3>1. \A k, f : Resolved(active', s, k, f) = Resolved(active, s, k, f)
      BY <2>2, ResolvedLocal
    <3>2. rows'[s] = rows[s] /\ rows[s] = ResolvedRow(active, s, rows[s])
      BY <1>1, <2>2 DEF Inv, RowsFollowLog
    <3> QED
      BY <3>1, <3>2 DEF ResolvedRow
  <2> QED
    BY <2>1, <2>2
<1>5. RowsFollowLog'
  BY <1>1, <1>4 DEF RowsFollowLog
<1> QED
  BY <1>3, <1>5 DEF Inv

\* An assertion changes the active claims of the slots it writes only.
LEMMA AssertTouches ==
    ASSUME NEW a, NEW W, NewClaims(a, W), AssertClaims(W), NEW c,
           (c \in active /\ c \notin active') \/ (c \in active' /\ c \notin active)
    PROVE  \E w \in W : c.subject = w.subject /\ c.key = w.key
  BY DEF AssertClaims, Superseded, SameSlot

\* A revert changes the active claims of the slots it reverts only.
LEMMA RevertTouches ==
    ASSUME NEW T \in SUBSET active, RevertClaims(T), NEW c,
           (c \in active /\ c \notin active') \/ (c \in active' /\ c \notin active)
    PROVE  \E t \in T : c.subject = t.subject /\ c.key = t.key
  BY DEF RevertClaims, Predecessors, Newest, Fallback, SameSlot

-----------------------------------------------------------------------------
\* What an assertion on existing records followed by their resolution keeps.
LEMMA AssertAndResolve ==
    ASSUME Inv, NEW u \in Users, NEW act \in Actions, RecordChangeset(u, act),
           NEW W, NewClaims(u, W), AssertClaims(W),
           NEW S \in SUBSET DOMAIN rows, Resolve(S), \A w \in W : w.subject \in S
    PROVE  Inv'
<1>1. LogInv'
  BY AssertPreserves DEF Inv
<1>2. DOMAIN rows' = DOMAIN rows
  BY DEF Resolve
<1>3. ClaimsAreSane'
  BY <1>2, ClaimsStaySane DEF AssertClaims
<1>4. \A c : (c \in active /\ c \notin active') \/ (c \in active' /\ c \notin active)
                => c.subject \in S
  BY AssertTouches
<1> QED
  BY <1>1, <1>3, <1>4, ResolveKeepsInv

\* What reverting claims of users followed by the resolution of their subjects
\* keeps.
LEMMA RevertAndResolve ==
    ASSUME Inv, NEW u \in Users, RecordChangeset(u, "revert"),
           NEW T \in SUBSET active, \A t \in T : t.actor \in Users, RevertClaims(T),
           Resolve({t.subject : t \in T})
    PROVE  Inv'
<1> DEFINE S == {t.subject : t \in T}
<1>0. "revert" \in Actions
  BY DEF Actions
<1>1. LogInv'
  BY <1>0, RevertPreserves DEF Inv
<1>2. DOMAIN rows' = DOMAIN rows
  BY DEF Resolve
<1>3. S \in SUBSET DOMAIN rows
  BY DEF Inv, LogInv, LogTypeOK, ClaimsAreSane
<1>4. NewClaims(u, {}) /\ claims' \subseteq claims \cup {}
  BY DEF NewClaims, RevertClaims
<1>5. ClaimsAreSane'
  BY <1>0, <1>2, <1>4, ClaimsStaySane
<1>6. \A c : (c \in active /\ c \notin active') \/ (c \in active' /\ c \notin active)
                => c.subject \in S
  BY RevertTouches
<1> HIDE DEF S
<1> QED
  BY <1>1, <1>3, <1>5, <1>6, ResolveKeepsInv DEF S

-----------------------------------------------------------------------------
\* The claims of a status are new claims.
LEMMA StatusClaims ==
    ASSUME NEW a \in Actors, NEW s \in Subjects, NEW v \in {live, deleted}
    PROVE  NewClaims(a, Written(a, s, [k \in {status} |-> v]))
  BY FieldsAssumption, WrittenIsNew

\* Creating a record keeps the invariant.
LEMMA CreateInv ==
    ASSUME Inv, NEW u \in Users, NEW s \in Subjects, NEW t, s \in Models => t \in Titles,
           Create(u, s, t)
    PROVE  Inv'
<1> DEFINE vals == CreateClaims(s, t)
           W == Written(u, s, vals)
           r == ResolvedRow(active', s, Inserted(vals))
<1>1. \E K \in SUBSET Keys : vals \in [K -> Values]
  <2>1. CASE s \in Titles
    BY <2>1, FieldsAssumption DEF CreateClaims
  <2>2. CASE s \notin Titles
    BY <2>2, FieldsAssumption, RecordsAssumption DEF CreateClaims
  <2> QED
    BY <2>1, <2>2
<1>2. /\ s \notin DOMAIN rows
      /\ RecordChangeset(u, "create") /\ AssertClaims(W)
      /\ rows' = [e \in DOMAIN rows \cup {s} |-> IF e = s THEN r ELSE rows[e]]
  BY DEF Create
<1> HIDE DEF vals
<1>3. "create" \in Actions /\ u \in Actors
  BY DEF Actions, Actors
<1>4. NewClaims(u, W)
  BY <1>1, <1>3, WrittenIsNew
<1>5. LogInv'
  BY <1>2, <1>3, <1>4, AssertPreserves DEF Inv
<1>6. \A w \in W : w.subject = s
  BY DEF Written
<1> HIDE DEF W
<1>7. ClaimsAreSane'
  BY <1>2, <1>3, <1>4, <1>6, ClaimsStaySane DEF AssertClaims
<1>8. r \in [Keys -> Values]
  <2>1. \A c \in active' : c.value \in Values
    BY <1>5 DEF LogInv, LogTypeOK, Claim
  <2>2. Inserted(vals) \in [Keys -> Values]
    BY <1>1, FieldsAssumption DEF Inserted
  <2> QED
    BY <2>1, <2>2, ResolvedRowType
<1>9. r = ResolvedRow(active', s, r)
  BY ResolvedAgain
<1> HIDE DEF r
<1>10. RowsTypeOK'
  BY <1>2, <1>8 DEF Inv, RowsTypeOK
<1>11. ASSUME NEW e \in DOMAIN rows, e # s PROVE rows[e] = ResolvedRow(active', e, rows[e])
  <2>1. \A c : c.subject = e => (c \in active <=> c \in active')
    BY <1>2, <1>4, <1>6, <1>11, AssertTouches
  <2>2. \A k, f : Resolved(active', e, k, f) = Resolved(active, e, k, f)
    BY <2>1, ResolvedLocal
  <2> QED
    BY <2>2 DEF Inv, RowsFollowLog, ResolvedRow
<1>12. RowsFollowLog'
  BY <1>2, <1>9, <1>11 DEF RowsFollowLog
<1> QED
  BY <1>5, <1>7, <1>10, <1>12 DEF Inv

\* The claims of a delete, one per record of the cascade.
LEMMA CascadeClaims ==
    ASSUME NEW u \in Users, NEW S \in SUBSET Subjects
    PROVE  /\ NewClaims(u, Deletions(u, S))
           /\ \A w \in Deletions(u, S) : w.subject \in S /\ w.key = status /\ w.value = deleted
           /\ \A s \in S : \E w \in Deletions(u, S) : w.subject = s /\ w.key = status
<1> DEFINE W == Deletions(u, S)
<1>1. deleted \in Values /\ status \in Keys
  BY FieldsAssumption
<1>2. \A s : Written(u, s, [k \in {status} |-> deleted]) =
        {[cs |-> NextCs, actor |-> u, subject |-> s, key |-> status, value |-> deleted]}
  BY DEF Written
<1>3. \A w : w \in W <=> \E s \in S : w = [cs |-> NextCs, actor |-> u, subject |-> s,
                                          key |-> status, value |-> deleted]
  BY <1>2 DEF Deletions
<1> HIDE DEF W
<1>4. W \subseteq [cs : {NextCs}, actor : {u}, subject : Subjects, key : Keys, value : Values]
  BY <1>1, <1>3
<1> DEFINE Of(s) == [cs |-> NextCs, actor |-> u, subject |-> s, key |-> status,
                     value |-> deleted]
<1>5. \A s \in S : Of(s) \in W /\ Of(s).subject = s /\ Of(s).key = status
  BY <1>3
<1>6. \A w \in W : w = Of(w.subject) /\ w.subject \in S
  BY <1>3
<1>7. \A w \in W : w.key = status /\ w.value = deleted
  BY <1>6
<1> HIDE DEF Of
<1>8. \A c, d \in W : SameSlot(c, d) => c = d
  BY <1>6 DEF SameSlot
<1> QED
  BY <1>4, <1>5, <1>6, <1>7, <1>8 DEF NewClaims, W

\* Every step keeps the invariant.
LEMMA NextInv == Inv /\ [Next]_vars => Inv'
<1> SUFFICES ASSUME Inv, [Next]_vars PROVE Inv'
  OBVIOUS
<1> USE DEF Actions
<1>0. Users \subseteq Actors /\ DOMAIN rows \subseteq Subjects
  BY DEF Actors, Inv, RowsTypeOK
<1>1. ASSUME NEW u \in Users, NEW s \in Titles, Create(u, s, none) PROVE Inv'
  BY <1>1, CreateInv, RecordsAssumption
<1>2. ASSUME NEW u \in Users, NEW s \in Models, NEW t \in Titles, Create(u, s, t) PROVE Inv'
  BY <1>2, CreateInv, RecordsAssumption
<1>3. ASSUME NEW u \in Users, NEW e \in Subjects, NEW vals \in PatchBodies, Patch(u, e, vals)
      PROVE  Inv'
  <2> DEFINE W == Written(u, e, vals)
  <2>1. PICK K \in SUBSET Keys : vals \in [K -> Values]
    BY PatchAssumption DEF Payloads
  <2>2. NewClaims(u, W) /\ \A w \in W : w.subject = e
    BY <1>0, <2>1, WrittenIsNew DEF Written
  <2>3. e \in DOMAIN rows
    BY <1>3 DEF Patch, LiveRecords
  <2>4. RecordChangeset(u, "edit") /\ AssertClaims(W) /\ Resolve({e})
    BY <1>3 DEF Patch
  <2> HIDE DEF W
  <2> QED
    BY <2>2, <2>3, <2>4, AssertAndResolve
<1>4. ASSUME NEW u \in Users, NEW root \in Subjects, Delete(u, root) PROVE Inv'
  <2> DEFINE S == Cascade(root)
             W == Deletions(u, S)
  <2>1. S \in SUBSET DOMAIN rows
    BY <1>4 DEF Delete, Cascade, LiveRecords
  <2>2. NewClaims(u, W) /\ \A w \in W : w.subject \in S
    <3> HIDE DEF S
    <3>1. S \in SUBSET Subjects
      BY <1>0, <2>1
    <3> QED
      BY <3>1, CascadeClaims
  <2>3. RecordChangeset(u, "delete") /\ AssertClaims(W) /\ Resolve(S)
    BY <1>4 DEF Delete
  <2> HIDE DEF W, S
  <2> QED
    BY <2>1, <2>2, <2>3, AssertAndResolve
<1>5. ASSUME NEW u \in Users, NEW e \in Subjects, Restore(u, e) PROVE Inv'
  <2> DEFINE W == Written(u, e, [k \in {status} |-> live])
  <2>1. NewClaims(u, W)
    BY <1>0, StatusClaims
  <2>2. \A w \in W : w.subject = e
    BY DEF Written
  <2>3. e \in DOMAIN rows /\ RecordChangeset(u, "edit") /\ AssertClaims(W) /\ Resolve({e})
    BY <1>5 DEF Restore
  <2> HIDE DEF W
  <2> QED
    BY <2>1, <2>2, <2>3, AssertAndResolve
<1>6. ASSUME NEW u \in Users, NEW n \in ChangeSetIds, Undo(u, n) PROVE Inv'
  <2>1. ClaimsOf(n) \in SUBSET active /\ \A t \in ClaimsOf(n) : t.actor \in Users
    BY <1>6 DEF Undo, ClaimsOf, Inv, ClaimsAreSane
  <2>2. /\ RecordChangeset(u, "revert") /\ RevertClaims(ClaimsOf(n))
        /\ Resolve({t.subject : t \in ClaimsOf(n)})
    BY <1>6 DEF Undo
  <2> QED
    BY <2>1, <2>2, RevertAndResolve
<1>7. ASSUME NEW u \in Users, NEW c \in active, Revert(u, c) PROVE Inv'
  <2> DEFINE T == {c}
  <2>1. T \in SUBSET active /\ \A t \in T : t.actor \in Users
    BY <1>7 DEF Revert
  <2>2. {t.subject : t \in T} = {c.subject}
    OBVIOUS
  <2>3. RecordChangeset(u, "revert") /\ RevertClaims(T) /\ Resolve({t.subject : t \in T})
    BY <1>7, <2>2 DEF Revert
  <2> HIDE DEF T
  <2> QED
    BY <2>1, <2>3, RevertAndResolve
<1>8. ASSUME UNCHANGED vars PROVE Inv'
  <2>1. UNCHANGED logVars /\ UNCHANGED rows
    BY <1>8 DEF vars, logVars
  <2>2. LogInv'
    BY <2>1 DEF Inv, LogInv, logVars, LogTypeOK, OnePerChangeset, UniqueActive,
               RetractedIsInactive, ActiveIsNewest, UserSlotSpeaks, RetractionAuthority,
               ChangeSetIds, Claim, Retracted
  <2>3. RowsTypeOK' /\ ClaimsAreSane'
    BY <2>1 DEF Inv, RowsTypeOK, ClaimsAreSane, logVars
  <2>4. RowsFollowLog'
    BY <2>1 DEF Inv, RowsFollowLog, logVars
  <2> QED
    BY <2>2, <2>3, <2>4 DEF Inv
<1> QED
  BY <1>1, <1>2, <1>3, <1>4, <1>5, <1>6, <1>7, <1>8 DEF Next

-----------------------------------------------------------------------------
\* Inv holds in every reachable state.
THEOREM LifecycleInvariance == Spec => []Inv
<1>1. Init => Inv
  BY InitInv
<1>2. Inv /\ [Next]_vars => Inv'
  BY NextInv
<1> QED
  BY <1>1, <1>2, PTL DEF Spec

\* The log and the rows keep their types, whatever is created, patched,
\* deleted, restored, undone or reverted.
THEOREM LifecycleTypeOK == Spec => []TypeOK
<1>1. Inv => TypeOK
  BY DEF Inv, LogInv, RowsTypeOK, TypeOK
<1> QED
  BY <1>1, LifecycleInvariance, PTL

\* Every row is, in every state, the view its claims resolve to: each handler
\* re-resolves every record it wrote on, the cascade of a delete included.
THEOREM RowsAlwaysFollowLog == Spec => []RowsFollowLog
<1>1. Inv => RowsFollowLog
  BY DEF Inv
<1> QED
  BY <1>1, LifecycleInvariance, PTL

-----------------------------------------------------------------------------
(* What a write does to the rows when no actor outranks a user.            *)

\* The claim a user has just written wins its field.
LEMMA AssertedWins ==
    ASSUME UsersOnTop, Inv, NEW u \in Users, NEW act \in Actions, RecordChangeset(u, act),
           NEW W, NewClaims(u, W), AssertClaims(W), NEW w \in W, NEW f
    PROVE  Resolved(active', w.subject, w.key, f) = w.value
<1> DEFINE E == Eligible(active', {}, w.subject, w.key)
<1>1. w \in E /\ w.actor = u /\ w.cs = NextCs
  BY DEF AssertClaims, NewClaims, Eligible
<1>2. ASSUME NEW d \in E, d # w PROVE Outranks(w, d) /\ ~Outranks(d, w)
  <2>1. d \in active \/ d \in W
    BY DEF Eligible, AssertClaims
  <2>2. d \notin W
    BY <1>1, <1>2 DEF Eligible, NewClaims, SameSlot
  <2>3. d.actor \in Actors /\ d.cs \in Nat /\ d.cs < NextCs
    BY <2>1, <2>2, OldClaims DEF Inv, LogInv, LogTypeOK, Claim
  <2>4. Priority[d.actor] <= Priority[u] /\ Priority[d.actor] \in Nat /\ Priority[u] \in Nat
    BY <2>3, PriorityAssumption DEF UsersOnTop, Actors
  <2>5. NextCs \in Nat
    BY ChangesetStep DEF Inv, LogInv
  <2> QED
    BY <1>1, <2>3, <2>4, <2>5 DEF Outranks
<1>3. Winner(active', {}, w.subject, w.key) = {w}
  BY <1>1, <1>2 DEF Winner
<1> QED
  BY <1>3 DEF Resolved

\* After an assertion on records S and their resolution, a field that was
\* written shows what was written and every other field what it showed.
LEMMA RowsAfterAssert ==
    ASSUME UsersOnTop, Inv, NEW u \in Users, NEW act \in Actions, RecordChangeset(u, act),
           NEW W, NewClaims(u, W), AssertClaims(W),
           NEW S \in SUBSET DOMAIN rows, Resolve(S),
           NEW s \in DOMAIN rows, NEW k \in Keys
    PROVE  /\ \A w \in W : w.subject = s /\ w.key = k /\ s \in S => rows'[s][k] = w.value
           /\ ~(\E w \in W : w.subject = s /\ w.key = k) => rows'[s][k] = rows[s][k]
<1> DEFINE f == IF k = title THEN rows[s][title] ELSE none
<1>1. s \in S => rows'[s][k] = Resolved(active', s, k, f)
  BY DEF Resolve, ResolvedRow
<1>2. s \notin S => rows'[s] = rows[s]
  BY DEF Resolve
<1>3. rows[s][k] = Resolved(active, s, k, f)
  <2>1. rows[s] = ResolvedRow(active, s, rows[s])
    BY DEF Inv, RowsFollowLog
  <2>2. ResolvedRow(active, s, rows[s])[k] = Resolved(active, s, k, f)
    BY DEF ResolvedRow
  <2> QED
    BY <2>1, <2>2
<1> HIDE DEF f
<1>4. ASSUME NEW w \in W, w.subject = s, w.key = k, s \in S PROVE rows'[s][k] = w.value
  <2>1. Resolved(active', s, k, f) = w.value
    BY <1>4, AssertedWins
  <2> QED
    BY <1>1, <1>4, <2>1
<1>5. ASSUME ~(\E w \in W : w.subject = s /\ w.key = k) PROVE rows'[s][k] = rows[s][k]
  <2>1. \A c : c.subject = s /\ c.key = k => (c \in active <=> c \in active')
    BY <1>5, AssertTouches
  <2>2. Resolved(active', s, k, f) = Resolved(active, s, k, f)
    BY <2>1, ResolvedLocal
  <2> QED
    BY <1>1, <1>2, <1>3, <2>2
<1> QED
  BY <1>4, <1>5

\* The last changeset is the one just recorded.
LEMMA LastAction ==
    ASSUME Inv, NEW a, NEW act \in Actions, RecordChangeset(a, act)
    PROVE  NewChangeset.action = act
<1>1. Len(changesets') = Len(changesets) + 1 /\ Len(changesets) \in Nat
  BY ChangesetStep DEF Inv, LogInv
<1>2. changesets'[Len(changesets) + 1] = [actor |-> a, action |-> act]
  BY <1>1 DEF RecordChangeset, Inv, LogInv, LogTypeOK
<1> QED
  BY <1>1, <1>2 DEF NewChangeset

-----------------------------------------------------------------------------
\* A delete kills its cascade and leaves the rest of the rows as they were.
LEMMA DeleteRows ==
    ASSUME UsersOnTop, Inv, NEW u \in Users, NEW root \in Subjects, Delete(u, root)
    PROVE  /\ DOMAIN rows' = DOMAIN rows
           /\ \A s \in Cascade(root) : s \notin LiveRecords'
           /\ \A s \in DOMAIN rows \ Cascade(root) : rows'[s] = rows[s]
           /\ \A s \in DOMAIN rows, k \in Keys \ {status} : rows'[s][k] = rows[s][k]
<1> DEFINE S == Cascade(root)
           W == Deletions(u, S)
<1>1. S \in SUBSET DOMAIN rows /\ S \in SUBSET Subjects
  BY DEF Delete, Cascade, LiveRecords, Inv, RowsTypeOK
<1>2. RecordChangeset(u, "delete") /\ AssertClaims(W) /\ Resolve(S) /\ "delete" \in Actions
  BY DEF Delete, Actions
<1>3. /\ NewClaims(u, W)
      /\ \A w \in W : w.subject \in S /\ w.key = status /\ w.value = deleted
      /\ \A s \in S : \E w \in W : w.subject = s /\ w.key = status
  <2> HIDE DEF S
  <2>1. S \in SUBSET Subjects
    BY <1>1
  <2> QED
    BY <2>1, CascadeClaims
<1>4. DOMAIN rows' = DOMAIN rows /\ \A s \in DOMAIN rows \ S : rows'[s] = rows[s]
  BY <1>2 DEF Resolve
<1> HIDE DEF S, W
<1>5. status \in Keys
  BY FieldsAssumption
<1>6. \A s \in S : rows'[s][status] = deleted
  BY <1>1, <1>2, <1>3, <1>5, RowsAfterAssert
<1>7. \A s \in DOMAIN rows, k \in Keys \ {status} : rows'[s][k] = rows[s][k]
  BY <1>1, <1>2, <1>3, RowsAfterAssert
<1>8. \A s \in S : s \notin LiveRecords'
  BY <1>6 DEF LiveRecords, Live
<1> QED
  BY <1>4, <1>7, <1>8 DEF S

\* When no actor outranks a user, a delete never leaves a live model whose
\* title or variant_of is a record it deleted: the cascade and the blockers of
\* soft_delete_walk cover every referrer.
THEOREM DeletesAreClean == UsersOnTop => (Spec => DeleteLeavesNoReferrer)
<1> SUFFICES ASSUME UsersOnTop PROVE Spec => DeleteLeavesNoReferrer
  OBVIOUS
<1> DEFINE Clean == NewChangeset.action = "delete" =>
                       \A e \in LiveRecords \ LiveRecords', m \in LiveRecords' \cap Models :
                           e \notin {rows'[m][variantOf], rows'[m][title]}
<1>1. ASSUME Inv, NEW u \in Users, NEW root \in Subjects, Delete(u, root) PROVE Clean
  <2> SUFFICES ASSUME NEW e \in LiveRecords \ LiveRecords', NEW m \in LiveRecords' \cap Models
               PROVE  e \notin {rows'[m][variantOf], rows'[m][title]}
    OBVIOUS
  <2>1. /\ DOMAIN rows' = DOMAIN rows
        /\ \A s \in Cascade(root) : s \notin LiveRecords'
        /\ \A s \in DOMAIN rows \ Cascade(root) : rows'[s] = rows[s]
    BY <1>1, DeleteRows
  <2>2. e \in Cascade(root)
    BY <2>1 DEF LiveRecords, Live
  <2>3. m \in LiveRecords /\ m \notin Cascade(root) /\ rows'[m] = rows[m]
    BY <2>1 DEF LiveRecords, Live
  <2>4. m \notin Blockers(root)
    BY <1>1 DEF Delete
  <2> QED
    BY <2>2, <2>3, <2>4 DEF Blockers
<1>2. ASSUME Inv, [Next]_vars PROVE [Clean]_vars
  <2> USE DEF Actions
  <2>1. ASSUME NEW u \in Users, NEW s, NEW t, Create(u, s, t) PROVE Clean
    BY <1>2, <2>1, LastAction DEF Create
  <2>2. ASSUME NEW u \in Users, NEW e, NEW vals, Patch(u, e, vals) PROVE Clean
    BY <1>2, <2>2, LastAction DEF Patch
  <2>3. ASSUME NEW u \in Users, NEW e, Restore(u, e) PROVE Clean
    BY <1>2, <2>3, LastAction DEF Restore
  <2>4. ASSUME NEW u \in Users, NEW n, Undo(u, n) PROVE Clean
    BY <1>2, <2>4, LastAction DEF Undo
  <2>5. ASSUME NEW u \in Users, NEW c, Revert(u, c) PROVE Clean
    BY <1>2, <2>5, LastAction DEF Revert
  <2> QED
    BY <1>1, <1>2, <2>1, <2>2, <2>3, <2>4, <2>5 DEF Next
<1> QED
  BY <1>2, LifecycleInvariance, PTL DEF Spec, DeleteLeavesNoReferrer

-----------------------------------------------------------------------------
\* A PATCH that is accepted makes no chain of variants.
LEMMA PatchMakesNoChain ==
    ASSUME UsersOnTop, Inv, NEW u \in Users, NEW e \in Subjects, NEW vals \in PatchBodies,
           Patch(u, e, vals)
    PROVE  Chains(rows', LiveRecords') \subseteq Chains(rows, LiveRecords)
<1> DEFINE W == Written(u, e, vals)
<1>1. PICK K \in SUBSET Keys : vals \in [K -> Values]
  BY PatchAssumption DEF Payloads
<1>2. NewClaims(u, W)
  BY <1>1, WrittenIsNew DEF Actors
<1>3. /\ \A w \in W : w.subject = e /\ w.key \in K /\ w.value = vals[w.key]
      /\ \A k \in K : \E w \in W : w.subject = e /\ w.key = k /\ w.value = vals[k]
  <2> DEFINE Of(k) == [cs |-> NextCs, actor |-> u, subject |-> e, key |-> k, value |-> vals[k]]
  <2>1. W = {Of(k) : k \in K}
    BY <1>1 DEF Written
  <2>2. \A k \in K : Of(k) \in W
    BY <2>1
  <2>3. \A k : Of(k).subject = e /\ Of(k).key = k /\ Of(k).value = vals[k]
    OBVIOUS
  <2> HIDE DEF Of, W
  <2> QED
    BY <2>1, <2>2, <2>3
<1>4. /\ e \in LiveRecords /\ e \in DOMAIN rows
      /\ RecordChangeset(u, "edit") /\ AssertClaims(W) /\ Resolve({e}) /\ "edit" \in Actions
  BY DEF Patch, LiveRecords, Actions
<1> HIDE DEF W
<1>5. DOMAIN rows' = DOMAIN rows /\ \A s \in DOMAIN rows \ {e} : rows'[s] = rows[s]
  BY <1>4 DEF Resolve
<1>6. variantOf \in Keys
  BY FieldsAssumption
<1>7. CASE variantOf \notin K
  <2>1. rows'[e][variantOf] = rows[e][variantOf]
    BY <1>2, <1>3, <1>4, <1>6, <1>7, RowsAfterAssert
  <2>2. \A s \in DOMAIN rows : rows'[s][variantOf] = rows[s][variantOf]
    BY <1>5, <2>1
  <2>3. LiveRecords' \subseteq LiveRecords
    BY <1>4, <1>5 DEF LiveRecords, Live
  <2>4. LiveRecords \subseteq DOMAIN rows
    BY DEF LiveRecords
  <2> SUFFICES ASSUME NEW c \in Chains(rows', LiveRecords') PROVE c \in Chains(rows, LiveRecords)
    OBVIOUS
  <2>5. /\ c \in (LiveRecords' \cap Models) \X (LiveRecords' \cap Models)
        /\ rows'[c[1]][variantOf] = c[2] /\ rows'[c[2]][variantOf] # none
    BY DEF Chains
  <2> QED
    BY <2>2, <2>3, <2>4, <2>5 DEF Chains
<1>8. CASE variantOf \in K
  <2> DEFINE p == vals[variantOf]
  <2>1. rows'[e][variantOf] = p
    <3>1. PICK w \in W : w.subject = e /\ w.key = variantOf /\ w.value = p
      BY <1>3, <1>8
    <3> QED
      BY <1>2, <1>4, <1>6, <3>1, RowsAfterAssert
  <2>2. MakesNoChain(e, p)
    BY <1>1, <1>8 DEF Patch, Patchable
  <2> SUFFICES ASSUME NEW c \in Chains(rows', LiveRecords') PROVE c \in Chains(rows, LiveRecords)
    OBVIOUS
  <2> DEFINE m == c[1]
             q == c[2]
  <2>3. /\ m \in LiveRecords' \cap Models /\ q \in LiveRecords' \cap Models /\ c = <<m, q>>
        /\ rows'[m][variantOf] = q /\ rows'[q][variantOf] # none
    BY DEF Chains
  <2>4. q # none
    BY <2>3, RecordsAssumption, FieldsAssumption
  <2>5. \A s \in LiveRecords' \ {e} : s \in LiveRecords /\ rows'[s] = rows[s]
    BY <1>5 DEF LiveRecords, Live
  <2> HIDE DEF p, m, q
  <2>6. CASE m = e
    <3>1. p = q /\ p # e
      BY <2>1, <2>2, <2>3, <2>4, <2>6 DEF MakesNoChain
    <3>2. rows[q][variantOf] # none /\ q \in LiveRecords
      BY <2>3, <2>5, <3>1
    <3> QED
      BY <2>2, <2>4, <3>1, <3>2 DEF MakesNoChain, LiveRecords
  <2>7. CASE m # e /\ q = e
    <3>1. m \in LiveRecords \ {e} /\ rows[m][variantOf] = e
      BY <2>3, <2>5, <2>7
    <3>2. p # none
      BY <2>1, <2>3, <2>7
    <3> QED
      BY <2>2, <3>1, <3>2 DEF MakesNoChain
  <2>8. CASE m # e /\ q # e
    BY <2>3, <2>5, <2>8 DEF Chains
  <2> QED
    BY <2>6, <2>7, <2>8
<1> QED
  BY <1>7, <1>8

\* A create brings its record to life or changes no chain.
LEMMA CreateMakesNoChain ==
    ASSUME Inv, NEW u \in Users, NEW s, NEW t, Create(u, s, t)
    PROVE  \/ Chains(rows', LiveRecords') \subseteq Chains(rows, LiveRecords)
           \/ LiveRecords' \ LiveRecords # {}
<1>1. /\ s \notin DOMAIN rows /\ DOMAIN rows' = DOMAIN rows \cup {s}
      /\ \A e \in DOMAIN rows : rows'[e] = rows[e]
  BY DEF Create
<1>2. CASE s \in LiveRecords'
  BY <1>1, <1>2 DEF LiveRecords
<1>3. CASE s \notin LiveRecords'
  <2>1. LiveRecords' \subseteq LiveRecords /\ LiveRecords \subseteq DOMAIN rows
    BY <1>1, <1>3 DEF LiveRecords, Live
  <2> SUFFICES ASSUME NEW c \in Chains(rows', LiveRecords') PROVE c \in Chains(rows, LiveRecords)
    OBVIOUS
  <2>2. /\ c \in (LiveRecords' \cap Models) \X (LiveRecords' \cap Models)
        /\ rows'[c[1]][variantOf] = c[2] /\ rows'[c[2]][variantOf] # none
    BY DEF Chains
  <2> QED
    BY <1>1, <2>1, <2>2 DEF Chains
<1> QED
  BY <1>2, <1>3

\* A write that changes statuses only, and brings nothing to life, makes no chain.
LEMMA StatusWriteMakesNoChain ==
    ASSUME DOMAIN rows' = DOMAIN rows,
           \A s \in DOMAIN rows, k \in Keys \ {status} : rows'[s][k] = rows[s][k]
    PROVE  \/ Chains(rows', LiveRecords') \subseteq Chains(rows, LiveRecords)
           \/ LiveRecords' \ LiveRecords # {}
<1> SUFFICES ASSUME LiveRecords' \subseteq LiveRecords, NEW c \in Chains(rows', LiveRecords')
             PROVE  c \in Chains(rows, LiveRecords)
  OBVIOUS
<1>1. variantOf \in Keys \ {status}
  BY FieldsAssumption
<1>2. /\ c \in (LiveRecords' \cap Models) \X (LiveRecords' \cap Models)
      /\ rows'[c[1]][variantOf] = c[2] /\ rows'[c[2]][variantOf] # none
  BY DEF Chains
<1>3. LiveRecords \subseteq DOMAIN rows
  BY DEF LiveRecords
<1> QED
  BY <1>1, <1>2, <1>3 DEF Chains

\* When no actor outranks a user, a variant of a variant appears only when a
\* record comes back to life or a revert brings an edge back.
THEOREM WritesStayFlat == UsersOnTop => (Spec => WritesMakeNoChain)
<1> SUFFICES ASSUME UsersOnTop PROVE Spec => WritesMakeNoChain
  OBVIOUS
<1> DEFINE Flat == \/ Chains(rows', LiveRecords') \subseteq Chains(rows, LiveRecords)
                   \/ NewChangeset.action = "revert"
                   \/ LiveRecords' \ LiveRecords # {}
<1>1. ASSUME Inv, [Next]_vars PROVE [Flat]_vars
  <2> USE DEF Actions
  <2>1. ASSUME NEW u \in Users, NEW s, NEW t, Create(u, s, t) PROVE Flat
    BY <1>1, <2>1, CreateMakesNoChain
  <2>2. ASSUME NEW u \in Users, NEW e \in Subjects, NEW vals \in PatchBodies, Patch(u, e, vals)
        PROVE  Flat
    BY <1>1, <2>2, PatchMakesNoChain
  <2>3. ASSUME NEW u \in Users, NEW root \in Subjects, Delete(u, root) PROVE Flat
    BY <1>1, <2>3, DeleteRows, StatusWriteMakesNoChain
  <2>4. ASSUME NEW u \in Users, NEW e \in Subjects, Restore(u, e) PROVE Flat
    <3> DEFINE W == Written(u, e, [k \in {status} |-> live])
    <3>1. NewClaims(u, W)
      BY StatusClaims DEF Actors
    <3>2. \A w \in W : w.key = status
      BY DEF Written
    <3>3. /\ e \in DOMAIN rows /\ RecordChangeset(u, "edit") /\ AssertClaims(W)
          /\ Resolve({e})
      BY <2>4 DEF Restore
    <3>4. DOMAIN rows' = DOMAIN rows
      BY <3>3 DEF Resolve
    <3> HIDE DEF W
    <3>5. \A s \in DOMAIN rows, k \in Keys \ {status} : rows'[s][k] = rows[s][k]
      BY <1>1, <3>1, <3>2, <3>3, RowsAfterAssert
    <3> QED
      BY <3>4, <3>5, StatusWriteMakesNoChain
  <2>5. ASSUME NEW u \in Users, NEW n, Undo(u, n) PROVE Flat
    BY <1>1, <2>5, LastAction DEF Undo
  <2>6. ASSUME NEW u \in Users, NEW c, Revert(u, c) PROVE Flat
    BY <1>1, <2>6, LastAction DEF Revert
  <2> QED
    BY <1>1, <2>1, <2>2, <2>3, <2>4, <2>5, <2>6, RecordsAssumption DEF Next
<1> QED
  BY <1>1, LifecycleInvariance, PTL DEF Spec, WritesMakeNoChain

-----------------------------------------------------------------------------
(* Whatever the models declare: what the startup check accepts is enough    *)
(* for every delete.                                                        *)

\* A relation the check accepts is either blocked on by what refers over it, or
\* cascaded over, unless its rows have no status of their own.
LEMMA AcceptedRelations ==
    ASSUME NEW r \in Relation, WellFormed(r), Complaints(r) = {}
    PROVE  /\ r.onDelete # "SET_NULL"
           /\ r.owned \/ r.cascades \/ r.blocks \/ r.onDelete = "PROTECT"
<1> USE DEF Relation, WellFormed, Complaints
<1>1. r.kind # "other" /\ (r.kind = "fk" => r.onDelete \in {"PROTECT", "CASCADE"})
  OBVIOUS
<1>2. CASE r.kind = "fk"
  BY <1>1, <1>2
<1>3. CASE r.kind = "m2m"
  BY <1>3
<1>4. CASE r.kind = "forward"
  BY <1>4
<1> QED
  BY <1>1, <1>2, <1>3, <1>4

\* A cascade is in each of the closed sets, and closed itself.
LEMMA CascadeIsClosed ==
    ASSUME NEW schema, NEW refs, NEW alive, NEW root
    PROVE  ClosedUnderCascade(schema, refs, alive, DeclaredCascade(schema, refs, alive, root))
<1> DEFINE closed == {S \in SUBSET (alive \cup {root}) :
                         root \in S /\ ClosedUnderCascade(schema, refs, alive, S)}
           cascade == DeclaredCascade(schema, refs, alive, root)
<1>1. \A x : x \in cascade <=> x \in alive \cup {root} /\ \A S \in closed : x \in S
  BY DEF DeclaredCascade
<1>2. \A S \in closed, e \in refs :
         e[3] \in S /\ e[1] \in alive /\ schema[e[2]].cascades => e[1] \in S
  BY DEF ClosedUnderCascade
<1> HIDE DEF closed, cascade
<1>3. \A e \in refs : e[3] \in cascade /\ e[1] \in alive /\ schema[e[2]].cascades => e[1] \in cascade
  BY <1>1, <1>2
<1> QED
  BY <1>3 DEF ClosedUnderCascade, cascade

\* If the startup check has no complaint about what the models declare, no
\* delete meets a relation without a policy, and one that nothing blocks leaves
\* no live record that refers to a deleted one: for every schema, every graph of
\* references and every record deleted.
THEOREM DeclarationsSuffice ==
    ASSUME NEW Names, NEW schema \in [Names -> {r \in Relation : WellFormed(r)}],
           NEW refs, \A e \in refs : e[2] \in Names,
           NEW alive, NEW root
    PROVE  DeclarationsAreSafe(schema, refs, alive, root)
<1> SUFFICES ASSUME Accepted(schema)
             PROVE  /\ ~Raises(schema)
                    /\ DeclaredBlockers(schema, refs, alive, root) = {} =>
                          LET cascade == DeclaredCascade(schema, refs, alive, root)
                          IN  \A e \in refs : e[3] \in cascade /\ ~schema[e[2]].owned
                                               => e[1] \notin alive \ cascade
  BY DEF DeclarationsAreSafe
<1>1. \A r \in Names : /\ schema[r].onDelete # "SET_NULL"
                       /\ schema[r].owned \/ schema[r].cascades \/ schema[r].blocks
                                          \/ schema[r].onDelete = "PROTECT"
  BY AcceptedRelations DEF Accepted
<1>2. ~Raises(schema)
  BY <1>1 DEF Raises
<1> DEFINE cascade == DeclaredCascade(schema, refs, alive, root)
<1>3. ASSUME DeclaredBlockers(schema, refs, alive, root) = {},
             NEW e \in refs, e[3] \in cascade, ~schema[e[2]].owned, e[1] \in alive, e[1] \notin cascade
      PROVE  FALSE
  <2>1. ~schema[e[2]].cascades
    BY <1>3, CascadeIsClosed DEF ClosedUnderCascade
  <2>2. schema[e[2]].blocks \/ (schema[e[2]].onDelete = "PROTECT" /\ ~schema[e[2]].owned)
    BY <1>1, <1>3, <2>1
  <2> HIDE DEF cascade
  <2>3. e \in DeclaredBlockers(schema, refs, alive, root)
    BY <1>3, <2>2 DEF DeclaredBlockers, cascade
  <2> QED
    BY <1>3, <2>3
<1> QED
  BY <1>2, <1>3

-----------------------------------------------------------------------------
(* The rules over relationship rows (RelationshipRules).                   *)

ClosedIn(S, edges) == \A e \in edges : e[1] \in S => e[2] \in S

\* What is above a node is the least closed set with it.
LEMMA AboveIsLeast ==
    ASSUME NEW edges, NEW n
    PROVE  /\ n \in Rules!Above(edges, n)
           /\ ClosedIn(Rules!Above(edges, n), edges)
           /\ \A S : n \in S /\ ClosedIn(S, edges) => Rules!Above(edges, n) \subseteq S
<1> DEFINE within == {n} \cup {e[2] : e \in edges}
           up == Rules!Above(edges, n)
<1>1. \A m : m \in up <=> /\ m \in within
                          /\ \A S \in SUBSET within : n \in S /\ ClosedIn(S, edges) => m \in S
  BY DEF Rules!Above, ClosedIn
<1>2. n \in within /\ \A e \in edges : e[2] \in within
  OBVIOUS
<1> HIDE DEF within, up
<1>3. n \in up
  BY <1>1, <1>2
<1>4. ASSUME NEW e \in edges, e[1] \in up PROVE e[2] \in up
  BY <1>1, <1>2, <1>4 DEF ClosedIn
<1>5. ASSUME NEW S, n \in S, ClosedIn(S, edges), NEW m \in up PROVE m \in S
  <2>1. n \in S \cap within /\ ClosedIn(S \cap within, edges)
    BY <1>2, <1>5 DEF ClosedIn
  <2> QED
    BY <1>1, <2>1, <1>5
<1> QED
  BY <1>3, <1>4, <1>5 DEF up, ClosedIn

NoCycle(edges) == \A e \in edges : e[1] \notin Rules!Above(edges, e[2])

\* Edges that close no cycle, over the old ones and each other, make none: a
\* way back from an old edge goes through a new one, whose end is then above
\* its own start.
LEMMA NoNewCycle ==
    ASSUME NEW old, NEW new, NoCycle(old),
           \A e \in new : e[1] \notin Rules!Above(old \cup new, e[2])
    PROVE  NoCycle(old \cup new)
<1> DEFINE all == old \cup new
<1> SUFFICES ASSUME NEW e \in old, e[1] \in Rules!Above(all, e[2]) PROVE FALSE
  BY DEF NoCycle
<1>1. PICK up : up = [x \in {f[2] : f \in all} |-> Rules!Above(all, x)]
  OBVIOUS
<1>2. \A f \in all : up[f[2]] = Rules!Above(all, f[2])
  BY <1>1
<1>3. \A f \in all : /\ f[2] \in up[f[2]] /\ ClosedIn(up[f[2]], all)
                     /\ \A S : f[2] \in S /\ ClosedIn(S, all) => up[f[2]] \subseteq S
  <2> SUFFICES ASSUME NEW f \in all
               PROVE  /\ f[2] \in up[f[2]] /\ ClosedIn(up[f[2]], all)
                      /\ \A S : f[2] \in S /\ ClosedIn(S, all) => up[f[2]] \subseteq S
    OBVIOUS
  <2>1. PICK x : x = f[2]
    OBVIOUS
  <2>2. up[x] = Rules!Above(all, x)
    BY <1>2, <2>1
  <2> HIDE DEF all
  <2>3. /\ x \in Rules!Above(all, x) /\ ClosedIn(Rules!Above(all, x), all)
        /\ \A S : x \in S /\ ClosedIn(S, all) => Rules!Above(all, x) \subseteq S
    BY AboveIsLeast
  <2> QED
    BY <2>1, <2>2, <2>3
<1>4. PICK low : low = Rules!Above(old, e[2])
  OBVIOUS
<1>5. e[2] \in low /\ ClosedIn(low, old) /\ e[1] \notin low
  BY <1>4, AboveIsLeast DEF NoCycle
<1>6. low \subseteq up[e[2]]
  BY <1>3, <1>4, AboveIsLeast DEF ClosedIn
<1> DEFINE beyond == UNION {up[f[2]] : f \in {g \in new : g[1] \in low}}
<1>7. e[2] \in low \cup beyond
  BY <1>5
<1>8. ClosedIn(low \cup beyond, all)
  <2>1. ASSUME NEW f \in all, f[1] \in low PROVE f[2] \in low \cup beyond
    <3>1. CASE f \in old
      BY <1>5, <2>1, <3>1 DEF ClosedIn
    <3>2. CASE f \in new
      BY <1>3, <2>1, <3>2
    <3> QED
      BY <3>1, <3>2
  <2>2. ASSUME NEW f \in all, f[1] \in beyond PROVE f[2] \in beyond
    <3>1. PICK g \in new : g[1] \in low /\ f[1] \in up[g[2]]
      BY <2>2
    <3>2. f[2] \in up[g[2]]
      BY <1>3, <3>1 DEF ClosedIn
    <3> QED
      BY <3>1, <3>2
  <2> QED
    BY <2>1, <2>2 DEF ClosedIn
<1>9. e[1] \in low \cup beyond
  BY <1>2, <1>3, <1>7, <1>8
<1>10. PICK g \in new : g[1] \in low /\ e[1] \in up[g[2]]
  BY <1>5, <1>9
<1>11. e[2] \in up[g[2]]
  BY <1>3, <1>10 DEF ClosedIn
<1>12. g[1] \in up[g[2]]
  BY <1>3, <1>6, <1>10, <1>11
<1> QED
  BY <1>2, <1>10, <1>12

\* Fewer edges close no more cycles.
LEMMA FewerEdges ==
    ASSUME NEW edges, NEW less, less \subseteq edges, NoCycle(edges)
    PROVE  NoCycle(less)
<1> SUFFICES ASSUME NEW e \in less, e[1] \in Rules!Above(less, e[2]) PROVE FALSE
  BY DEF NoCycle
<1>1. PICK up : up = Rules!Above(edges, e[2])
  OBVIOUS
<1>2. e[2] \in up /\ ClosedIn(up, less) /\ e[1] \notin up
  BY <1>1, AboveIsLeast DEF ClosedIn, NoCycle
<1>3. PICK x : x = e[2]
  OBVIOUS
<1>4. Rules!Above(less, x) \subseteq up
  BY <1>2, <1>3, AboveIsLeast
<1> QED
  BY <1>2, <1>3, <1>4


-----------------------------------------------------------------------------
(* The two rules over relationship rows, for any graph, users and bounds.  *)

OneClaim == [who : Rules!Editors \cup {Rules!Source}, subject : Rules!Nodes, member : Rules!Targets,
             present : BOOLEAN, active : BOOLEAN, retracted : BOOLEAN]

\* No active claim is one a revert took back
LogIsTyped ==
    /\ ruleLog \in Seq(OneClaim)
    /\ \A i \in DOMAIN ruleLog : ruleLog[i].active => ~ruleLog[i].retracted

\* An author has one active claim of a slot
OneActive ==
    \A i, j \in DOMAIN ruleLog :
       /\ ruleLog[i].active /\ ruleLog[j].active /\ ruleLog[i].who = ruleLog[j].who
       /\ ruleLog[i].subject = ruleLog[j].subject /\ ruleLog[i].member = ruleLog[j].member
       => i = j

\* What an editor's save of a list of members writes
Difference(shown, s, members) ==
    LET current == {m \in Rules!Targets : <<s, m>> \in shown}
    IN  {<<<<s, m>>, TRUE>> : m \in members \ current} \cup {<<<<s, m>>, FALSE>> : m \in current \ members}

\* A set of claims says one thing of a slot at most
OneEach(claimed) ==
    /\ claimed \subseteq Rules!Edges \X BOOLEAN
    /\ \A e : ~(<<e, TRUE>> \in claimed /\ <<e, FALSE>> \in claimed)

\* When nobody writes between a page load and its save, the one edit under way
\* was checked on the rows as they are
EditIsFresh(edit) ==
    \E s \in Rules!Nodes, members \in SUBSET Rules!Targets :
       /\ edit.claims = Difference(Rules!Rows, s, members)
       /\ Rules!EditorAllows(s, members)

EditsArePlanned ==
    /\ ruleForm = [w \in Rules!Workers |-> ruleForm[w]]
    /\ \A w \in Rules!Workers : ruleForm[w] # None =>
          /\ ruleForm[w].who \in Rules!Editors /\ OneEach(ruleForm[w].claims)
          /\ ~Rules!Interleaved => EditIsFresh(ruleForm[w])
    /\ ~Rules!Interleaved => \A v, w \in Rules!Workers : ruleForm[v] # None /\ ruleForm[w] # None => v = w

RulesInv == graph \in Graphs /\ LogIsTyped /\ OneActive /\ EditsArePlanned

-----------------------------------------------------------------------------
\* How a step's new claims follow the old log
Appends(who, new, k, order) ==
    /\ \A c \in new : \E i \in 1 .. k : order[i] = c
    /\ \A i, j \in 1 .. k : order[i] = order[j] => i = j
    /\ ruleLog' =
          [i \in 1 .. Len(ruleLog) + k |->
             IF i > Len(ruleLog)
             THEN [who |-> who, subject |-> order[i - Len(ruleLog)][1][1],
                   member |-> order[i - Len(ruleLog)][1][2],
                   present |-> order[i - Len(ruleLog)][2], active |-> TRUE, retracted |-> FALSE]
             ELSE IF ruleLog[i].who = who /\ (\E c \in new : c[1] = Rules!Slot(i))
                  THEN [ruleLog[i] EXCEPT !.active = FALSE]
                  ELSE ruleLog[i]]

LEMMA AddsAreOneEach ==
    ASSUME NEW adds \in SUBSET Rules!Edges
    PROVE  OneEach({<<e, TRUE>> : e \in adds})
<1>1. {<<e, TRUE>> : e \in adds} \subseteq Rules!Edges \X BOOLEAN
  <2> SUFFICES ASSUME NEW e \in adds PROVE <<e, TRUE>> \in Rules!Edges \X BOOLEAN
    BY Zenon
  <2> QED
    BY Zenon
<1>2. \A e : <<e, FALSE>> \notin {<<d, TRUE>> : d \in adds}
  OBVIOUS
<1> QED
  BY <1>1, <1>2, Zenon DEF OneEach

LEMMA DifferenceIsOneEach ==
    ASSUME NEW shown, NEW s \in Rules!Nodes, NEW members \in SUBSET Rules!Targets
    PROVE  /\ OneEach(Difference(shown, s, members))
           /\ \A e : <<e, TRUE>> \in Difference(shown, s, members) => e \in {s} \X members
<1> DEFINE current == {m \in Rules!Targets : <<s, m>> \in shown}
           adds == {<<<<s, m>>, TRUE>> : m \in members \ current}
           drops == {<<<<s, m>>, FALSE>> : m \in current \ members}
<1>1. adds \subseteq Rules!Edges \X BOOLEAN /\ drops \subseteq Rules!Edges \X BOOLEAN
  <2>1. \A m \in Rules!Targets : <<s, m>> \in Rules!Edges
    BY DEF Rules!Edges
  <2>2. ASSUME NEW m \in Rules!Targets
        PROVE  <<<<s, m>>, TRUE>> \in Rules!Edges \X BOOLEAN /\ <<<<s, m>>, FALSE>> \in Rules!Edges \X BOOLEAN
    BY <2>1, Zenon
  <2> QED
    BY <2>2, Zenon
<1>2. \A e : <<e, TRUE>> \notin drops
  OBVIOUS
<1>3. \A e : <<e, FALSE>> \notin adds
  OBVIOUS
<1>4. \A e : <<e, TRUE>> \in adds => e \in {s} \X members /\ e \notin shown
  <2> SUFFICES ASSUME NEW e, <<e, TRUE>> \in adds PROVE e \in {s} \X members /\ e \notin shown
    OBVIOUS
  <2>1. PICK m \in members \ current : e = <<s, m>>
    OBVIOUS
  <2> QED
    BY <2>1
<1>5. \A e : <<e, FALSE>> \in drops => e \in shown
  OBVIOUS
<1>6. Difference(shown, s, members) = adds \cup drops
  BY DEF Difference
<1> HIDE DEF adds, drops
<1> QED
  BY <1>1, <1>2, <1>3, <1>4, <1>5, <1>6 DEF OneEach

\* What a step's new claims are, in some order, after the old log.
LEMMA AssertedLog ==
    ASSUME RulesInv, NEW who, NEW new, OneEach(new), ruleLog' = Rules!Asserted(who, new)
    PROVE  \E k \in Nat : \E order \in [1 .. k -> new] : Appends(who, new, k, order)
<1>1. IsFiniteSet(Rules!Nodes) /\ IsFiniteSet(Rules!Targets)
  <2>1. \A g \in Graphs : IsFiniteSet(g.nodes) /\ IsFiniteSet(g.targets)
    BY RulesAssumption, Zenon DEF Rules!GraphsAssumption, Rules!IsFiniteSet, IsFiniteSet
  <2> QED
    BY <2>1 DEF RulesInv, Rules!Nodes, Rules!Targets
<1>2. IsFiniteSet(Rules!Edges)
  BY <1>1, FS_Product DEF Rules!Edges
<1>3. IsFiniteSet(BOOLEAN)
  <2>1. IsFiniteSet({TRUE} \cup {FALSE})
    BY FS_Singleton, FS_AddElement, Zenon
  <2>2. BOOLEAN = {TRUE} \cup {FALSE}
    OBVIOUS
  <2> QED
    BY <2>1, <2>2, Zenon
<1>4. IsFiniteSet(Rules!Edges \X BOOLEAN)
  BY <1>2, <1>3, FS_Product
<1>5. IsFiniteSet(new)
  BY <1>4, FS_Subset DEF OneEach
<1>6. PICK k : k = Cardinality(new) /\ k \in Nat
  BY <1>5, FS_CardinalityType
<1>7. ExistsBijection(1 .. k, new)
  BY <1>5, <1>6, FS_CardinalityType
<1> DEFINE onto(f) == \A c \in new : \E i \in DOMAIN f : f[i] = c
<1>8. \E f \in [1 .. k -> new] : onto(f)
  BY <1>7 DEF ExistsBijection, Bijection, Injection, Surjection
<1>9. PICK order : order = CHOOSE f \in [1 .. k -> new] : onto(f)
  OBVIOUS
<1>10. order \in [1 .. k -> new] /\ onto(order)
  BY <1>8, <1>9
<1>11. Cardinality(1 .. k) = k /\ IsFiniteSet(1 .. k)
  BY <1>6, FS_Interval
<1>12. order \in Surjection(1 .. k, new)
  BY <1>10 DEF Surjection
<1>13. order \in Injection(1 .. k, new)
  BY <1>6, <1>11, <1>12, FS_Surjection
<1>14. \A i, j \in 1 .. k : order[i] = order[j] => i = j
  BY <1>10, <1>13 DEF Injection, IsInjective
<1>16. Rules!Cardinality(new) = k
  BY <1>6 DEF Cardinality, Rules!Cardinality
<1>15. \A c \in new : \E i \in 1 .. k : order[i] = c
  BY <1>10
<1>17. Appends(who, new, k, order)
  BY <1>16, <1>9, <1>14, <1>15 DEF Rules!Asserted, Appends
<1> QED
  BY <1>6, <1>10, <1>17, Zenon

\* What is claimed of a slot by a user is what its row shows then; a slot
\* nothing is claimed of shows what it did.
LEMMA AssertedRows ==
    ASSUME RulesInv, NEW who \in Rules!Editors \cup {Rules!Source}, NEW new, OneEach(new),
           ruleLog' = Rules!Asserted(who, new), graph' = graph
    PROVE  /\ LogIsTyped' /\ OneActive'
           /\ \A e \in Rules!Edges : <<e, TRUE>> \notin new /\ <<e, FALSE>> \notin new
                 => (e \in Rules!Rows' <=> e \in Rules!Rows)
           /\ who \in Rules!Editors => \A e \in Rules!Edges : <<e, TRUE>> \in new => e \in Rules!Rows'
           /\ who \in Rules!Editors => \A e \in Rules!Edges : <<e, FALSE>> \in new => e \notin Rules!Rows'
<1> DEFINE n == Len(ruleLog)
<1>1. PICK k \in Nat : \E order \in [1 .. k -> new] : Appends(who, new, k, order)
  BY AssertedLog
<1>2. PICK order \in [1 .. k -> new] : Appends(who, new, k, order)
  BY <1>1
<1>3. n \in Nat /\ DOMAIN ruleLog = 1 .. n /\ \A i \in 1 .. n : ruleLog[i] \in OneClaim
  BY DEF RulesInv, LogIsTyped
<1>4. \A c \in new : c = <<c[1], c[2]>> /\ c[1] \in Rules!Edges /\ c[2] \in BOOLEAN /\ c[1] = <<c[1][1], c[1][2]>>
                     /\ c[1][1] \in Rules!Nodes /\ c[1][2] \in Rules!Targets
  BY DEF OneEach, Rules!Edges
<1>5. \A c, d \in new : c[1] = d[1] => c = d
  <2> SUFFICES ASSUME NEW c \in new, NEW d \in new, c[1] = d[1] PROVE c = d
    OBVIOUS
  <2>1. CASE c[2] = TRUE /\ d[2] = FALSE
    <3>1. c = <<c[1], TRUE>> /\ d = <<c[1], FALSE>>
      BY <1>4, <2>1, Zenon
    <3> QED
      BY <3>1, Zenon DEF OneEach
  <2>2. CASE c[2] = FALSE /\ d[2] = TRUE
    <3>1. d = <<d[1], TRUE>> /\ c = <<d[1], FALSE>>
      BY <1>4, <2>2, Zenon
    <3> QED
      BY <3>1, Zenon DEF OneEach
  <2>3. CASE c[2] = d[2]
    BY <1>4, <2>3
  <2>4. c[2] \in BOOLEAN /\ d[2] \in BOOLEAN
    BY <1>4
  <2> QED
    BY <2>1, <2>2, <2>3, <2>4
<1> DEFINE fresh(i) == [who |-> who, subject |-> order[i - n][1][1], member |-> order[i - n][1][2],
                        present |-> order[i - n][2], active |-> TRUE, retracted |-> FALSE]
           taken(i) == ruleLog[i].who = who /\ \E c \in new : c[1] = Rules!Slot(i)
<1>6. /\ DOMAIN ruleLog' = 1 .. n + k
      /\ \A i \in 1 .. n : ruleLog'[i] = IF taken(i) THEN [ruleLog[i] EXCEPT !.active = FALSE] ELSE ruleLog[i]
      /\ \A i \in 1 .. n + k : i > n => ruleLog'[i] = fresh(i) /\ order[i - n] \in new
  BY <1>2, <1>3 DEF Appends
<1>7. \A i \in 1 .. n + k : i > n => fresh(i) \in OneClaim
  BY <1>4, <1>6 DEF OneClaim
<1>8. \A i \in 1 .. n + k : ruleLog'[i] \in OneClaim /\ (ruleLog'[i].active => ~ruleLog'[i].retracted)
  <2> SUFFICES ASSUME NEW i \in 1 .. n + k
               PROVE  ruleLog'[i] \in OneClaim /\ (ruleLog'[i].active => ~ruleLog'[i].retracted)
    OBVIOUS
  <2>1. CASE i > n
    BY <1>6, <1>7, <2>1
  <2>2. CASE i \in 1 .. n
    BY <1>3, <1>6, <2>2, ZenonT(60) DEF OneClaim, RulesInv, LogIsTyped
  <2> QED
    BY <1>3, <2>1, <2>2
<1>9. LogIsTyped'
  <2>1. ruleLog' \in Seq(OneClaim)
    <3>1. ruleLog' = [i \in 1 .. n + k |-> ruleLog'[i]] /\ n + k \in Nat
      BY <1>2, <1>3, <1>6 DEF Appends
    <3> QED
      BY <1>8, <3>1
  <2>2. OneClaim' = OneClaim
    BY DEF OneClaim, Rules!Editors, Rules!Source, Rules!Nodes, Rules!Targets
  <2> QED
    BY <1>6, <1>8, <2>1, <2>2 DEF LogIsTyped
<1>10. DOMAIN ruleLog' = 1 .. n + k /\ Rules!Claims = 1 .. n /\ Rules!Claims' = 1 .. n + k
  BY <1>3, <1>6 DEF Rules!Claims
\* An old claim stands as it did unless its author claims the slot again
<1>11. \A i \in 1 .. n : /\ ruleLog'[i].who = ruleLog[i].who /\ ruleLog'[i].subject = ruleLog[i].subject
                         /\ ruleLog'[i].member = ruleLog[i].member
                         /\ ruleLog'[i].present <=> ruleLog[i].present
                         /\ ruleLog'[i].active <=> ruleLog[i].active /\ ~taken(i)
  <2> SUFFICES ASSUME NEW i \in 1 .. n
               PROVE  /\ ruleLog'[i].who = ruleLog[i].who /\ ruleLog'[i].subject = ruleLog[i].subject
                      /\ ruleLog'[i].member = ruleLog[i].member
                      /\ ruleLog'[i].present <=> ruleLog[i].present
                      /\ ruleLog'[i].active <=> ruleLog[i].active /\ ~taken(i)
    OBVIOUS
  <2>1. CASE taken(i)
    BY <1>3, <1>6, <2>1 DEF OneClaim
  <2>2. CASE ~taken(i)
    BY <1>3, <1>6, <2>2
  <2> QED
    BY <2>1, <2>2
<1>12. \A i \in 1 .. n + k : i > n => /\ <<ruleLog'[i].subject, ruleLog'[i].member>> = order[i - n][1]
                                      /\ ruleLog'[i].present = order[i - n][2]
                                      /\ ruleLog'[i].who = who /\ ruleLog'[i].active
  BY <1>4, <1>6
<1> DEFINE slot(i) == <<ruleLog'[i].subject, ruleLog'[i].member>>
<1>13. /\ \A i \in 1 .. n : Rules!Slot(i)' = Rules!Slot(i) /\ slot(i) = Rules!Slot(i)
       /\ \A i \in 1 .. n + k : Rules!Slot(i)' = slot(i)
  BY <1>11 DEF Rules!Slot
<1> HIDE DEF fresh, taken, slot
<1>14. Rules!Source' = Rules!Source /\ Rules!Edges' = Rules!Edges
  BY DEF Rules!Source, Rules!Edges, Rules!Nodes, Rules!Targets
<1> DEFINE rank(i) == IF ruleLog'[i].who = Rules!Source THEN 0 ELSE 1
           beats(i, j) == rank(i) > rank(j) \/ (rank(i) = rank(j) /\ i > j)
<1>15. /\ \A i, j : Rules!Beats(i, j)' <=> beats(i, j)
       /\ \A i, j \in 1 .. n : Rules!Beats(i, j) <=> beats(i, j)
  BY <1>11, <1>14 DEF Rules!Beats, Rules!Rank
<1>16. \A e : e \in Rules!Rows <=>
          /\ e \in Rules!Edges
          /\ \E i \in 1 .. n : /\ Rules!Slot(i) = e /\ ruleLog[i].active /\ ruleLog[i].present
                               /\ \A j \in 1 .. n : Rules!Slot(j) = e /\ ruleLog[j].active => i = j \/ Rules!Beats(i, j)
  BY <1>10 DEF Rules!Rows, Rules!Winning
<1>17. \A e : e \in Rules!Rows' <=>
          /\ e \in Rules!Edges
          /\ \E i \in 1 .. n + k : /\ slot(i) = e /\ ruleLog'[i].active /\ ruleLog'[i].present
                                   /\ \A j \in 1 .. n + k : slot(j) = e /\ ruleLog'[j].active => i = j \/ beats(i, j)
  BY <1>10, <1>13, <1>14, <1>15 DEF Rules!Rows, Rules!Winning
<1> HIDE DEF beats
<1>18. ASSUME NEW e \in Rules!Edges, <<e, TRUE>> \notin new, <<e, FALSE>> \notin new
       PROVE  e \in Rules!Rows' <=> e \in Rules!Rows
  <2>1. \A c \in new : c[1] # e
    BY <1>4, <1>18, Zenon
  <2>2. \A i \in 1 .. n + k : slot(i) = e => i \in 1 .. n
    <3> SUFFICES ASSUME NEW i \in 1 .. n + k, slot(i) = e, i > n PROVE FALSE
      BY <1>3
    <3>1. order[i - n] \in new /\ order[i - n][1] = e
      BY <1>6, <1>12 DEF slot
    <3> QED
      BY <2>1, <3>1
  <2>3. \A i \in 1 .. n : Rules!Slot(i) = e => ~taken(i)
    BY <2>1 DEF taken
  <2>4. \A i \in 1 .. n + k : slot(i) = e /\ ruleLog'[i].active <=>
                              i \in 1 .. n /\ Rules!Slot(i) = e /\ ruleLog[i].active
    BY <1>3, <1>11, <1>13, <2>2, <2>3
  <2>5. \A i \in 1 .. n : i \in 1 .. n + k
    BY <1>3
  <2> QED
    <3>1. ASSUME NEW i \in 1 .. n, Rules!Slot(i) = e, ruleLog[i].active
          PROVE  /\ i \in 1 .. n + k /\ slot(i) = e /\ ruleLog'[i].active
                 /\ ruleLog'[i].present <=> ruleLog[i].present
                 /\ (\A j \in 1 .. n : Rules!Slot(j) = e /\ ruleLog[j].active => i = j \/ Rules!Beats(i, j)) <=>
                    (\A j \in 1 .. n + k : slot(j) = e /\ ruleLog'[j].active => i = j \/ beats(i, j))
      BY <1>11, <1>15, <2>4, <2>5, <3>1, Zenon
    <3>2. ASSUME e \in Rules!Rows PROVE e \in Rules!Rows'
      BY <1>16, <1>17, <3>1, <3>2, Zenon
    <3>3. ASSUME e \in Rules!Rows' PROVE e \in Rules!Rows
      BY <1>16, <1>17, <2>4, <3>1, <3>3, Zenon
    <3> QED
      BY <3>2, <3>3
<1>19. ASSUME who \in Rules!Editors, NEW c \in new
       PROVE  c[1] \in Rules!Rows' <=> c[2]
  <2>1. PICK h \in 1 .. k : order[h] = c
    BY <1>2 DEF Appends
  <2>2. PICK i \in 1 .. n + k : i = n + h /\ i > n /\ i - n = h
    BY <1>3, <2>1
  <2>3. slot(i) = c[1] /\ ruleLog'[i].active /\ ruleLog'[i].present = c[2] /\ ruleLog'[i].who = who
    BY <1>12, <2>1, <2>2 DEF slot
  <2>4. rank(i) = 1 /\ \A j : rank(j) \in {0, 1}
    <3>1. who # Rules!Source
      BY <1>19, RulesAssumption DEF RulesInv, Rules!GraphsAssumption, Rules!Editors, Rules!Source
    <3> QED
      BY <2>3, <3>1
  <2>5. \A j \in 1 .. n + k : slot(j) = c[1] /\ ruleLog'[j].active => i = j \/ i > j
    <3> SUFFICES ASSUME NEW j \in 1 .. n + k, slot(j) = c[1], j > n PROVE i = j
      BY <1>3, <2>2
    <3>1. order[j - n] \in new /\ order[j - n][1] = c[1] /\ j - n \in 1 .. k
      BY <1>3, <1>6, <1>12 DEF slot
    <3>2. order[j - n] = order[h]
      BY <1>5, <2>1, <3>1
    <3>3. j - n = h
      BY <1>2, <2>1, <3>1, <3>2 DEF Appends
    <3> QED
      BY <1>3, <2>2, <3>3
  <2>6. \A j \in 1 .. n + k : slot(j) = c[1] /\ ruleLog'[j].active => i = j \/ (beats(i, j) /\ ~beats(j, i))
    BY <1>3, <2>4, <2>5 DEF beats
  <2> QED
    BY <1>4, <1>17, <2>3, <2>6
<1>20. OneActive'
  <2> SUFFICES ASSUME NEW i \in 1 .. n + k, NEW j \in 1 .. n + k,
                      ruleLog'[i].active, ruleLog'[j].active, ruleLog'[i].who = ruleLog'[j].who, slot(i) = slot(j)
               PROVE  i = j
    BY <1>10 DEF OneActive, slot
  <2>1. CASE i \in 1 .. n /\ j \in 1 .. n
    BY <1>3, <1>11, <2>1 DEF slot, RulesInv, OneActive
  <2>2. CASE i > n /\ j > n
    <3>1. order[i - n][1] = order[j - n][1] /\ order[i - n] \in new /\ order[j - n] \in new
      BY <1>6, <1>12, <2>2, SMTT(60) DEF slot
    <3>2. order[i - n] = order[j - n] /\ i - n \in 1 .. k /\ j - n \in 1 .. k
      BY <1>3, <1>5, <2>2, <3>1
    <3>3. i - n = j - n
      BY <1>2, <3>2 DEF Appends
    <3> QED
      BY <1>3, <3>3
  <2>3. \A x \in 1 .. n, y \in 1 .. n + k : y > n /\ slot(x) = slot(y) /\ ruleLog'[x].who = who => ~ruleLog'[x].active
    <3> SUFFICES ASSUME NEW x \in 1 .. n, NEW y \in 1 .. n + k, y > n, slot(x) = slot(y), ruleLog'[x].who = who
                 PROVE  ~ruleLog'[x].active
      OBVIOUS
    <3>1. order[y - n] \in new /\ order[y - n][1] = slot(y)
      BY <1>6, <1>12 DEF slot
    <3>3. slot(x) = Rules!Slot(x)
      BY <1>13
    <3>2. taken(x)
      BY <1>11, <3>1, <3>3 DEF taken
    <3> QED
      BY <1>11, <3>2
  <2> QED
    BY <1>3, <1>12, <2>1, <2>2, <2>3
<1> QED
  BY <1>9, <1>18, <1>19, <1>20

-----------------------------------------------------------------------------
\* Any rows: they have no cycle, or no market with a country and the label
Fine(shown) ==
    IF Rules!Hierarchy THEN NoCycle(shown)
    ELSE \A e, d \in shown : e[1] = d[1] /\ e[2] = Rules!Label => d[2] = Rules!Label

LEMMA FineIsRule ==
    ASSUME graph' = graph
    PROVE  /\ Rules!Rule <=> Fine(Rules!Rows)
           /\ Rules!Rule' <=> Fine(Rules!Rows')
<1> USE DEF Rules!Rule, Fine, NoCycle, Rules!Acyclic, Rules!Unmixed, Rules!Reaches
<1>1. Rules!Rule <=> Fine(Rules!Rows)
  OBVIOUS
<1>2. Rules!Rule' <=> Fine(Rules!Rows')
  BY DEF Rules!Hierarchy, Rules!Label
<1> QED
  BY <1>1, <1>2

\* What is fine stays so with fewer rows.
LEMMA FewerAreFine ==
    ASSUME NEW shown, NEW less, less \subseteq shown, Fine(shown)
    PROVE  Fine(less)
<1>1. CASE Rules!Hierarchy
  BY <1>1, FewerEdges DEF Fine
<1>2. CASE ~Rules!Hierarchy
  BY <1>2 DEF Fine
<1> QED
  BY <1>1, <1>2

\* The rows of a saved list are fine when the rest of the rows is.
LEMMA SavedListIsFine ==
    ASSUME NEW s \in Rules!Nodes, NEW members \in SUBSET Rules!Targets,
           Rules!EditorAllows(s, members), Fine(Rules!Rows)
    PROVE  Fine({e \in Rules!Rows : e[1] # s} \cup ({s} \X members))
<1> DEFINE others == {e \in Rules!Rows : e[1] # s}
           mine == {s} \X members
<1>1. Fine(others)
  BY FewerAreFine
<1>2. CASE Rules!Hierarchy
  <2>1. s \notin members /\ \A m \in members : s \notin Rules!Above(others, m)
    BY <1>2 DEF Rules!EditorAllows, Rules!ParentsAllowed, Rules!Reaches
  <2>2. \A e \in others : e[1] # s
    OBVIOUS
  <2>3. \A e \in mine : e[1] = s /\ e[2] \in members
    OBVIOUS
  <2> HIDE DEF others, mine
  <2>4. ASSUME NEW e \in mine PROVE e[1] \notin Rules!Above(others \cup mine, e[2])
    <3>1. PICK m \in members : m = e[2]
      BY <2>3
    <3>2. PICK up : up = Rules!Above(others, m)
      OBVIOUS
    <3>3. m \in up /\ ClosedIn(up, others) /\ s \notin up
      BY <2>1, <3>1, <3>2, AboveIsLeast
    <3>4. ClosedIn(up, others \cup mine)
      BY <2>3, <3>3 DEF ClosedIn
    <3>5. Rules!Above(others \cup mine, m) \subseteq up
      BY <3>3, <3>4, AboveIsLeast
    <3> QED
      BY <2>3, <3>1, <3>3, <3>5
  <2>5. NoCycle(others)
    BY <1>1, <1>2 DEF Fine
  <2> QED
    BY <1>2, <2>4, <2>5, NoNewCycle DEF Fine, others, mine
<1>3. CASE ~Rules!Hierarchy
  <2>1. <<s, Rules!Label>> \in {s} \X members =>
           \A m \in Rules!Targets : <<s, m>> \in {s} \X members => m = Rules!Label
    BY <1>3 DEF Rules!EditorAllows, Rules!MarketsAllowed, Rules!LoneLabel
  <2>2. Rules!Label \in members => \A m \in members : m = Rules!Label
    BY <2>1
  <2> QED
    BY <1>1, <1>3, <2>2 DEF Fine
<1> QED
  BY <1>2, <1>3

\* So are the rows with what a patch adds.
LEMMA PatchedRowsAreFine ==
    ASSUME NEW adds \in SUBSET Rules!Edges, Rules!PatchAllows(adds), Rules!FollowsTheGuide(adds),
           Fine(Rules!Rows)
    PROVE  Fine(Rules!Rows \cup adds)
<1>1. CASE Rules!Hierarchy
  BY <1>1, NoNewCycle DEF Fine, Rules!PatchAllows, Rules!PatchKeepsAcyclic, Rules!Reaches
<1>2. CASE ~Rules!Hierarchy
  <2>1. \A e \in adds : e = <<e[1], e[2]>> /\ e[1] \in Rules!Nodes /\ e[2] \in Rules!Targets
    BY DEF Rules!Edges
  <2>2. \A e, d \in adds : e[1] = d[1] /\ e[2] = Rules!Label => d[2] = Rules!Label
    <3> SUFFICES ASSUME NEW e \in adds, NEW d \in adds, e[1] = d[1], e[2] = Rules!Label
                 PROVE  d[2] = Rules!Label
      OBVIOUS
    <3>1. <<e[1], Rules!Label>> \in adds /\ <<e[1], d[2]>> \in adds
      BY <2>1
    <3> QED
      BY <1>2, <2>1, <3>1 DEF Rules!PatchAllows, Rules!LoneLabel
  <2>3. \A e \in Rules!Rows, d \in adds : e[1] = d[1] => (e[2] = Rules!Label <=> d[2] = Rules!Label)
    BY <1>2 DEF Rules!FollowsTheGuide
  <2> QED
    BY <1>2, <2>2, <2>3 DEF Fine
<1> QED
  BY <1>1, <1>2

\* A save by a user, of what was checked on the rows as they are, and a patch
\* leave the rows fine.
LEMMA SaveKeepsRule ==
    ASSUME RulesInv, NEW w \in Rules!Workers, Rules!Save(w), ~Rules!Interleaved, Fine(Rules!Rows)
    PROVE  Fine(Rules!Rows')
<1>1. PICK edit : edit = ruleForm[w] /\ edit # None
  BY DEF Rules!Save
<1>2. /\ edit.who \in Rules!Editors /\ OneEach(edit.claims) /\ EditIsFresh(edit)
      /\ ruleLog' = Rules!Asserted(edit.who, edit.claims) /\ graph' = graph
  BY <1>1 DEF RulesInv, EditsArePlanned, Rules!Save
<1>3. PICK s \in Rules!Nodes, members \in SUBSET Rules!Targets :
         edit.claims = Difference(Rules!Rows, s, members) /\ Rules!EditorAllows(s, members)
  BY <1>2 DEF EditIsFresh
<1>4. PICK new, who : new = edit.claims /\ who = edit.who
  OBVIOUS
<1>5. \A e \in Rules!Edges :
         /\ <<e, TRUE>> \notin new /\ <<e, FALSE>> \notin new => (e \in Rules!Rows' <=> e \in Rules!Rows)
         /\ <<e, FALSE>> \in new => e \notin Rules!Rows'
  BY <1>2, <1>4, AssertedRows
<1> DEFINE kept == {e \in Rules!Rows : e[1] # s} \cup ({s} \X members)
<1>6. ASSUME NEW e \in Rules!Rows' PROVE e \in kept
  <2>1. e \in Rules!Edges /\ e = <<e[1], e[2]>> /\ e[2] \in Rules!Targets
    BY <1>2, <1>6 DEF Rules!Rows, Rules!Edges, Rules!Nodes, Rules!Targets
  <2>2. CASE <<e, TRUE>> \in new
    <3>1. <<e, TRUE>> \in Difference(Rules!Rows, s, members)
      BY <1>3, <1>4, <2>2
    <3>2. e \in {s} \X members
      BY <3>1, DifferenceIsOneEach
    <3> QED
      BY <3>2
  <2>3. CASE <<e, TRUE>> \notin new
    <3>1. <<e, FALSE>> \notin new /\ e \in Rules!Rows
      BY <1>5, <1>6, <2>1, <2>3
    <3>2. e[1] = s => e[2] \in members
      BY <1>3, <1>4, <2>1, <3>1 DEF Difference
    <3> QED
      BY <2>1, <3>1, <3>2
  <2> QED
    BY <2>2, <2>3
<1>7. Fine(kept)
  BY <1>3, SavedListIsFine
<1> HIDE DEF kept
<1> QED
  BY <1>6, <1>7, FewerAreFine

LEMMA PatchKeepsRule ==
    ASSUME RulesInv, Rules!Patch, Fine(Rules!Rows)
    PROVE  Fine(Rules!Rows')
<1>1. PICK adds \in SUBSET Rules!Edges :
         /\ Rules!PatchAllows(adds) /\ Rules!FollowsTheGuide(adds)
         /\ ruleLog' = Rules!Asserted(Rules!Source, {<<e, TRUE>> : e \in adds})
  BY DEF Rules!Patch
<1>2. graph' = graph
  BY DEF Rules!Patch
<1>3. PICK new : new = {<<e, TRUE>> : e \in adds}
  OBVIOUS
<1>4. OneEach(new)
  BY <1>3, AddsAreOneEach
<1>5. \A e \in Rules!Edges : <<e, TRUE>> \notin new /\ <<e, FALSE>> \notin new =>
         (e \in Rules!Rows' <=> e \in Rules!Rows)
  BY <1>1, <1>2, <1>3, <1>4, AssertedRows
<1>6. Rules!Rows' \subseteq Rules!Rows \cup adds
  <2> SUFFICES ASSUME NEW e \in Rules!Rows', e \notin adds PROVE e \in Rules!Rows
    OBVIOUS
  <2>1. e \in Rules!Edges
    BY <1>2 DEF Rules!Rows, Rules!Edges, Rules!Nodes, Rules!Targets
  <2> QED
    BY <1>3, <1>5, <2>1
<1> QED
  BY <1>1, <1>6, PatchedRowsAreFine, FewerAreFine

-----------------------------------------------------------------------------
LEMMA RulesStart == ASSUME Rules!Init PROVE RulesInv
<1>1. LogIsTyped
  BY DEF Rules!Init, LogIsTyped
<1>2. EditsArePlanned
  BY DEF Rules!Init, EditsArePlanned
<1>3. OneActive
  BY DEF Rules!Init, OneActive
<1> QED
  BY <1>1, <1>2, <1>3 DEF Rules!Init, RulesInv

LEMMA RulesStep == ASSUME RulesInv, Rules!Next PROVE RulesInv'
<1>1. graph' = graph /\ graph \in Graphs
  BY DEF RulesInv, Rules!Next, Rules!Patch, Rules!Revert, Rules!Plan, Rules!Save
<1> USE DEF Rules!Nodes, Rules!Targets, Rules!Editors, Rules!Source, Rules!Workers, Rules!Interleaved
<1>2. /\ OneClaim' = OneClaim
      /\ \A S : OneEach(S)' <=> OneEach(S)
  BY <1>1 DEF OneClaim, OneEach, Rules!Edges
<1>3. CASE Rules!Patch
  <2>1. PICK adds \in SUBSET Rules!Edges : ruleLog' = Rules!Asserted(Rules!Source, {<<e, TRUE>> : e \in adds})
    BY <1>3 DEF Rules!Patch
  <2>2. PICK new : new = {<<e, TRUE>> : e \in adds}
    OBVIOUS
  <2>3. OneEach(new)
    BY <2>2, AddsAreOneEach
  <2>4. PICK who \in Rules!Editors \cup {Rules!Source} : who = Rules!Source
    OBVIOUS
  <2>5. LogIsTyped' /\ OneActive'
    BY <1>1, <2>1, <2>2, <2>3, <2>4, AssertedRows
  <2>6. ruleForm' = ruleForm /\ (~Rules!Interleaved => \A w \in Rules!Workers : ruleForm[w] = None)
    BY <1>3 DEF Rules!Patch, Rules!Undisturbed
  <2>7. EditsArePlanned'
    BY <1>1, <1>2, <2>6 DEF RulesInv, EditsArePlanned
  <2> QED
    BY <1>1, <2>5, <2>7 DEF RulesInv
<1>4. CASE Rules!Revert
  <2>1. LogIsTyped' /\ OneActive'
    <3>1. PICK i \in Rules!Claims :
             /\ ruleLog[i].active
             /\ ruleLog' = [j \in Rules!Claims |->
                IF j = i THEN [ruleLog[i] EXCEPT !.active = FALSE, !.retracted = TRUE]
                ELSE IF j \in Rules!Predecessors(i) /\ (\A k \in Rules!Predecessors(i) : k <= j)
                     THEN [ruleLog[j] EXCEPT !.active = TRUE]
                     ELSE ruleLog[j]]
      BY <1>4 DEF Rules!Revert
    <3>2. /\ Rules!Claims = 1 .. Len(ruleLog) /\ Len(ruleLog) \in Nat
          /\ \A j \in Rules!Claims : ruleLog[j] \in OneClaim /\ (ruleLog[j].active => ~ruleLog[j].retracted)
      BY DEF RulesInv, LogIsTyped, Rules!Claims
    <3>3. \A j \in Rules!Claims : ruleLog'[j] \in OneClaim /\ (ruleLog'[j].active => ~ruleLog'[j].retracted)
      <4> SUFFICES ASSUME NEW j \in Rules!Claims
                   PROVE  ruleLog'[j] \in OneClaim /\ (ruleLog'[j].active => ~ruleLog'[j].retracted)
        OBVIOUS
      <4>1. \/ ruleLog'[j] = [ruleLog[j] EXCEPT !.active = FALSE, !.retracted = TRUE]
            \/ ruleLog'[j] = [ruleLog[j] EXCEPT !.active = TRUE] /\ ~ruleLog[j].retracted
            \/ ruleLog'[j] = ruleLog[j]
        BY <3>1 DEF Rules!Predecessors
      <4> QED
        BY <3>2, <4>1 DEF OneClaim
    <3>4. ruleLog' = [j \in 1 .. Len(ruleLog) |-> ruleLog'[j]]
      BY <3>1, <3>2
    <3>5. ruleLog' \in Seq(OneClaim) /\ DOMAIN ruleLog' = Rules!Claims
      BY <3>2, <3>3, <3>4
    <3> DEFINE same(j, k) == /\ ruleLog[j].who = ruleLog[k].who /\ ruleLog[j].subject = ruleLog[k].subject
                             /\ ruleLog[j].member = ruleLog[k].member
               back(j) == j \in Rules!Predecessors(i) /\ \A k \in Rules!Predecessors(i) : k <= j
    <3>6. \A j \in Rules!Claims :
             /\ ruleLog'[j].who = ruleLog[j].who /\ ruleLog'[j].subject = ruleLog[j].subject
             /\ ruleLog'[j].member = ruleLog[j].member
             /\ ruleLog'[j].active => j # i /\ (ruleLog[j].active \/ back(j))
      <4> SUFFICES ASSUME NEW j \in Rules!Claims
                   PROVE  /\ ruleLog'[j].who = ruleLog[j].who /\ ruleLog'[j].subject = ruleLog[j].subject
                          /\ ruleLog'[j].member = ruleLog[j].member
                          /\ ruleLog'[j].active => j # i /\ (ruleLog[j].active \/ back(j))
        OBVIOUS
      <4> HIDE DEF back
      <4>1. \/ j = i /\ ruleLog'[j] = [ruleLog[j] EXCEPT !.active = FALSE, !.retracted = TRUE]
            \/ j # i /\ back(j) /\ ruleLog'[j] = [ruleLog[j] EXCEPT !.active = TRUE]
            \/ j # i /\ ruleLog'[j] = ruleLog[j]
        BY <3>1 DEF back
      <4> QED
        BY <3>2, <4>1 DEF OneClaim
    <3>7. \A j \in Rules!Claims : back(j) => same(j, i)
      BY DEF Rules!Predecessors, Rules!Slot
    <3>8. \A j, k \in Rules!Claims : back(j) /\ back(k) => j = k
      BY <3>2
    <3>9. \A j, k \in Rules!Claims : ruleLog[j].active /\ ruleLog[k].active /\ same(j, k) => j = k
      BY <3>2 DEF RulesInv, OneActive, Rules!Claims
    <3> HIDE DEF back
    <3>10. OneActive'
      BY <3>1, <3>5, <3>6, <3>7, <3>8, <3>9 DEF OneActive
    <3> QED
      BY <1>2, <3>3, <3>5, <3>10 DEF LogIsTyped
  <2>2. ruleForm' = ruleForm /\ (~Rules!Interleaved => \A w \in Rules!Workers : ruleForm[w] = None)
    BY <1>4 DEF Rules!Revert, Rules!Undisturbed
  <2>3. EditsArePlanned'
    BY <1>1, <1>2, <2>2 DEF RulesInv, EditsArePlanned
  <2> QED
    BY <1>1, <2>1, <2>3 DEF RulesInv
<1>5. ASSUME NEW w \in Rules!Workers, Rules!Plan(w) PROVE RulesInv'
  <2>1. PICK u \in Rules!Editors, s \in Rules!Nodes, members \in SUBSET Rules!Targets :
           /\ Rules!EditorAllows(s, members)
           /\ ruleForm' = [ruleForm EXCEPT ![w] = [who |-> u, claims |-> Difference(Rules!Rows, s, members)]]
    BY <1>5 DEF Rules!Plan, Difference
  <2>2. PICK edit : edit = [who |-> u, claims |-> Difference(Rules!Rows, s, members)]
    OBVIOUS
  <2>3. edit.who = u /\ edit.claims = Difference(Rules!Rows, s, members)
    BY <2>2
  <2>4. OneEach(edit.claims)
    BY <2>3, DifferenceIsOneEach
  <2>5. ruleLog' = ruleLog
    BY <1>5 DEF Rules!Plan
  <2>6. LogIsTyped' /\ OneActive'
    BY <1>2, <2>5 DEF RulesInv, LogIsTyped, OneActive
  <2>7. EditIsFresh(edit)
    BY <2>1, <2>3 DEF EditIsFresh
  <2>8. \A x : EditIsFresh(x)' <=> EditIsFresh(x)
    <3>1. Rules!Rows' = Rules!Rows
      BY <1>1, <2>5 DEF Rules!Rows, Rules!Winning, Rules!Claims, Rules!Slot, Rules!Beats, Rules!Rank, Rules!Edges
    <3>2. \A x, S : /\ Difference(Rules!Rows, x, S)' = Difference(Rules!Rows, x, S)
                    /\ Rules!EditorAllows(x, S)' <=> Rules!EditorAllows(x, S)
      BY <1>1, <3>1 DEF Difference, Rules!EditorAllows, Rules!ParentsAllowed, Rules!MarketsAllowed, Rules!LoneLabel,
                        Rules!Reaches, Rules!Hierarchy, Rules!Label
    <3> QED
      BY <1>1, <3>2 DEF EditIsFresh
  <2>9. /\ ruleForm = [v \in Rules!Workers |-> ruleForm[v]]
        /\ ruleForm' = [ruleForm EXCEPT ![w] = edit]
        /\ ~Rules!Interleaved => \A v \in Rules!Workers : ruleForm[v] = None
    BY <1>5, <2>1, <2>2 DEF RulesInv, EditsArePlanned, Rules!Plan, Rules!Undisturbed
  <2>10. EditsArePlanned'
    <3>1. ruleForm' = [v \in Rules!Workers |-> ruleForm'[v]] /\ ruleForm'[w] = edit
          /\ \A v \in Rules!Workers : v # w => ruleForm'[v] = ruleForm[v]
      BY <2>9
    <3>2. \A v \in Rules!Workers : ruleForm'[v] # None =>
             /\ ruleForm'[v].who \in Rules!Editors /\ OneEach(ruleForm'[v].claims)
             /\ ~Rules!Interleaved => EditIsFresh(ruleForm'[v])
      BY <2>3, <2>4, <2>7, <2>9, <3>1 DEF RulesInv, EditsArePlanned
    <3>3. ~Rules!Interleaved => \A v, x \in Rules!Workers : ruleForm'[v] # None /\ ruleForm'[x] # None => v = x
      BY <2>9, <3>1
    <3> QED
      BY <1>1, <1>2, <2>8, <3>1, <3>2, <3>3 DEF EditsArePlanned
  <2> QED
    BY <1>1, <2>6, <2>10 DEF RulesInv
<1>6. ASSUME NEW w \in Rules!Workers, Rules!Save(w) PROVE RulesInv'
  <2>1. PICK edit : edit = ruleForm[w] /\ edit # None
    BY <1>6 DEF Rules!Save
  <2>2. /\ edit.who \in Rules!Editors /\ OneEach(edit.claims)
        /\ ruleLog' = Rules!Asserted(edit.who, edit.claims)
    BY <1>6, <2>1 DEF RulesInv, EditsArePlanned, Rules!Save
  <2>3. LogIsTyped' /\ OneActive'
    <3>1. PICK who, new : who = edit.who /\ new = edit.claims
      OBVIOUS
    <3> QED
      BY <1>1, <2>2, <3>1, AssertedRows
  <2>4. ruleForm' = [ruleForm EXCEPT ![w] = None]
    BY <1>6 DEF Rules!Save
  <2>5. /\ ruleForm' = [v \in Rules!Workers |-> ruleForm'[v]]
        /\ \A v \in Rules!Workers : ruleForm'[v] # None => v # w /\ ruleForm'[v] = ruleForm[v] /\ ruleForm[v] # None
    BY <2>4 DEF RulesInv, EditsArePlanned
  <2>6. ~Rules!Interleaved => \A v \in Rules!Workers : ruleForm'[v] = None
    BY <2>1, <2>5 DEF RulesInv, EditsArePlanned
  <2>7. EditsArePlanned'
    BY <1>1, <1>2, <2>5, <2>6 DEF RulesInv, EditsArePlanned
  <2> QED
    BY <1>1, <2>3, <2>7 DEF RulesInv
<1> QED
  BY <1>3, <1>4, <1>5, <1>6 DEF Rules!Next

LEMMA RulesRest == ASSUME RulesInv, ruleVars' = ruleVars PROVE RulesInv'
<1>1. graph' = graph /\ ruleLog' = ruleLog /\ ruleForm' = ruleForm
  BY DEF ruleVars
<1> USE DEF Rules!Nodes, Rules!Targets, Rules!Editors, Rules!Source, Rules!Workers, Rules!Interleaved
<1>2. LogIsTyped' /\ OneActive'
  BY <1>1 DEF RulesInv, LogIsTyped, OneActive, OneClaim
<1>3. Rules!Rows' = Rules!Rows /\ \A S : OneEach(S)' <=> OneEach(S)
  BY <1>1 DEF Rules!Rows, Rules!Winning, Rules!Claims, Rules!Slot, Rules!Beats, Rules!Rank, Rules!Edges, OneEach
<1>4. \A x, S : /\ Difference(Rules!Rows, x, S)' = Difference(Rules!Rows, x, S)
                /\ Rules!EditorAllows(x, S)' <=> Rules!EditorAllows(x, S)
  BY <1>1, <1>3 DEF Difference, Rules!EditorAllows, Rules!ParentsAllowed, Rules!MarketsAllowed, Rules!LoneLabel,
                    Rules!Reaches, Rules!Hierarchy, Rules!Label
<1>5. \A x : EditIsFresh(x)' <=> EditIsFresh(x)
  BY <1>1, <1>4 DEF EditIsFresh
<1>6. EditsArePlanned'
  BY <1>1, <1>3, <1>5 DEF RulesInv, EditsArePlanned
<1> QED
  BY <1>1, <1>2, <1>6 DEF RulesInv

\* A revert takes back an active claim, which was not taken back before.
LEMMA RevertsShow ==
    ASSUME RulesInv, Rules!Revert
    PROVE  Rules!RevertStep
<1>1. PICK i \in Rules!Claims :
         /\ ruleLog[i].active
         /\ ruleLog' = [j \in Rules!Claims |->
                IF j = i THEN [ruleLog[i] EXCEPT !.active = FALSE, !.retracted = TRUE]
                ELSE IF j \in Rules!Predecessors(i) /\ (\A k \in Rules!Predecessors(i) : k <= j)
                     THEN [ruleLog[j] EXCEPT !.active = TRUE]
                     ELSE ruleLog[j]]
  BY DEF Rules!Revert
<1>2. ruleLog[i] \in OneClaim /\ ~ruleLog[i].retracted
  BY <1>1 DEF RulesInv, LogIsTyped, Rules!Claims
<1>3. ruleLog'[i].retracted
  BY <1>1, <1>2 DEF OneClaim
<1> QED
  BY <1>1, <1>2, <1>3 DEF Rules!RevertStep

\* For every graph, any users, workers and bounds: a save checked on the rows
\* as they are, and a patch, leave parents acyclic and markets unmixed if they
\* were, whatever outranked claims lie beneath the winners and whatever earlier
\* reverts brought back (provenance's claim executor, resolve/_relationships.py).
THEOREM RulesAreKept == SceneSpec => WritesKeepTheRules
<1> DEFINE kept == Rules!Rule /\ ~Rules!RevertStep /\ ~Rules!Interleaved => Rules!Rule'
<1>1. SceneInit => RulesInv
  BY RulesStart DEF SceneInit
<1>2. ASSUME RulesInv, [SceneNext]_<<scene, declared, vars, ruleVars, placeVars>>
      PROVE  Rules!Next \/ ruleVars' = ruleVars
  BY <1>2 DEF SceneNext, ruleVars
<1>3. RulesInv /\ [SceneNext]_<<scene, declared, vars, ruleVars, placeVars>> => RulesInv'
  BY <1>2, RulesStep, RulesRest
<1>4. ASSUME RulesInv, [SceneNext]_<<scene, declared, vars, ruleVars, placeVars>>
      PROVE  [kept]_(Rules!vars)
  <2> SUFFICES ASSUME Rules!Next, Rules!Rule, ~Rules!RevertStep, ~Rules!Interleaved
               PROVE  Rules!Rule'
    BY <1>2, <1>4 DEF ruleVars, Rules!vars
  <2>1. graph' = graph
    BY DEF Rules!Next, Rules!Patch, Rules!Revert, Rules!Plan, Rules!Save
  <2>2. Fine(Rules!Rows)
    BY <2>1, FineIsRule
  <2>3. CASE Rules!Patch
    BY <1>4, <2>1, <2>2, <2>3, PatchKeepsRule, FineIsRule
  <2>4. CASE Rules!Revert
    BY <1>4, <2>4, RevertsShow
  <2>5. ASSUME NEW w \in Rules!Workers, Rules!Plan(w) PROVE Rules!Rule'
    <3>1. ruleLog' = ruleLog
      BY <2>5 DEF Rules!Plan
    <3>2. Rules!Rows' = Rules!Rows
      BY <2>1, <3>1 DEF Rules!Rows, Rules!Winning, Rules!Claims, Rules!Slot, Rules!Beats, Rules!Rank, Rules!Edges,
                        Rules!Nodes, Rules!Targets, Rules!Source
    <3> QED
      BY <2>1, <2>2, <3>2, FineIsRule
  <2>6. ASSUME NEW w \in Rules!Workers, Rules!Save(w) PROVE Rules!Rule'
    BY <1>4, <2>1, <2>2, <2>6, SaveKeepsRule, FineIsRule
  <2> QED
    BY <2>3, <2>4, <2>5, <2>6 DEF Rules!Next
<1>5. RulesInv /\ [SceneNext]_<<scene, declared, vars, ruleVars, placeVars>> => [kept]_(Rules!vars)
  BY <1>4
<1> HIDE DEF kept
<1>6. SceneSpec => [][kept]_(Rules!vars)
  BY <1>1, <1>3, <1>5, PTL DEF SceneSpec
<1> QED
  BY <1>6 DEF WritesKeepTheRules, Rules!WritesKeepTheRules, kept

\* And the claims keep their types: each is of one of the graph's slots and by
\* one of its authors, none taken back is active, and an author has one active
\* claim of a slot (the unique constraint of provenance_claim).
THEOREM RulesKeepTypes == SceneSpec => []Rules!TypeOK
<1>1. SceneInit => RulesInv
  BY RulesStart DEF SceneInit
<1>2. RulesInv /\ [SceneNext]_<<scene, declared, vars, ruleVars, placeVars>> => RulesInv'
  BY RulesStep, RulesRest DEF SceneNext, ruleVars
<1>3. ASSUME RulesInv PROVE Rules!TypeOK
  <2>1. \A i \in Rules!Claims : ruleLog[i] \in OneClaim
    BY <1>3 DEF RulesInv, LogIsTyped, Rules!Claims
  <2>2. \A i \in Rules!Claims : /\ ruleLog[i].who \in Rules!Editors \cup {Rules!Source}
                                /\ Rules!Slot(i) \in Rules!Edges
                                /\ ruleLog[i].active => ~ruleLog[i].retracted
    BY <1>3, <2>1 DEF RulesInv, LogIsTyped, Rules!Claims, OneClaim, Rules!Slot, Rules!Edges
  <2>3. \A i, j \in Rules!Claims :
           ruleLog[i].active /\ ruleLog[j].active /\ ruleLog[i].who = ruleLog[j].who /\ Rules!Slot(i) = Rules!Slot(j)
           => i = j
    BY <1>3, <2>1 DEF RulesInv, OneActive, Rules!Claims, Rules!Slot
  <2> QED
    BY <2>2, <2>3 DEF Rules!TypeOK
<1> QED
  BY <1>1, <1>2, <1>3, PTL DEF SceneSpec

-----------------------------------------------------------------------------
(* The places.  A location's path is its parent's, a slash and its slug,   *)
(* so what its path says of what is above it is what the parents say: the  *)
(* sitemap, which compares paths, and the pages, which climb by parents,   *)
(* agree, and a climb ends, a level at a time.                             *)
\* q is strictly below p: p's path and a slash begin it.
Beneath(q, p) ==
    /\ Len(p) < Len(q) /\ q[Len(p) + 1] = "/"
    /\ \A i \in 1 .. Len(p) : q[i] = p[i]

LEMMA SlashIsASequence == <<"/">> \in Seq(Places!Chars) /\ Len(<<"/">>) = 1 /\ <<"/">>[1] = "/"
BY DEF Places!Chars

LEMMA BelowIs ==
    ASSUME NEW p \in Seq(Places!Chars), NEW q \in Seq(Places!Chars)
    PROVE  Places!Below(q, p) <=> q = p \/ Beneath(q, p)
<1> DEFINE x == p \o <<"/">>
<1>1. /\ x \in Seq(Places!Chars) /\ Len(x) = Len(p) + 1 /\ x[Len(p) + 1] = "/"
      /\ \A i \in 1 .. Len(p) : x[i] = p[i]
  <2>1. <<"/">> \in Seq(Places!Chars) /\ Len(<<"/">>) = 1 /\ <<"/">>[1] = "/"
    BY SlashIsASequence
  <2>2. Len(p) \in Nat
    OBVIOUS
  <2> QED
    BY <2>1, <2>2, ConcatProperties
<1> HIDE DEF x
<1>2. Places!IsPrefix(x, q) <=> Len(x) <= Len(q) /\ \A i \in 1 .. Len(x) : x[i] = q[i]
  <2>1. CASE Len(x) <= Len(q)
    <3> DEFINE a == SubSeq(x, 1, Len(x))
               b == SubSeq(q, 1, Len(x))
    <3>1. a \in Seq(Places!Chars) /\ b \in Seq(Places!Chars) /\ Len(a) = Len(x) /\ Len(b) = Len(x)
      BY <1>1, <2>1
    <3>2. \A i \in 1 .. Len(x) : a[i] = x[i] /\ b[i] = q[i]
      BY <1>1, <2>1
    <3> HIDE DEF a, b
    <3>3. ASSUME \A i \in 1 .. Len(x) : x[i] = q[i] PROVE a = b
      <4>1. \A i \in 1 .. Len(a) : a[i] = b[i]
        BY <3>1, <3>2, <3>3
      <4> QED
        BY <3>1, <4>1, SeqEqual
    <3>4. a = b => \A i \in 1 .. Len(x) : x[i] = q[i]
      BY <3>2
    <3> QED
      BY <2>1, <3>3, <3>4 DEF Places!IsPrefix, a, b
  <2>2. CASE ~(Len(x) <= Len(q))
    BY <2>2 DEF Places!IsPrefix
  <2> QED
    BY <2>1, <2>2
<1>3. Len(p) \in Nat /\ Len(q) \in Nat
  OBVIOUS
<1>4. (Len(x) <= Len(q) /\ \A i \in 1 .. Len(x) : x[i] = q[i]) <=> Beneath(q, p)
  BY <1>1, <1>3 DEF Beneath
<1> QED
  BY <1>2, <1>4 DEF Places!Below, x

LEMMA BelowIsTransitive ==
    ASSUME NEW x \in Seq(Places!Chars), NEW y \in Seq(Places!Chars), NEW z \in Seq(Places!Chars),
           Places!Below(x, y), Places!Below(y, z)
    PROVE  Places!Below(x, z)
<1>1. Len(x) \in Nat /\ Len(y) \in Nat /\ Len(z) \in Nat
  OBVIOUS
<1>2. (x = y \/ Beneath(x, y)) /\ (y = z \/ Beneath(y, z))
  BY BelowIs
<1>3. x = z \/ Beneath(x, z)
  BY <1>1, <1>2 DEF Beneath
<1> QED
  BY <1>3, BelowIs

SlugSound(s) == s \in Seq(Places!Chars) /\ s # <<>> /\ Len(s) \in Nat /\ \A n \in 1 .. Len(s) : s[n] # "/"

LEMMA SlugsAreSound == \A s \in Slugs : SlugSound(s)
<1> SUFFICES ASSUME NEW s \in Slugs PROVE SlugSound(s)
  OBVIOUS
<1>1. s \in Seq(Places!Chars) /\ s # <<>> /\ \A n \in DOMAIN s : s[n] # "/"
  BY PlacesAssumption DEF Places!LocationsAssumption
<1>2. Len(s) \in Nat /\ DOMAIN s = 1 .. Len(s)
  BY <1>1
<1> QED
  BY <1>1, <1>2 DEF SlugSound

\* A child's path is its parent's, a slash and the slug.
LEMMA ComposedPath ==
    ASSUME NEW q \in Seq(Places!Chars), q # Places!Root, NEW s \in Slugs
    PROVE  LET x == Places!Compose(q, s) IN
           /\ x \in Places!Path
           /\ Len(x) = Len(q) + 1 + Len(s)
           /\ \A i \in 1 .. Len(q) : x[i] = q[i]
           /\ x[Len(q) + 1] = "/"
           /\ \A i \in Len(q) + 2 .. Len(x) : x[i] # "/"
<1> DEFINE y == q \o <<"/">>
           x == y \o s
<1>1. Places!Compose(q, s) = x
  BY DEF Places!Compose
<1>2. SlugSound(s)
  BY SlugsAreSound
<1>3. <<"/">> \in Seq(Places!Chars) /\ Len(<<"/">>) = 1 /\ <<"/">>[1] = "/" /\ Len(q) \in Nat
  BY SlashIsASequence
<1>4. /\ y \in Seq(Places!Chars) /\ Len(y) = Len(q) + 1 /\ y[Len(q) + 1] = "/"
      /\ \A i \in 1 .. Len(q) : y[i] = q[i]
  BY <1>3, ConcatProperties
<1> HIDE DEF y
<1>5. /\ x \in Seq(Places!Chars) /\ Len(x) = Len(y) + Len(s)
      /\ \A i \in 1 .. Len(y) + Len(s) : x[i] = IF i <= Len(y) THEN y[i] ELSE s[i - Len(y)]
  BY <1>2, <1>4, ConcatProperties DEF SlugSound
<1> HIDE DEF x
<1>6. x # <<>>
  BY <1>3, <1>4, <1>5, <1>2 DEF SlugSound
<1>7. \A i \in Len(q) + 2 .. Len(x) : x[i] = s[i - Len(y)] /\ i - Len(y) \in 1 .. Len(s)
  BY <1>2, <1>3, <1>4, <1>5 DEF SlugSound
<1>8. \A i \in Len(q) + 2 .. Len(x) : x[i] # "/"
  BY <1>2, <1>7 DEF SlugSound
<1>9. \A i \in 1 .. Len(q) + 1 : x[i] = y[i]
  BY <1>2, <1>3, <1>4, <1>5 DEF SlugSound
<1> QED
  BY <1>1, <1>2, <1>3, <1>4, <1>5, <1>6, <1>8, <1>9 DEF Places!Path, Places!Root, SlugSound

LEMMA ChildIsBelow ==
    ASSUME NEW q \in Seq(Places!Chars), q # Places!Root, NEW s \in Slugs
    PROVE  Places!Below(Places!Compose(q, s), q)
<1> DEFINE x == Places!Compose(q, s)
<1>1. /\ x \in Places!Path /\ Len(x) = Len(q) + 1 + Len(s)
      /\ \A i \in 1 .. Len(q) : x[i] = q[i]
      /\ x[Len(q) + 1] = "/"
  BY ComposedPath
<1> HIDE DEF x
<1>2. Len(q) \in Nat /\ Len(s) \in Nat
  BY SlugsAreSound DEF SlugSound
<1>3. Beneath(x, q)
  BY <1>1, <1>2 DEF Beneath
<1> QED
  BY <1>1, <1>3, BelowIs DEF x, Places!Path

\* What a location is strictly below, its parent is at or below.
LEMMA ParentIsBetween ==
    ASSUME NEW q \in Seq(Places!Chars), NEW s \in Slugs, NEW p \in Places!Path,
           Beneath(Places!Compose(q, s), p)
    PROVE  q # Places!Root /\ Places!Below(q, p)
<1>1. SlugSound(s) /\ p \in Seq(Places!Chars) /\ p # <<>> /\ Len(p) \in Nat /\ Len(q) \in Nat
  BY SlugsAreSound DEF Places!Path, Places!Root
<1>2. q # Places!Root
  <2> SUFFICES ASSUME q = Places!Root PROVE FALSE
    OBVIOUS
  <2>1. Places!Compose(q, s) = s
    BY DEF Places!Compose
  <2> QED
    BY <1>1, <2>1 DEF Beneath, SlugSound
<1> DEFINE x == Places!Compose(q, s)
<1>3. /\ Len(x) = Len(q) + 1 + Len(s)
      /\ \A i \in 1 .. Len(q) : x[i] = q[i]
      /\ x[Len(q) + 1] = "/"
      /\ \A i \in Len(q) + 2 .. Len(x) : x[i] # "/"
  BY <1>2, ComposedPath
<1>4. Beneath(x, p)
  OBVIOUS
<1> HIDE DEF x
<1>5. Len(p) + 1 <= Len(q) + 1
  <2>1. Len(s) \in Nat
    BY <1>1 DEF SlugSound
  <2> QED
    BY <1>1, <1>3, <1>4, <2>1 DEF Beneath
<1>6. CASE Len(p) = Len(q)
  <2>1. \A i \in 1 .. Len(q) : q[i] = p[i]
    BY <1>3, <1>4, <1>6 DEF Beneath
  <2>2. q = p
    BY <1>1, <1>6, <2>1, SeqEqual
  <2> QED
    BY <1>2, <2>2 DEF Places!Below
<1>7. CASE Len(p) < Len(q)
  <2>1. Beneath(q, p)
    BY <1>1, <1>3, <1>4, <1>7 DEF Beneath
  <2> QED
    BY <1>1, <1>2, <2>1, BelowIs
<1> QED
  BY <1>1, <1>5, <1>6, <1>7

-----------------------------------------------------------------------------
Slashes(p) == {n \in DOMAIN p : p[n] = "/"}

LEMMA DepthIs ==
    ASSUME NEW p \in Seq(Places!Chars)
    PROVE  /\ IsFiniteSet(Slashes(p)) /\ Places!Depth(p) = Cardinality(Slashes(p))
           /\ Places!Depth(p) \in Nat
<1>1. Slashes(p) \subseteq 1 .. Len(p) /\ Len(p) \in Nat
  BY DEF Slashes
<1>2. IsFiniteSet(1 .. Len(p))
  BY <1>1, FS_Interval
<1>3. IsFiniteSet(Slashes(p))
  BY <1>1, <1>2, FS_Subset
<1>4. Places!Depth(p) = Cardinality(Slashes(p))
  BY DEF Places!Depth, Places!Cardinality, Cardinality, Slashes
<1> QED
  BY <1>3, <1>4, FS_CardinalityType

LEMMA ChildDepth ==
    ASSUME NEW q \in Seq(Places!Chars), q # Places!Root, NEW s \in Slugs
    PROVE  Places!Depth(Places!Compose(q, s)) = Places!Depth(q) + 1
<1> DEFINE x == Places!Compose(q, s)
<1>1. /\ x \in Seq(Places!Chars) /\ Len(x) = Len(q) + 1 + Len(s)
      /\ \A i \in 1 .. Len(q) : x[i] = q[i]
      /\ x[Len(q) + 1] = "/"
      /\ \A i \in Len(q) + 2 .. Len(x) : x[i] # "/"
  BY ComposedPath DEF Places!Path
<1> HIDE DEF x
<1>2. Len(q) \in Nat /\ Len(s) \in Nat
  BY SlugsAreSound DEF SlugSound
<1>3. DOMAIN x = 1 .. Len(x) /\ DOMAIN q = 1 .. Len(q)
  BY <1>1
<1>4. Slashes(x) = Slashes(q) \cup {Len(q) + 1}
  <2>1. ASSUME NEW n \in Slashes(x) PROVE n \in Slashes(q) \cup {Len(q) + 1}
    <3>1. n \in 1 .. Len(x) /\ x[n] = "/"
      BY <1>3 DEF Slashes
    <3>2. n <= Len(q) + 1
      BY <1>1, <1>2, <3>1
    <3> QED
      BY <1>1, <1>2, <1>3, <3>1, <3>2 DEF Slashes
  <2>2. ASSUME NEW n \in Slashes(q) \cup {Len(q) + 1} PROVE n \in Slashes(x)
    BY <1>1, <1>2, <1>3 DEF Slashes
  <2> QED
    BY <2>1, <2>2
<1>5. Len(q) + 1 \notin Slashes(q)
  BY <1>2, <1>3 DEF Slashes
<1>6. Cardinality(Slashes(x)) = Cardinality(Slashes(q)) + 1
  BY <1>4, <1>5, DepthIs, FS_AddElement
<1> QED
  BY <1>1, <1>6, DepthIs DEF x

-----------------------------------------------------------------------------
\* Parents are there and a level up, so that they end in a country.
Rooted ==
    /\ Places!TypeOK
    /\ \A p \in Places!Paths :
          /\ Places!Depth(p) < MaxDepth
          /\ placeRows[p].parent # Places!Root => Places!Depth(placeRows[p].parent) < Places!Depth(p)

LEMMA RootedTypes ==
    ASSUME Rooted
    PROVE  /\ Places!Root \notin Places!Paths
           /\ \A p \in Places!Paths :
                 /\ p \in Seq(Places!Chars) /\ p \in Places!Path /\ Places!Depth(p) \in Nat
                 /\ placeRows[p].parent = Places!Root \/ placeRows[p].parent \in Places!Paths
                 /\ placeRows[p].slug \in Slugs /\ placeRows[p].divs \in Seq(Places!Types)
                 /\ placeRows[p].live \in BOOLEAN
BY DepthIs DEF Rooted, Places!TypeOK, Places!Path

\* s goes from p by the parents up to a country.
Climbs(s, p) ==
    /\ s[1] = p /\ placeRows[s[Len(s)]].parent = Places!Root
    /\ \A n \in 1 .. Len(s) - 1 : s[n + 1] = placeRows[s[n]].parent

LEMMA ClimbExists ==
    ASSUME Rooted, NEW p \in Places!Paths
    PROVE  \E n \in 1 .. Places!Depth(p) + 1 : \E s \in [1 .. n -> Places!Paths] :
              s \in Seq(Places!Paths) /\ Len(s) = n /\ Climbs(s, p)
<1> DEFINE Has(q) == \E n \in 1 .. Places!Depth(q) + 1 : \E s \in [1 .. n -> Places!Paths] :
                        s \in Seq(Places!Paths) /\ Len(s) = n /\ Climbs(s, q)
           Odd == {Places!Depth(q) : q \in {x \in Places!Paths : ~Has(x)}}
<1> SUFFICES Has(p)
  OBVIOUS
<1> HIDE DEF Has
<1> SUFFICES ASSUME ~Has(p) PROVE FALSE
  OBVIOUS
<1>1. Odd \subseteq Nat /\ Odd # {}
  BY RootedTypes
<1>2. PICK d \in Odd : \A m \in Odd : d <= m
  BY <1>1, LeastNumber
<1>3. PICK q \in Places!Paths : ~Has(q) /\ d = Places!Depth(q)
  BY <1>2
<1>4. Places!Depth(q) \in Nat
  BY RootedTypes
<1>5. CASE placeRows[q].parent = Places!Root
  <2> DEFINE s == [i \in 1 .. 1 |-> q]
  <2>1. s \in [1 .. 1 -> Places!Paths] /\ s \in Seq(Places!Paths) /\ Len(s) = 1 /\ s[1] = q
    BY SeqDef
  <2>2. Climbs(s, q)
    BY <1>5, <2>1 DEF Climbs
  <2>3. 1 \in 1 .. Places!Depth(q) + 1
    BY <1>4
  <2> HIDE DEF s
  <2> QED
    BY <1>3, <2>1, <2>2, <2>3 DEF Has
<1>6. CASE placeRows[q].parent # Places!Root
  <2> DEFINE up == placeRows[q].parent
  <2>1. up \in Places!Paths /\ Places!Depth(up) < Places!Depth(q) /\ Places!Depth(up) \in Nat
    BY <1>6, RootedTypes DEF Rooted
  <2>2. Has(up)
    BY <1>1, <1>2, <1>3, <1>4, <2>1
  <2>3. PICK n \in 1 .. Places!Depth(up) + 1, s \in Seq(Places!Paths) : Len(s) = n /\ Climbs(s, up)
    BY <2>2 DEF Has
  <2> DEFINE t == [i \in 1 .. n + 1 |-> IF i = 1 THEN q ELSE s[i - 1]]
  <2>4. n \in Nat /\ n >= 1 /\ n + 1 \in 1 .. Places!Depth(q) + 1
    BY <1>4, <2>1
  <2>5. t \in [1 .. n + 1 -> Places!Paths]
    BY <2>3, <2>4
  <2>6. t \in Seq(Places!Paths) /\ Len(t) = n + 1
    BY <2>4, <2>5, SeqDef
  <2>7. t[1] = q /\ \A i \in 2 .. n + 1 : t[i] = s[i - 1]
    BY <2>4
  <2> HIDE DEF t
  <2>8. Climbs(t, q)
    <3>1. placeRows[t[Len(t)]].parent = Places!Root
      BY <2>3, <2>4, <2>6, <2>7 DEF Climbs
    <3>2. ASSUME NEW i \in 1 .. Len(t) - 1 PROVE t[i + 1] = placeRows[t[i]].parent
      <4>1. i \in 1 .. n /\ t[i + 1] = s[i]
        BY <2>4, <2>6, <2>7
      <4>2. CASE i = 1
        BY <2>3, <2>7, <4>1, <4>2 DEF Climbs
      <4>3. CASE i # 1
        <5>1. t[i] = s[i - 1] /\ i - 1 \in 1 .. Len(s) - 1
          BY <2>3, <2>4, <2>7, <4>1, <4>3
        <5>2. s[(i - 1) + 1] = placeRows[s[i - 1]].parent
          BY <2>3, <5>1 DEF Climbs
        <5>3. (i - 1) + 1 = i
          BY <4>1
        <5> QED
          BY <4>1, <5>1, <5>2, <5>3
      <4> QED
        BY <4>2, <4>3
    <3> QED
      BY <2>7, <3>1, <3>2 DEF Climbs
  <2> QED
    BY <1>3, <2>4, <2>5, <2>6, <2>8 DEF Has
<1> QED
  BY <1>5, <1>6

LEMMA ChainClimbs ==
    ASSUME Rooted, NEW p \in Places!Paths
    PROVE  LET s == Places!Chain(p) IN
           s \in Seq(Places!Paths) /\ Len(s) \in Nat /\ Len(s) >= 1 /\ Climbs(s, p)
<1> DEFINE All == UNION {[1 .. n -> Places!Paths] : n \in 1 .. MaxDepth}
           Is(s) == /\ s[1] = p /\ placeRows[Places!Last(s)].parent = Places!Root
                    /\ \A n \in 1 .. Len(s) - 1 : s[n + 1] = placeRows[s[n]].parent
           c == CHOOSE s \in All : Is(s)
<1>1. Places!Chain(p) = c
  BY DEF Places!Chain
<1>2. \A s : Is(s) <=> Climbs(s, p)
  BY DEF Climbs, Places!Last
<1>3. \E s \in All : Is(s)
  <2>1. PICK n \in 1 .. Places!Depth(p) + 1 :
                \E s \in [1 .. n -> Places!Paths] : s \in Seq(Places!Paths) /\ Len(s) = n /\ Climbs(s, p)
    BY ClimbExists
  <2>2. n \in 1 .. MaxDepth
    BY RootedTypes, PlacesAssumption DEF Rooted, Places!LocationsAssumption
  <2> QED
    BY <1>2, <2>1, <2>2
<1>4. c \in All /\ Is(c)
  BY <1>3
<1>5. PICK n \in 1 .. MaxDepth : c \in [1 .. n -> Places!Paths]
  BY <1>4
<1> HIDE DEF c, Is
<1>6. n \in Nat /\ n >= 1
  BY PlacesAssumption DEF Places!LocationsAssumption
<1>7. c \in Seq(Places!Paths) /\ Len(c) = n
  BY <1>5, <1>6, SeqDef
<1> QED
  BY <1>1, <1>2, <1>4, <1>6, <1>7

\* While no parent is reverted, a location is on the way up from another
\* exactly when its path and a slash begin the other's.
LEMMA ChainIsBelow ==
    ASSUME Rooted, Places!PathIsAncestry, NEW p \in Places!Paths, NEW q \in Places!Paths
    PROVE  p \in Places!ToSet(Places!Chain(q)) <=> Places!Below(q, p)
<1> DEFINE s == Places!Chain(q)
<1>1. s \in Seq(Places!Paths) /\ Len(s) \in Nat /\ Len(s) >= 1 /\ Climbs(s, q)
  BY ChainClimbs
<1> HIDE DEF s
<1>2. /\ \A i \in 1 .. Len(s) : s[i] \in Places!Paths
      /\ \A x : x \in Places!ToSet(s) <=> \E i \in 1 .. Len(s) : x = s[i]
  BY <1>1 DEF Places!ToSet
<1>3. \A x \in Places!Paths : /\ x \in Seq(Places!Chars) /\ x # Places!Root
                              /\ placeRows[x].slug \in Slugs
                              /\ x = Places!Compose(placeRows[x].parent, placeRows[x].slug)
  BY RootedTypes DEF Places!PathIsAncestry
<1>4. \A i \in 1 .. Len(s) : i # 1 => /\ i - 1 \in 1 .. Len(s)
                                      /\ s[i] = placeRows[s[i - 1]].parent
  <2> SUFFICES ASSUME NEW i \in 1 .. Len(s), i # 1
               PROVE  i - 1 \in 1 .. Len(s) /\ s[i] = placeRows[s[i - 1]].parent
    OBVIOUS
  <2>1. i - 1 \in 1 .. Len(s) - 1 /\ (i - 1) + 1 = i /\ i - 1 \in 1 .. Len(s)
    BY <1>1
  <2>2. s[(i - 1) + 1] = placeRows[s[i - 1]].parent
    BY <1>1, <2>1 DEF Climbs
  <2> QED
    BY <2>1, <2>2
<1>5. s[1] = q /\ placeRows[s[Len(s)]].parent = Places!Root /\ Len(s) \in 1 .. Len(s) /\ 1 \in 1 .. Len(s)
  BY <1>1 DEF Climbs
<1>6. ASSUME NEW i \in 1 .. Len(s) PROVE Places!Below(q, s[i])
  <2> DEFINE Odd == {n \in 1 .. Len(s) : ~Places!Below(q, s[n])}
  <2> SUFFICES ASSUME Odd # {} PROVE FALSE
    OBVIOUS
  <2>1. Odd \in SUBSET Nat
    OBVIOUS
  <2>2. PICK n \in Odd : \A m \in Odd : n <= m
    BY <2>1, LeastNumber
  <2>3. n # 1
    BY <1>5, <2>2 DEF Places!Below
  <2>4. n - 1 \in 1 .. Len(s) /\ s[n] = placeRows[s[n - 1]].parent
    BY <1>4, <2>2, <2>3
  <2>5. Places!Below(q, s[n - 1])
    BY <2>2, <2>4
  <2>6. s[n - 1] \in Places!Paths /\ s[n] \in Places!Paths
    BY <1>2, <2>2, <2>4
  <2>7. Places!Below(s[n - 1], s[n])
    BY <1>3, <2>4, <2>6, ChildIsBelow
  <2>8. Places!Below(q, s[n])
    BY <1>3, <2>5, <2>6, <2>7, BelowIsTransitive
  <2> QED
    BY <2>2, <2>8
<1>7. ASSUME Places!Below(q, p), \A i \in 1 .. Len(s) : s[i] # p PROVE FALSE
  <2>1. \A x \in Places!Paths : Places!Below(x, p) /\ x # p =>
           placeRows[x].parent # Places!Root /\ Places!Below(placeRows[x].parent, p)
    <3> SUFFICES ASSUME NEW x \in Places!Paths, Places!Below(x, p), x # p
                 PROVE  placeRows[x].parent # Places!Root /\ Places!Below(placeRows[x].parent, p)
      OBVIOUS
    <3>1. Beneath(x, p)
      BY <1>3, BelowIs
    <3>2. placeRows[x].parent \in Seq(Places!Chars) /\ p \in Places!Path
      BY RootedTypes, EmptySeq DEF Places!Root, Places!Path
    <3> QED
      BY <1>3, <3>1, <3>2, ParentIsBetween
  <2> DEFINE Odd == {n \in 1 .. Len(s) : ~Places!Below(s[n], p)}
  <2>2. CASE Odd = {}
    <3>1. Places!Below(s[Len(s)], p) /\ s[Len(s)] # p /\ s[Len(s)] \in Places!Paths
      BY <1>2, <1>5, <1>7, <2>2
    <3> QED
      BY <1>5, <2>1, <3>1
  <2>3. CASE Odd # {}
    <3>1. Odd \in SUBSET Nat
      OBVIOUS
    <3>2. PICK n \in Odd : \A m \in Odd : n <= m
      BY <2>3, <3>1, LeastNumber
    <3>3. n # 1
      BY <1>5, <1>7, <3>2
    <3>4. n - 1 \in 1 .. Len(s) /\ s[n] = placeRows[s[n - 1]].parent
      BY <1>4, <3>2, <3>3
    <3>5. Places!Below(s[n - 1], p) /\ s[n - 1] \in Places!Paths /\ s[n - 1] # p
      BY <1>2, <1>7, <3>2, <3>4
    <3> QED
      BY <2>1, <3>2, <3>4, <3>5
  <2> QED
    BY <2>2, <2>3
<1> QED
  BY <1>2, <1>6, <1>7 DEF s

\* Above a live location all is live when nothing is lost: the page's walk, up
\* to the first that is not, is the create's.
LEMMA OfferIsGiven ==
    ASSUME Rooted, Places!NoLocationIsLost PROVE Places!OfferedTypeIsGiven
<1> SUFFICES ASSUME NEW p \in Places!Nodes PROVE Places!Expected(p) = Places!Derived(p)
  BY DEF Places!OfferedTypeIsGiven
<1> DEFINE s == Places!Chain(p)
<1>1. p \in Places!Paths
  BY DEF Places!Nodes
<1>2. s \in Seq(Places!Paths) /\ Len(s) \in Nat /\ Len(s) >= 1 /\ Climbs(s, p)
  BY <1>1, ChainClimbs
<1> HIDE DEF s
<1>3. ASSUME NEW i \in 1 .. Len(s) PROVE s[i] \in Places!Nodes
  <2> DEFINE Odd == {n \in 1 .. Len(s) : s[n] \notin Places!Nodes}
  <2> SUFFICES ASSUME Odd # {} PROVE FALSE
    OBVIOUS
  <2>1. Odd \in SUBSET Nat
    OBVIOUS
  <2>2. PICK n \in Odd : \A m \in Odd : n <= m
    BY <2>1, LeastNumber
  <2>3. n # 1
    BY <1>2, <2>2 DEF Climbs
  <2>4. n - 1 \in 1 .. Len(s) - 1 /\ (n - 1) + 1 = n /\ n - 1 \in 1 .. Len(s) /\ n \in 1 .. Len(s)
    BY <1>2, <2>2, <2>3
  <2>5. s[(n - 1) + 1] = placeRows[s[n - 1]].parent
    BY <1>2, <2>4 DEF Climbs
  <2>6. s[n - 1] \in Places!Nodes
    BY <2>2, <2>4
  <2>7. s[n] \in Places!Paths
    BY <1>2, <2>4
  <2> QED
    BY <2>2, <2>4, <2>5, <2>6, <2>7, RootedTypes DEF Places!NoLocationIsLost
<1> DEFINE nodes == {n \in DOMAIN s : \A m \in 1 .. n : s[m] \in Places!Nodes}
<1>4. nodes = 1 .. Len(s)
  BY <1>2, <1>3
<1>5. Places!Cardinality(nodes) = Len(s)
  <2>1. Cardinality(1 .. Len(s)) = Len(s)
    BY <1>2, FS_Interval
  <2>2. Places!Cardinality(1 .. Len(s)) = Cardinality(1 .. Len(s))
    BY DEF Places!Cardinality, Cardinality
  <2> QED
    BY <1>4, <2>1, <2>2
<1>6. Places!Ancestors(p) = SubSeq(s, 1, Places!Cardinality(nodes))
  BY DEF Places!Ancestors, s
<1> HIDE DEF nodes
<1>7. Places!Ancestors(p) = s
  BY <1>2, <1>5, <1>6, SubSeqFull
<1> QED
  BY <1>7 DEF Places!Expected, Places!Derived, s

EntitiesStand == \A e \in Entities : entity[e].live => mfrLive[entity[e].mfr]

LEMMA CountsAreLists ==
    ASSUME EntitiesStand PROVE Places!CountsAreListed
BY DEF EntitiesStand, Places!CountsAreListed, Places!ManufacturersAt, Places!Listed

LEMMA SitemapIsRight ==
    ASSUME Rooted, Places!PathIsAncestry, EntitiesStand PROVE Places!SitemapHasNoEmptyPage
<1> SUFFICES ASSUME NEW p \in Places!Nodes PROVE p \in Places!Sitemap <=> Places!Listed(p) # {}
  BY DEF Places!SitemapHasNoEmptyPage
<1>1. p \in Places!Paths /\ \A e \in Entities : \A q \in entity[e].at : q \in Places!Paths
  BY DEF Places!Nodes, Rooted, Places!TypeOK
<1> DEFINE There == {x \in Entities : entity[x].live /\ \E q \in entity[x].at : p \in Places!ToSet(Places!Chain(q))}
<1>2. There = {e \in Entities : entity[e].live /\ \E q \in entity[e].at : Places!Below(q, p)}
  BY <1>1, ChainIsBelow
<1>3. p \in Places!Sitemap <=> There # {}
  BY <1>2 DEF Places!Sitemap
<1>4. Places!Listed(p) = {m \in {entity[e].mfr : e \in There} : mfrLive[m]}
  BY DEF Places!Listed, Places!ManufacturersAt
<1>5. \A e \in There : mfrLive[entity[e].mfr]
  BY DEF EntitiesStand
<1> HIDE DEF There
<1> QED
  BY <1>3, <1>4, <1>5

-----------------------------------------------------------------------------
PlacesInv ==
    /\ Rooted
    /\ "revert" \notin faults => Places!PathIsAncestry
    /\ faults \cap {"undo", "orphan"} = {} => Places!NoLocationIsLost
    /\ "stray" \notin faults => EntitiesStand

LEMMA PlacesFound == PlacesInv => Places!LocationsAreFound
BY OfferIsGiven, CountsAreLists, SitemapIsRight DEF PlacesInv, Places!LocationsAreFound

LEMMA PlacesStart == Places!Init => PlacesInv
<1> SUFFICES ASSUME Places!Init PROVE PlacesInv
  OBVIOUS
<1>1. Places!Paths = {} /\ placeRows = << >>
  BY DEF Places!Init, Places!Paths
<1>2. MaxEdits \in Nat
  BY PlacesAssumption DEF Places!LocationsAssumption
<1>3. Places!TypeOK
  BY <1>1, <1>2 DEF Places!Init, Places!TypeOK
<1>4. Rooted /\ Places!PathIsAncestry
  BY <1>1, <1>3 DEF Rooted, Places!PathIsAncestry
<1>5. Places!NoLocationIsLost
  BY <1>1 DEF Places!NoLocationIsLost, Places!Nodes
<1>6. EntitiesStand
  BY DEF EntitiesStand, Places!Init
<1> QED
  BY <1>4, <1>5, <1>6 DEF PlacesInv

Row(P) == [parent : P \cup {Places!Root}, slug : Slugs, type : Places!Types, divs : Seq(Places!Types),
           live : BOOLEAN, undo : BOOLEAN, byUser : BOOLEAN]

\* A row that is added below one there, or as a country.
LEMMA InsertKeeps ==
    ASSUME PlacesInv, NEW parent \in Places!Paths \cup {Places!Root}, NEW slug \in Slugs,
           NEW label \in Places!Types, NEW divs \in Seq(Places!Types), NEW byUser \in BOOLEAN,
           parent # Places!Root /\ "orphan" \notin faults => parent \in Places!Nodes,
           Places!Insert(parent, slug, label, divs, byUser), UNCHANGED faults
    PROVE  PlacesInv'
<1> DEFINE x == Places!Compose(parent, slug)
           new == [parent |-> parent, slug |-> slug, type |-> label, divs |-> divs,
                   live |-> TRUE, undo |-> FALSE, byUser |-> byUser]
<1>1. /\ placeRows' = [p \in Places!Paths \cup {x} |-> IF p \in Places!Paths THEN placeRows[p] ELSE new]
      /\ x \notin Places!Paths /\ Places!Depth(x) < MaxDepth
      /\ UNCHANGED <<entity, mfrLive, edits, faults>>
  BY DEF Places!Insert
<1>2. new \in Row(Places!Paths) /\ new.live = TRUE /\ new.undo = FALSE /\ new.parent = parent /\ new.slug = slug
  BY DEF Row
<1>3. x \in Places!Path /\ (parent # Places!Root => Places!Depth(parent) < Places!Depth(x))
  <2>1. CASE parent = Places!Root
    <3>1. x = slug /\ SlugSound(slug)
      BY <2>1, SlugsAreSound DEF Places!Compose
    <3> QED
      BY <2>1, <3>1 DEF SlugSound, Places!Path, Places!Root
  <2>2. CASE parent # Places!Root
    <3>1. parent \in Places!Paths /\ parent \in Seq(Places!Chars) /\ Places!Depth(parent) \in Nat
      BY <2>2, RootedTypes DEF PlacesInv
    <3>2. x \in Places!Path /\ Places!Depth(x) = Places!Depth(parent) + 1
      BY <2>2, <3>1, ComposedPath, ChildDepth
    <3> HIDE DEF x
    <3> QED
      BY <3>1, <3>2
  <2> QED
    BY <2>1, <2>2
<1> HIDE DEF x, new
<1>4. /\ Places!Paths' = Places!Paths \cup {x}
      /\ \A p \in Places!Paths : placeRows'[p] = placeRows[p]
      /\ placeRows'[x] = new
  BY <1>1 DEF Places!Paths
<1>5. Places!Nodes' = Places!Nodes \cup {x}
  BY <1>2, <1>4 DEF Places!Nodes
<1>6. Places!TypeOK'
  <2>1. placeRows \in [Places!Paths -> Row(Places!Paths)]
    BY DEF PlacesInv, Rooted, Places!TypeOK, Row
  <2>2. placeRows' \in [(Places!Paths)' -> Row((Places!Paths)')]
    <3>1. \A p \in Places!Paths : placeRows[p] \in Row(Places!Paths \cup {x})
      BY <2>1 DEF Row
    <3>2. new \in Row(Places!Paths \cup {x})
      BY <1>2 DEF Row
    <3> QED
      BY <1>1, <1>4, <3>1, <3>2
  <2>3. \A p \in (Places!Paths)' : placeRows'[p].undo => ~placeRows'[p].live
    BY <1>2, <1>4 DEF PlacesInv, Rooted, Places!TypeOK
  <2>4. entity' \in [Entities -> [mfr : Manufacturers, at : SUBSET (Places!Paths)', live : BOOLEAN]]
    <3>1. entity \in [Entities -> [mfr : Manufacturers, at : SUBSET Places!Paths, live : BOOLEAN]] /\ entity' = entity
      BY <1>1 DEF PlacesInv, Rooted, Places!TypeOK
    <3>2. Places!Paths \subseteq (Places!Paths)'
      BY <1>4
    <3> QED
      BY <3>1, <3>2
  <2>5. (Places!Paths)' \subseteq Places!Path
    BY <1>3, <1>4 DEF PlacesInv, Rooted, Places!TypeOK
  <2>6. mfrLive' \in [Manufacturers -> BOOLEAN] /\ edits' \in 0 .. MaxEdits /\ faults' \in FaultSets
    BY <1>1 DEF PlacesInv, Rooted, Places!TypeOK
  <2> QED
    BY <2>2, <2>3, <2>4, <2>5, <2>6 DEF Places!TypeOK, Row
<1>7. Rooted'
  BY <1>1, <1>2, <1>3, <1>4, <1>6 DEF PlacesInv, Rooted
<1>8. ASSUME "revert" \notin faults PROVE Places!PathIsAncestry'
  BY <1>2, <1>4, <1>8 DEF PlacesInv, Places!PathIsAncestry, x
<1>9. ASSUME faults \cap {"undo", "orphan"} = {} PROVE Places!NoLocationIsLost'
  <2>1. parent = Places!Root \/ parent \in Places!Nodes
    BY <1>9
  <2>2. \A p \in Places!Nodes : p \in Places!Paths
    BY DEF Places!Nodes
  <2>3. Places!NoLocationIsLost
    BY <1>9 DEF PlacesInv
  <2> QED
    BY <1>2, <1>4, <1>5, <2>1, <2>2, <2>3 DEF Places!NoLocationIsLost
<1>10. EntitiesStand' <=> EntitiesStand
  BY <1>1 DEF EntitiesStand
<1> QED
  BY <1>1, <1>7, <1>8, <1>9, <1>10 DEF PlacesInv

\* An edit of a row that moves it nowhere, or to the root by a revert, and
\* leaves nothing live below it unless it is live.
LEMMA RowEditKeeps ==
    ASSUME PlacesInv, NEW p \in Places!Paths, NEW r \in Row(Places!Paths),
           placeRows' = [placeRows EXCEPT ![p] = r],
           r.slug = placeRows[p].slug, r.undo => ~r.live,
           \/ r.parent = placeRows[p].parent
           \/ "revert" \in faults /\ r.parent = Places!Root,
           faults \cap {"undo", "orphan"} = {} =>
              /\ r.live => r.parent = Places!Root \/ r.parent \in Places!Nodes
              /\ r.live \/ Places!Children(p) = {},
           edits' \in 0 .. MaxEdits, UNCHANGED <<entity, mfrLive, faults>>
    PROVE  PlacesInv'
<1>1. placeRows \in [Places!Paths -> Row(Places!Paths)]
  BY DEF PlacesInv, Rooted, Places!TypeOK, Row
<1>2. /\ Places!Paths' = Places!Paths /\ placeRows'[p] = r
      /\ \A q \in Places!Paths : q # p => placeRows'[q] = placeRows[q]
      /\ placeRows' \in [Places!Paths -> Row(Places!Paths)]
  BY <1>1 DEF Places!Paths
<1>3. Places!TypeOK'
  <2>1. \A q \in Places!Paths : placeRows'[q].undo => ~placeRows'[q].live
    BY <1>2 DEF PlacesInv, Rooted, Places!TypeOK
  <2> QED
    BY <1>2, <2>1 DEF PlacesInv, Rooted, Places!TypeOK, Row
<1>4. Rooted'
  BY <1>2, <1>3 DEF PlacesInv, Rooted
<1>5. ASSUME "revert" \notin faults PROVE Places!PathIsAncestry'
  BY <1>2, <1>5 DEF PlacesInv, Places!PathIsAncestry
<1>6. ASSUME faults \cap {"undo", "orphan"} = {} PROVE Places!NoLocationIsLost'
  <2>1. Places!NoLocationIsLost
    BY <1>6 DEF PlacesInv
  <2> SUFFICES ASSUME NEW q \in (Places!Nodes)', placeRows'[q].parent # Places!Root
               PROVE  placeRows'[q].parent \in (Places!Nodes)'
    BY DEF Places!NoLocationIsLost
  <2>2. q \in Places!Paths /\ placeRows'[q].live
    BY <1>2 DEF Places!Nodes
  <2>3. placeRows'[q].parent \in Places!Nodes
    <3>1. CASE q = p
      BY <1>2, <1>6, <2>2, <3>1
    <3>2. CASE q # p
      BY <1>2, <2>1, <2>2, <3>2 DEF Places!NoLocationIsLost, Places!Nodes
    <3> QED
      BY <3>1, <3>2
  <2>4. CASE placeRows'[q].parent # p
    BY <1>2, <2>3, <2>4 DEF Places!Nodes
  <2>5. CASE placeRows'[q].parent = p
    <3>1. CASE r.live
      BY <1>2, <2>3, <2>5, <3>1 DEF Places!Nodes
    <3>2. CASE ~r.live
      <4>1. q # p /\ q \in Places!Nodes /\ placeRows[q].parent = p
        BY <1>2, <2>2, <2>5, <3>2 DEF Places!Nodes
      <4> QED
        BY <1>6, <3>2, <4>1 DEF Places!Children
    <3> QED
      BY <3>1, <3>2
  <2> QED
    BY <2>4, <2>5
<1>7. EntitiesStand' <=> EntitiesStand
  BY DEF EntitiesStand
<1> QED
  BY <1>4, <1>5, <1>6, <1>7 DEF PlacesInv

LEMMA DivisionIsLabel ==
    ASSUME NEW d \in Seq(Places!Types), NEW n \in Nat, NEW nothing,
           (IF n >= Len(d) THEN nothing ELSE d[n + 1]) # nothing
    PROVE  (IF n >= Len(d) THEN nothing ELSE d[n + 1]) \in Places!Types
<1>1. Len(d) \in Nat
  OBVIOUS
<1>2. ~(n >= Len(d))
  OBVIOUS
<1>3. n + 1 \in 1 .. Len(d)
  BY <1>1, <1>2
<1> QED
  BY <1>2, <1>3, ElementOfSeq

LEMMA DivisionTypes == \A d \in Divisions : d \in Seq(Places!Types) /\ (d # <<>> => d[1] \in Places!Types)
<1> SUFFICES ASSUME NEW d \in Divisions PROVE d \in Seq(Places!Types) /\ (d # <<>> => d[1] \in Places!Types)
  OBVIOUS
<1>1. d \in Seq(Places!Types)
  BY PlacesAssumption DEF Places!LocationsAssumption
<1>2. d # <<>> => 1 \in 1 .. Len(d)
  BY <1>1, EmptySeq
<1> QED
  BY <1>1, <1>2, ElementOfSeq

LEMMA DerivedIsLabel ==
    ASSUME PlacesInv, NEW p \in Places!Nodes
    PROVE  Places!Derived(p) # "" => Places!Derived(p) \in Places!Types
<1>1. p \in Places!Paths /\ Rooted
  BY DEF Places!Nodes, PlacesInv
<1> DEFINE s == Places!Chain(p)
<1>2. s \in Seq(Places!Paths) /\ Len(s) \in Nat /\ Len(s) >= 1
  BY <1>1, ChainClimbs
<1> HIDE DEF s
<1>3. Places!Last(s) \in Places!Paths
  <2>1. Len(s) \in 1 .. Len(s)
    BY <1>2
  <2> QED
    BY <1>2, <2>1, ElementOfSeq DEF Places!Last
<1>4. placeRows[Places!Last(s)].divs \in Seq(Places!Types) /\ Places!Depth(p) \in Nat
  BY <1>1, <1>3, RootedTypes
<1> QED
  BY <1>4, DivisionIsLabel DEF Places!Derived, Places!Division, s

LEMMA NewRowKeeps ==
    ASSUME PlacesInv, Places!CreateCountry \/ Places!CreateChild \/ Places!PatchCreates, UNCHANGED faults
    PROVE  PlacesInv'
<1>1. CASE Places!CreateCountry
  <2>1. PICK s \in Slugs, d \in Divisions : d # <<>> /\ Places!Insert(Places!Root, s, "country", d, TRUE)
    BY <1>1 DEF Places!CreateCountry
  <2>2. "country" \in Places!Types /\ d \in Seq(Places!Types)
    BY DivisionTypes DEF Places!Types
  <2> QED
    BY <2>1, <2>2, InsertKeeps
<1>2. CASE Places!CreateChild
  <2>1. PICK p \in Places!Nodes, s \in Slugs :
           Places!Derived(p) # "" /\ Places!Insert(p, s, Places!Derived(p), <<>>, TRUE)
    BY <1>2 DEF Places!CreateChild
  <2>2. Places!Derived(p) \in Places!Types /\ <<>> \in Seq(Places!Types) /\ p \in Places!Paths
    BY <2>1, DerivedIsLabel, EmptySeq DEF Places!Nodes
  <2> QED
    BY <2>1, <2>2, InsertKeeps
<1>3. CASE Places!PatchCreates
  <2>1. PICK p \in Places!Paths, s \in Slugs, d \in Divisions :
           /\ Places!Live(p) \/ "orphan" \in faults
           /\ d # <<>> /\ Places!Insert(p, s, d[1], <<>>, FALSE)
    BY <1>3 DEF Places!PatchCreates
  <2>2. d[1] \in Places!Types /\ <<>> \in Seq(Places!Types)
    BY <2>1, DivisionTypes, EmptySeq
  <2>3. "orphan" \notin faults => p \in Places!Nodes
    BY <2>1 DEF Places!Live, Places!Nodes
  <2> QED
    BY <2>1, <2>2, <2>3, InsertKeeps
<1> QED
  BY <1>1, <1>2, <1>3

LEMMA EditKeeps ==
    ASSUME PlacesInv,
           Places!EditDivisions \/ Places!Delete \/ Places!Restore \/ Places!Undo \/ Places!RevertParent,
           UNCHANGED faults
    PROVE  PlacesInv'
<1>1. \A p \in Places!Paths : placeRows[p] \in Row(Places!Paths)
  BY DEF PlacesInv, Rooted, Places!TypeOK, Row
<1>2. Places!Edit => edits' \in 0 .. MaxEdits
  BY PlacesAssumption DEF Places!Edit, Places!LocationsAssumption, PlacesInv, Rooted, Places!TypeOK
<1>3. \A p \in Places!Paths : placeRows[p].undo => ~placeRows[p].live
  BY DEF PlacesInv, Rooted, Places!TypeOK
<1>4. faults \cap {"undo", "orphan"} = {} =>
         \A p \in Places!Nodes : placeRows[p].parent = Places!Root \/ placeRows[p].parent \in Places!Nodes
  BY DEF PlacesInv, Places!NoLocationIsLost
<1>5. \A p \in Places!Nodes : p \in Places!Paths /\ placeRows[p].live
  BY DEF Places!Nodes
<1>6. CASE Places!EditDivisions
  <2>1. PICK p \in Places!Nodes, d \in Divisions : placeRows' = [placeRows EXCEPT ![p].divs = d]
    BY <1>6 DEF Places!EditDivisions
  <2>2. PICK r : r = [placeRows[p] EXCEPT !.divs = d]
    OBVIOUS
  <2>3. p \in Places!Paths /\ d \in Seq(Places!Types)
    BY <1>5, DivisionTypes
  <2>4. /\ r \in Row(Places!Paths) /\ r.slug = placeRows[p].slug /\ r.parent = placeRows[p].parent
        /\ r.live = placeRows[p].live /\ r.undo = placeRows[p].undo
    BY <1>1, <2>2, <2>3 DEF Row
  <2>5. placeRows' = [placeRows EXCEPT ![p] = r]
    BY <2>1, <2>2
  <2>6. edits' \in 0 .. MaxEdits /\ UNCHANGED <<entity, mfrLive>>
    BY <1>2, <1>6 DEF Places!EditDivisions
  <2> QED
    BY <1>3, <1>4, <1>5, <2>3, <2>4, <2>5, <2>6, RowEditKeeps
<1>7. CASE Places!Delete
  <2>1. PICK p \in Places!Nodes : Places!Deletable(p) /\ placeRows' = [placeRows EXCEPT ![p].live = FALSE, ![p].undo = TRUE]
    BY <1>7 DEF Places!Delete
  <2>2. PICK r : r = [placeRows[p] EXCEPT !.live = FALSE, !.undo = TRUE]
    OBVIOUS
  <2>3. p \in Places!Paths
    BY <1>5
  <2>4. /\ r \in Row(Places!Paths) /\ r.slug = placeRows[p].slug /\ r.parent = placeRows[p].parent
        /\ r.live = FALSE /\ r.undo = TRUE
    BY <1>1, <2>2, <2>3 DEF Row
  <2>5. placeRows' = [placeRows EXCEPT ![p] = r]
    BY <2>1, <2>2
  <2>6. edits' \in 0 .. MaxEdits /\ UNCHANGED <<entity, mfrLive>>
    BY <1>2, <1>7 DEF Places!Delete
  <2>7. Places!Children(p) = {}
    BY <2>1 DEF Places!Deletable
  <2> QED
    BY <2>3, <2>4, <2>5, <2>6, <2>7, RowEditKeeps
<1>8. ASSUME NEW p \in Places!Paths \ Places!Nodes, Places!Edit, UNCHANGED <<entity, mfrLive>>,
             placeRows' = [placeRows EXCEPT ![p].live = TRUE, ![p].undo = FALSE],
             "undo" \in faults \/ placeRows[p].parent = Places!Root \/ placeRows[p].parent \in Places!Nodes
      PROVE  PlacesInv'
  <2>2. PICK r : r = [placeRows[p] EXCEPT !.live = TRUE, !.undo = FALSE]
    OBVIOUS
  <2>4. /\ r \in Row(Places!Paths) /\ r.slug = placeRows[p].slug /\ r.parent = placeRows[p].parent
        /\ r.live = TRUE /\ r.undo = FALSE
    BY <1>1, <2>2 DEF Row
  <2>5. placeRows' = [placeRows EXCEPT ![p] = r]
    BY <1>8, <2>2
  <2>6. edits' \in 0 .. MaxEdits
    BY <1>2, <1>8
  <2>7. faults \cap {"undo", "orphan"} = {} => "undo" \notin faults
    OBVIOUS
  <2> QED
    BY <1>8, <2>4, <2>5, <2>6, <2>7, RowEditKeeps
<1>9. CASE Places!Restore
  BY <1>8, <1>9 DEF Places!Restore, Places!Live, Places!Nodes
<1>10. CASE Places!Undo
  BY <1>8, <1>10 DEF Places!Undo
<1>11. CASE Places!RevertParent
  <2>1. PICK p \in Places!Nodes : placeRows' = [placeRows EXCEPT ![p].parent = Places!Root]
    BY <1>11 DEF Places!RevertParent
  <2>2. PICK r : r = [placeRows[p] EXCEPT !.parent = Places!Root]
    OBVIOUS
  <2>3. p \in Places!Paths /\ "revert" \in faults
    BY <1>5, <1>11 DEF Places!RevertParent
  <2>4. /\ r \in Row(Places!Paths) /\ r.slug = placeRows[p].slug /\ r.parent = Places!Root
        /\ r.live = placeRows[p].live /\ r.undo = placeRows[p].undo
    BY <1>1, <2>2, <2>3 DEF Row
  <2>5. placeRows' = [placeRows EXCEPT ![p] = r]
    BY <2>1, <2>2
  <2>6. edits' \in 0 .. MaxEdits /\ UNCHANGED <<entity, mfrLive>>
    BY <1>2, <1>11 DEF Places!RevertParent
  <2> QED
    BY <1>3, <1>5, <2>3, <2>4, <2>5, <2>6, RowEditKeeps
<1> QED
  BY <1>6, <1>7, <1>9, <1>10, <1>11

\* What leaves the rows as they are and an entity with a live manufacturer.
LEMMA EntitiesKeep ==
    ASSUME PlacesInv, UNCHANGED <<placeRows, faults>>, edits' \in 0 .. MaxEdits,
           entity' \in [Entities -> [mfr : Manufacturers, at : SUBSET Places!Paths, live : BOOLEAN]],
           mfrLive' \in [Manufacturers -> BOOLEAN],
           "stray" \notin faults /\ EntitiesStand => EntitiesStand'
    PROVE  PlacesInv'
<1>1. Places!Paths' = Places!Paths /\ Places!Nodes' = Places!Nodes
  BY DEF Places!Paths, Places!Nodes
<1>2. Places!TypeOK'
  BY <1>1 DEF PlacesInv, Rooted, Places!TypeOK
<1>3. Rooted'
  BY <1>1, <1>2 DEF PlacesInv, Rooted
<1>4. /\ Places!PathIsAncestry => Places!PathIsAncestry'
      /\ Places!NoLocationIsLost => Places!NoLocationIsLost'
  BY <1>1 DEF Places!PathIsAncestry, Places!NoLocationIsLost
<1> QED
  BY <1>3, <1>4 DEF PlacesInv

LEMMA EntityStepKeeps ==
    ASSUME PlacesInv,
           \/ Places!Place \/ Places!Leave \/ Places!Reassign
           \/ Places!DeleteEntity \/ Places!RestoreEntity \/ Places!DeleteManufacturer,
           UNCHANGED faults
    PROVE  PlacesInv'
<1> DEFINE Entity == [mfr : Manufacturers, at : SUBSET Places!Paths, live : BOOLEAN]
<1>1. entity \in [Entities -> Entity] /\ mfrLive \in [Manufacturers -> BOOLEAN]
  BY DEF PlacesInv, Rooted, Places!TypeOK
<1>2. edits' \in 0 .. MaxEdits
  BY PlacesAssumption DEF Places!Edit, Places!LocationsAssumption, PlacesInv, Rooted, Places!TypeOK,
        Places!Place, Places!Leave, Places!Reassign, Places!DeleteEntity, Places!RestoreEntity,
        Places!DeleteManufacturer
\* An entity that stands where and for whom it may
<1>3. ASSUME NEW e \in Entities, NEW r \in Entity, entity' = [entity EXCEPT ![e] = r],
             UNCHANGED <<placeRows, mfrLive>>,
             "stray" \notin faults /\ r.live =>
                mfrLive[r.mfr] \/ (entity[e].live /\ r.mfr = entity[e].mfr)
      PROVE  PlacesInv'
  <2>1. entity' \in [Entities -> Entity] /\ mfrLive' \in [Manufacturers -> BOOLEAN]
    BY <1>1, <1>3
  <2>2. ASSUME "stray" \notin faults, EntitiesStand PROVE EntitiesStand'
    BY <1>1, <1>3, <2>2 DEF EntitiesStand
  <2> QED
    BY <1>2, <1>3, <2>1, <2>2, EntitiesKeep
<1>4. CASE Places!Place
  <2>1. PICK e \in Entities, p \in Places!Paths : entity' = [entity EXCEPT ![e].at = @ \cup {p}]
    BY <1>4 DEF Places!Place
  <2>2. PICK r : r = [entity[e] EXCEPT !.at = @ \cup {p}]
    OBVIOUS
  <2>3. r \in Entity /\ r.live = entity[e].live /\ r.mfr = entity[e].mfr
    BY <1>1, <2>2
  <2>4. entity' = [entity EXCEPT ![e] = r] /\ UNCHANGED <<placeRows, mfrLive>>
    BY <1>4, <2>1, <2>2 DEF Places!Place
  <2> QED
    BY <1>3, <2>3, <2>4
<1>5. CASE Places!Leave
  <2>1. PICK e \in Entities : \E p \in entity[e].at : entity' = [entity EXCEPT ![e].at = @ \ {p}]
    BY <1>5 DEF Places!Leave
  <2>2. PICK p \in entity[e].at : entity' = [entity EXCEPT ![e].at = @ \ {p}]
    BY <2>1
  <2>3. PICK r : r = [entity[e] EXCEPT !.at = @ \ {p}]
    OBVIOUS
  <2>4. r \in Entity /\ r.live = entity[e].live /\ r.mfr = entity[e].mfr
    BY <1>1, <2>3
  <2>5. entity' = [entity EXCEPT ![e] = r] /\ UNCHANGED <<placeRows, mfrLive>>
    BY <1>5, <2>2, <2>3 DEF Places!Leave
  <2> QED
    BY <1>3, <2>4, <2>5
<1>6. CASE Places!Reassign
  <2>1. PICK e \in Entities, m \in Manufacturers :
           /\ mfrLive[m] \/ "stray" \in faults
           /\ entity' = [entity EXCEPT ![e].mfr = m]
    BY <1>6 DEF Places!Reassign
  <2>2. PICK r : r = [entity[e] EXCEPT !.mfr = m]
    OBVIOUS
  <2>3. r \in Entity /\ r.live = entity[e].live /\ r.mfr = m
    BY <1>1, <2>2
  <2>4. entity' = [entity EXCEPT ![e] = r] /\ UNCHANGED <<placeRows, mfrLive>>
    BY <1>6, <2>1, <2>2 DEF Places!Reassign
  <2> QED
    BY <1>3, <2>1, <2>3, <2>4
<1>7. CASE Places!DeleteEntity
  <2>1. PICK e \in Entities : entity' = [entity EXCEPT ![e].live = FALSE]
    BY <1>7 DEF Places!DeleteEntity
  <2>2. PICK r : r = [entity[e] EXCEPT !.live = FALSE]
    OBVIOUS
  <2>3. r \in Entity /\ r.live = FALSE
    BY <1>1, <2>2
  <2>4. entity' = [entity EXCEPT ![e] = r] /\ UNCHANGED <<placeRows, mfrLive>>
    BY <1>7, <2>1, <2>2 DEF Places!DeleteEntity
  <2> QED
    BY <1>3, <2>3, <2>4
<1>8. CASE Places!RestoreEntity
  <2>1. PICK e \in Entities : Places!Restorable(e) /\ entity' = [entity EXCEPT ![e].live = TRUE]
    BY <1>8 DEF Places!RestoreEntity
  <2>2. PICK r : r = [entity[e] EXCEPT !.live = TRUE]
    OBVIOUS
  <2>3. r \in Entity /\ r.live = TRUE /\ r.mfr = entity[e].mfr
    BY <1>1, <2>2
  <2>4. entity' = [entity EXCEPT ![e] = r] /\ UNCHANGED <<placeRows, mfrLive>>
    BY <1>8, <2>1, <2>2 DEF Places!RestoreEntity
  <2>5. mfrLive[r.mfr]
    BY <2>1, <2>3 DEF Places!Restorable
  <2> QED
    BY <1>3, <2>3, <2>4, <2>5
<1>9. CASE Places!DeleteManufacturer
  <2>1. PICK m \in Manufacturers :
           /\ \A e \in Entities : entity[e].live => entity[e].mfr # m
           /\ mfrLive' = [mfrLive EXCEPT ![m] = FALSE]
    BY <1>9 DEF Places!DeleteManufacturer
  <2>2. UNCHANGED <<placeRows, entity>>
    BY <1>9 DEF Places!DeleteManufacturer
  <2>3. mfrLive' \in [Manufacturers -> BOOLEAN] /\ entity' \in [Entities -> Entity]
    BY <1>1, <2>1, <2>2
  <2>4. ASSUME EntitiesStand PROVE EntitiesStand'
    BY <1>1, <2>1, <2>2, <2>4 DEF EntitiesStand
  <2> QED
    BY <1>2, <2>2, <2>3, <2>4, EntitiesKeep
<1> QED
  BY <1>4, <1>5, <1>6, <1>7, <1>8, <1>9

LEMMA PlacesStep == PlacesInv /\ Places!Next => PlacesInv'
BY NewRowKeeps, EditKeeps, EntityStepKeeps DEF Places!Next

LEMMA PlacesRest ==
    ASSUME PlacesInv, UNCHANGED <<placeRows, entity, mfrLive, edits, faults>> PROVE PlacesInv'
<1>1. Places!Paths' = Places!Paths /\ Places!Nodes' = Places!Nodes
  BY DEF Places!Paths, Places!Nodes
<1> QED
  BY <1>1 DEF PlacesInv, Rooted, EntitiesStand, Places!TypeOK, Places!PathIsAncestry, Places!NoLocationIsLost

LEMMA DeclaredSuffice ==
    ASSUME declared \in Declarations \cup {NothingDeclared}
    PROVE  DeclarationsAreSafe(declared.schema, declared.refs, declared.alive, 1)
<1>1. CASE declared \in Declarations
  <2> DEFINE either == {"this", "that"}
             edges == {<<3, "that", 1>>, <<3, "that", 2>>, <<2, "that", 3>>}
  <2>1. /\ declared.schema \in [either -> {r \in Relation : WellFormed(r)}]
        /\ declared.refs \in {{<<2, "this", 1>>} \cup E : E \in SUBSET edges}
    BY <1>1 DEF Declarations
  <2>2. \A e \in declared.refs : e[2] \in either
    BY <2>1
  <2> HIDE DEF either, edges
  <2> QED
    BY <2>1, <2>2, DeclarationsSuffice
<1>2. CASE declared = NothingDeclared
  <2>1. declared.schema \in [{} -> {r \in Relation : WellFormed(r)}] /\ declared.refs = {}
    BY <1>2 DEF NothingDeclared
  <2>2. \A e \in declared.refs : e[2] \in {}
    BY <2>1
  <2> QED
    BY <2>1, <2>2, DeclarationsSuffice
<1> QED
  BY <1>1, <1>2

\* Nothing live hangs off what is gone, for any slugs, divisions, entities and
\* bounds, and in whatever combination of the edits besides the pages: each
\* part of it needs only that the edits which break it do not happen
\* (locations.py, locations_write.py, Location).
THEOREM NothingEverDangles == SceneSpec => []NothingDangles
<1> DEFINE Sound == PlacesInv /\ declared \in Declarations \cup {NothingDeclared}
<1>1. SceneInit => Sound
  BY PlacesStart DEF SceneInit
<1>2. Sound /\ [SceneNext]_<<scene, declared, vars, ruleVars, placeVars>> => Sound'
  <2> SUFFICES ASSUME Sound, [SceneNext]_<<scene, declared, vars, ruleVars, placeVars>> PROVE Sound'
    OBVIOUS
  <2>1. Places!Next \/ UNCHANGED <<placeRows, entity, mfrLive, edits, faults>>
    BY DEF SceneNext, placeVars
  <2>2. declared' = declared
    BY DEF SceneNext
  <2> QED
    BY <2>1, <2>2, PlacesStep, PlacesRest DEF Declarations, NothingDeclared
<1>3. Sound => NothingDangles
  BY PlacesFound, DeclaredSuffice DEF NothingDangles
<1> HIDE DEF Sound
<1> QED
  BY <1>1, <1>2, <1>3, PTL DEF SceneSpec

\* And the rows keep their types: among them that a parent is there, and that
\* an entity is only where there is a location, deleted or not.
THEOREM PlacesKeepTypes == SceneSpec => []Places!TypeOK
<1>1. SceneInit => PlacesInv
  BY PlacesStart DEF SceneInit
<1>2. PlacesInv /\ [SceneNext]_<<scene, declared, vars, ruleVars, placeVars>> => PlacesInv'
  BY PlacesStep, PlacesRest DEF SceneNext, placeVars
<1>3. PlacesInv => Places!TypeOK
  BY DEF PlacesInv, Rooted
<1> QED
  BY <1>1, <1>2, <1>3, PTL DEF SceneSpec
=============================================================================
