-------------------------- MODULE ClaimStoreProofs --------------------------
(***************************************************************************)
(* Invariants of ClaimStore for every set of users, sources, entities,     *)
(* keys and values, every priority and every bound.  Inv is inductive; it  *)
(* adds to the log's invariant that claims are about existing rows, and    *)
(* that no claim clears a column every row must have.                      *)
(***************************************************************************)
EXTENDS ClaimStore, ClaimLogProofs

RowsTypeOK ==
    /\ suppressed \subseteq Switchable
    /\ DOMAIN rows \subseteq Subjects
    /\ rows \in [DOMAIN rows -> [Keys -> RowValues]]

\* Every claim is about a row, and none clears a column a create must fill
ClaimsAreSane ==
    \A c \in claims : /\ c.subject \in DOMAIN rows
                      /\ c.key \in CreateKeys => c.value # Cleared

Inv ==
    /\ LogInv
    /\ RowsTypeOK
    /\ ClaimsAreSane
    /\ PreservedNeverBlank

-----------------------------------------------------------------------------
\* Clearing and blanking apart, a value materialises as itself.
LEMMA MaterialiseType ==
    \A v \in Values : /\ Materialise(v) \in RowValues
                      /\ v # Cleared => Materialise(v) # Blank
  BY ValuesAssumption DEF Materialise, RowValues

\* A resolved value is the fallback or the materialised value of an active claim.
LEMMA ResolvedCases ==
    ASSUME NEW act, NEW s, NEW k, NEW fallback
    PROVE  \/ Resolved(act, s, k, fallback) = fallback
           \/ \E c \in act : /\ c.subject = s /\ c.key = k
                             /\ Resolved(act, s, k, fallback) = Materialise(c.value)
<1> DEFINE W == Winner(act, suppressed, s, k)
<1>1. CASE W = {}
  BY <1>1 DEF Resolved
<1>2. CASE W # {}
  <2>1. (CHOOSE c \in W : TRUE) \in W
    BY <1>2
  <2>2. W \subseteq {c \in act : c.subject = s /\ c.key = k}
    BY DEF Winner, Eligible
  <2>3. Resolved(act, s, k, fallback) = Materialise((CHOOSE c \in W : TRUE).value)
    BY <1>2 DEF Resolved
  <2> QED
    BY <2>1, <2>2, <2>3
<1> QED
  BY <1>1, <1>2

\* A row that starts well-typed with its preserved columns filled is resolved
\* into one.
LEMMA ResolvedRowSound ==
    ASSUME NEW act, NEW s, NEW base \in [Keys -> RowValues], NEW touched,
           \A c \in act : /\ c.value \in Values
                          /\ c.key \in CreateKeys => c.value # Cleared,
           \A k \in PreserveKeys : base[k] # Blank
    PROVE  /\ ResolvedRow(act, s, base, touched) \in [Keys -> RowValues]
           /\ \A k \in PreserveKeys : ResolvedRow(act, s, base, touched)[k] # Blank
<1> DEFINE r == ResolvedRow(act, s, base, touched)
           fb(k) == IF k \in PreserveKeys THEN base[k] ELSE Blank
<1>1. \A k \in Keys : r[k] = base[k] \/ r[k] = Resolved(act, s, k, fb(k))
  BY DEF ResolvedRow
<1>2. \A k \in PreserveKeys : k \in Keys /\ k \in CreateKeys
  BY KeysAssumption
<1>3. ASSUME NEW k \in Keys
      PROVE  /\ r[k] \in RowValues
             /\ k \in PreserveKeys => r[k] # Blank
  <2>1. fb(k) \in RowValues /\ (k \in PreserveKeys => fb(k) # Blank)
    BY DEF RowValues
  <2>2. CASE r[k] = base[k]
    BY <2>2
  <2>3. CASE r[k] = Resolved(act, s, k, fb(k))
    <3>1. CASE r[k] = fb(k)
      BY <2>1, <3>1
    <3>2. CASE \E c \in act : c.key = k /\ r[k] = Materialise(c.value)
      <4>1. PICK c \in act : c.key = k /\ r[k] = Materialise(c.value)
        BY <3>2
      <4>2. c.value \in Values /\ (k \in CreateKeys => c.value # Cleared)
        BY <4>1
      <4> QED
        BY <1>2, <4>1, <4>2, MaterialiseType
    <3> HIDE DEF fb
    <3> QED
      BY <2>3, <3>1, <3>2, ResolvedCases
  <2> QED
    BY <1>1, <2>2, <2>3
<1>4. r = [k \in Keys |-> r[k]]
  BY DEF ResolvedRow
<1> QED
  BY <1>2, <1>3, <1>4

\* The row inserted at a create has its preserved columns filled.
LEMMA InsertedSound ==
    ASSUME NEW K \in SUBSET Keys, NEW vals \in [K -> Values],
           K = CreateKeys, Assertable(vals)
    PROVE  /\ Inserted(vals) \in [Keys -> RowValues]
           /\ \A k \in PreserveKeys : Inserted(vals)[k] # Blank
  BY KeysAssumption, MaterialiseType DEF Inserted, Assertable, RowValues

-----------------------------------------------------------------------------
\* What resolving the subject of a write keeps, once the log's part is known.
LEMMA ResolveKeepsInv ==
    ASSUME Inv, LogInv', UNCHANGED suppressed, NEW s \in Subjects,
           NEW base \in [Keys -> RowValues], NEW touched,
           \A k \in PreserveKeys : base[k] # Blank,
           \A c \in claims' \ claims :
              c.subject = s /\ (c.key \in CreateKeys => c.value # Cleared),
           Resolve(s, base, touched)
    PROVE  Inv'
<1> DEFINE r == ResolvedRow(active', s, base, touched)
<1>1. rows' = [t \in DOMAIN rows \cup {s} |-> IF t = s THEN r ELSE rows[t]]
  BY DEF Resolve
<1>2. \A c \in claims' : /\ c.subject \in DOMAIN rows'
                         /\ c.key \in CreateKeys => c.value # Cleared
  BY <1>1 DEF Inv, ClaimsAreSane
<1>3. \A c \in active' : c \in claims' /\ c.value \in Values
  BY DEF LogInv, LogTypeOK, Claim
<1>4. r \in [Keys -> RowValues] /\ \A k \in PreserveKeys : r[k] # Blank
  BY <1>2, <1>3, ResolvedRowSound
<1>5. RowsTypeOK'
  <2> HIDE DEF r
  <2> QED
    BY <1>1, <1>4 DEF Inv, RowsTypeOK
<1>6. PreservedNeverBlank'
  <2> HIDE DEF r
  <2> QED
    BY <1>1, <1>4 DEF Inv, PreservedNeverBlank
<1> QED
  BY <1>2, <1>5, <1>6 DEF Inv, ClaimsAreSane

-----------------------------------------------------------------------------
\* The claims of a payload a planner accepts, as the next changeset writes them.
LEMMA WrittenSane ==
    ASSUME NEW a \in Actors, NEW s \in Subjects, NEW K \in SUBSET Keys,
           NEW vals \in [K -> Values], Assertable(vals)
    PROVE  /\ NewClaims(a, Written(a, s, vals))
           /\ \A c \in Written(a, s, vals) :
                 c.subject = s /\ (c.key \in CreateKeys => c.value # Cleared)
<1>1. NewClaims(a, Written(a, s, vals))
  BY WrittenIsNew
<1>2. \A k \in K \cap CreateKeys : vals[k] # Cleared
  BY DEF Assertable
<1> QED
  BY <1>1, <1>2 DEF Written

\* A payload is a function from some keys to values.
LEMMA PayloadType ==
    ASSUME NEW vals \in Payloads
    PROVE  DOMAIN vals \in SUBSET Keys /\ vals \in [DOMAIN vals -> Values]
  BY DEF Payloads

\* The empty store satisfies the invariant.
LEMMA InitInv == Init => Inv
<1> SUFFICES ASSUME Init PROVE Inv
  OBVIOUS
<1>1. LogInv
  BY LogInitInv DEF Init
<1>2. RowsTypeOK /\ ClaimsAreSane /\ PreservedNeverBlank
  BY DEF Init, LogInit, RowsTypeOK, ClaimsAreSane, PreservedNeverBlank
<1> QED
  BY <1>1, <1>2 DEF Inv

\* Creating an entity keeps the invariant.
LEMMA CreateEntityInv ==
    ASSUME Inv, NEW u \in Users, NEW s \in Subjects, NEW vals \in Payloads,
           CreateEntity(u, s, vals)
    PROVE  Inv'
<1> USE DEF CreateEntity
<1>1. NewClaims(u, Written(u, s, vals))
      /\ \A c \in Written(u, s, vals) :
            c.subject = s /\ (c.key \in CreateKeys => c.value # Cleared)
  BY PayloadType, WrittenSane DEF Actors
<1>2. LogInv'
  BY <1>1, AssertPreserves DEF Inv, Actions
<1>3. /\ Inserted(vals) \in [Keys -> RowValues]
      /\ \A k \in PreserveKeys : Inserted(vals)[k] # Blank
  BY PayloadType, InsertedSound
<1>4. \A c \in claims' \ claims :
         c.subject = s /\ (c.key \in CreateKeys => c.value # Cleared)
  BY <1>1 DEF AssertClaims
<1> QED
  BY <1>2, <1>3, <1>4, ResolveKeepsInv

\* The row of an existing subject may be the base of its next resolution.
LEMMA RowSound ==
    ASSUME Inv, NEW s \in DOMAIN rows
    PROVE  /\ s \in Subjects
           /\ rows[s] \in [Keys -> RowValues]
           /\ \A k \in PreserveKeys : rows[s][k] # Blank
  BY DEF Inv, RowsTypeOK, PreservedNeverBlank

\* An edit keeps the invariant.
LEMMA EditInv ==
    ASSUME Inv, NEW u \in Users, NEW s \in Subjects, NEW vals \in Payloads,
           Edit(u, s, vals)
    PROVE  Inv'
<1> USE DEF Edit
<1>1. NewClaims(u, Written(u, s, vals))
      /\ \A c \in Written(u, s, vals) :
            c.subject = s /\ (c.key \in CreateKeys => c.value # Cleared)
  BY PayloadType, WrittenSane DEF Actors
<1>2. LogInv'
  BY <1>1, AssertPreserves DEF Inv, Actions
<1>3. \A c \in claims' \ claims :
         c.subject = s /\ (c.key \in CreateKeys => c.value # Cleared)
  BY <1>1 DEF AssertClaims
<1> QED
  BY <1>2, <1>3, RowSound, ResolveKeepsInv

\* A revert keeps the invariant.
LEMMA RevertInv ==
    ASSUME Inv, NEW u \in Users, NEW c \in active, Revert(u, c)
    PROVE  Inv'
<1> USE DEF Revert
<1>1. c \in claims /\ c.subject \in DOMAIN rows
  BY DEF Inv, LogInv, LogTypeOK, ClaimsAreSane
<1>2. LogInv'
  BY RevertPreserves DEF Inv, Actions
<1>3. claims' = claims
  BY DEF RevertClaims
<1> QED
  BY <1>1, <1>2, <1>3, RowSound, ResolveKeepsInv

\* An ingest keeps the invariant.
LEMMA IngestInv ==
    ASSUME Inv, NEW w \in Sources, NEW s \in Subjects, NEW vals \in Payloads,
           NEW retracts \in SUBSET Keys, Ingest(w, s, vals, retracts)
    PROVE  Inv'
<1> DEFINE mine == {c \in active : c.actor = w /\ c.subject = s}
           W == {n \in Written(w, s, vals) :
                    \A c \in mine : SameSlot(c, n) => c.value # n.value}
           T == {c \in mine : c.key \in retracts}
           base == IF s \in DOMAIN rows THEN rows[s] ELSE Inserted(vals)
<1>0. /\ s \in DOMAIN rows \/ DOMAIN vals = CreateKeys
      /\ Assertable(vals)
      /\ RecordChangeset(w, "ingest")
      /\ PersistIngest(W, T)
      /\ Resolve(s, base, {c.key : c \in W \cup T})
      /\ UNCHANGED suppressed
  BY DEF Ingest
<1>1. NewClaims(w, Written(w, s, vals))
      /\ \A c \in Written(w, s, vals) :
            c.subject = s /\ (c.key \in CreateKeys => c.value # Cleared)
  BY <1>0, PayloadType, WrittenSane DEF Actors
<1>2. NewClaims(w, W)
  BY <1>1 DEF NewClaims
<1>3. T \in SUBSET active /\ \A t \in T : t.actor = w
  OBVIOUS
<1>4. LogInv'
  <2> HIDE DEF W, T
  <2> QED
    BY <1>0, <1>2, <1>3, IngestPreserves DEF Inv
<1>5. \A c \in claims' \ claims :
         c.subject = s /\ (c.key \in CreateKeys => c.value # Cleared)
  BY <1>0, <1>1 DEF PersistIngest
<1>6. base \in [Keys -> RowValues] /\ \A k \in PreserveKeys : base[k] # Blank
  BY <1>0, PayloadType, InsertedSound, RowSound
<1> HIDE DEF base
<1> QED
  BY <1>0, <1>4, <1>5, <1>6, ResolveKeepsInv

\* Every step of the store keeps the invariant.
LEMMA NextInv == Inv /\ [Next]_vars => Inv'
<1> SUFFICES ASSUME Inv, [Next]_vars PROVE Inv'
  OBVIOUS
<1>1. ASSUME NEW u \in Users, NEW s \in Subjects, NEW vals \in Payloads,
             CreateEntity(u, s, vals)
      PROVE  Inv'
  BY <1>1, CreateEntityInv
<1>2. ASSUME NEW u \in Users, NEW s \in Subjects, NEW vals \in Payloads, Edit(u, s, vals)
      PROVE  Inv'
  BY <1>2, EditInv
<1>3. ASSUME NEW u \in Users, NEW c \in active, Revert(u, c) PROVE Inv'
  BY <1>3, RevertInv
<1>4. ASSUME NEW w \in Sources, NEW s \in Subjects, NEW vals \in Payloads,
             NEW retracts \in SUBSET Keys, Ingest(w, s, vals, retracts)
      PROVE  Inv'
  BY <1>4, IngestInv
<1>5. ASSUME NEW w \in Switchable, ToggleSource(w) PROVE Inv'
  <2>1. LogInv'
    BY <1>5 DEF ToggleSource, logVars, Inv, LogInv, LogTypeOK, OnePerChangeset, UniqueActive,
         RetractedIsInactive, ActiveIsNewest, UserSlotSpeaks, RetractionAuthority,
         Retracted, ChangeSetIds, Claim
  <2>2. RowsTypeOK' /\ ClaimsAreSane' /\ PreservedNeverBlank'
    BY <1>5 DEF ToggleSource, logVars, Inv, RowsTypeOK, ClaimsAreSane, PreservedNeverBlank
  <2> QED
    BY <2>1, <2>2 DEF Inv
<1>6. CASE UNCHANGED vars
  <2>1. LogInv'
    BY <1>6 DEF vars, Inv, LogInv, LogTypeOK, OnePerChangeset, UniqueActive,
         RetractedIsInactive, ActiveIsNewest, UserSlotSpeaks, RetractionAuthority,
         Retracted, ChangeSetIds, Claim
  <2>2. RowsTypeOK' /\ ClaimsAreSane' /\ PreservedNeverBlank'
    BY <1>6 DEF vars, Inv, RowsTypeOK, ClaimsAreSane, PreservedNeverBlank
  <2> QED
    BY <2>1, <2>2 DEF Inv
<1> QED
  BY <1>1, <1>2, <1>3, <1>4, <1>5, <1>6 DEF Next

\* The invariant holds in every state of every behaviour.
THEOREM Invariance == Spec => []Inv
<1>1. Init => Inv
  BY InitInv
<1>2. Inv /\ [Next]_vars => Inv'
  BY NextInv
<1> QED
  BY <1>1, <1>2, PTL DEF Spec

\* Type correctness of the store.
THEOREM StoreTypeOK == Spec => []TypeOK
<1>1. Inv => TypeOK
  BY DEF Inv, LogInv, RowsTypeOK, TypeOK
<1> QED
  BY <1>1, Invariance, PTL

\* The partial unique index never has a serial write to reject, and the opinion
\* of a slot is its newest unretracted claim: reverts unwind, they do not skip.
THEOREM SlotsAreStacks == Spec => [](UniqueActive /\ ActiveIsNewest /\ UserSlotSpeaks)
<1>1. Inv => UniqueActive /\ ActiveIsNewest /\ UserSlotSpeaks
  BY DEF Inv, LogInv
<1> QED
  BY <1>1, Invariance, PTL

\* Retraction is final, and only the right kind of actor retracts.
THEOREM RetractionIsSound == Spec => [](RetractedIsInactive /\ RetractionAuthority)
<1>1. Inv => RetractedIsInactive /\ RetractionAuthority
  BY DEF Inv, LogInv
<1> QED
  BY <1>1, Invariance, PTL

\* A unique or otherwise preserved column never loses its value.
THEOREM PreservedStay == Spec => []PreservedNeverBlank
<1>1. Inv => PreservedNeverBlank
  BY DEF Inv
<1> QED
  BY <1>1, Invariance, PTL

-----------------------------------------------------------------------------
\* No step rewrites the history of the log: what was claimed stays claimed and
\* what was retracted stays retracted by the changeset that retracted it.
THEOREM HistoryIsKept == Spec => LogOnlyGrows
<1>1. Inv /\ [Next]_vars => [LogGrows]_vars
  <2> SUFFICES ASSUME Inv, Next PROVE LogGrows \/ UNCHANGED vars
    OBVIOUS
  <2> USE DEF Inv
  <2>1. ASSUME NEW u \in Users, NEW s \in Subjects, NEW vals \in Payloads,
               CreateEntity(u, s, vals)
        PROVE  LogGrows
    BY <2>1, AssertGrows DEF CreateEntity, Actions
  <2>2. ASSUME NEW u \in Users, NEW s \in Subjects, NEW vals \in Payloads, Edit(u, s, vals)
        PROVE  LogGrows
    BY <2>2, AssertGrows DEF Edit, Actions
  <2>3. ASSUME NEW u \in Users, NEW c \in active, Revert(u, c) PROVE LogGrows
    BY <2>3, StampGrows DEF Revert, RevertClaims, Actions
  <2>4. ASSUME NEW w \in Sources, NEW s \in Subjects, NEW vals \in Payloads,
               NEW retracts \in SUBSET Keys, Ingest(w, s, vals, retracts)
        PROVE  LogGrows
    <3> DEFINE mine == {c \in active : c.actor = w /\ c.subject = s}
               W == {n \in Written(w, s, vals) :
                        \A c \in mine : SameSlot(c, n) => c.value # n.value}
               T == {c \in mine : c.key \in retracts}
    <3>1. RecordChangeset(w, "ingest") /\ PersistIngest(W, T)
      BY <2>4 DEF Ingest
    <3>2. T \in SUBSET active
      OBVIOUS
    <3> HIDE DEF W, T
    <3> QED
      BY <3>1, <3>2, StampGrows DEF PersistIngest, Actions
  <2>5. ASSUME NEW w \in Switchable, ToggleSource(w) PROVE LogGrows
    BY <2>5 DEF ToggleSource, logVars, LogGrows, Retracted
  <2> QED
    BY <2>1, <2>2, <2>3, <2>4, <2>5 DEF Next
<1> QED
  BY <1>1, Invariance, PTL DEF Spec, LogOnlyGrows, LogGrows

-----------------------------------------------------------------------------
(* The row as a view over the log.  Without the kill switch every field is  *)
(* at all times what its resolution gives; the argument is that a write     *)
(* changes active claims of its own subject only, on keys it touches, and   *)
(* re-resolves exactly those.                                               *)

\* A field's resolution depends on the active claims of that field alone.
LEMMA ResolvedLocal ==
    ASSUME NEW act1, NEW act2, NEW s, NEW k, NEW fallback,
           \A c : c.subject = s /\ c.key = k => (c \in act1 <=> c \in act2)
    PROVE  Resolved(act1, s, k, fallback) = Resolved(act2, s, k, fallback)
<1>1. Eligible(act1, suppressed, s, k) = Eligible(act2, suppressed, s, k)
  BY DEF Eligible
<1> QED
  BY <1>1 DEF Resolved, Winner

\* Resolving with its own result as the fallback changes nothing.
LEMMA ResolvedStable ==
    ASSUME NEW act, NEW s, NEW k, NEW fallback
    PROVE  Resolved(act, s, k, Resolved(act, s, k, fallback)) = Resolved(act, s, k, fallback)
  BY DEF Resolved

ViewInv == Inv /\ suppressed = {} /\ RowIsResolution

\* A write that changes the active claims of one subject, on touched keys, and
\* re-resolves it keeps every row the view of the log.
LEMMA ResolveKeepsView ==
    ASSUME ViewInv, UNCHANGED suppressed, NEW s \in Subjects,
           NEW base, s \in DOMAIN rows => base = rows[s], NEW touched \in SUBSET Keys,
           s \notin DOMAIN rows => \A k \in MemberKeys : base[k] = Blank,
           \A c : (c \in active /\ c \notin active') \/ (c \in active' /\ c \notin active)
                    => c.subject = s /\ c.key \in touched,
           Resolve(s, base, touched)
    PROVE  RowIsResolution'
<1> DEFINE r == ResolvedRow(active', s, base, touched)
           fb(row, k) == IF k \in PreserveKeys THEN row[k] ELSE Blank
<1>1. rows' = [t \in DOMAIN rows \cup {s} |-> IF t = s THEN r ELSE rows[t]]
  BY DEF Resolve
<1>2. suppressed' = suppressed
  OBVIOUS
<1> SUFFICES ASSUME NEW t \in DOMAIN rows', NEW k \in Keys
             PROVE  rows'[t][k] = Resolved(active', t, k, fb(rows'[t], k))
  BY <1>2 DEF RowIsResolution, Resolved, Winner, Eligible
<1>3. ASSUME t \in DOMAIN rows,
             \A c : c.subject = t /\ c.key = k => (c \in active <=> c \in active')
      PROVE  rows[t][k] = Resolved(active', t, k, fb(rows[t], k))
  <2>1. rows[t][k] = Resolved(active, t, k, fb(rows[t], k))
    BY <1>3 DEF ViewInv, RowIsResolution
  <2> HIDE DEF fb
  <2> QED
    BY <1>3, <2>1, ResolvedLocal
<1>4. CASE t # s
  BY <1>1, <1>3, <1>4
<1>5. CASE t = s /\ k \in MemberKeys /\ touched \cap MemberKeys = {}
  <2>1. rows'[t][k] = base[k] /\ k \notin touched /\ k \notin PreserveKeys
    BY <1>1, <1>5, KeysAssumption DEF ResolvedRow, MemberKeys
  <2>2. \A c : c.subject = t /\ c.key = k => (c \in active <=> c \in active')
    BY <1>5, <2>1
  <2>3. CASE t \in DOMAIN rows
    BY <1>3, <1>5, <2>1, <2>2, <2>3
  <2>4. CASE t \notin DOMAIN rows
    <3>1. Eligible(active', suppressed, t, k) = {}
      BY <2>2, <2>4 DEF Eligible, ViewInv, Inv, ClaimsAreSane, LogInv, LogTypeOK
    <3>2. Resolved(active', t, k, Blank) = Blank
      BY <3>1 DEF Resolved, Winner
    <3> QED
      BY <1>5, <2>1, <2>4, <3>2
  <2> QED
    BY <2>3, <2>4
<1>6. CASE t = s /\ ~(k \in MemberKeys /\ touched \cap MemberKeys = {})
  <2>1. rows'[t] = r
    BY <1>1, <1>6
  <2>2. r[k] = Resolved(active', t, k, fb(base, k))
    BY <1>6 DEF ResolvedRow
  <2>3. CASE k \in PreserveKeys
    BY <2>1, <2>2, <2>3, ResolvedStable
  <2>4. CASE k \notin PreserveKeys
    BY <2>1, <2>2, <2>4
  <2> QED
    BY <2>3, <2>4
<1> QED
  BY <1>4, <1>5, <1>6

\* An assertion changes the active claims of its subject on its keys only.
LEMMA AssertTouches ==
    ASSUME NEW a, NEW s, NEW K, NEW vals, DOMAIN vals = K,
           AssertClaims(Written(a, s, vals)), NEW c,
           (c \in active /\ c \notin active') \/ (c \in active' /\ c \notin active)
    PROVE  c.subject = s /\ c.key \in K
  BY DEF AssertClaims, Written, Superseded, SameSlot

\* A revert changes active claims of its claim's slot only.
LEMMA RevertTouches ==
    ASSUME NEW c, RevertClaims({c}), NEW d,
           (d \in active /\ d \notin active') \/ (d \in active' /\ d \notin active)
    PROVE  SameSlot(d, c)
  BY DEF RevertClaims, Predecessors, Newest, Fallback, SameSlot

\* What Ingest persists: the source's own claims on the subject, those of the
\* payload that differ from them, and those it retracts.
Mine(w, s) == {c \in active : c.actor = w /\ c.subject = s}

Differing(w, s, vals) ==
    {n \in Written(w, s, vals) :
        \A c \in Mine(w, s) : SameSlot(c, n) => c.value # n.value}

Dropped(w, s, retracts) == {c \in Mine(w, s) : c.key \in retracts}

\* The keys it changes, whose members it resolves again
Changed(w, s, vals, retracts) ==
    {c.key : c \in Differing(w, s, vals) \cup Dropped(w, s, retracts)}

LEMMA IngestParts ==
    ASSUME NEW w, NEW s, NEW vals, NEW retracts, Ingest(w, s, vals, retracts)
    PROVE  /\ RecordChangeset(w, "ingest")
           /\ PersistIngest(Differing(w, s, vals), Dropped(w, s, retracts))
           /\ Resolve(s, IF s \in DOMAIN rows THEN rows[s] ELSE Inserted(vals),
                      Changed(w, s, vals, retracts))
           /\ DOMAIN vals \cap retracts = {}
           /\ UNCHANGED suppressed
  BY DEF Ingest, Mine, Differing, Dropped, Changed

\* An ingest changes active claims of its own source, its subject and its
\* changed keys only.
LEMMA IngestTouches ==
    ASSUME NEW w, NEW s, NEW vals, NEW retracts, Ingest(w, s, vals, retracts), NEW c,
           (c \in active /\ c \notin active') \/ (c \in active' /\ c \notin active)
    PROVE  c.actor = w /\ c.subject = s /\ c.key \in Changed(w, s, vals, retracts)
<1>1. PersistIngest(Differing(w, s, vals), Dropped(w, s, retracts))
  BY IngestParts
<1>2. \A n \in Differing(w, s, vals) :
         n.actor = w /\ n.subject = s /\ n.key \in Changed(w, s, vals, retracts)
  BY DEF Differing, Written, Changed
<1>3. \A t \in Dropped(w, s, retracts) :
         t.actor = w /\ t.subject = s /\ t.key \in Changed(w, s, vals, retracts)
  BY DEF Dropped, Mine, Changed
<1> HIDE DEF Differing, Dropped
<1> QED
  BY <1>1, <1>2, <1>3 DEF PersistIngest, Superseded, SameSlot

LEMMA ChangedKeys ==
    ASSUME NEW w, NEW s, NEW vals \in Payloads, NEW retracts \in SUBSET Keys
    PROVE  Changed(w, s, vals, retracts) \in SUBSET Keys
<1>1. DOMAIN vals \in SUBSET Keys
  BY PayloadType
<1> QED
  BY <1>1 DEF Changed, Differing, Written, Dropped

\* Without a kill switch every step keeps every row the view of the log.
LEMMA ViewStep ==
    ASSUME ViewInv, Switchable = {}, [Next]_vars
    PROVE  ViewInv'
<1>1. Inv'
  BY NextInv DEF ViewInv
<1>2. suppressed' = {}
  BY <1>1 DEF Inv, RowsTypeOK
<1>3. UNCHANGED suppressed
  BY <1>2 DEF ViewInv
<1>4. ASSUME NEW u \in Users, NEW s \in Subjects, NEW vals \in Payloads,
             CreateEntity(u, s, vals)
      PROVE  RowIsResolution'
  <2>1. CreateKeys \in SUBSET Keys /\ CreateKeys \cap MemberKeys = {}
    BY KeysAssumption DEF MemberKeys
  <2>2. \A k \in MemberKeys : Inserted(vals)[k] = Blank
    BY <1>4, <2>1 DEF CreateEntity, Inserted, MemberKeys
  <2>3. \A c : (c \in active /\ c \notin active') \/ (c \in active' /\ c \notin active)
                 => c.subject = s /\ c.key \in CreateKeys
    BY <1>4, AssertTouches DEF CreateEntity
  <2> QED
    BY <1>3, <1>4, <2>1, <2>2, <2>3, ResolveKeepsView DEF CreateEntity
<1>5. ASSUME NEW u \in Users, NEW s \in Subjects, NEW vals \in Payloads, Edit(u, s, vals)
      PROVE  RowIsResolution'
  <2>1. \A c : (c \in active /\ c \notin active') \/ (c \in active' /\ c \notin active)
                 => c.subject = s /\ c.key \in DOMAIN vals
    BY <1>5, AssertTouches DEF Edit
  <2> QED
    BY <1>3, <1>5, <2>1, PayloadType, ResolveKeepsView DEF Edit
<1>6. ASSUME NEW u \in Users, NEW c \in active, Revert(u, c) PROVE RowIsResolution'
  <2>1. c.subject \in DOMAIN rows /\ c.subject \in Subjects /\ c.key \in Keys
    BY DEF ViewInv, Inv, LogInv, LogTypeOK, Claim, ClaimsAreSane
  <2>2. \A d : (d \in active /\ d \notin active') \/ (d \in active' /\ d \notin active)
                 => d.subject = c.subject /\ d.key \in {c.key}
    BY <1>6, RevertTouches DEF Revert, SameSlot
  <2> QED
    BY <1>3, <1>6, <2>1, <2>2, ResolveKeepsView DEF Revert
<1>7. ASSUME NEW w \in Sources, NEW s \in Subjects, NEW vals \in Payloads,
             NEW retracts \in SUBSET Keys, Ingest(w, s, vals, retracts)
      PROVE  RowIsResolution'
  <2> DEFINE base == IF s \in DOMAIN rows THEN rows[s] ELSE Inserted(vals)
             touched == Changed(w, s, vals, retracts)
  <2>1. Resolve(s, base, touched)
    BY <1>7, IngestParts
  <2>2. touched \in SUBSET Keys
    BY ChangedKeys
  <2>3. s \notin DOMAIN rows => \A k \in MemberKeys : base[k] = Blank
    BY <1>7, KeysAssumption DEF Ingest, Inserted, MemberKeys
  <2>4. \A c : (c \in active /\ c \notin active') \/ (c \in active' /\ c \notin active)
                 => c.subject = s /\ c.key \in touched
    BY <1>7, IngestTouches
  <2>5. s \in DOMAIN rows => base = rows[s]
    BY DEF base
  <2> HIDE DEF base, touched
  <2> QED
    BY <1>3, <2>1, <2>2, <2>3, <2>4, <2>5, ResolveKeepsView
<1>8. ASSUME NEW w \in Switchable, ToggleSource(w) PROVE RowIsResolution'
  OBVIOUS
<1>9. ASSUME UNCHANGED vars PROVE RowIsResolution'
  BY <1>9 DEF vars, ViewInv, RowIsResolution, Resolved, Winner, Eligible
<1>10. RowIsResolution'
  BY <1>4, <1>5, <1>6, <1>7, <1>8, <1>9 DEF Next
<1> QED
  BY <1>1, <1>2, <1>10 DEF ViewInv

\* When no source can be switched off, every column and member of every row
\* shows, in every state, the claim that ranks first.
THEOREM RowsAreAView == Switchable = {} => (Spec => []RowIsResolution)
<1> SUFFICES ASSUME Switchable = {} PROVE Spec => []RowIsResolution
  OBVIOUS
<1>1. Init => ViewInv
  BY InitInv DEF ViewInv, Init, RowIsResolution
<1>2. ViewInv /\ [Next]_vars => ViewInv'
  BY ViewStep
<1>3. ViewInv => RowIsResolution
  BY DEF ViewInv
<1> QED
  BY <1>1, <1>2, <1>3, PTL DEF Spec
-----------------------------------------------------------------------------
(* With the kill switch, rows go stale until the next write on them; the    *)
(* writer puts every column right, touched or not.                          *)

\* What re-resolution leaves in a column without a preserved value.
LEMMA ResolveWritesColumns ==
    ASSUME NEW s, NEW base, NEW touched, Resolve(s, base, touched),
           NEW k \in ScalarKeys \ PreserveKeys
    PROVE  rows'[s][k] = Resolved(active', s, k, Blank)
<1>1. k \in Keys /\ k \notin MemberKeys
  BY KeysAssumption DEF MemberKeys
<1> QED
  BY <1>1 DEF Resolve, ResolvedRow

\* One step's part of WriterResolvesColumns
ColumnsFollow ==
    \A s \in DOMAIN rows :
       (\E c \in (active \ active') \cup (active' \ active) : c.subject = s)
         => \A k \in ScalarKeys \ PreserveKeys :
              rows'[s][k] = Resolved(active', s, k, Blank)

\* Whatever sources were switched meanwhile, a write leaves the columns of its
\* subject as the log, then, resolves them: a write touches one subject, and
\* resolves all of that subject's columns.
THEOREM WritersRepairColumns == Spec => WriterResolvesColumns
<1>1. [Next]_vars => [ColumnsFollow]_vars
  <2> SUFFICES ASSUME Next,
                      NEW s \in DOMAIN rows,
                      NEW c \in (active \ active') \cup (active' \ active), c.subject = s,
                      NEW k \in ScalarKeys \ PreserveKeys
               PROVE  rows'[s][k] = Resolved(active', s, k, Blank)
    BY DEF ColumnsFollow
  <2>0. (c \in active /\ c \notin active') \/ (c \in active' /\ c \notin active)
    OBVIOUS
  <2>1. ASSUME NEW u \in Users, NEW t \in Subjects, NEW vals \in Payloads,
               CreateEntity(u, t, vals)
        PROVE  rows'[s][k] = Resolved(active', s, k, Blank)
    <3>1. s = t
      BY <2>0, <2>1, AssertTouches DEF CreateEntity
    <3> QED
      BY <2>1, <3>1, ResolveWritesColumns DEF CreateEntity
  <2>2. ASSUME NEW u \in Users, NEW t \in Subjects, NEW vals \in Payloads, Edit(u, t, vals)
        PROVE  rows'[s][k] = Resolved(active', s, k, Blank)
    <3>1. s = t
      BY <2>0, <2>2, AssertTouches DEF Edit
    <3> QED
      BY <2>2, <3>1, ResolveWritesColumns DEF Edit
  <2>3. ASSUME NEW u \in Users, NEW d \in active, Revert(u, d)
        PROVE  rows'[s][k] = Resolved(active', s, k, Blank)
    <3>1. s = d.subject
      BY <2>0, <2>3, RevertTouches DEF Revert, SameSlot
    <3> QED
      BY <2>3, <3>1, ResolveWritesColumns DEF Revert
  <2>4. ASSUME NEW w \in Sources, NEW t \in Subjects, NEW vals \in Payloads,
               NEW retracts \in SUBSET Keys, Ingest(w, t, vals, retracts)
        PROVE  rows'[s][k] = Resolved(active', s, k, Blank)
    <3>1. s = t
      BY <2>0, <2>4, IngestTouches
    <3>2. Resolve(t, IF t \in DOMAIN rows THEN rows[t] ELSE Inserted(vals),
                  Changed(w, t, vals, retracts))
      BY <2>4, IngestParts
    <3> QED
      BY <3>1, <3>2, ResolveWritesColumns
  <2>5. ASSUME NEW w \in Switchable, ToggleSource(w) PROVE FALSE
    BY <2>0, <2>5 DEF ToggleSource, logVars
  <2> QED
    BY <2>1, <2>2, <2>3, <2>4, <2>5 DEF Next
<1> QED
  BY <1>1, PTL DEF Spec, WriterResolvesColumns, ColumnsFollow
\* One step's part of OnlyOwnClaimsChange
OwnClaims ==
    \A c \in (active \ active') \cup (active' \ active) :
       LET n == Len(changesets') IN
       \/ changesets'[n].actor = c.actor
       \/ changesets'[n].action = "revert"

\* No write silences or revives another contributor's claim, a revert apart:
\* edits and ingests compete by rank alone.
THEOREM RivalsAreNotSilenced == Spec => OnlyOwnClaimsChange
<1>1. Inv /\ [Next]_vars => [OwnClaims]_vars
  <2> SUFFICES ASSUME Inv, Next,
                      NEW c \in (active \ active') \cup (active' \ active)
               PROVE  \/ changesets'[Len(changesets')].actor = c.actor
                      \/ changesets'[Len(changesets')].action = "revert"
    BY DEF OwnClaims
  <2>0. (c \in active /\ c \notin active') \/ (c \in active' /\ c \notin active)
    OBVIOUS
  <2>1. ASSUME NEW a, NEW act \in Actions, RecordChangeset(a, act)
        PROVE  /\ changesets'[Len(changesets')].actor = a
               /\ changesets'[Len(changesets')].action = act
    BY <2>1, ChangesetStep DEF Inv, LogInv, LogTypeOK, RecordChangeset
  <2>2. ASSUME NEW u \in Users, NEW s \in Subjects, NEW vals \in Payloads,
               NEW act \in Actions, RecordChangeset(u, act), AssertClaims(Written(u, s, vals))
        PROVE  changesets'[Len(changesets')].actor = c.actor
    <3>1. c.actor = u
      BY <2>0, <2>2 DEF AssertClaims, Superseded, Written, SameSlot
    <3> QED
      BY <2>1, <2>2, <3>1
  <2>3. ASSUME NEW u \in Users, NEW s \in Subjects, NEW vals \in Payloads,
               CreateEntity(u, s, vals) \/ Edit(u, s, vals)
        PROVE  changesets'[Len(changesets')].actor = c.actor
    BY <2>2, <2>3 DEF CreateEntity, Edit, Actions
  <2>4. ASSUME NEW u \in Users, NEW d \in active, Revert(u, d)
        PROVE  changesets'[Len(changesets')].action = "revert"
    BY <2>1, <2>4 DEF Revert, Actions
  <2>5. ASSUME NEW w \in Sources, NEW s \in Subjects, NEW vals \in Payloads,
               NEW retracts \in SUBSET Keys, Ingest(w, s, vals, retracts)
        PROVE  changesets'[Len(changesets')].actor = c.actor
    <3>1. c.actor = w
      BY <2>0, <2>5, IngestTouches
    <3>2. RecordChangeset(w, "ingest") /\ "ingest" \in Actions
      BY <2>5, IngestParts DEF Actions
    <3> QED
      BY <2>1, <3>1, <3>2
  <2>6. ASSUME NEW w \in Switchable, ToggleSource(w) PROVE FALSE
    BY <2>0, <2>6 DEF ToggleSource, logVars
  <2> QED
    BY <2>3, <2>4, <2>5, <2>6 DEF Next
<1> QED
  BY <1>1, Invariance, PTL DEF Spec, OnlyOwnClaimsChange, OwnClaims

-----------------------------------------------------------------------------
(* The pages that tell the log.                                            *)

\* A step records one changeset; what it writes and retracts is stamped with it.
LEMMA StepWrites ==
    ASSUME Inv, Next
    PROVE  \/ UNCHANGED logVars
           \/ \E a \in Actors, act \in Actions : \E W :
                 /\ RecordChangeset(a, act) /\ NewClaims(a, W)
                 /\ claims' = claims \cup W
                 /\ Retracted \subseteq Retracted'
                 /\ \A c \in Retracted : retractedBy'[c] = retractedBy[c]
                 /\ \A c \in Retracted' \ Retracted : retractedBy'[c] = NextCs
<1> DEFINE Goal(a, act, W) == /\ RecordChangeset(a, act) /\ NewClaims(a, W)
                              /\ claims' = claims \cup W
                              /\ Retracted \subseteq Retracted'
                              /\ \A c \in Retracted : retractedBy'[c] = retractedBy[c]
                              /\ \A c \in Retracted' \ Retracted : retractedBy'[c] = NextCs
<1>1. ASSUME NEW T \in SUBSET active, Stamp(T)
      PROVE  /\ Retracted \subseteq Retracted'
             /\ \A c \in Retracted : retractedBy'[c] = retractedBy[c]
             /\ \A c \in Retracted' \ Retracted : retractedBy'[c] = NextCs
  <2>1. Retracted \cap T = {}
    BY DEF Inv, LogInv, RetractedIsInactive
  <2> QED
    BY <1>1, <2>1 DEF Stamp, Retracted
<1>2. ASSUME NEW u \in Users, NEW s \in Subjects, NEW vals \in Payloads,
             CreateEntity(u, s, vals) \/ Edit(u, s, vals)
      PROVE  \E a \in Actors, act \in Actions : \E W : Goal(a, act, W)
  <2>1. NewClaims(u, Written(u, s, vals))
    BY PayloadType, WrittenIsNew DEF Actors
  <2>2. PICK act \in Actions : RecordChangeset(u, act) /\ AssertClaims(Written(u, s, vals))
    BY <1>2 DEF CreateEntity, Edit, Actions
  <2>3. Goal(u, act, Written(u, s, vals))
    BY <2>1, <2>2 DEF AssertClaims, Retracted
  <2> HIDE DEF Goal
  <2> QED
    BY <2>3 DEF Actors
<1>3. ASSUME NEW u \in Users, NEW c \in active, Revert(u, c)
      PROVE  \E a \in Actors, act \in Actions : \E W : Goal(a, act, W)
  <2>1. RecordChangeset(u, "revert") /\ "revert" \in Actions /\ Stamp({c}) /\ claims' = claims
    BY <1>3 DEF Revert, RevertClaims, Actions
  <2>2. NewClaims(u, {})
    BY DEF NewClaims
  <2>3. Goal(u, "revert", {})
    BY <1>1, <2>1, <2>2
  <2> HIDE DEF Goal
  <2> QED
    BY <2>1, <2>3 DEF Actors
<1>4. ASSUME NEW w \in Sources, NEW s \in Subjects, NEW vals \in Payloads,
             NEW retracts \in SUBSET Keys, Ingest(w, s, vals, retracts)
      PROVE  \E a \in Actors, act \in Actions : \E W : Goal(a, act, W)
  <2> DEFINE mine == {c \in active : c.actor = w /\ c.subject = s}
             W == {n \in Written(w, s, vals) :
                      \A c \in mine : SameSlot(c, n) => c.value # n.value}
             T == {c \in mine : c.key \in retracts}
  <2>1. RecordChangeset(w, "ingest") /\ "ingest" \in Actions /\ PersistIngest(W, T)
    BY <1>4 DEF Ingest, Actions
  <2>2. NewClaims(w, Written(w, s, vals))
    BY PayloadType, WrittenIsNew DEF Actors
  <2>3. NewClaims(w, W)
    BY <2>2 DEF NewClaims
  <2>4. T \in SUBSET active
    OBVIOUS
  <2> HIDE DEF W, T
  <2>5. Goal(w, "ingest", W)
    BY <1>1, <2>1, <2>3, <2>4 DEF PersistIngest
  <2> HIDE DEF Goal
  <2> QED
    BY <2>1, <2>5 DEF Actors
<1>5. ASSUME NEW w \in Switchable, ToggleSource(w) PROVE UNCHANGED logVars
  BY <1>5 DEF ToggleSource
<1> HIDE DEF Goal
<1>6. UNCHANGED logVars \/ \E a \in Actors, act \in Actions : \E W : Goal(a, act, W)
  BY <1>2, <1>3, <1>4, <1>5 DEF Next
<1> QED
  BY <1>6 DEF Goal

\* The claims of a changeset are its actor's, in every state.
THEOREM WritesAreAttributed == Spec => []Attributed
<1>1. Init => Attributed
  BY DEF Init, LogInit, Attributed
<1>2. Inv /\ Attributed /\ [Next]_vars => Attributed'
  <2> SUFFICES ASSUME Inv, Attributed, [Next]_vars PROVE Attributed'
    OBVIOUS
  <2>1. CASE UNCHANGED logVars
    BY <2>1 DEF logVars, Attributed
  <2>2. CASE Next
    <3>1. CASE \E a \in Actors, act \in Actions : \E W :
                  RecordChangeset(a, act) /\ NewClaims(a, W) /\ claims' = claims \cup W
      BY <3>1, AttributedStep DEF Inv
    <3> QED
      BY <2>1, <2>2, <3>1, StepWrites
  <2>3. CASE UNCHANGED vars
    BY <2>1, <2>3 DEF vars, logVars
  <2> QED
    BY <2>2, <2>3
<1> QED
  BY <1>1, <1>2, Invariance, PTL DEF Spec

\* The edit history, the changeset pages and the feed tell the log and all of
\* it: every write and retraction once, one winning change a key, old values
\* that lead back to the first claim, pages that drop nothing between them.
THEOREM HistoryStaysWhole == Spec => []HistoryIsWhole
<1>1. Inv /\ Attributed => HistoryIsWhole
  <2> SUFFICES ASSUME Inv, Attributed, NEW s \in Subjects
               PROVE  LET history == EditHistory(suppressed, s)
                      IN  /\ CardsTellTheLog(history, s)
                          /\ PagesAgree(history, s)
                          /\ \A k \in Keys : OldValuesLeadBack(s, k)
                                             /\ OneChangeWins(history, suppressed, s, k)
                          /\ \A from, limit \in 1 .. 2, cursor \in 1 .. NextCs :
                                FeedGoesOn({s}, from, NextCs, cursor, limit)
    BY DEF HistoryIsWhole
  <2>1. LogInv /\ NextCs \in Nat
    BY OldClaims DEF Inv, LogInv
  <2>2. CardsTellTheLog(EditHistory(suppressed, s), s)
    BY <2>1, CardsTell
  <2>3. PagesAgree(EditHistory(suppressed, s), s)
    BY DetailAgrees
  <2>4. \A k \in Keys : OldValuesLeadBack(s, k)
                        /\ OneChangeWins(EditHistory(suppressed, s), suppressed, s, k)
    BY <2>1, ChainsLeadBack, MarkedWins
  <2>5. ASSUME NEW from \in 1 .. 2, NEW limit \in 1 .. 2, NEW cursor \in 1 .. NextCs
        PROVE  FeedGoesOn({s}, from, NextCs, cursor, limit)
    BY <2>1, FeedWhole
  <2> QED
    BY <2>2, <2>3, <2>4, <2>5
<1> QED
  BY <1>1, Invariance, WritesAreAttributed, PTL

\* One step's part: a page behind a cursor reads the same after the step
PagesStay ==
    \A S \in SUBSET Subjects, from, to \in Nat, cursor \in 1 .. NextCs, limit \in Nat \ {0} :
        Feed(S, from, to, cursor, limit)' = Feed(S, from, to, cursor, limit)

\* Whoever follows the feed page by page sees each of its changes once however
\* much is written meanwhile: a page behind a cursor never changes, since a
\* write or a retraction is an event of its own changeset, never of an old one.
THEOREM FeedKeepsItsPlace == Spec => [][PagesStay]_vars
<1>1. Inv /\ [Next]_vars => [PagesStay]_vars
  <2> SUFFICES ASSUME Inv, Next, NEW S \in SUBSET Subjects, NEW from \in Nat, NEW to \in Nat,
                      NEW cursor \in 1 .. NextCs, NEW limit \in Nat \ {0}
               PROVE  Feed(S, from, to, cursor, limit)' = Feed(S, from, to, cursor, limit)
    BY DEF PagesStay
  <2> DEFINE Q == {n \in Touching(S) : from <= n /\ n <= to}
  <2>1. NextCs \in Nat /\ LogTypeOK
    BY OldClaims DEF Inv, LogInv
  <2>2. \A n \in ChangeSetIds : n \in Nat
    BY DEF ChangeSetIds
  <2>3. ASSUME NEW n \in Nat, n < NextCs
        PROVE  n \in Touching(S)' <=> n \in Touching(S)
    <3>1. CASE UNCHANGED logVars
      BY <3>1 DEF logVars, Touching, ChangeSetIds, WrittenBy, RetractedBy, Retracted
    <3>2. ASSUME NEW a \in Actors, NEW act \in Actions, NEW W,
                 RecordChangeset(a, act), NewClaims(a, W), claims' = claims \cup W,
                 Retracted \subseteq Retracted',
                 \A c \in Retracted : retractedBy'[c] = retractedBy[c],
                 \A c \in Retracted' \ Retracted : retractedBy'[c] = NextCs
          PROVE  n \in Touching(S)' <=> n \in Touching(S)
      <4>1. ChangeSetIds' = ChangeSetIds \cup {NextCs}
        BY <2>1, <3>2, ChangesetStep
      <4>2. WrittenBy(n)' = WrittenBy(n)
        BY <2>1, <2>3, <3>2 DEF NewClaims, WrittenBy
      <4>3. RetractedBy(n)' = RetractedBy(n)
        BY <2>1, <2>3, <3>2 DEF RetractedBy
      <4> QED
        BY <2>1, <2>3, <4>1, <4>2, <4>3 DEF Touching
    <3> QED
      BY <3>1, <3>2, StepWrites
  <2>4. \A n \in Touching(S) \cup Touching(S)' : n \in Nat
    <3>1. \A n \in ChangeSetIds' : n \in Nat
      BY DEF ChangeSetIds
    <3> QED
      BY <2>2, <3>1 DEF Touching
  <2>5. Before(Q', cursor) = Before(Q, cursor)
    BY <2>1, <2>3, <2>4 DEF Before
  <2>6. /\ Feed(S, from, to, cursor, limit) = Page(Q, cursor, limit)
        /\ Feed(S, from, to, cursor, limit)' = Page(Q', cursor, limit)
    BY DEF Feed
  <2>7. \A P, R : Before(P, cursor) = Before(R, cursor)
                     => Page(P, cursor, limit) = Page(R, cursor, limit)
    BY DEF Page
  <2> HIDE DEF Q
  <2> QED
    BY <2>5, <2>6, <2>7
<1> QED
  BY <1>1, Invariance, PTL DEF Spec

-----------------------------------------------------------------------------
(* The store implements EditStacks: an assertion pushes, a revert pops, an  *)
(* ingest loads registers, and what a slot says is the top of its stack.    *)

\* What an active claim of a slot stands for, and what stands of a slot.
LEMMA StandingFacts ==
    ASSUME LogInv, NEW x \in AllSlots
    PROVE  /\ \A c \in active : SameSlot(c, x) => c \in Standing(x)
           /\ Standing(x) \subseteq claims
           /\ \A c, d \in Standing(x) : SameSlot(c, d) /\ (c.cs = d.cs => c = d)
           /\ \A c \in Standing(x) : c.cs \in Nat
           /\ x.actor \notin Users => Standing(x) \subseteq active
<1>1. active \subseteq claims /\ Retracted \cap active = {}
  BY DEF LogInv, LogTypeOK, RetractedIsInactive
<1>2. \A c \in claims : c.cs \in Nat
  BY OldClaims DEF LogInv
<1> QED
  BY <1>1, <1>2 DEF Standing, SameSlot, LogInv, OnePerChangeset

\* The top of a slot's stack is its active claim.
LEMMA TopIsActive ==
    ASSUME LogInv, NEW x \in AllSlots
    PROVE  Stacks!Top(StackOf(x)) =
              {[at |-> c.cs, value |-> c.value] : c \in {d \in active : SameSlot(d, x)}}
<1> DEFINE entry(c) == [at |-> c.cs, value |-> c.value]
           Act == {d \in active : SameSlot(d, x)}
<1>1. ASSUME NEW c \in Act, NEW d \in Standing(x) PROVE d.cs <= c.cs
  <2>1. SameSlot(c, d) /\ d \in claims /\ c \in Standing(x)
    BY StandingFacts DEF SameSlot
  <2>2. CASE x.actor \in Users
    BY <2>1, <2>2 DEF Standing, LogInv, ActiveIsNewest
  <2>3. CASE x.actor \notin Users
    BY <2>1, <2>3, StandingFacts DEF LogInv, UniqueActive
  <2> QED
    BY <2>2, <2>3
<1>2. ASSUME NEW c \in Act PROVE entry(c) \in Stacks!Top(StackOf(x))
  <2>1. c \in Standing(x)
    BY StandingFacts
  <2>2. entry(c) \in StackOf(x)
    BY <2>1 DEF StackOf
  <2>3. \A e \in StackOf(x) : e.at <= entry(c).at
    BY <1>1 DEF StackOf
  <2> QED
    BY <2>2, <2>3 DEF Stacks!Top
<1>3. ASSUME NEW e \in Stacks!Top(StackOf(x)) PROVE \E c \in Act : e = entry(c)
  <2>1. PICK d \in Standing(x) : e = entry(d)
    BY DEF Stacks!Top, StackOf
  <2>2. PICK c \in active : SameSlot(c, d)
    <3>1. CASE x.actor \in Users
      <4>1. d \in claims /\ d \notin Retracted /\ d.actor \in Users
        BY <3>1, StandingFacts DEF Standing, SameSlot
      <4> QED
        BY <4>1 DEF LogInv, UserSlotSpeaks
    <3>2. CASE x.actor \notin Users
      BY <3>2, StandingFacts DEF SameSlot
    <3> QED
      BY <3>1, <3>2
  <2>3. c \in Act /\ c \in Standing(x)
    BY <2>2, StandingFacts DEF Standing, SameSlot
  <2>4. entry(c) \in StackOf(x)
    BY <2>3 DEF StackOf
  <2>5. c.cs <= d.cs
    BY <2>1, <2>4 DEF Stacks!Top
  <2>6. d.cs <= c.cs
    BY <1>1, <2>3
  <2>7. c = d
    BY <2>3, <2>5, <2>6, StandingFacts
  <2> QED
    BY <2>1, <2>3, <2>7
<1> QED
  BY <1>2, <1>3

\* A slot's opinion is what the top of its stack says.
OpinionIsTop ==
    \A x \in AllSlots : OpinionOf(x) = {e.value : e \in Stacks!Top(StackOf(x))}

LEMMA OpinionInv == LogInv => OpinionIsTop
<1> SUFFICES ASSUME LogInv, NEW x \in AllSlots
             PROVE  OpinionOf(x) = {e.value : e \in Stacks!Top(StackOf(x))}
  BY DEF OpinionIsTop
<1> DEFINE Act == {d \in active : SameSlot(d, x)}
           entry(c) == [at |-> c.cs, value |-> c.value]
<1>1. Stacks!Top(StackOf(x)) = {entry(c) : c \in Act}
  BY TopIsActive
<1>2. \A c \in Act : entry(c).value = c.value
  OBVIOUS
<1> HIDE DEF entry, Act
<1>3. {e.value : e \in {entry(c) : c \in Act}} = {c.value : c \in Act}
  BY <1>2
<1> QED
  BY <1>1, <1>3 DEF OpinionOf, Act

\* Asserting a user's payload pushes it.
LEMMA AssertPushes ==
    ASSUME LogInv, NEW u \in Users, NEW s \in Subjects, NEW vals \in Payloads,
           NEW act \in Actions, RecordChangeset(u, act), AssertClaims(Written(u, s, vals))
    PROVE  Stacks!Push(u, s, vals)
<1> DEFINE W == Written(u, s, vals)
<1>1. NextCs = Len(changesets')
  BY ChangesetStep DEF LogInv
<1>2. Retracted' = Retracted /\ claims' = claims \cup W
      /\ active' = (active \ Superseded(W)) \cup W
  BY DEF AssertClaims, Retracted
<1>3. \A c \in W : c \notin claims /\ c \notin Retracted
  BY OldClaims DEF LogInv, Written
<1> SUFFICES ASSUME NEW x \in AllSlots
             PROVE  StackOf(x)' =
                       IF Stacks!Named(x, u, s, DOMAIN vals)
                       THEN StackOf(x) \cup {[at |-> Len(changesets'), value |-> vals[x.key]]}
                       ELSE StackOf(x)
  BY DEF Stacks!Push, AllSlots, Stacks!Slots, Actors
<1>4. Standing(x)' = Standing(x) \cup {c \in W : SameSlot(c, x)}
  <2>1. CASE x.actor \in Users
    BY <1>2, <1>3, <2>1 DEF Standing, SameSlot
  <2>2. CASE x.actor \notin Users
    BY <1>2, <2>2 DEF Standing, SameSlot, Superseded, Written
  <2> QED
    BY <2>1, <2>2
<1>5. CASE Stacks!Named(x, u, s, DOMAIN vals)
  <2> DEFINE n == [cs |-> NextCs, actor |-> u, subject |-> s, key |-> x.key, value |-> vals[x.key]]
             entry(c) == [at |-> c.cs, value |-> c.value]
  <2>1. {c \in W : SameSlot(c, x)} = {n}
    BY <1>5 DEF Written, SameSlot, Stacks!Named
  <2>2. entry(n) = [at |-> Len(changesets'), value |-> vals[x.key]]
    BY <1>1
  <2>3. StackOf(x)' = {entry(c) : c \in Standing(x) \cup {n}}
    BY <1>4, <2>1 DEF StackOf
  <2>4. StackOf(x) = {entry(c) : c \in Standing(x)}
    BY DEF StackOf
  <2> HIDE DEF entry, n
  <2>5. StackOf(x)' = StackOf(x) \cup {entry(n)}
    BY <2>3, <2>4
  <2> QED
    BY <1>5, <2>2, <2>5
<1>6. CASE ~Stacks!Named(x, u, s, DOMAIN vals)
  <2>1. {c \in W : SameSlot(c, x)} = {}
    BY <1>6 DEF Written, SameSlot, Stacks!Named
  <2> QED
    BY <1>4, <1>6, <2>1 DEF StackOf
<1> QED
  BY <1>5, <1>6

\* A revert of a user's claim pops the slot of that claim.
LEMMA RevertPops ==
    ASSUME LogInv, NEW c \in active, c.actor \in Users, RevertClaims({c}),
           NEW x0 \in AllSlots, SameSlot(c, x0)
    PROVE  Stacks!Pop(x0)
<1> DEFINE entry(d) == [at |-> d.cs, value |-> d.value]
<1>1. /\ Retracted' = Retracted \cup {c}
      /\ claims' = claims
      /\ \A d : d.actor \notin Users => (d \in active' <=> d \in active)
  BY DEF RevertClaims, Stamp, Retracted, Predecessors, Newest, Fallback, SameSlot
<1>2. c \in Standing(x0)
  BY StandingFacts
<1>3. StackOf(x0) # {}
  BY <1>2 DEF StackOf
<1>4. Stacks!Top(StackOf(x0)) = {entry(c)}
  <2>1. {d \in active : SameSlot(d, x0)} = {c}
    BY DEF SameSlot, LogInv, UniqueActive
  <2> QED
    BY <2>1, TopIsActive
<1>5. ASSUME NEW x \in AllSlots
      PROVE  StackOf(x)' = IF x = x0 THEN StackOf(x) \ Stacks!Top(StackOf(x)) ELSE StackOf(x)
  <2>1. CASE x = x0
    <3>1. Standing(x)' = Standing(x) \ {c}
      BY <1>1, <2>1 DEF Standing, SameSlot
    <3>2. \A d \in Standing(x) : entry(d) = entry(c) => d = c
      BY <1>2, <2>1, StandingFacts
    <3>3. StackOf(x) = {entry(d) : d \in Standing(x)}
      BY DEF StackOf
    <3>4. StackOf(x)' = {entry(d) : d \in Standing(x) \ {c}}
      BY <3>1 DEF StackOf
    <3> HIDE DEF entry
    <3>5. {entry(d) : d \in Standing(x) \ {c}} = {entry(d) : d \in Standing(x)} \ {entry(c)}
      BY <3>2
    <3> QED
      BY <1>4, <2>1, <3>3, <3>4, <3>5
  <2>2. CASE x # x0
    <3>1. ~SameSlot(c, x)
      BY <2>2 DEF SameSlot, AllSlots
    <3>2. Standing(x)' = Standing(x)
      BY <1>1, <3>1 DEF Standing, SameSlot
    <3> QED
      BY <2>2, <3>2 DEF StackOf
  <2> QED
    BY <2>1, <2>2
<1> QED
  BY <1>3, <1>5 DEF Stacks!Pop

\* An ingest loads and empties the registers it names.
LEMMA IngestLoads ==
    ASSUME LogInv, NEW w \in Sources, NEW s \in Subjects, NEW vals \in Payloads,
           NEW retracts \in SUBSET Keys, Ingest(w, s, vals, retracts)
    PROVE  Stacks!Load(w, s, vals, retracts)
<1> DEFINE W == Differing(w, s, vals)
           T == Dropped(w, s, retracts)
<1>1. /\ RecordChangeset(w, "ingest")
      /\ PersistIngest(W, T)
      /\ DOMAIN vals \cap retracts = {}
  BY IngestParts
<1>2. NextCs = Len(changesets')
  BY <1>1, ChangesetStep DEF LogInv, Actions
<1>3. /\ Retracted' = Retracted \cup T
      /\ claims' = claims \cup W
      /\ active' = ((active \ Superseded(W)) \cup W) \ T
  BY <1>1 DEF PersistIngest, Stamp, Retracted
<1>4. w \notin Users /\ active \subseteq claims
  BY ActorsAssumption DEF LogInv, LogTypeOK
<1>5. /\ \A n \in W : n.actor = w /\ n.subject = s /\ n.key \in DOMAIN vals
      /\ \A t \in T : t.actor = w /\ t.subject = s /\ t.key \in retracts
  BY DEF Differing, Dropped, Written, Mine
<1> SUFFICES ASSUME NEW x \in AllSlots
             PROVE  StackOf(x)' =
                      CASE Stacks!Named(x, w, s, DOMAIN vals) ->
                              Stacks!Loaded(StackOf(x), vals[x.key])
                        [] Stacks!Named(x, w, s, retracts) -> {}
                        [] OTHER -> StackOf(x)
  BY DEF Stacks!Load, AllSlots, Stacks!Slots, Actors
<1>6. CASE Stacks!Named(x, w, s, DOMAIN vals)
  <2> DEFINE n == [cs |-> NextCs, actor |-> w, subject |-> s, key |-> x.key, value |-> vals[x.key]]
             Old == {c \in active : SameSlot(c, x)}
             entry(c) == [at |-> c.cs, value |-> c.value]
  <2>0. StackOf(x) = {entry(c) : c \in Standing(x)} /\ StackOf(x)' = {entry(c) : c \in Standing(x)'}
    BY DEF StackOf
  <2>1. /\ x.actor = w /\ x.subject = s /\ x.key \in DOMAIN vals /\ x.key \notin retracts
        /\ ~Stacks!Named(x, w, s, retracts)
    BY <1>1, <1>6 DEF Stacks!Named
  <2>2. Standing(x) = Old /\ Standing(x)' = {c \in active' : SameSlot(c, x)}
    BY <1>3, <1>4, <2>1 DEF Standing
  <2>3. Old = {c \in Mine(w, s) : SameSlot(c, n)}
    BY <2>1 DEF Mine, SameSlot
  <2>4. {c \in Written(w, s, vals) : SameSlot(c, x)} = {n}
    BY <2>1 DEF Written, SameSlot
  <2>5. \A t \in T : ~SameSlot(t, x)
    BY <1>5, <2>1 DEF SameSlot
  <2>6. CASE \E c \in Old : c.value = vals[x.key]
    <3>1. \A m \in W : ~SameSlot(m, x)
      BY <2>3, <2>4, <2>6 DEF Differing, SameSlot
    <3>2. {c \in active' : SameSlot(c, x)} = Old
      BY <1>3, <2>5, <3>1 DEF Superseded, SameSlot
    <3>3. \E e \in StackOf(x) : e.value = vals[x.key]
      <4>1. PICK c \in Old : c.value = vals[x.key]
        BY <2>6
      <4>2. entry(c) \in StackOf(x) /\ entry(c).value = vals[x.key]
        BY <2>0, <2>2, <4>1
      <4> QED
        BY <4>2
    <3>4. Stacks!Loaded(StackOf(x), vals[x.key]) = StackOf(x)
      BY <3>3 DEF Stacks!Loaded
    <3>5. StackOf(x)' = StackOf(x)
      BY <2>0, <2>2, <3>2
    <3> QED
      BY <1>6, <2>1, <3>4, <3>5
  <2>7. CASE ~\E c \in Old : c.value = vals[x.key]
    <3>1. n \in W
      BY <2>3, <2>4, <2>7 DEF Differing
    <3>2. {c \in active' : SameSlot(c, x)} = {n}
      BY <1>3, <2>4, <2>5, <3>1 DEF Superseded, SameSlot, Differing
    <3>3. StackOf(x)' = {[at |-> NextCs, value |-> vals[x.key]]}
      <4>1. entry(n) = [at |-> NextCs, value |-> vals[x.key]]
        OBVIOUS
      <4> HIDE DEF entry, n
      <4> QED
        BY <2>0, <2>2, <3>2, <4>1
    <3>4. ~\E e \in StackOf(x) : e.value = vals[x.key]
      BY <2>0, <2>2, <2>7
    <3>5. Stacks!Loaded(StackOf(x), vals[x.key]) = {[at |-> NextCs, value |-> vals[x.key]]}
      BY <1>2, <3>4 DEF Stacks!Loaded
    <3> QED
      BY <1>6, <2>1, <3>3, <3>5
  <2> QED
    BY <2>6, <2>7
<1>7. CASE Stacks!Named(x, w, s, retracts)
  <2>1. x.actor = w /\ x.subject = s /\ x.key \in retracts /\ x.key \notin DOMAIN vals
    BY <1>1, <1>7 DEF Stacks!Named
  <2>2. \A m \in W : ~SameSlot(m, x)
    BY <1>5, <2>1 DEF SameSlot
  <2>3. \A c \in active : SameSlot(c, x) => c \in T
    BY <2>1 DEF SameSlot, Dropped, Mine
  <2>4. Standing(x)' = {}
    BY <1>3, <1>4, <2>1, <2>2, <2>3 DEF Standing
  <2>5. ~Stacks!Named(x, w, s, DOMAIN vals)
    BY <2>1 DEF Stacks!Named
  <2> QED
    BY <1>7, <2>4, <2>5 DEF StackOf
<1>8. CASE ~Stacks!Named(x, w, s, DOMAIN vals) /\ ~Stacks!Named(x, w, s, retracts)
  <2>1. \A m \in W \cup T : ~SameSlot(m, x)
    BY <1>5, <1>8 DEF SameSlot, Stacks!Named
  <2>2. Standing(x)' = Standing(x)
    BY <1>3, <1>4, <2>1 DEF Standing, Superseded, SameSlot
  <2> QED
    BY <1>8, <2>2 DEF StackOf
<1> QED
  BY <1>6, <1>7, <1>8

\* A step of the log that moves the stacks as EditStacks says is a step of it.
LEMMA StackStep ==
    ASSUME LogInv, OpinionIsTop', Len(changesets') = Len(changesets) + 1,
           \/ \E u \in Users, s \in Subjects, vals \in Stacks!Payloads : Stacks!Push(u, s, vals)
           \/ \E x \in Stacks!Slots : x.actor \in Users /\ Stacks!Pop(x)
           \/ \E w \in Sources, s \in Subjects, vals \in Stacks!Payloads,
                 emptied \in SUBSET Keys :
                DOMAIN vals \cap emptied = {} /\ Stacks!Load(w, s, vals, emptied)
    PROVE  Stacks!Next
<1>1. AllSlots = Stacks!Slots
  BY DEF AllSlots, Stacks!Slots, Actors
<1>2. [x \in AllSlots |-> OpinionOf(x)]'
        = [x \in Stacks!Slots |->
             {e.value : e \in Stacks!Top([y \in AllSlots |-> StackOf(y)]'[x])}]
  BY <1>1 DEF OpinionIsTop, AllSlots
<1> QED
  BY <1>2 DEF Stacks!Next

\* Where the log does not change, neither do the stacks.
LEMMA StacksStutter ==
    ASSUME UNCHANGED logVars
    PROVE  UNCHANGED Stacks!stackVars
  BY DEF logVars, Stacks!stackVars, AllSlots, StackOf, OpinionOf, Standing, Retracted

\* Every step of the store is one of the stacks', or leaves them alone.
LEMMA StoreStepIsStackStep ==
    ASSUME Inv, OpinionIsTop', [Next]_vars
    PROVE  [Stacks!Next]_(Stacks!stackVars)
<1>1. LogInv /\ Payloads = Stacks!Payloads /\ AllSlots = Stacks!Slots
  BY DEF Inv, Payloads, Stacks!Payloads, AllSlots, Stacks!Slots, Actors
<1>2. ASSUME NEW a, NEW act \in Actions, RecordChangeset(a, act)
      PROVE  Len(changesets') = Len(changesets) + 1
  BY <1>1, <1>2, ChangesetStep DEF LogInv
<1>3. ASSUME NEW u \in Users, NEW s \in Subjects, NEW vals \in Payloads,
             CreateEntity(u, s, vals)
      PROVE  Stacks!Next
  <2>1. RecordChangeset(u, "create") /\ AssertClaims(Written(u, s, vals)) /\ "create" \in Actions
    BY <1>3 DEF CreateEntity, Actions
  <2>2. Stacks!Push(u, s, vals)
    BY <1>1, <2>1, AssertPushes
  <2> QED
    BY <1>1, <1>2, <2>1, <2>2, StackStep
<1>4. ASSUME NEW u \in Users, NEW s \in Subjects, NEW vals \in Payloads, Edit(u, s, vals)
      PROVE  Stacks!Next
  <2>1. RecordChangeset(u, "edit") /\ AssertClaims(Written(u, s, vals)) /\ "edit" \in Actions
    BY <1>4 DEF Edit, Actions
  <2>2. Stacks!Push(u, s, vals)
    BY <1>1, <2>1, AssertPushes
  <2> QED
    BY <1>1, <1>2, <2>1, <2>2, StackStep
<1>5. ASSUME NEW u \in Users, NEW c \in active, Revert(u, c) PROVE Stacks!Next
  <2> DEFINE x0 == [actor |-> c.actor, subject |-> c.subject, key |-> c.key]
  <2>1. /\ RecordChangeset(u, "revert") /\ "revert" \in Actions
        /\ c.actor \in Users /\ RevertClaims({c})
    BY <1>5 DEF Revert, Actions
  <2>2. x0 \in AllSlots /\ SameSlot(c, x0) /\ x0.actor \in Users
    BY <1>1, <2>1 DEF LogInv, LogTypeOK, Claim, AllSlots, SameSlot
  <2> HIDE DEF x0
  <2>3. Stacks!Pop(x0)
    BY <1>1, <2>1, <2>2, RevertPops
  <2> QED
    BY <1>1, <1>2, <2>1, <2>2, <2>3, StackStep
<1>6. ASSUME NEW w \in Sources, NEW s \in Subjects, NEW vals \in Payloads,
             NEW retracts \in SUBSET Keys, Ingest(w, s, vals, retracts)
      PROVE  Stacks!Next
  <2>1. RecordChangeset(w, "ingest") /\ "ingest" \in Actions /\ DOMAIN vals \cap retracts = {}
    BY <1>6, IngestParts DEF Actions
  <2>2. Stacks!Load(w, s, vals, retracts)
    BY <1>1, <1>6, IngestLoads
  <2> QED
    BY <1>1, <1>2, <2>1, <2>2, StackStep
<1>7. ASSUME NEW w \in Switchable, ToggleSource(w) PROVE UNCHANGED Stacks!stackVars
  BY <1>7, StacksStutter DEF ToggleSource
<1>8. ASSUME UNCHANGED vars PROVE UNCHANGED Stacks!stackVars
  BY <1>8, StacksStutter DEF vars, logVars
<1> QED
  BY <1>3, <1>4, <1>5, <1>6, <1>7, <1>8 DEF Next

\* The empty log is the empty stacks.
LEMMA StoreInitIsStackInit == Init => Stacks!Init
<1> SUFFICES ASSUME Init PROVE Stacks!Init
  OBVIOUS
<1>1. changesets = <<>> /\ claims = {} /\ active = {}
  BY DEF Init, LogInit
<1>2. \A x \in AllSlots : StackOf(x) = {} /\ OpinionOf(x) = {}
  BY <1>1 DEF StackOf, OpinionOf, Standing
<1> QED
  BY <1>1, <1>2 DEF Stacks!Init, AllSlots, Stacks!Slots, Actors

\* Every behaviour of the store is one of the undo stacks and registers: each
\* write moves one contributor's stacks as EditStacks says, and no other's.
THEOREM StoreImplementsStacks == Spec => ImplementsEditStacks
<1>1. Init => Stacks!Init
  BY StoreInitIsStackInit
<1>2. Inv => OpinionIsTop
  BY OpinionInv DEF Inv
<1>3. Inv /\ OpinionIsTop' /\ [Next]_vars => [Stacks!Next]_(Stacks!stackVars)
  BY StoreStepIsStackStep
<1> QED
  BY <1>1, <1>2, <1>3, Invariance, PTL DEF Spec, ImplementsEditStacks, Stacks!Spec
=============================================================================
