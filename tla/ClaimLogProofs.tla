--------------------------- MODULE ClaimLogProofs ---------------------------
(***************************************************************************)
(* What the primitive writes of the claim log preserve.  LogInv is the     *)
(* inductive invariant of every module that writes the log: its lemmas say *)
(* that an assertion, a revert and an ingest, each with its changeset,     *)
(* keep it.                                                                *)
(***************************************************************************)
EXTENDS ClaimLog, NaturalsInduction, WellFoundedInduction, FiniteSetTheorems, TLAPS

\* A changeset holds at most one claim of a slot, so cs orders a slot
OnePerChangeset ==
    \A c, d \in claims : SameSlot(c, d) /\ c.cs = d.cs => c = d

LogInv ==
    /\ LogTypeOK
    /\ OnePerChangeset
    /\ UniqueActive
    /\ RetractedIsInactive
    /\ ActiveIsNewest
    /\ UserSlotSpeaks
    /\ RetractionAuthority

\* W is what the next changeset may write when its actor is a
NewClaims(a, W) ==
    /\ W \subseteq [cs : {NextCs}, actor : {a}, subject : Subjects,
                    key : Keys, value : Values]
    /\ \A c, d \in W : SameSlot(c, d) => c = d

\* The payload of a request writes new claims.
LEMMA WrittenIsNew ==
    ASSUME NEW a \in Actors, NEW s \in Subjects, NEW K \in SUBSET Keys,
           NEW vals \in [K -> Values]
    PROVE  NewClaims(a, Written(a, s, vals))
  BY DEF NewClaims, Written, SameSlot

\* The empty log satisfies the invariant.
LEMMA LogInitInv == LogInit => LogInv
<1> SUFFICES ASSUME LogInit PROVE LogInv
  OBVIOUS
<1> USE DEF LogInit, Retracted, ChangeSetIds
<1>1. LogTypeOK
  BY DEF LogTypeOK
<1>2. OnePerChangeset /\ UniqueActive /\ RetractedIsInactive
  BY DEF OnePerChangeset, UniqueActive, RetractedIsInactive
<1>3. ActiveIsNewest /\ UserSlotSpeaks /\ RetractionAuthority
  BY DEF ActiveIsNewest, UserSlotSpeaks, RetractionAuthority
<1> QED
  BY <1>1, <1>2, <1>3 DEF LogInv

-----------------------------------------------------------------------------
\* Recording a changeset appends one number to ChangeSetIds and leaves the
\* attribution of the earlier ones alone.
LEMMA ChangesetStep ==
    ASSUME LogTypeOK, NEW a, NEW act \in Actions, RecordChangeset(a, act)
    PROVE  /\ Len(changesets) \in Nat
           /\ NextCs = Len(changesets) + 1
           /\ Len(changesets') = NextCs
           /\ a \in Actors
           /\ changesets' \in Seq([actor : Actors, action : Actions])
           /\ ChangeSetIds' = ChangeSetIds \cup {NextCs}
           /\ \A n \in ChangeSetIds : n < NextCs /\ changesets'[n] = changesets[n]
           /\ changesets'[NextCs].actor = a
<1>1. a \in Actors
  BY DEF RecordChangeset, Actors
<1>2. /\ changesets \in Seq([actor : Actors, action : Actions])
      /\ [actor |-> a, action |-> act] \in [actor : Actors, action : Actions]
      /\ changesets' = Append(changesets, [actor |-> a, action |-> act])
  BY <1>1 DEF LogTypeOK, RecordChangeset
<1>3. /\ Len(changesets) \in Nat
      /\ changesets' \in Seq([actor : Actors, action : Actions])
      /\ Len(changesets') = Len(changesets) + 1
      /\ \A n \in 1 .. Len(changesets) : changesets'[n] = changesets[n]
      /\ changesets'[Len(changesets) + 1] = [actor |-> a, action |-> act]
  BY <1>2
<1> QED
  BY <1>1, <1>3 DEF NextCs, ChangeSetIds

\* A changeset number of the log is below the next one.
LEMMA OldClaims ==
    ASSUME LogTypeOK
    PROVE  /\ \A c \in claims : c \in Claim /\ c.cs \in Nat /\ c.cs < NextCs
           /\ NextCs \in Nat
           /\ \A c \in Retracted : c \in claims /\ retractedBy[c] \in ChangeSetIds
  BY DEF LogTypeOK, Claim, ChangeSetIds, NextCs, Retracted

\* A non-empty set of claims of the log has a newest one.
LEMMA NewestExists ==
    ASSUME NEW S, S # {}, NEW m \in Nat, \A c \in S : c.cs \in Nat /\ c.cs <= m
    PROVE  Newest(S) # {}
<1> DEFINE Gaps == {m - c.cs : c \in S}
           Less == OpToRel(<, Nat)
<1>1. Gaps \subseteq Nat /\ Gaps # {}
  OBVIOUS
<1>2. PICK g \in Gaps : \A h \in Gaps : <<h, g>> \notin Less
  BY <1>1, NatLessThanWellFounded, WFMin
<1>3. PICK c \in S : g = m - c.cs
  BY <1>2
<1>4. \A d \in S : ~(m - d.cs < m - c.cs)
  BY <1>1, <1>2, <1>3 DEF OpToRel
<1>5. \A d \in S : d.cs <= c.cs
  BY <1>4
<1> QED
  BY <1>5 DEF Newest

-----------------------------------------------------------------------------
\* Asserting new claims in a user's changeset keeps the log's invariant.
LEMMA AssertPreserves ==
    ASSUME LogInv, NEW a \in Users, NEW act \in Actions, NEW W,
           RecordChangeset(a, act), NewClaims(a, W), AssertClaims(W)
    PROVE  LogInv'
<1> USE DEF LogInv
<1>1. /\ NextCs \in Nat
      /\ a \in Actors
      /\ changesets' \in Seq([actor : Actors, action : Actions])
      /\ ChangeSetIds' = ChangeSetIds \cup {NextCs}
      /\ \A n \in ChangeSetIds : n < NextCs /\ changesets'[n] = changesets[n]
  BY ChangesetStep, OldClaims
<1>2. /\ \A c \in claims : c \in Claim /\ c.cs \in Nat /\ c.cs < NextCs
      /\ \A c \in Retracted : c \in claims /\ retractedBy[c] \in ChangeSetIds
  BY OldClaims
<1>3. /\ claims' = claims \cup W
      /\ active' = (active \ Superseded(W)) \cup W
      /\ retractedBy' = retractedBy
      /\ Retracted' = Retracted
  BY DEF AssertClaims, Retracted
<1>4. /\ \A w \in W : w.cs = NextCs /\ w.actor = a /\ w \in Claim' /\ w \notin claims
      /\ \A c, d \in W : SameSlot(c, d) => c = d
      /\ active \subseteq claims
  BY <1>1, <1>2 DEF NewClaims, Claim, LogTypeOK
<1>5. LogTypeOK'
  <2>1. claims' \subseteq Claim'
    BY <1>1, <1>2, <1>3, <1>4 DEF Claim
  <2>2. active' \subseteq claims'
    BY <1>3, <1>4
  <2>3. retractedBy' \in [DOMAIN retractedBy' -> ChangeSetIds']
    BY <1>1, <1>3 DEF LogTypeOK
  <2> QED
    BY <1>1, <1>3, <2>1, <2>2, <2>3 DEF LogTypeOK
<1>6. OnePerChangeset'
  BY <1>2, <1>3, <1>4 DEF OnePerChangeset
<1>7. UniqueActive'
  BY <1>3, <1>4 DEF UniqueActive, Superseded, SameSlot
<1>8. RetractedIsInactive'
  BY <1>2, <1>3, <1>4 DEF RetractedIsInactive
<1>9. ActiveIsNewest'
  <2> SUFFICES ASSUME NEW c \in active', NEW d \in claims',
                      SameSlot(c, d), d \notin Retracted
               PROVE  d.cs <= c.cs
    BY <1>3 DEF ActiveIsNewest, SameSlot
  <2>1. CASE c \in W
    BY <1>1, <1>2, <1>3, <1>4, <2>1
  <2>2. CASE c \notin W
    <3>1. c \in active \ Superseded(W)
      BY <1>3, <2>2
    <3>2. d \notin W
      BY <3>1 DEF Superseded
    <3> QED
      BY <1>3, <3>1, <3>2 DEF ActiveIsNewest
  <2> QED
    BY <2>1, <2>2
<1>10. UserSlotSpeaks'
  <2> SUFFICES ASSUME NEW d \in claims' \ Retracted, d.actor \in Users
               PROVE  \E c \in active' : SameSlot(c, d)
    BY <1>3 DEF UserSlotSpeaks
  <2>1. CASE d \in W
    BY <1>3, <2>1 DEF SameSlot
  <2>2. CASE d \notin W
    <3>1. PICK c \in active : SameSlot(c, d)
      BY <1>3, <2>2 DEF UserSlotSpeaks
    <3>2. CASE c \in Superseded(W)
      BY <1>3, <3>1, <3>2 DEF Superseded, SameSlot
    <3> QED
      BY <1>3, <3>1, <3>2
  <2> QED
    BY <2>1, <2>2
<1>11. RetractionAuthority'
  BY <1>1, <1>2, <1>3 DEF RetractionAuthority
<1> QED
  BY <1>5, <1>6, <1>7, <1>8, <1>9, <1>10, <1>11

-----------------------------------------------------------------------------
\* A slot falls back to at most one claim, and to one exactly when it has an
\* unretracted claim left.
LEMMA FallbackIsOne ==
    ASSUME LogInv, NEW t \in active
    PROVE  /\ Fallback(t) \subseteq claims \ active
           /\ \A p, q \in Newest(Fallback(t)) : p = q
           /\ Fallback(t) # {} => Newest(Fallback(t)) # {}
<1>1. Fallback(t) \subseteq claims \ active
  BY DEF Fallback
<1>2. \A p, q \in Newest(Fallback(t)) : p = q
  <2> SUFFICES ASSUME NEW p \in Newest(Fallback(t)), NEW q \in Newest(Fallback(t))
               PROVE  p = q
    OBVIOUS
  <2>1. p \in claims /\ q \in claims /\ SameSlot(p, q)
    BY DEF Newest, Fallback, SameSlot
  <2>2. p.cs <= q.cs /\ q.cs <= p.cs
    BY DEF Newest
  <2>3. p.cs \in Nat /\ q.cs \in Nat
    BY <2>1, OldClaims DEF LogInv
  <2> QED
    BY <2>1, <2>2, <2>3 DEF LogInv, OnePerChangeset
<1>3. ASSUME Fallback(t) # {} PROVE Newest(Fallback(t)) # {}
  <2>1. NextCs \in Nat /\ \A c \in Fallback(t) : c.cs \in Nat /\ c.cs <= NextCs
    BY <1>1, OldClaims DEF LogInv
  <2> QED
    BY <1>3, <2>1, NewestExists
<1> QED
  BY <1>1, <1>2, <1>3

\* Reverting active user claims in a user's changeset keeps the log's invariant.
LEMMA RevertPreserves ==
    ASSUME LogInv, NEW a \in Users, NEW act \in Actions, NEW T \in SUBSET active,
           RecordChangeset(a, act), \A t \in T : t.actor \in Users, RevertClaims(T)
    PROVE  LogInv'
<1> DEFINE Back == Predecessors(T)
<1>1. /\ NextCs \in Nat
      /\ changesets' \in Seq([actor : Actors, action : Actions])
      /\ ChangeSetIds' = ChangeSetIds \cup {NextCs}
      /\ NextCs \in ChangeSetIds'
      /\ \A n \in ChangeSetIds : n < NextCs /\ changesets'[n] = changesets[n]
      /\ changesets'[NextCs].actor = a
  BY ChangesetStep, OldClaims DEF LogInv
<1>2. /\ \A c \in claims : c \in Claim /\ c.cs \in Nat /\ c.cs < NextCs
      /\ \A c \in Retracted : c \in claims /\ retractedBy[c] \in ChangeSetIds
      /\ active \subseteq claims
  BY OldClaims DEF LogInv, LogTypeOK
<1>3. /\ claims' = claims
      /\ active' = (active \ T) \cup Back
      /\ Retracted' = Retracted \cup T
      /\ \A c \in T : retractedBy'[c] = NextCs
      /\ \A c \in Retracted \ T : retractedBy'[c] = retractedBy[c]
  BY DEF RevertClaims, Stamp, Retracted
<1>4. Retracted \cap active = {}
  BY DEF LogInv, RetractedIsInactive
<1>5. \A p \in Back : /\ p \in claims \ active
                      /\ p \notin Retracted \cup T
                      /\ \E t \in T : p \in Newest(Fallback(t)) /\ SameSlot(p, t)
  BY <1>2 DEF Predecessors, Newest, Fallback
<1>6. LogTypeOK'
  <2>1. claims' \subseteq Claim'
    BY <1>1, <1>2, <1>3 DEF Claim
  <2>2. active' \subseteq claims'
    BY <1>2, <1>3, <1>5
  <2>3. retractedBy' \in [DOMAIN retractedBy' -> ChangeSetIds']
    BY <1>1, <1>2 DEF RevertClaims, Stamp, Retracted
  <2>4. DOMAIN retractedBy' \subseteq claims'
    BY <1>2, <1>3 DEF Retracted
  <2> QED
    BY <1>1, <2>1, <2>2, <2>3, <2>4 DEF LogTypeOK
<1>7. OnePerChangeset'
  BY <1>3 DEF LogInv, OnePerChangeset
<1>8. ASSUME NEW p \in Back, NEW c \in active \ T PROVE ~SameSlot(p, c)
  BY <1>5, <1>8 DEF LogInv, UniqueActive, SameSlot
<1>9. ASSUME NEW p \in Back, NEW q \in Back, SameSlot(p, q) PROVE p = q
  <2>1. PICK t \in T : p \in Newest(Fallback(t)) /\ SameSlot(p, t)
    BY <1>5
  <2>2. PICK u \in T : q \in Newest(Fallback(u)) /\ SameSlot(q, u)
    BY <1>5
  <2>3. t = u
    BY <1>9, <2>1, <2>2 DEF LogInv, UniqueActive, SameSlot
  <2> QED
    BY <2>1, <2>2, <2>3, FallbackIsOne
<1>10. UniqueActive'
  <2> SUFFICES ASSUME NEW c \in active', NEW d \in active', SameSlot(c, d)
               PROVE  c = d
    BY DEF UniqueActive, SameSlot
  <2>1. SameSlot(d, c)
    BY DEF SameSlot
  <2> QED
    BY <1>3, <1>8, <1>9, <2>1 DEF LogInv, UniqueActive
<1>11. RetractedIsInactive'
  <2> SUFFICES ASSUME NEW c \in Retracted' PROVE c \notin active' /\ c.cs < retractedBy'[c]
    BY DEF RetractedIsInactive
  <2>1. CASE c \in T
    BY <1>2, <1>3, <1>5, <2>1
  <2>2. CASE c \in Retracted \ T
    BY <1>3, <1>5, <2>2 DEF LogInv, RetractedIsInactive
  <2> QED
    BY <1>3, <2>1, <2>2
<1>12. ActiveIsNewest'
  <2> SUFFICES ASSUME NEW c \in active', NEW d \in claims,
                      SameSlot(c, d), d \notin Retracted, d \notin T
               PROVE  d.cs <= c.cs
    BY <1>3 DEF ActiveIsNewest, SameSlot
  <2>1. CASE c \in active
    BY <2>1 DEF LogInv, ActiveIsNewest
  <2>2. CASE c \notin active
    <3>1. PICK t \in T : c \in Newest(Fallback(t)) /\ SameSlot(c, t)
      BY <1>3, <1>5, <2>2
    <3>2. d \notin active
      BY <3>1 DEF LogInv, UniqueActive, SameSlot
    <3>3. d \in Fallback(t)
      BY <3>1, <3>2 DEF Fallback, SameSlot
    <3> QED
      BY <3>1, <3>3 DEF Newest
  <2> QED
    BY <2>1, <2>2
<1>13. UserSlotSpeaks'
  <2> SUFFICES ASSUME NEW d \in claims, d \notin Retracted, d \notin T, d.actor \in Users
               PROVE  \E c \in active' : SameSlot(c, d)
    BY <1>3 DEF UserSlotSpeaks, SameSlot
  <2>1. PICK c \in active : SameSlot(c, d)
    BY DEF LogInv, UserSlotSpeaks
  <2>2. CASE c \notin T
    BY <1>3, <2>1, <2>2
  <2>3. CASE c \in T
    <3>1. d \notin active
      BY <2>1, <2>3 DEF LogInv, UniqueActive
    <3>2. d \in Fallback(c)
      BY <2>1, <2>3, <3>1 DEF Fallback, SameSlot
    <3>3. PICK p : p \in Newest(Fallback(c))
      BY <3>2, FallbackIsOne
    <3>4. p \in Back /\ SameSlot(p, d)
      BY <2>1, <2>3, <3>3 DEF Predecessors, Newest, Fallback, SameSlot
    <3> QED
      BY <1>3, <3>4
  <2> QED
    BY <2>2, <2>3
<1>14. RetractionAuthority'
  <2> SUFFICES ASSUME NEW c \in Retracted'
               PROVE  LET by == changesets'[retractedBy'[c]].actor
                      IN  IF c.actor \in Sources THEN by = c.actor ELSE by \in Users
    BY DEF RetractionAuthority
  <2>1. CASE c \in T
    BY <1>1, <1>3, <2>1, ActorsAssumption
  <2>2. CASE c \in Retracted \ T
    BY <1>1, <1>2, <1>3, <2>2 DEF LogInv, RetractionAuthority
  <2> QED
    BY <1>3, <2>1, <2>2
<1> QED
  BY <1>6, <1>7, <1>10, <1>11, <1>12, <1>13, <1>14 DEF LogInv

-----------------------------------------------------------------------------
\* Persisting the diff of an ingest by source w - new claims W, retracted
\* claims T of its own - keeps the log's invariant.
LEMMA IngestPreserves ==
    ASSUME LogInv, NEW w \in Sources, NEW W, NEW T \in SUBSET active,
           RecordChangeset(w, "ingest"), NewClaims(w, W),
           \A t \in T : t.actor = w, PersistIngest(W, T)
    PROVE  LogInv'
<1>1. /\ NextCs \in Nat
      /\ w \in Actors
      /\ changesets' \in Seq([actor : Actors, action : Actions])
      /\ ChangeSetIds' = ChangeSetIds \cup {NextCs}
      /\ NextCs \in ChangeSetIds'
      /\ \A n \in ChangeSetIds : n < NextCs /\ changesets'[n] = changesets[n]
      /\ changesets'[NextCs].actor = w
  BY ChangesetStep, OldClaims DEF LogInv, Actions
<1>2. /\ \A c \in claims : c \in Claim /\ c.cs \in Nat /\ c.cs < NextCs
      /\ \A c \in Retracted : c \in claims /\ retractedBy[c] \in ChangeSetIds
      /\ active \subseteq claims
      /\ Retracted \cap active = {}
  BY OldClaims DEF LogInv, LogTypeOK, RetractedIsInactive
<1>3. /\ claims' = claims \cup W
      /\ active' = ((active \ Superseded(W)) \cup W) \ T
      /\ Retracted' = Retracted \cup T
      /\ \A c \in T : retractedBy'[c] = NextCs
      /\ \A c \in Retracted \ T : retractedBy'[c] = retractedBy[c]
  BY DEF PersistIngest, Stamp, Retracted
<1>4. /\ \A n \in W : n.cs = NextCs /\ n.actor = w /\ n \in Claim' /\ n \notin claims
      /\ \A c, d \in W : SameSlot(c, d) => c = d
  BY <1>1, <1>2 DEF NewClaims, Claim
<1>5. w \notin Users
  BY ActorsAssumption
<1>6. LogTypeOK'
  <2>1. claims' \subseteq Claim'
    BY <1>1, <1>2, <1>3, <1>4 DEF Claim
  <2>2. active' \subseteq claims'
    BY <1>2, <1>3
  <2>3. retractedBy' \in [DOMAIN retractedBy' -> ChangeSetIds']
    BY <1>1, <1>2 DEF PersistIngest, Stamp, Retracted
  <2>4. DOMAIN retractedBy' \subseteq claims'
    BY <1>2, <1>3 DEF Retracted
  <2> QED
    BY <1>1, <2>1, <2>2, <2>3, <2>4 DEF LogTypeOK
<1>7. OnePerChangeset'
  BY <1>2, <1>3, <1>4 DEF LogInv, OnePerChangeset
<1>8. UniqueActive'
  BY <1>3, <1>4 DEF LogInv, UniqueActive, Superseded, SameSlot
<1>9. RetractedIsInactive'
  BY <1>2, <1>3, <1>4 DEF LogInv, RetractedIsInactive
<1>10. ActiveIsNewest'
  <2> SUFFICES ASSUME NEW c \in active', NEW d \in claims',
                      SameSlot(c, d), d \notin Retracted, d \notin T
               PROVE  d.cs <= c.cs
    BY <1>3 DEF ActiveIsNewest, SameSlot
  <2>1. CASE c \in W
    BY <1>1, <1>2, <1>3, <1>4, <2>1
  <2>2. CASE c \notin W
    <3>1. c \in active \ Superseded(W)
      BY <1>3, <2>2
    <3>2. d \notin W
      BY <3>1 DEF Superseded
    <3> QED
      BY <1>3, <3>1, <3>2 DEF LogInv, ActiveIsNewest
  <2> QED
    BY <2>1, <2>2
<1>11. UserSlotSpeaks'
  <2> SUFFICES ASSUME NEW d \in claims' \ Retracted, d.actor \in Users
               PROVE  \E c \in active' : SameSlot(c, d)
    BY <1>3 DEF UserSlotSpeaks
  <2>1. d \notin W
    BY <1>4, <1>5
  <2>2. PICK c \in active : SameSlot(c, d)
    BY <1>3, <2>1 DEF LogInv, UserSlotSpeaks
  <2>3. c \notin T /\ c \notin Superseded(W)
    BY <1>4, <1>5, <2>2 DEF Superseded, SameSlot
  <2> QED
    BY <1>3, <2>2, <2>3
<1>12. RetractionAuthority'
  <2> SUFFICES ASSUME NEW c \in Retracted'
               PROVE  LET by == changesets'[retractedBy'[c]].actor
                      IN  IF c.actor \in Sources THEN by = c.actor ELSE by \in Users
    BY DEF RetractionAuthority
  <2>1. CASE c \in T
    BY <1>1, <1>3, <2>1
  <2>2. CASE c \in Retracted \ T
    BY <1>1, <1>2, <1>3, <2>2 DEF LogInv, RetractionAuthority
  <2> QED
    BY <1>3, <2>1, <2>2
<1> QED
  BY <1>6, <1>7, <1>8, <1>9, <1>10, <1>11, <1>12 DEF LogInv

-----------------------------------------------------------------------------
\* What none of the three writes may do to the log
LogGrows ==
    /\ claims \subseteq claims'
    /\ Retracted \subseteq Retracted'
    /\ \A c \in Retracted : retractedBy'[c] = retractedBy[c]
    /\ \A n \in ChangeSetIds : changesets'[n] = changesets[n]

\* An assertion only appends.
LEMMA AssertGrows ==
    ASSUME LogInv, NEW a, NEW act \in Actions, NEW W,
           RecordChangeset(a, act), AssertClaims(W)
    PROVE  LogGrows
  BY ChangesetStep DEF LogInv, AssertClaims, LogGrows, Retracted

\* Stamping active claims leaves the earlier retractions alone.
LEMMA StampGrows ==
    ASSUME LogInv, NEW a, NEW act \in Actions, NEW T \in SUBSET active,
           RecordChangeset(a, act), claims \subseteq claims', Stamp(T)
    PROVE  LogGrows
<1>1. Retracted \cap T = {}
  BY DEF LogInv, RetractedIsInactive
<1>2. Retracted' = Retracted \cup T /\ \A c \in Retracted : retractedBy'[c] = retractedBy[c]
  BY <1>1 DEF Stamp, Retracted
<1> QED
  BY <1>2, ChangesetStep DEF LogInv, LogGrows

-----------------------------------------------------------------------------
(* The pages that tell the log, for every log that satisfies LogInv.       *)

\* A claim is by the actor of the changeset that wrote it
Attributed == \A c \in claims : changesets[c.cs].actor = c.actor

\* Each of the three writes keeps the attribution.
LEMMA AttributedStep ==
    ASSUME LogInv, Attributed, NEW a, NEW act \in Actions, NEW W,
           RecordChangeset(a, act), NewClaims(a, W), claims' \subseteq claims \cup W
    PROVE  Attributed'
<1>1. \A c \in claims : c.cs \in ChangeSetIds
  BY DEF LogInv, LogTypeOK, Claim
<1>2. \A w \in W : w.cs = NextCs /\ w.actor = a
  BY DEF NewClaims
<1> QED
  BY <1>1, <1>2, ChangesetStep DEF LogInv, Attributed

\* The claims of a key, all authors', are ordered by their changesets.
LEMMA ChainOrder ==
    ASSUME LogInv, Attributed, NEW s, NEW k
    PROVE  /\ \A c \in Chain(s, k) : c \in claims /\ c.cs \in Nat /\ c.cs < NextCs
           /\ \A c, d \in Chain(s, k) : c.cs = d.cs => c = d
<1>1. \A c, d \in Chain(s, k) : c.cs = d.cs => SameSlot(c, d)
  BY DEF Chain, Attributed, SameSlot
<1> QED
  BY <1>1, OldClaims DEF LogInv, Chain, OnePerChangeset

\* The claim before another one: the newest of those with an older changeset.
LEMMA PriorFacts ==
    ASSUME LogInv, Attributed, NEW s, NEW k, NEW c \in Chain(s, k)
    PROVE  LET chain == Chain(s, k)
           IN  /\ \A d \in Prior(c, chain) : d \in chain /\ d.cs < c.cs
               /\ \A d \in chain : d.cs < c.cs => \E e \in Prior(c, chain) : d.cs <= e.cs
               /\ \A d, e \in Prior(c, chain) : d = e
<1> DEFINE chain == Chain(s, k)
           older == {d \in chain : d.cs < c.cs}
<1>1. Prior(c, chain) = Newest(older)
  BY DEF Prior
<1>2. \A d \in Prior(c, chain) : d \in chain /\ d.cs < c.cs
  BY <1>1 DEF Newest
<1>3. ASSUME NEW d \in chain, d.cs < c.cs PROVE \E e \in Prior(c, chain) : d.cs <= e.cs
  <2>1. older # {} /\ NextCs \in Nat /\ \A e \in older : e.cs \in Nat /\ e.cs <= NextCs
    BY <1>3, ChainOrder, OldClaims DEF LogInv
  <2>2. PICK e \in older : e \in Newest(older)
    <3> HIDE DEF older
    <3> QED
      BY <2>1, NewestExists DEF Newest
  <2> QED
    BY <1>1, <1>3, <2>2 DEF Newest
<1>4. ASSUME NEW d \in Prior(c, chain), NEW e \in Prior(c, chain) PROVE d = e
  <2>1. d.cs <= e.cs /\ e.cs <= d.cs
    BY <1>1, <1>4 DEF Newest
  <2> QED
    BY <1>2, <1>4, <2>1, ChainOrder
<1> QED
  BY <1>2, <1>3, <1>4

\* Old values lead back through the whole chain of a key.
LEMMA ChainsLeadBack ==
    ASSUME LogInv, Attributed, NEW s, NEW k
    PROVE  OldValuesLeadBack(s, k)
<1> DEFINE chain == Chain(s, k)
<1>0. \A c \in chain : c.cs \in Nat
  BY ChainOrder
<1>1. ASSUME NEW c \in chain
      PROVE  Prior(c, chain) = {} <=> (\A d \in chain : c.cs <= d.cs)
  BY <1>0, PriorFacts
<1>2. ASSUME NEW c \in chain PROVE \E d \in chain : Prior(c, chain) \subseteq {d}
  BY PriorFacts
<1>3. ASSUME NEW c \in chain, NEW d \in chain, Prior(c, chain) = Prior(d, chain)
      PROVE  c = d
  <2>1. ~(c.cs < d.cs)
    <3> SUFFICES ASSUME c.cs < d.cs PROVE FALSE
      OBVIOUS
    <3>1. PICK e \in Prior(d, chain) : c.cs <= e.cs
      BY PriorFacts
    <3>2. e \in chain /\ e.cs < c.cs
      BY <1>3, PriorFacts
    <3> QED
      BY <1>0, <3>1, <3>2
  <2>2. ~(d.cs < c.cs)
    <3> SUFFICES ASSUME d.cs < c.cs PROVE FALSE
      OBVIOUS
    <3>1. PICK e \in Prior(c, chain) : d.cs <= e.cs
      BY PriorFacts
    <3>2. e \in chain /\ e.cs < d.cs
      BY <1>3, PriorFacts
    <3> QED
      BY <1>0, <3>1, <3>2
  <2> QED
    BY <1>0, <2>1, <2>2, ChainOrder
<1> QED
  BY <1>1, <1>2, <1>3 DEF OldValuesLeadBack

-----------------------------------------------------------------------------
\* A non-empty set of competing claims has one that outranks all the others:
\* by priority, then by changeset.
LEMMA TopRanked ==
    ASSUME LogInv, Attributed, NEW s, NEW k, NEW E, E # {}, E \subseteq Chain(s, k)
    PROVE  \E c \in E : \A d \in E : d = c \/ Outranks(c, d)
<1> DEFINE Upto(n) == {c \in E : c.cs <= n}
           Topped(T) == \E c \in T : \A d \in T : d = c \/ Outranks(c, d)
           Bad == {n \in Nat : Upto(n) # {} /\ ~Topped(Upto(n))}
           Less == OpToRel(<, Nat)
<1>1. /\ \A c \in E : c.cs \in Nat /\ c.cs < NextCs /\ Priority[c.actor] \in Nat
      /\ \A c, d \in E : c.cs = d.cs => c = d
      /\ NextCs \in Nat
  BY ChainOrder, OldClaims, PriorityAssumption DEF LogInv, Claim, Actors
<1>2. /\ \A n, c : c \in Upto(n) <=> c \in E /\ c.cs <= n
      /\ \A n : n \in Bad <=> n \in Nat /\ Upto(n) # {} /\ ~Topped(Upto(n))
      /\ \A T : Topped(T) <=> \E c \in T : \A d \in T : d = c \/ Outranks(c, d)
  OBVIOUS
<1>3. Upto(NextCs) = E
  BY <1>1
<1> HIDE DEF Upto, Bad, Topped
<1>4. ASSUME NEW n \in Bad, \A m \in Bad : ~(m < n) PROVE FALSE
  <2>1. n \in Nat /\ Upto(n) # {} /\ ~Topped(Upto(n))
    BY <1>2, <1>4
  <2>2. \A m \in Nat : m < n /\ Upto(m) # {} => Topped(Upto(m))
    BY <1>2, <1>4
  <2>3. PICK e \in E : e.cs = n
    <3> SUFFICES ASSUME \A c \in E : c.cs # n PROVE FALSE
      OBVIOUS
    <3>1. PICK x : x \in Upto(n)
      BY <2>1
    <3>2. x.cs \in Nat /\ x.cs < n
      BY <1>1, <1>2, <2>1, <3>1
    <3>3. n - 1 \in Nat /\ n - 1 < n
      BY <2>1, <3>2
    <3>4. \A c \in E : c.cs <= n <=> c.cs <= n - 1
      BY <1>1, <2>1
    <3>5. Upto(n - 1) = Upto(n)
      BY <1>2, <3>4
    <3> QED
      BY <2>1, <2>2, <3>3, <3>5
  <2>4. \A c \in Upto(n) : c = e \/ (c.cs < n /\ c.cs \in Nat)
    BY <1>1, <1>2, <2>1, <2>3
  <2>5. e \in Upto(n)
    BY <1>2, <2>1, <2>3
  <2>6. CASE \A c \in Upto(n) : c = e
    BY <1>2, <2>1, <2>5, <2>6
  <2>7. CASE \E c \in Upto(n) : c # e
    <3>1. PICK c \in Upto(n) : c # e
      BY <2>7
    <3>2. c.cs < n /\ c.cs \in Nat
      BY <2>4, <3>1
    <3>3. n - 1 \in Nat /\ n - 1 < n /\ c.cs <= n - 1
      BY <2>1, <3>2
    <3>4. Upto(n - 1) # {}
      BY <1>2, <3>1, <3>3
    <3>5. \A d \in Upto(n) : d = e \/ d \in Upto(n - 1)
      <4>1. \A d \in E : d.cs < n /\ d.cs \in Nat => d.cs <= n - 1
        BY <2>1
      <4> QED
        BY <1>2, <2>4, <4>1
    <3>6. \A d \in Upto(n - 1) : d \in E /\ d.cs < n /\ d \in Upto(n)
      <4>1. \A d \in E : d.cs <= n - 1 => d.cs < n /\ d.cs <= n
        BY <1>1, <2>1
      <4> QED
        BY <1>2, <4>1
    <3>7. PICK t \in Upto(n - 1) : \A d \in Upto(n - 1) : d = t \/ Outranks(t, d)
      BY <1>2, <2>2, <3>3, <3>4
    <3>8. CASE Priority[t.actor] > Priority[e.actor]
      <4>1. Outranks(t, e)
        BY <3>8 DEF Outranks
      <4> QED
        BY <1>2, <2>1, <3>5, <3>6, <3>7, <4>1
    <3>9. CASE ~(Priority[t.actor] > Priority[e.actor])
      <4>1. \A d \in Upto(n - 1) : Outranks(e, d)
        <5> SUFFICES ASSUME NEW d \in Upto(n - 1) PROVE Outranks(e, d)
          OBVIOUS
        <5>1. /\ Priority[d.actor] \in Nat /\ Priority[t.actor] \in Nat /\ Priority[e.actor] \in Nat
              /\ e.cs > d.cs
          BY <1>1, <2>1, <2>3, <3>6
        <5>2. d = t \/ Outranks(t, d)
          BY <3>7
        <5> QED
          BY <3>9, <5>1, <5>2 DEF Outranks
      <4> QED
        BY <1>2, <2>1, <2>5, <3>5, <4>1
    <3> QED
      BY <3>8, <3>9
  <2> QED
    BY <2>6, <2>7
<1>5. Bad = {}
  <2> SUFFICES ASSUME Bad # {} PROVE FALSE
    OBVIOUS
  <2>1. Bad \subseteq Nat
    BY <1>2
  <2>2. PICK n \in Bad : \A m \in Bad : <<m, n>> \notin Less
    BY <2>1, NatLessThanWellFounded, WFMin
  <2>3. \A m \in Bad : ~(m < n)
    BY <2>1, <2>2 DEF OpToRel
  <2> QED
    BY <1>4, <2>3
<1> QED
  BY <1>1, <1>2, <1>3, <1>5

\* A key that somebody may win has exactly one winner.
LEMMA OneWinner ==
    ASSUME LogInv, Attributed, NEW off, NEW s, NEW k, Eligible(active, off, s, k) # {}
    PROVE  \E c \in Eligible(active, off, s, k) : Winner(active, off, s, k) = {c}
<1> DEFINE E == Eligible(active, off, s, k)
<1>1. E \subseteq Chain(s, k)
  BY DEF LogInv, LogTypeOK, Eligible, Chain
<1>2. PICK c \in E : \A d \in E : d = c \/ Outranks(c, d)
  BY <1>1, TopRanked
<1>3. \A d \in E : d.cs \in Nat /\ Priority[d.actor] \in Nat
  BY <1>1, ChainOrder, OldClaims, PriorityAssumption DEF LogInv, Claim, Actors
<1>4. \A d \in E : ~(Outranks(c, d) /\ Outranks(d, c))
  BY <1>3 DEF Outranks
<1>5. Winner(active, off, s, k) = {c}
  BY <1>2, <1>4 DEF Winner
<1> QED
  BY <1>5

-----------------------------------------------------------------------------
\* The parts of a card.
LEMMA CardParts ==
    ASSUME NEW s, NEW n, NEW winners
    PROVE  /\ Card(s, n, winners).changes =
                 {Change(c, Chain(s, c.key)) : c \in {d \in WrittenBy(n) : d.subject = s}}
           /\ Card(s, n, winners).winning = {d \in WrittenBy(n) : d.subject = s} \cap winners
           /\ Card(s, n, winners).retractions = {c \in RetractedBy(n) : c.subject = s}
<1> DEFINE own == {c \in WrittenBy(n) : c.subject = s}
           told == {Change(c, Chain(s, c.key)) : c \in own}
           won == own \cap winners
           gone == {c \in RetractedBy(n) : c.subject = s}
<1>1. Card(s, n, winners) = [changes |-> told, winning |-> won, retractions |-> gone]
  BY DEF Card
<1> HIDE DEF told, won, gone
<1>2. /\ Card(s, n, winners).changes = told
      /\ Card(s, n, winners).winning = won
      /\ Card(s, n, winners).retractions = gone
  BY <1>1
<1> QED
  BY <1>2 DEF told, won, gone

\* What is in a card of a record's history.
LEMMA CardFacts ==
    ASSUME NEW off, NEW s
    PROVE  LET history == EditHistory(off, s)
           IN  /\ DOMAIN history = Touching({s})
               /\ \A n \in Touching({s}) :
                     /\ history[n] = Card(s, n, WinningClaims(off, s))
                     /\ \A c : c \in {ch.claim : ch \in history[n].changes}
                               <=> c \in claims /\ c.cs = n /\ c.subject = s
                     /\ \A c : c \in history[n].retractions
                               <=> c \in Retracted /\ retractedBy[c] = n /\ c.subject = s
<1> DEFINE history == EditHistory(off, s)
<1>1. DOMAIN history = Touching({s})
  BY DEF EditHistory
<1>2. ASSUME NEW n \in Touching({s}) PROVE history[n] = Card(s, n, WinningClaims(off, s))
  BY DEF EditHistory
<1>3. ASSUME NEW n \in Touching({s}), NEW c
      PROVE  c \in {ch.claim : ch \in history[n].changes}
                <=> c \in claims /\ c.cs = n /\ c.subject = s
  <2> DEFINE own == {d \in WrittenBy(n) : d.subject = s}
  <2>1. history[n].changes = {Change(d, Chain(s, d.key)) : d \in own}
    <3> DEFINE w == WinningClaims(off, s)
    <3> HIDE DEF w
    <3>1. Card(s, n, w).changes = {Change(d, Chain(s, d.key)) : d \in own}
      BY CardParts
    <3>2. history[n] = Card(s, n, w)
      BY <1>2 DEF w
    <3> QED
      BY <3>1, <3>2, Zenon
  <2>2. \A d, chain : Change(d, chain).claim = d
    BY DEF Change
  <2> QED
    BY <2>1, <2>2 DEF WrittenBy
<1>4. ASSUME NEW n \in Touching({s}), NEW c
      PROVE  c \in history[n].retractions
                <=> c \in Retracted /\ retractedBy[c] = n /\ c.subject = s
  <2>1. history[n].retractions = {d \in RetractedBy(n) : d.subject = s}
    <3> DEFINE w == WinningClaims(off, s)
    <3> HIDE DEF w
    <3>1. Card(s, n, w).retractions = {d \in RetractedBy(n) : d.subject = s}
      BY CardParts
    <3>2. history[n] = Card(s, n, w)
      BY <1>2 DEF w
    <3> QED
      BY <3>1, <3>2, Zenon
  <2> QED
    BY <2>1 DEF RetractedBy
<1> QED
  BY <1>1, <1>2, <1>3, <1>4

\* Every claim and every retraction of a record is told once.
LEMMA CardsTell ==
    ASSUME LogInv, NEW off, NEW s
    PROVE  CardsTellTheLog(EditHistory(off, s), s)
<1> DEFINE history == EditHistory(off, s)
<1> SUFFICES ASSUME NEW c \in claims, c.subject = s
             PROVE  LET at == {n \in DOMAIN history : c \in {ch.claim : ch \in history[n].changes}}
                        gone == {n \in DOMAIN history : c \in history[n].retractions}
                    IN  /\ at = {c.cs}
                        /\ c \notin Retracted => gone = {}
                        /\ c \in Retracted =>
                              \E n \in gone : /\ gone = {n} /\ c.cs < n /\ c \notin active
                                             /\ \/ changesets[n].actor = c.actor
                                                \/ {changesets[n].actor, c.actor} \subseteq Users
  BY DEF CardsTellTheLog
<1> DEFINE at == {n \in DOMAIN history : c \in {ch.claim : ch \in history[n].changes}}
           gone == {n \in DOMAIN history : c \in history[n].retractions}
<1>1. at = {n \in Touching({s}) : c.cs = n}
  BY CardFacts
<1>2. gone = {n \in Touching({s}) : c \in Retracted /\ retractedBy[c] = n}
  BY CardFacts
<1>3. c.cs \in Touching({s})
  BY DEF LogInv, LogTypeOK, Claim, Touching, WrittenBy
<1>4. at = {c.cs}
  BY <1>1, <1>3
<1>5. c \notin Retracted => gone = {}
  BY <1>2
<1>6. ASSUME c \in Retracted
      PROVE  \E n \in gone : /\ gone = {n} /\ c.cs < n /\ c \notin active
                            /\ \/ changesets[n].actor = c.actor
                               \/ {changesets[n].actor, c.actor} \subseteq Users
  <2> DEFINE n == retractedBy[c]
  <2>1. n \in Touching({s})
    BY <1>6, OldClaims DEF LogInv, Touching, RetractedBy
  <2>2. gone = {n}
    BY <1>2, <1>6, <2>1
  <2>3. c.cs < n /\ c \notin active
    BY <1>6 DEF LogInv, RetractedIsInactive
  <2>4. c.actor \in Users \cup Sources
    BY DEF LogInv, LogTypeOK, Claim, Actors
  <2>5. changesets[n].actor = c.actor \/ {changesets[n].actor, c.actor} \subseteq Users
    BY <1>6, <2>4 DEF LogInv, RetractionAuthority
  <2> QED
    BY <2>2, <2>3, <2>5
<1> HIDE DEF at, gone
<1> QED
  BY <1>4, <1>5, <1>6 DEF at, gone

\* The claims of a key that are marked in the history are the key's winner.
LEMMA MarkedWins ==
    ASSUME LogInv, Attributed, NEW off, NEW s, NEW k \in Keys
    PROVE  OneChangeWins(EditHistory(off, s), off, s, k)
<1> DEFINE history == EditHistory(off, s)
           marked == {c \in Chain(s, k) : c \in history[c.cs].winning}
           W == Winner(active, off, s, k)
<1>1. \A j, c : c \in Winner(active, off, s, j) => c \in active /\ c.subject = s /\ c.key = j
  BY DEF Winner, Eligible
<1>2. ASSUME NEW c \in Chain(s, k)
      PROVE  c \in history[c.cs].winning <=> c \in W
  <2>1. c \in claims /\ c.subject = s /\ c.key = k
    BY DEF Chain
  <2>2. c.cs \in Touching({s})
    BY <2>1 DEF LogInv, LogTypeOK, Claim, Touching, WrittenBy
  <2>3. history[c.cs].winning = {d \in WrittenBy(c.cs) : d.subject = s} \cap WinningClaims(off, s)
    BY <2>2, CardFacts, CardParts
  <2>4. c \in WinningClaims(off, s) <=> c \in W
    BY <1>1, <2>1 DEF WinningClaims
  <2> QED
    BY <2>1, <2>3, <2>4 DEF WrittenBy
<1>3. W \subseteq Chain(s, k)
  BY <1>1 DEF LogInv, LogTypeOK, Chain
<1>4. marked = W
  BY <1>2, <1>3
<1>5. CASE Eligible(active, off, s, k) = {}
  BY <1>4, <1>5 DEF OneChangeWins, Winner
<1>6. CASE Eligible(active, off, s, k) # {}
  <2>1. PICK c \in Eligible(active, off, s, k) : W = {c}
    BY <1>6, OneWinner
  <2>2. c \in active \ Retracted /\ c.actor \notin off
    BY DEF Eligible, LogInv, RetractedIsInactive
  <2> HIDE DEF W
  <2> QED
    BY <1>4, <1>6, <2>1, <2>2 DEF OneChangeWins
<1> QED
  BY <1>5, <1>6

\* A changeset about one record reads the same in both places.
LEMMA DetailAgrees ==
    ASSUME NEW off, NEW s
    PROVE  PagesAgree(EditHistory(off, s), s)
<1> DEFINE history == EditHistory(off, s)
<1> SUFFICES ASSUME NEW n \in Touching({s}),
                    \A c \in WrittenBy(n) \cup RetractedBy(n) : c.subject = s
             PROVE  ChangeDetail(n) = [changes |-> history[n].changes,
                                       retractions |-> history[n].retractions]
  BY CardFacts DEF PagesAgree
<1> DEFINE told == IF WrittenBy(n) # {} THEN WrittenBy(n) ELSE RetractedBy(n)
           first == CHOOSE c \in told : TRUE
<1>1. told # {} /\ told \subseteq WrittenBy(n) \cup RetractedBy(n)
  BY DEF Touching
<1>2. first.subject = s
  <2> HIDE DEF told
  <2>1. first \in told
    BY <1>1
  <2> QED
    BY <1>1, <2>1
<1>3. {c \in WrittenBy(n) : c.subject = s} = WrittenBy(n)
      /\ {c \in RetractedBy(n) : c.subject = s} = RetractedBy(n)
  OBVIOUS
<1>4. /\ history[n].changes = {Change(c, Chain(s, c.key)) : c \in WrittenBy(n)}
      /\ history[n].retractions = RetractedBy(n)
  <2>1. history[n] = Card(s, n, WinningClaims(off, s))
    BY CardFacts
  <2>2. /\ history[n].changes = {Change(c, Chain(s, c.key)) : c \in {d \in WrittenBy(n) : d.subject = s}}
        /\ history[n].retractions = {c \in RetractedBy(n) : c.subject = s}
    <3> DEFINE w == WinningClaims(off, s)
    <3> HIDE DEF w
    <3>1. Card(s, n, w).changes = {Change(c, Chain(s, c.key)) : c \in {d \in WrittenBy(n) : d.subject = s}}
      BY CardParts
    <3>2. Card(s, n, w).retractions = {c \in RetractedBy(n) : c.subject = s}
      BY CardParts
    <3>3. history[n] = Card(s, n, w)
      BY <2>1 DEF w
    <3> QED
      BY <3>1, <3>2, <3>3, Zenon
  <2> QED
    BY <1>3, <2>2, Zenon
<1>5. ChangeDetail(n) = [changes |-> {Change(c, Chain(first.subject, c.key)) : c \in WrittenBy(n)},
                         retractions |-> RetractedBy(n)]
  BY DEF ChangeDetail
<1> HIDE DEF first
<1> QED
  BY <1>2, <1>4, <1>5

-----------------------------------------------------------------------------
\* A non-empty set of numbers has a least one, and a greatest one if bounded.
LEMMA LeastNumber ==
    ASSUME NEW S \in SUBSET Nat, S # {}
    PROVE  \E n \in S : \A m \in S : n <= m
<1> DEFINE Less == OpToRel(<, Nat)
<1>1. PICK n \in S : \A m \in S : <<m, n>> \notin Less
  BY NatLessThanWellFounded, WFMin
<1>2. \A m \in S : ~(m < n)
  BY <1>1 DEF OpToRel
<1> QED
  BY <1>2

LEMMA GreatestNumber ==
    ASSUME NEW b \in Nat, NEW S \in SUBSET (0 .. b), S # {}
    PROVE  \E n \in S : \A m \in S : m <= n
<1> DEFINE Gaps == {b - n : n \in S}
<1>0. \A n \in S : n \in Nat /\ b - n \in Nat
  OBVIOUS
<1>1. Gaps \in SUBSET Nat /\ Gaps # {}
  BY <1>0
<1> HIDE DEF Gaps
<1>2. PICK g \in Gaps : \A h \in Gaps : g <= h
  BY <1>1, LeastNumber
<1>3. PICK n \in S : g = b - n
  BY DEF Gaps
<1>4. \A m \in S : b - n <= b - m
  BY <1>2, <1>3 DEF Gaps
<1> QED
  BY <1>0, <1>4

\* The page of a list of changesets before a cursor.
LEMMA PageFacts ==
    ASSUME NEW b \in Nat, NEW Q \in SUBSET (1 .. b), NEW cursor \in Nat,
           NEW limit \in Nat \ {0}
    PROVE  LET page == Page(Q, cursor, limit)
               left == Before(Q, cursor)
           IN  /\ Cardinality(page.items) <= limit
               /\ left \ page.items = Before(left, page.next)
               /\ page.next \in {0} \cup page.items
<1> DEFINE left == Before(Q, cursor)
           above(n) == {m \in left : n < m}
           items == {n \in left : Cardinality(above(n)) < limit}
           page == Page(Q, cursor, limit)
<1>1. \A n \in left : n \in Q /\ n \in 1 .. b /\ n \in 0 .. b /\ n \in Nat
  BY DEF Before
<1>1a. left \in SUBSET (1 .. b) /\ left \in SUBSET (0 .. b)
  BY <1>1
<1>2. IsFiniteSet(left)
  <2>1. IsFiniteSet(1 .. b)
    BY FS_Interval
  <2> HIDE DEF left
  <2> QED
    BY <1>1a, <2>1, FS_Subset
<1>3. /\ page.items = items
      /\ page.next = IF items = left THEN 0 ELSE CHOOSE n \in items : \A m \in items : n <= m
  BY DEF Page
<1>3a. \A n : n \in items <=> n \in left /\ Cardinality(above(n)) < limit
  OBVIOUS
<1> HIDE DEF left, page
<1>4. \A n : above(n) \in SUBSET left /\ IsFiniteSet(above(n)) /\ Cardinality(above(n)) \in Nat
  BY <1>2, FS_Subset, FS_CardinalityType
<1>5. CASE left = {}
  <2>1. items = {} /\ page.next = 0
    BY <1>3, <1>5
  <2>2. Cardinality(items) = 0 /\ Before(left, 0) = {}
    BY <1>5, <2>1, FS_EmptySet DEF Before
  <2> QED
    BY <1>3, <1>5, <2>1, <2>2 DEF left, page
<1>6. CASE left # {}
  <2>1. PICK top \in left : \A m \in left : m <= top
    BY <1>1a, <1>6, GreatestNumber
  <2>2. above(top) = {}
    BY <1>1, <2>1
  <2>3. top \in items
    BY <2>2, FS_EmptySet
  <2>4. items \in SUBSET Nat /\ items # {}
    BY <1>1, <2>3
  <2> HIDE DEF items
  <2>5. PICK last \in items : \A m \in items : last <= m
    BY <2>4, LeastNumber
  <2>6. /\ last \in left
        /\ Cardinality(above(last)) < limit
        /\ items \subseteq above(last) \cup {last}
    BY <1>1, <2>5 DEF items
  <2>7. Cardinality(items) <= limit
    <3>1. last \notin above(last)
      BY <1>1, <2>6
    <3> HIDE DEF above
    <3>2. /\ IsFiniteSet(above(last) \cup {last})
          /\ Cardinality(above(last) \cup {last}) = Cardinality(above(last)) + 1
      BY <1>4, <3>1, FS_AddElement
    <3>3. IsFiniteSet(items) /\ Cardinality(items) <= Cardinality(above(last) \cup {last})
      BY <2>6, <3>2, FS_Subset
    <3>4. Cardinality(items) \in Nat
      BY <3>3, FS_CardinalityType
    <3> QED
      BY <1>4, <2>6, <3>2, <3>3, <3>4
  <2>8. ASSUME NEW n \in left PROVE n \notin items <=> n < last
    <3>1. CASE n < last
      BY <1>1, <2>5, <2>6, <3>1
    <3>2. CASE ~(n < last)
      <4>1. above(n) \in SUBSET above(last)
        BY <1>1, <2>6, <3>2
      <4> HIDE DEF above
      <4>2. Cardinality(above(n)) <= Cardinality(above(last))
        BY <1>4, <4>1, FS_Subset
      <4>3. n \in items
        BY <1>3a, <1>4, <2>6, <4>2
      <4> QED
        BY <3>2, <4>3
    <3> QED
      BY <3>1, <3>2
  <2>9. CASE items = left
    <3>1. page.next = 0 /\ left \ items = {} /\ Before(left, 0) = {}
      BY <1>1, <1>3, <2>9 DEF Before
    <3> QED
      BY <1>3, <2>7, <3>1 DEF left, page
  <2>10. CASE items # left
    <3>1. page.next = CHOOSE n \in items : \A m \in items : n <= m
      BY <1>3, <2>10
    <3>2. page.next \in items /\ \A m \in items : page.next <= m
      BY <2>5, <3>1
    <3>3. page.next = last
      <4>1. page.next \in Nat /\ last \in Nat
        BY <2>4, <2>5, <3>2
      <4>2. page.next <= last /\ last <= page.next
        BY <2>5, <3>2
      <4> QED
        BY <4>1, <4>2
    <3>4. left \ items = Before(left, last)
      BY <2>6, <2>8 DEF Before, items
    <3> QED
      BY <1>3, <2>7, <3>2, <3>3, <3>4 DEF left, page
  <2> QED
    BY <2>9, <2>10
<1> QED
  BY <1>5, <1>6

\* Nothing is dropped between two pages of the feed.
LEMMA FeedWhole ==
    ASSUME LogInv, NEW S, NEW from, NEW to, NEW cursor \in Nat, NEW limit \in Nat \ {0}
    PROVE  FeedGoesOn(S, from, to, cursor, limit)
<1> DEFINE Q == {n \in Touching(S) : from <= n /\ n <= to}
<1>1. Len(changesets) \in Nat /\ Q \in SUBSET (1 .. Len(changesets))
  BY DEF LogInv, LogTypeOK, Touching, ChangeSetIds
<1>2. Feed(S, from, to, cursor, limit) = Page(Q, cursor, limit)
  BY DEF Feed
<1> DEFINE page == Page(Q, cursor, limit)
           left == Before(Q, cursor)
<1>3. /\ Cardinality(page.items) <= limit
      /\ left \ page.items = Before(left, page.next)
      /\ page.next \in {0} \cup page.items
  <2> HIDE DEF Q
  <2> QED
    BY <1>1, PageFacts, Zenon
<1> QED
  BY <1>2, <1>3, Zenon DEF FeedGoesOn
=============================================================================
