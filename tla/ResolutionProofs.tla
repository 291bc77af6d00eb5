-------------------------- MODULE ResolutionProofs --------------------------
(***************************************************************************)
(* Resolution by transactions of one entity and by batches of many:        *)
(* SlotsStayStacks and UndisturbedWriteRepairs of ClaimTxn for every set   *)
(* of users, keys and workers and every history of earlier edits; then     *)
(* BatchesKeepOwners of BulkResolve for every table; last, what a save of  *)
(* Relationships promises, for every kind of namespace.                    *)
(*                                                                         *)
(* Inv is inductive.  Its parts are operators of a committed claim table   *)
(* C, a next id n and a transaction t, so that each lemma says what one    *)
(* commit or one statement does to one pair of transactions.  The argument *)
(* is mutual exclusion: a transaction holds its slot from the moment it    *)
(* writes a claim that is active before or after it; no two hold the same  *)
(* slot, although they take it with row locks and with the index by turns. *)
(***************************************************************************)
EXTENDS MCResolution, NaturalsInduction, WellFoundedInduction,
        FiniteSetTheorems, FunctionTheorems, TLAPS

Stages == {"idle", "lock", "insert", "stamp", "predecessor", "reactivate",
           "resolve", "save", "commit"}

Final == {"resolve", "save", "commit"}

Pending == UNION {[S -> ClaimRow] : S \in SUBSET Nat}

TxRec == [pc : Stages, no : 0 .. MaxTxns, user : Users, key : Keys, target : Nat,
          todo : SUBSET Nat, writes : Pending, view : [Keys -> Nat], solo : BOOLEAN]

Mine(C, t) == {i \in DOMAIN C : InSlot(C[i], t.user, t.key)}

\* t has written which claim of its slot is active
Hold(C, t) ==
    \E i \in DOMAIN t.writes : t.writes[i].active \/ (i \in DOMAIN C /\ C[i].active)

\* What t wrote are claims of its slot; a new one is active
Fits(C, n, t) ==
    \A i \in DOMAIN t.writes :
        /\ i < n
        /\ InSlot(t.writes[i], t.user, t.key)
        /\ t.writes[i].active => t.writes[i].retractedBy = 0
        /\ i \in DOMAIN C => InSlot(C[i], t.user, t.key)
        /\ i \notin DOMAIN C => t.writes[i].active

\* An UPDATE has its snapshot, an INSERT its id above those it supersedes
EditStage(C, n, t) ==
    /\ t.pc = "lock" => t.todo \subseteq Mine(C, t)
    /\ t.pc = "insert" =>
          /\ t.target < n /\ t.target \notin DOMAIN C
          /\ \A i \in DOMAIN t.writes : i < t.target /\ ~t.writes[i].active

\* A revert has stamped its target; while that was active nothing outdates
\* the predecessor it chose
RevertStage(C, t) ==
    /\ t.pc \in {"stamp", "predecessor", "reactivate"} => t.target \in Mine(C, t)
    /\ t.pc \in {"predecessor", "reactivate"} =>
          /\ DOMAIN t.writes = {t.target}
          /\ ~t.writes[t.target].active /\ t.writes[t.target].retractedBy # 0
    /\ t.pc = "reactivate" => \E p \in Mine(C, t) :
          /\ t.todo = {p} /\ p # t.target
          /\ C[t.target].active =>
                \A i \in Mine(C, t) : i # t.target /\ C[i].retractedBy = 0 => i <= p

Stage(C, n, t) ==
    /\ t.pc \in {"idle", "lock", "stamp"} => DOMAIN t.writes = {}
    /\ t.pc # "idle" => t.no # 0
    /\ EditStage(C, n, t)
    /\ RevertStage(C, t)

\* The slot as t will leave it: its active write alone and newest, or nothing
\* unretracted, or what was there less a claim that was not active
Outcome(C, t) ==
    LET V == Overlay(C, t.writes)
    IN  /\ \A j \in DOMAIN t.writes : t.writes[j].active =>
              /\ t.pc \in Final
              /\ \A i \in Mine(V, t) : /\ V[i].active => i = j
                                       /\ V[i].retractedBy = 0 => i <= j
        /\ t.pc \in Final /\ Hold(C, t) /\ (\A j \in DOMAIN t.writes : ~t.writes[j].active) =>
              \A i \in Mine(V, t) : V[i].retractedBy # 0
        /\ t.pc \in Final /\ ~Hold(C, t) =>
              \A j \in DOMAIN t.writes : t.writes[j].retractedBy # 0

Sound(C, n, t) == Fits(C, n, t) /\ Stage(C, n, t) /\ Outcome(C, t)

\* Two transactions have no write, no drawn id and no slot in common
Apart(C, s, t) ==
    /\ DOMAIN s.writes \cap DOMAIN t.writes = {}
    /\ s.pc = "insert" => s.target \notin DOMAIN t.writes
    /\ t.pc = "insert" => t.target \notin DOMAIN s.writes
    /\ s.pc = "insert" /\ t.pc = "insert" => s.target # t.target
    /\ ~(Hold(C, s) /\ Hold(C, t) /\ s.user = t.user /\ s.key = t.key)

\* SlotsStayStacks of the claims C
LogOk(C) ==
    /\ \A i \in DOMAIN C : C[i].retractedBy = 0 =>
          \E a \in DOMAIN C :
             /\ InSlot(C[i], C[a].user, C[a].key) /\ C[a].active /\ i <= a
             /\ \A j \in DOMAIN C : InSlot(C[j], C[a].user, C[a].key) /\ C[j].active => j = a
    /\ \A i \in DOMAIN C : C[i].retractedBy # 0 => ~C[i].active

TxTypeOK ==
    /\ claims \in Pending
    /\ nextId \in Nat
    /\ \A i \in DOMAIN claims : i < nextId
    /\ begun \in 0 .. MaxTxns
    /\ tx \in [Workers -> TxRec]

Inv ==
    /\ TxTypeOK
    /\ LogOk(claims)
    /\ \A w \in Workers : Sound(claims, nextId, tx[w])
    /\ \A v, w \in Workers : v # w => Apart(claims, tx[v], tx[w])

-----------------------------------------------------------------------------
\* A function of claims is one of Pending, and has a claim at each of its ids.
LEMMA PendingFacts ==
    /\ \A S \in SUBSET Nat : [S -> ClaimRow] \subseteq Pending
    /\ \A f \in Pending : /\ DOMAIN f \subseteq Nat
                          /\ \A i \in DOMAIN f : /\ f[i] \in ClaimRow
                                                 /\ f[i].active \in BOOLEAN
                                                 /\ f[i].retractedBy \in 0 .. MaxTxns
                                                 /\ f[i].user \in Users /\ f[i].key \in Keys
  BY DEF Pending, ClaimRow

\* Writes laid over claims are claims again.
LEMMA OverlayFacts ==
    ASSUME NEW f \in Pending, NEW g \in Pending
    PROVE  /\ Overlay(f, g) \in Pending
           /\ DOMAIN Overlay(f, g) = DOMAIN f \cup DOMAIN g
           /\ \A i \in DOMAIN g : Overlay(f, g)[i] = g[i]
           /\ \A i \in DOMAIN f \ DOMAIN g : Overlay(f, g)[i] = f[i]
<1>1. /\ \A i \in DOMAIN f : f[i] \in ClaimRow
      /\ \A i \in DOMAIN g : g[i] \in ClaimRow
      /\ DOMAIN f \cup DOMAIN g \in SUBSET Nat
  BY PendingFacts
<1> DEFINE h == Overlay(f, g)
<1>2. h \in [DOMAIN f \cup DOMAIN g -> ClaimRow]
  BY <1>1 DEF Overlay
<1> QED
  BY <1>1, <1>2, PendingFacts DEF Overlay

\* A bounded non-empty set of ids has a largest.
LEMMA SetMaxExists ==
    ASSUME NEW S \in SUBSET Nat, S # {}, NEW m \in Nat, \A i \in S : i < m
    PROVE  SetMax(S) \in S /\ \A j \in S : j <= SetMax(S)
<1> DEFINE Gaps == {m - i : i \in S}
           Less == OpToRel(<, Nat)
<1>1. Gaps \subseteq Nat /\ Gaps # {}
  <2>1. \A i \in S : i \in Nat /\ m - i \in Nat
    OBVIOUS
  <2> QED
    BY <2>1
<1>2. PICK g \in Gaps : \A h \in Gaps : <<h, g>> \notin Less
  BY <1>1, NatLessThanWellFounded, WFMin
<1>3. PICK i \in S : g = m - i
  BY <1>2
<1>4. \A j \in S : ~(m - j < m - i)
  BY <1>1, <1>2, <1>3 DEF OpToRel
<1>5. \A j \in S : j <= i
  BY <1>4
<1> QED
  BY <1>5 DEF SetMax

\* Only the stage and the writes of a transaction matter to its invariant.
LEMMA SoloIrrelevant ==
    ASSUME NEW C, NEW n, NEW t \in TxRec, NEW b \in BOOLEAN
    PROVE  LET s == [t EXCEPT !.solo = b]
           IN  /\ s \in TxRec
               /\ Sound(C, n, s) <=> Sound(C, n, t)
               /\ \A r : Apart(C, r, s) <=> Apart(C, r, t)
<1> DEFINE s == [t EXCEPT !.solo = b]
<1>1. /\ s \in TxRec
      /\ s.pc = t.pc /\ s.no = t.no /\ s.user = t.user /\ s.key = t.key
      /\ s.target = t.target /\ s.todo = t.todo /\ s.writes = t.writes
  BY DEF TxRec
<1> HIDE DEF s
<1>2. Hold(C, s) <=> Hold(C, t)
  BY <1>1 DEF Hold
<1>3. Mine(C, s) = Mine(C, t) /\ Mine(Overlay(C, s.writes), s) = Mine(Overlay(C, t.writes), t)
  BY <1>1 DEF Mine
<1>4. Sound(C, n, s) <=> Sound(C, n, t)
  BY <1>1, <1>2, <1>3 DEF Sound, Fits, Stage, EditStage, RevertStage, Outcome
<1>5. \A r : Apart(C, r, s) <=> Apart(C, r, t)
  BY <1>1, <1>2 DEF Apart
<1> QED
  BY <1>1, <1>4, <1>5 DEF s

LEMMA ApartSymmetric ==
    ASSUME NEW C, NEW s, NEW t, Apart(C, s, t)
    PROVE  Apart(C, t, s)
  BY DEF Apart

\* An idle transaction has written nothing and stands in nobody's way.
LEMMA IdleFacts ==
    ASSUME NEW C, NEW n
    PROVE  /\ Idle \in TxRec
           /\ Sound(C, n, Idle)
           /\ \A t : Apart(C, t, Idle)
<1>1. (CHOOSE u \in Users : TRUE) \in Users /\ (CHOOSE k \in Keys : TRUE) \in Keys
  BY TxnAssumption
<1>2. [i \in {} |-> 0] \in Pending
  <2>1. [i \in {} |-> 0] \in [{} -> ClaimRow]
    OBVIOUS
  <2> QED
    BY <2>1, PendingFacts
<1>3. Idle \in TxRec
  BY <1>1, <1>2, TxnAssumption DEF Idle, TxRec, Stages
<1>4. Idle.pc = "idle" /\ DOMAIN Idle.writes = {}
  BY DEF Idle
<1>5. Sound(C, n, Idle)
  BY <1>4 DEF Sound, Fits, Stage, EditStage, RevertStage, Outcome, Final
<1>6. \A t : Apart(C, t, Idle)
  BY <1>4 DEF Apart, Hold
<1> QED
  BY <1>3, <1>5, <1>6

-----------------------------------------------------------------------------
\* An active claim of the slot that t has not written: t does not hold it.
LEMMA NotHeld ==
    ASSUME NEW C \in Pending, NEW n, NEW t \in TxRec, LogOk(C), Sound(C, n, t),
           NEW i \in Mine(C, t), C[i].active, i \notin DOMAIN t.writes
    PROVE  ~Hold(C, t)
<1> SUFFICES ASSUME NEW j \in DOMAIN t.writes,
                    t.writes[j].active \/ (j \in DOMAIN C /\ C[j].active)
             PROVE  FALSE
  BY DEF Hold
<1>1. t.writes \in Pending /\ i \in DOMAIN C /\ InSlot(C[i], t.user, t.key)
  BY DEF TxRec, Mine
<1>2. CASE t.writes[j].active
  <2> DEFINE V == Overlay(C, t.writes)
  <2>1. i \in DOMAIN V /\ V[i] = C[i]
    BY <1>1, OverlayFacts, ZenonT(60)
  <2>2. i \in Mine(V, t) /\ V[i].active
    BY <1>1, <2>1 DEF Mine
  <2> QED
    BY <1>2, <2>2 DEF Sound, Outcome
<1>3. CASE j \in DOMAIN C /\ C[j].active
  <2>1. InSlot(C[j], t.user, t.key)
    BY <1>3 DEF Sound, Fits
  <2>2. C[i].retractedBy = 0
    BY <1>1 DEF LogOk
  <2>3. PICK a \in DOMAIN C : /\ InSlot(C[i], C[a].user, C[a].key)
                              /\ \A k \in DOMAIN C : InSlot(C[k], C[a].user, C[a].key)
                                                      /\ C[k].active => k = a
    BY <1>1, <2>2 DEF LogOk
  <2> QED
    BY <1>1, <1>3, <2>1, <2>3 DEF InSlot
<1> QED
  BY <1>2, <1>3

\* What s commits keeps another transaction's part of the invariant, and the
\* slot it holds.
LEMMA CommitElsewhere ==
    ASSUME NEW C \in Pending, NEW n \in Nat, NEW s \in TxRec, NEW t \in TxRec,
           Sound(C, n, s), Sound(C, n, t), Apart(C, s, t), s.pc = "commit"
    PROVE  LET D == Overlay(C, s.writes)
           IN  Sound(D, n, t) /\ (Hold(D, t) <=> Hold(C, t))
<1> DEFINE D == Overlay(C, s.writes)
<1>1. /\ s.writes \in Pending /\ t.writes \in Pending
      /\ D \in Pending
      /\ DOMAIN D = DOMAIN C \cup DOMAIN s.writes
      /\ \A i \in DOMAIN s.writes : D[i] = s.writes[i]
      /\ \A i \in DOMAIN C \ DOMAIN s.writes : D[i] = C[i]
  BY OverlayFacts DEF TxRec
<1> HIDE DEF D
<1>2. \A i \in DOMAIN t.writes : /\ i \notin DOMAIN s.writes
                                 /\ i \in DOMAIN D <=> i \in DOMAIN C
                                 /\ i \in DOMAIN C => D[i] = C[i]
  BY <1>1 DEF Apart
<1>3. Hold(D, t) <=> Hold(C, t)
  BY <1>2 DEF Hold
<1>4. Fits(D, n, t)
  BY <1>2 DEF Sound, Fits
<1>5. \A i \in DOMAIN s.writes : /\ InSlot(D[i], s.user, s.key)
                                 /\ i \in DOMAIN C => InSlot(C[i], s.user, s.key)
  BY <1>1 DEF Sound, Fits
<1>6. Mine(C, t) \subseteq Mine(D, t)
  BY <1>1, <1>5 DEF Mine, InSlot
<1>7. ASSUME Hold(C, t), NEW i \in Mine(D, t), D[i].active \/ D[i].retractedBy = 0
      PROVE  i \in Mine(C, t) /\ D[i] = C[i]
  <2>1. CASE i \in DOMAIN s.writes
    <3>1. s.user = t.user /\ s.key = t.key
      BY <1>5, <2>1 DEF Mine, InSlot
    <3>2. ~Hold(C, s)
      BY <1>7, <3>1 DEF Apart
    <3>3. s.writes[i].retractedBy # 0 /\ ~s.writes[i].active
      BY <2>1, <3>2 DEF Sound, Outcome, Final, Hold
    <3> QED
      BY <1>1, <1>7, <2>1, <3>3
  <2>2. CASE i \notin DOMAIN s.writes
    BY <1>1, <2>2 DEF Mine
  <2> QED
    BY <2>1, <2>2
<1>8. Stage(D, n, t)
  <2>1. EditStage(D, n, t)
    BY <1>1, <1>6 DEF Sound, Stage, EditStage, Apart
  <2>2. RevertStage(D, t)
    <3>1. CASE t.pc = "reactivate"
      <4>1. t.target \in Mine(C, t) /\ t.target \in DOMAIN C /\ t.target \in DOMAIN t.writes
        BY <3>1 DEF Sound, Stage, RevertStage, Mine
      <4>2. D[t.target] = C[t.target]
        BY <1>2, <4>1
      <4>3. C[t.target].active => Hold(C, t)
        BY <4>1 DEF Hold
      <4>4. PICK p \in Mine(C, t) :
              /\ t.todo = {p} /\ p # t.target
              /\ C[t.target].active =>
                    \A i \in Mine(C, t) : i # t.target /\ C[i].retractedBy = 0 => i <= p
        BY <3>1 DEF Sound, Stage, RevertStage
      <4>5. D[t.target].active =>
              \A i \in Mine(D, t) : i # t.target /\ D[i].retractedBy = 0 => i <= p
        BY <1>7, <4>2, <4>3, <4>4
      <4> QED
        BY <1>6, <3>1, <4>1, <4>4, <4>5 DEF Sound, Stage, RevertStage
    <3>2. CASE t.pc # "reactivate"
      BY <1>6, <3>2 DEF Sound, Stage, RevertStage
    <3> QED
      BY <3>1, <3>2
  <2> QED
    BY <2>1, <2>2 DEF Sound, Stage
<1>9. Outcome(D, t)
  <2> DEFINE V == Overlay(C, t.writes)
             W == Overlay(D, t.writes)
  <2>1. /\ DOMAIN V = DOMAIN C \cup DOMAIN t.writes
        /\ DOMAIN W = DOMAIN D \cup DOMAIN t.writes
        /\ \A i \in DOMAIN t.writes : V[i] = t.writes[i] /\ W[i] = t.writes[i]
        /\ \A i \in DOMAIN C \ DOMAIN t.writes : V[i] = C[i]
        /\ \A i \in DOMAIN D \ DOMAIN t.writes : W[i] = D[i]
    BY <1>1, OverlayFacts
  <2> HIDE DEF V, W
  <2>2. ASSUME Hold(C, t), NEW i \in Mine(W, t), W[i].active \/ W[i].retractedBy = 0
        PROVE  i \in Mine(V, t) /\ V[i] = W[i]
    <3>1. CASE i \in DOMAIN t.writes
      BY <2>1, <2>2, <3>1 DEF Mine
    <3>2. CASE i \notin DOMAIN t.writes
      <4>1. i \in Mine(D, t) /\ (D[i].active \/ D[i].retractedBy = 0) /\ W[i] = D[i]
        BY <2>1, <2>2, <3>2 DEF Mine
      <4>2. i \in Mine(C, t) /\ D[i] = C[i]
        BY <1>7, <2>2, <4>1
      <4> QED
        BY <2>1, <3>2, <4>1, <4>2 DEF Mine
    <3> QED
      BY <3>1, <3>2
  <2>3. ASSUME NEW j \in DOMAIN t.writes, t.writes[j].active
        PROVE  /\ t.pc \in Final
               /\ \A i \in Mine(W, t) : /\ W[i].active => i = j
                                        /\ W[i].retractedBy = 0 => i <= j
    <3>1. Hold(C, t)
      BY <2>3 DEF Hold
    <3>2. /\ t.pc \in Final
          /\ \A i \in Mine(V, t) : /\ V[i].active => i = j
                                   /\ V[i].retractedBy = 0 => i <= j
      BY <2>3 DEF Sound, Outcome, V
    <3> QED
      BY <2>2, <3>1, <3>2
  <2>4. ASSUME t.pc \in Final, Hold(D, t), \A j \in DOMAIN t.writes : ~t.writes[j].active
        PROVE  \A i \in Mine(W, t) : W[i].retractedBy # 0
    <3>1. \A i \in Mine(V, t) : V[i].retractedBy # 0
      BY <1>3, <2>4 DEF Sound, Outcome, V
    <3> QED
      BY <1>3, <2>2, <2>4, <3>1
  <2>5. t.pc \in Final /\ ~Hold(D, t) => \A j \in DOMAIN t.writes : t.writes[j].retractedBy # 0
    BY <1>3 DEF Sound, Outcome
  <2> QED
    BY <2>3, <2>4, <2>5 DEF Outcome, W
<1> QED
  BY <1>3, <1>4, <1>8, <1>9 DEF Sound, D

\* What a transaction commits leaves every slot a stack.
LEMMA CommitKeepsLog ==
    ASSUME NEW C \in Pending, NEW n \in Nat, NEW s \in TxRec,
           LogOk(C), Sound(C, n, s), s.pc = "commit"
    PROVE  LogOk(Overlay(C, s.writes))
<1> DEFINE D == Overlay(C, s.writes)
           OnTop(i, a) == /\ InSlot(D[i], D[a].user, D[a].key) /\ D[a].active /\ i <= a
                          /\ \A j \in DOMAIN D :
                                InSlot(D[j], D[a].user, D[a].key) /\ D[j].active => j = a
<1>1. /\ DOMAIN D = DOMAIN C \cup DOMAIN s.writes
      /\ \A i \in DOMAIN s.writes : D[i] = s.writes[i]
      /\ \A i \in DOMAIN C \ DOMAIN s.writes : D[i] = C[i]
  BY OverlayFacts DEF TxRec
<1>2. \A i \in DOMAIN s.writes : /\ InSlot(s.writes[i], s.user, s.key)
                                 /\ i \in DOMAIN C => InSlot(C[i], s.user, s.key)
                                 /\ s.writes[i].active => s.writes[i].retractedBy = 0
  BY DEF Sound, Fits
<1>3. ASSUME NEW i \in DOMAIN C, C[i].retractedBy = 0
      PROVE  \E a \in DOMAIN C :
               /\ InSlot(C[i], C[a].user, C[a].key) /\ C[a].active /\ i <= a
               /\ \A j \in DOMAIN C : InSlot(C[j], C[a].user, C[a].key) /\ C[j].active => j = a
  BY <1>3 DEF LogOk
<1>4. ASSUME NEW i \in DOMAIN D, D[i].retractedBy = 0
      PROVE  \E a \in DOMAIN D : OnTop(i, a)
  <2>1. CASE i \notin Mine(D, s)
    <3>1. i \in DOMAIN C /\ D[i] = C[i]
      BY <1>1, <1>2, <2>1 DEF Mine
    <3>2. PICK a \in DOMAIN C :
            /\ InSlot(C[i], C[a].user, C[a].key) /\ C[a].active /\ i <= a
            /\ \A j \in DOMAIN C : InSlot(C[j], C[a].user, C[a].key) /\ C[j].active => j = a
      BY <1>3, <1>4, <3>1
    <3>3. ~InSlot(C[a], s.user, s.key)
      BY <2>1, <3>1, <3>2 DEF Mine, InSlot
    <3>4. a \in DOMAIN D /\ D[a] = C[a]
      BY <1>1, <1>2, <3>3
    <3>5. \A j \in DOMAIN D : InSlot(D[j], C[a].user, C[a].key) /\ D[j].active => j = a
      BY <1>1, <1>2, <3>2, <3>3 DEF InSlot
    <3> QED
      BY <3>1, <3>2, <3>4, <3>5
  <2>2. CASE i \in Mine(D, s) /\ \E j \in DOMAIN s.writes : s.writes[j].active
    <3>1. PICK j \in DOMAIN s.writes : s.writes[j].active
      BY <2>2
    <3>2. \A k \in Mine(D, s) : /\ D[k].active => k = j
                                /\ D[k].retractedBy = 0 => k <= j
      BY <3>1 DEF Sound, Outcome
    <3>3. j \in DOMAIN D /\ D[j].active /\ InSlot(D[j], s.user, s.key)
      BY <1>1, <1>2, <3>1
    <3> QED
      BY <1>4, <2>2, <3>2, <3>3 DEF Mine, InSlot
  <2>3. CASE i \in Mine(D, s) /\ (\A j \in DOMAIN s.writes : ~s.writes[j].active) /\ Hold(C, s)
    BY <1>4, <2>3 DEF Sound, Outcome, Final
  <2>4. CASE ~Hold(C, s)
    <3>1. \A j \in DOMAIN s.writes : /\ s.writes[j].retractedBy # 0 /\ ~s.writes[j].active
                                     /\ j \in DOMAIN C => ~C[j].active
      BY <2>4 DEF Sound, Outcome, Final, Hold
    <3>2. i \in DOMAIN C /\ D[i] = C[i]
      BY <1>1, <1>4, <3>1
    <3>3. PICK a \in DOMAIN C :
            /\ InSlot(C[i], C[a].user, C[a].key) /\ C[a].active /\ i <= a
            /\ \A j \in DOMAIN C : InSlot(C[j], C[a].user, C[a].key) /\ C[j].active => j = a
      BY <1>3, <1>4, <3>2
    <3>4. a \in DOMAIN D /\ D[a] = C[a]
      BY <1>1, <3>1, <3>3
    <3>5. \A j \in DOMAIN D : InSlot(D[j], C[a].user, C[a].key) /\ D[j].active => j = a
      BY <1>1, <3>1, <3>3
    <3> QED
      BY <3>2, <3>3, <3>4, <3>5
  <2> QED
    BY <2>1, <2>2, <2>3, <2>4
<1>5. \A i \in DOMAIN D : D[i].retractedBy # 0 => ~D[i].active
  BY <1>1, <1>2 DEF LogOk
<1> QED
  BY <1>4, <1>5 DEF LogOk

-----------------------------------------------------------------------------
\* A statement of w that commits nothing keeps the invariant if it keeps w's
\* part of it; beginning a request only tells the others that they overlap.
LEMMA MoveKeeps ==
    ASSUME Inv, NEW w \in Workers, NEW t \in TxRec,
           claims' = claims, nextId' \in Nat, nextId <= nextId', begun' \in 0 .. MaxTxns,
           \/ tx' = [tx EXCEPT ![w] = t]
           \/ tx' = [v \in Workers |-> IF v = w THEN t ELSE [tx[v] EXCEPT !.solo = FALSE]],
           Sound(claims, nextId', t),
           \A v \in Workers \ {w} : Apart(claims, tx[v], t)
    PROVE  Inv'
<1>1. tx \in [Workers -> TxRec] /\ claims \in Pending /\ nextId \in Nat
  BY DEF Inv, TxTypeOK
<1>2. /\ tx' \in [Workers -> TxRec]
      /\ tx'[w] = t
      /\ \A v \in Workers \ {w} : tx'[v] = tx[v] \/ tx'[v] = [tx[v] EXCEPT !.solo = FALSE]
  <2>1. \A v \in Workers : [tx[v] EXCEPT !.solo = FALSE] \in TxRec
    BY <1>1, SoloIrrelevant
  <2> QED
    BY <1>1, <2>1
<1>3. \A i \in DOMAIN claims : i \in Nat /\ i < nextId'
  BY <1>1, PendingFacts DEF Inv, TxTypeOK
<1>4. ASSUME NEW v \in Workers, v # w
      PROVE  /\ Sound(claims, nextId', tx'[v])
             /\ \A r : Apart(claims, r, tx'[v]) <=> Apart(claims, r, tx[v])
  <2>1. Sound(claims, nextId, tx[v]) /\ tx[v] \in TxRec
    BY <1>1 DEF Inv
  <2>2. tx[v].writes \in Pending /\ tx[v].target \in Nat
    BY <2>1 DEF TxRec
  <2>3. \A i \in DOMAIN tx[v].writes : i \in Nat
    BY <2>2, PendingFacts
  <2>4. Sound(claims, nextId', tx[v])
    <3>1. Fits(claims, nextId', tx[v])
      BY <1>1, <2>1, <2>3 DEF Sound, Fits
    <3>2. Stage(claims, nextId', tx[v])
      BY <1>1, <2>1, <2>2 DEF Sound, Stage, EditStage
    <3> QED
      BY <2>1, <3>1, <3>2 DEF Sound
  <2> QED
    BY <1>2, <1>4, <2>1, <2>4, SoloIrrelevant
<1>5. ASSUME NEW u \in Workers, NEW v \in Workers, u # v
      PROVE  Apart(claims, tx'[u], tx'[v])
  <2>1. CASE u = w
    BY <1>2, <1>4, <1>5, <2>1, ApartSymmetric
  <2>2. CASE v = w
    BY <1>2, <1>4, <1>5, <2>2, ApartSymmetric
  <2>3. CASE u # w /\ v # w
    <3>1. Apart(claims, tx[u], tx[v])
      BY <1>5 DEF Inv
    <3> QED
      BY <1>4, <2>3, <3>1, ApartSymmetric
  <2> QED
    BY <2>1, <2>2, <2>3
<1>6. TxTypeOK'
  BY <1>1, <1>2, <1>3 DEF TxTypeOK
<1>7. \A v \in Workers : Sound(claims, nextId', tx'[v])
  BY <1>2, <1>4
<1> QED
  BY <1>5, <1>6, <1>7 DEF Inv

\* What Inv says of one worker, and of it beside the others.
LEMMA WorkerFacts ==
    ASSUME Inv, NEW w \in Workers
    PROVE  /\ claims \in Pending /\ nextId \in Nat /\ begun \in 0 .. MaxTxns
           /\ DOMAIN claims \subseteq Nat
           /\ tx \in [Workers -> TxRec] /\ tx[w] \in TxRec
           /\ tx[w].pc \in Stages /\ tx[w].no \in 0 .. MaxTxns /\ tx[w].user \in Users
           /\ tx[w].key \in Keys /\ tx[w].target \in Nat /\ tx[w].todo \subseteq Nat
           /\ tx[w].writes \in Pending /\ DOMAIN tx[w].writes \subseteq Nat
           /\ Sound(claims, nextId, tx[w])
           /\ \A v \in Workers \ {w} : Apart(claims, tx[v], tx[w])
<1>1. tx[w] \in TxRec /\ claims \in Pending
  BY DEF Inv, TxTypeOK
<1> QED
  BY <1>1, PendingFacts DEF Inv, TxTypeOK, TxRec

LEMMA RollbackKeeps ==
    ASSUME Inv, NEW w \in Workers, Rollback(w)
    PROVE  Inv'
<1>1. /\ claims' = claims /\ nextId' = nextId /\ begun' = begun
      /\ tx' = [tx EXCEPT ![w] = Idle]
  BY DEF Rollback, Goto
<1>2. nextId \in Nat /\ begun \in 0 .. MaxTxns
  BY DEF Inv, TxTypeOK
<1>3. nextId' \in Nat /\ nextId <= nextId' /\ begun' \in 0 .. MaxTxns
  BY <1>1, <1>2
<1>4. Idle \in TxRec /\ Sound(claims, nextId', Idle)
  BY IdleFacts
<1>5. \A v \in Workers \ {w} : Apart(claims, tx[v], Idle)
  BY IdleFacts
<1> QED
  BY <1>1, <1>3, <1>4, <1>5, MoveKeeps

\* A request that has taken its snapshot and written nothing.
LEMMA BeginKeeps ==
    ASSUME Inv, NEW w \in Workers, NEW t \in TxRec, Begin(w, t),
           t.pc \in {"lock", "stamp"}, DOMAIN t.writes = {},
           t.pc = "lock" => t.todo \subseteq Mine(claims, t),
           t.pc = "stamp" => t.target \in Mine(claims, t)
    PROVE  Inv'
<1> DEFINE alone == \A v \in Workers \ {w} : tx[v].pc = "idle"
           u == [t EXCEPT !.no = begun + 1, !.solo = alone]
<1>1. /\ begun < MaxTxns /\ begun' = begun + 1 /\ claims' = claims /\ nextId' = nextId
      /\ tx' = [v \in Workers |-> IF v = w THEN u ELSE [tx[v] EXCEPT !.solo = FALSE]]
  BY DEF Begin
<1>2. /\ begun + 1 \in 0 .. MaxTxns /\ begun + 1 # 0
      /\ nextId \in Nat /\ nextId' \in Nat /\ nextId <= nextId' /\ begun' \in 0 .. MaxTxns
  <2> HIDE DEF u, alone
  <2>1. nextId \in Nat /\ begun \in 0 .. MaxTxns
    BY DEF Inv, TxTypeOK
  <2> QED
    BY <1>1, <2>1, TxnAssumption
<1>3. /\ u \in TxRec /\ u.pc = t.pc /\ u.writes = t.writes /\ u.no = begun + 1
      /\ u.user = t.user /\ u.key = t.key /\ u.todo = t.todo /\ u.target = t.target
  <2>1. alone \in BOOLEAN
    OBVIOUS
  <2> HIDE DEF alone
  <2> QED
    BY <1>2, <2>1 DEF TxRec
<1> HIDE DEF u
<1>4. Mine(claims, u) = Mine(claims, t)
  BY <1>3 DEF Mine
<1>5. Sound(claims, nextId, u)
  BY <1>2, <1>3, <1>4 DEF Sound, Fits, Stage, EditStage, RevertStage, Outcome, Final
<1>6. \A v \in Workers \ {w} : Apart(claims, tx[v], u)
  BY <1>3 DEF Apart, Hold
<1> QED
  BY <1>1, <1>2, <1>3, <1>5, <1>6, MoveKeeps

LEMMA BeginEditKeeps ==
    ASSUME Inv, NEW w \in Workers, NEW u \in Users, NEW k \in Keys, BeginEdit(w, u, k)
    PROVE  Inv'
<1> DEFINE todo == {i \in DOMAIN claims : InSlot(claims[i], u, k) /\ claims[i].active}
           t == [Idle EXCEPT !.pc = "lock", !.user = u, !.key = k, !.todo = todo]
<1>1. todo \in SUBSET Nat /\ Begin(w, t)
  BY WorkerFacts DEF BeginEdit
<1>2. Idle \in TxRec /\ DOMAIN Idle.writes = {}
  BY IdleFacts DEF Idle
<1>3. /\ t \in TxRec /\ t.pc = "lock" /\ DOMAIN t.writes = {}
      /\ t.user = u /\ t.key = k /\ t.todo = todo
  <2> HIDE DEF todo
  <2> QED
    BY <1>1, <1>2 DEF TxRec, Stages
<1>4. t.todo \subseteq Mine(claims, t)
  BY <1>3 DEF Mine
<1> QED
  BY <1>1, <1>3, <1>4, BeginKeeps

LEMMA BeginRevertKeeps ==
    ASSUME Inv, NEW w \in Workers, NEW c \in DOMAIN claims, BeginRevert(w, c)
    PROVE  Inv'
<1> DEFINE t == [Idle EXCEPT !.pc = "stamp", !.user = claims[c].user,
                   !.key = claims[c].key, !.target = c]
<1>1. Begin(w, t) /\ c \in Nat /\ claims[c].user \in Users /\ claims[c].key \in Keys
  BY WorkerFacts, PendingFacts DEF BeginRevert
<1>2. Idle \in TxRec /\ DOMAIN Idle.writes = {}
  BY IdleFacts DEF Idle
<1>3. /\ t \in TxRec /\ t.pc = "stamp" /\ DOMAIN t.writes = {}
      /\ t.user = claims[c].user /\ t.key = claims[c].key /\ t.target = c
  BY <1>1, <1>2 DEF TxRec, Stages
<1>4. t.target \in Mine(claims, t)
  BY <1>3 DEF Mine, InSlot
<1> QED
  BY <1>1, <1>3, <1>4, BeginKeeps

\* The rows an edit deactivates are its to hold: no one else has written them,
\* and the slot has no other active claim.
LEMMA DeactivateKeeps ==
    ASSUME Inv, NEW w \in Workers, Deactivate(w)
    PROVE  Inv'
<1> DEFINE t == tx[w]
           hit == {i \in t.todo : claims[i].active}
           writes == [i \in hit |-> [claims[i] EXCEPT !.active = FALSE]]
           u == [t EXCEPT !.pc = "insert", !.target = nextId, !.writes = writes]
<1>1. /\ t.pc = "lock" /\ nextId' = nextId + 1 /\ tx' = [tx EXCEPT ![w] = u]
      /\ claims' = claims /\ begun' = begun
      /\ \A i \in t.todo : \A v \in Workers \ {w} : i \notin DOMAIN tx[v].writes
  BY DEF Deactivate, Goto, AfterNextval, Locked
<1>2. /\ t \in TxRec /\ claims \in Pending /\ nextId \in Nat /\ Sound(claims, nextId, t)
      /\ LogOk(claims) /\ \A i \in DOMAIN claims : i \in Nat /\ i < nextId
      /\ t.todo \subseteq Nat
  BY WorkerFacts DEF Inv, TxTypeOK
<1>3. t.todo \subseteq Mine(claims, t) /\ t.no # 0
  BY <1>1, <1>2 DEF Sound, Stage, EditStage
<1>4. \A i \in hit : /\ i \in Mine(claims, t) /\ i \in DOMAIN claims /\ claims[i].active
                     /\ i \in Nat /\ i < nextId
                     /\ InSlot(claims[i], t.user, t.key) /\ claims[i] \in ClaimRow
  BY <1>2, <1>3, PendingFacts DEF Mine
<1>5. writes \in [hit -> ClaimRow]
  BY <1>4 DEF ClaimRow
<1>6. writes \in Pending /\ DOMAIN writes = hit
  BY <1>2, <1>5, PendingFacts
<1>7. \A i \in hit : ~writes[i].active /\ InSlot(writes[i], t.user, t.key)
  BY <1>4 DEF ClaimRow, InSlot
<1> HIDE DEF writes, hit
<1>8. /\ u \in TxRec /\ u.pc = "insert" /\ u.target = nextId /\ u.writes = writes
      /\ u.user = t.user /\ u.key = t.key /\ u.no = t.no
  BY <1>2, <1>6 DEF TxRec, Stages
<1> HIDE DEF u
<1>9. Sound(claims, nextId', u)
  <2>1. Fits(claims, nextId', u)
    BY <1>1, <1>2, <1>4, <1>6, <1>7, <1>8 DEF Fits
  <2>2. Stage(claims, nextId', u)
    BY <1>1, <1>2, <1>3, <1>4, <1>6, <1>7, <1>8 DEF Stage, EditStage, RevertStage
  <2>3. Outcome(claims, u)
    BY <1>6, <1>7, <1>8 DEF Outcome, Final
  <2> QED
    BY <2>1, <2>2, <2>3 DEF Sound
<1>10. ASSUME NEW v \in Workers \ {w}
       PROVE  Apart(claims, tx[v], u)
  <2>1. tx[v] \in TxRec /\ Sound(claims, nextId, tx[v]) /\ DOMAIN tx[v].writes \subseteq Nat
    BY WorkerFacts
  <2>2. hit \subseteq t.todo
    BY DEF hit
  <2>3. \A i \in DOMAIN tx[v].writes : i < nextId
    BY <2>1 DEF Sound, Fits
  <2>4. tx[v].pc = "insert" => tx[v].target < nextId /\ tx[v].target \notin DOMAIN claims
    BY <2>1 DEF Sound, Stage, EditStage
  <2>5. tx[v].target \in Nat
    BY <2>1 DEF TxRec
  <2>6. ASSUME Hold(claims, u), tx[v].user = t.user, tx[v].key = t.key
        PROVE  ~Hold(claims, tx[v])
    <3>1. PICK i \in hit : TRUE
      BY <1>6, <1>8, <2>6 DEF Hold
    <3>2. i \in Mine(claims, tx[v]) /\ claims[i].active /\ i \notin DOMAIN tx[v].writes
      BY <1>1, <1>4, <2>2, <2>6 DEF Mine
    <3> QED
      BY <1>2, <2>1, <3>2, NotHeld
  <2> QED
    BY <1>1, <1>2, <1>4, <1>6, <1>8, <2>2, <2>3, <2>4, <2>5, <2>6 DEF Apart
<1>11. nextId' \in Nat /\ nextId <= nextId' /\ begun' \in 0 .. MaxTxns
  BY <1>1, <1>2, WorkerFacts
<1> QED
  BY <1>1, <1>8, <1>9, <1>10, <1>11, MoveKeeps

\* Waiting for the slot in the index: whoever holds it is not v.
LEMMA SlotIsFree ==
    ASSUME Inv, NEW w \in Workers, NEW v \in Workers \ {w},
           ~SlotBusy(w, tx[v].user, tx[v].key)
    PROVE  ~Hold(claims, tx[v])
<1>1. Fits(claims, nextId, tx[v])
  BY DEF Inv, Sound
<1> QED
  BY <1>1 DEF SlotBusy, Hold, Fits

\* The inserted claim is alone in its slot and newer than what it supersedes.
LEMMA InsertKeeps ==
    ASSUME Inv, NEW w \in Workers, Insert(w)
    PROVE  Inv'
<1> DEFINE t == tx[w]
           x == t.target
           new == [user |-> t.user, key |-> t.key, active |-> TRUE, retractedBy |-> 0]
           one == [i \in {x} |-> new]
           writes == Overlay(t.writes, one)
           u == [t EXCEPT !.pc = "resolve", !.writes = writes]
           old == Overlay(claims, t.writes)
           V == Overlay(claims, writes)
<1>1. /\ t.pc = "insert" /\ tx' = [tx EXCEPT ![w] = u]
      /\ claims' = claims /\ begun' = begun /\ nextId' = nextId
      /\ ~SlotBusy(w, t.user, t.key)
      /\ \A j \in DOMAIN old \ {x} : InSlot(old[j], t.user, t.key) => ~old[j].active
  BY DEF Insert, Goto, SlotTaken, Visible
<1>2. /\ t \in TxRec /\ t.user \in Users /\ t.key \in Keys /\ x \in Nat /\ t.writes \in Pending
      /\ claims \in Pending /\ nextId \in Nat /\ begun \in 0 .. MaxTxns
      /\ Fits(claims, nextId, t) /\ Stage(claims, nextId, t) /\ LogOk(claims)
      /\ DOMAIN claims \subseteq Nat /\ DOMAIN t.writes \subseteq Nat
  BY WorkerFacts DEF Inv, Sound
<1>3. /\ x < nextId /\ x \notin DOMAIN claims /\ t.no # 0
      /\ \A i \in DOMAIN t.writes : /\ i < x /\ ~t.writes[i].active /\ i \in DOMAIN claims
                                    /\ InSlot(t.writes[i], t.user, t.key)
  BY <1>1, <1>2 DEF Stage, EditStage, Fits
<1>4. one \in Pending /\ DOMAIN one = {x} /\ one[x] = new
  <2>1. new \in ClaimRow
    BY <1>2, TxnAssumption DEF ClaimRow
  <2>2. one \in [{x} -> ClaimRow]
    BY <2>1
  <2> QED
    BY <1>2, <2>2, PendingFacts
<1>5. /\ writes \in Pending /\ DOMAIN writes = DOMAIN t.writes \cup {x}
      /\ writes[x] = new
      /\ \A i \in DOMAIN t.writes : i # x /\ writes[i] = t.writes[i]
  <2>1. \A i \in DOMAIN t.writes : i # x
    BY <1>2, <1>3
  <2>2. t.writes \in Pending /\ one \in Pending /\ DOMAIN one = {x} /\ one[x] = new
    BY <1>2, <1>4
  <2> HIDE DEF one, new
  <2>3. /\ writes \in Pending
        /\ DOMAIN writes = DOMAIN t.writes \cup DOMAIN one
        /\ \A i \in DOMAIN one : writes[i] = one[i]
        /\ \A i \in DOMAIN t.writes \ DOMAIN one : writes[i] = t.writes[i]
    BY <2>2, OverlayFacts
  <2> HIDE DEF writes
  <2> QED
    BY <2>1, <2>2, <2>3
<1>6. new.active /\ new.retractedBy = 0 /\ InSlot(new, t.user, t.key)
  BY DEF InSlot
<1> HIDE DEF new, one, writes
<1>7. /\ u \in TxRec /\ u.pc = "resolve" /\ u.writes = writes
      /\ u.user = t.user /\ u.key = t.key /\ u.no = t.no
  BY <1>2, <1>5 DEF TxRec, Stages
<1> HIDE DEF u
<1>8. /\ DOMAIN V = DOMAIN claims \cup DOMAIN t.writes \cup {x}
      /\ V[x] = new /\ \A i \in DOMAIN t.writes : V[i] = t.writes[i]
      /\ \A i \in DOMAIN claims \ DOMAIN t.writes :
            V[i] = claims[i] /\ i \in DOMAIN old /\ old[i] = claims[i]
  <2>1. claims \in Pending /\ t.writes \in Pending /\ writes \in Pending
    BY <1>2, <1>5
  <2>2. /\ DOMAIN V = DOMAIN claims \cup DOMAIN writes
        /\ \A i \in DOMAIN writes : V[i] = writes[i]
        /\ \A i \in DOMAIN claims \ DOMAIN writes : V[i] = claims[i]
    BY <2>1, OverlayFacts
  <2>3. /\ DOMAIN old = DOMAIN claims \cup DOMAIN t.writes
        /\ \A i \in DOMAIN claims \ DOMAIN t.writes : old[i] = claims[i]
    BY <2>1, OverlayFacts
  <2> HIDE DEF old, V
  <2> QED
    BY <1>3, <1>5, <2>2, <2>3
<1> HIDE DEF old, V
<1>9. ASSUME NEW i \in Mine(V, t)
      PROVE  (V[i].active => i = x) /\ (V[i].retractedBy = 0 => i <= x)
  <2>1. CASE i = x
    BY <1>2, <2>1
  <2>2. CASE i \in DOMAIN t.writes
    BY <1>2, <1>3, <1>8, <2>2
  <2>3. CASE i \in DOMAIN claims \ DOMAIN t.writes
    <3>1. V[i] = claims[i] /\ old[i] = claims[i] /\ i \in DOMAIN old /\ i # x
      BY <1>3, <1>8, <2>3
    <3>2. InSlot(claims[i], t.user, t.key)
      BY <3>1 DEF Mine
    <3>3. ~claims[i].active
      BY <1>1, <3>1, <3>2
    <3>4. ASSUME claims[i].retractedBy = 0
          PROVE  i <= x
      <4>1. PICK a \in DOMAIN claims :
              InSlot(claims[i], claims[a].user, claims[a].key) /\ claims[a].active /\ i <= a
        BY <1>2, <2>3, <3>4 DEF LogOk
      <4>2. InSlot(claims[a], t.user, t.key)
        BY <3>2, <4>1 DEF InSlot
      <4>3. a \in DOMAIN t.writes
        BY <1>1, <1>3, <1>8, <4>1, <4>2
      <4> QED
        BY <1>2, <1>3, <2>3, <4>1, <4>3
    <3> QED
      BY <3>1, <3>3, <3>4
  <2> QED
    BY <1>8, <2>1, <2>2, <2>3 DEF Mine
<1>10. Sound(claims, nextId, u)
  <2>1. Fits(claims, nextId, u)
    BY <1>2, <1>3, <1>5, <1>6, <1>7 DEF Fits
  <2>2. Stage(claims, nextId, u)
    BY <1>3, <1>7 DEF Stage, EditStage, RevertStage
  <2>3. Outcome(claims, u)
    <3>1. Hold(claims, u) /\ x \in DOMAIN u.writes /\ u.writes[x].active
      BY <1>5, <1>6, <1>7 DEF Hold
    <3>2. ASSUME NEW j \in DOMAIN u.writes, u.writes[j].active
          PROVE  j = x
      BY <1>3, <1>5, <1>7, <3>2
    <3>3. Mine(V, u) = Mine(V, t)
      BY <1>7 DEF Mine
    <3>4. Overlay(claims, u.writes) = V /\ u.pc \in Final
      BY <1>7 DEF V, Final
    <3> QED
      BY <1>9, <3>1, <3>2, <3>3, <3>4 DEF Outcome
  <2> QED
    BY <2>1, <2>2, <2>3 DEF Sound
<1>11. ASSUME NEW v \in Workers \ {w}
       PROVE  Apart(claims, tx[v], u)
  <2>1. Apart(claims, tx[v], t)
    BY WorkerFacts
  <2>2. tx[v].user = t.user /\ tx[v].key = t.key => ~Hold(claims, tx[v])
    BY <1>1, SlotIsFree
  <2> QED
    BY <1>1, <1>5, <1>7, <2>1, <2>2 DEF Apart
<1>12. nextId' \in Nat /\ nextId <= nextId' /\ begun' \in 0 .. MaxTxns
  BY <1>1, <1>2
<1> QED
  BY <1>1, <1>7, <1>10, <1>11, <1>12, MoveKeeps

\* A revert that stamps an active claim holds its slot; one that stamps a claim
\* an edit has superseded meanwhile holds nothing.
LEMMA StampKeeps ==
    ASSUME Inv, NEW w \in Workers, Stamp(w)
    PROVE  Inv'
<1> DEFINE t == tx[w]
           x == t.target
           mark == [claims[x] EXCEPT !.active = FALSE, !.retractedBy = t.no]
           writes == [i \in {x} |-> mark]
           u == [t EXCEPT !.pc = "predecessor", !.writes = writes]
<1>1. /\ t.pc = "stamp" /\ tx' = [tx EXCEPT ![w] = u]
      /\ claims' = claims /\ begun' = begun /\ nextId' = nextId
      /\ \A v \in Workers \ {w} : x \notin DOMAIN tx[v].writes
  <2>1. writes = [i \in {x} |-> [claims[i] EXCEPT !.active = FALSE, !.retractedBy = t.no]]
    OBVIOUS
  <2> HIDE DEF writes
  <2> QED
    BY <2>1 DEF Stamp, Goto, Locked
<1>2. /\ t \in TxRec /\ t.no \in 0 .. MaxTxns /\ x \in Nat
      /\ claims \in Pending /\ nextId \in Nat /\ begun \in 0 .. MaxTxns
      /\ Stage(claims, nextId, t) /\ LogOk(claims)
      /\ \A i \in DOMAIN claims : i < nextId
  BY WorkerFacts DEF Inv, Sound, TxTypeOK
<1>3. /\ x \in Mine(claims, t) /\ x \in DOMAIN claims /\ x < nextId /\ t.no # 0
      /\ InSlot(claims[x], t.user, t.key) /\ claims[x] \in ClaimRow
  BY <1>1, <1>2, PendingFacts DEF Stage, RevertStage, Mine
<1>4. /\ mark \in ClaimRow /\ ~mark.active /\ mark.retractedBy # 0
      /\ InSlot(mark, t.user, t.key)
  BY <1>2, <1>3 DEF ClaimRow, InSlot
<1> HIDE DEF mark
<1>5. writes \in Pending /\ DOMAIN writes = {x} /\ writes[x] = mark
  <2>1. writes \in [{x} -> ClaimRow]
    BY <1>4
  <2> QED
    BY <1>2, <2>1, PendingFacts
<1> HIDE DEF writes
<1>6. /\ u \in TxRec /\ u.pc = "predecessor" /\ u.writes = writes /\ u.target = x
      /\ u.user = t.user /\ u.key = t.key /\ u.no = t.no
  BY <1>2, <1>5 DEF TxRec, Stages
<1> HIDE DEF u
<1>7. Sound(claims, nextId, u)
  <2>1. Fits(claims, nextId, u)
    BY <1>3, <1>4, <1>5, <1>6 DEF Fits
  <2>2. Stage(claims, nextId, u)
    <3>1. x \in Mine(claims, u)
      BY <1>3, <1>6 DEF Mine
    <3> QED
      BY <1>3, <1>4, <1>5, <1>6, <3>1 DEF Stage, EditStage, RevertStage
  <2>3. Outcome(claims, u)
    BY <1>4, <1>5, <1>6 DEF Outcome, Final
  <2> QED
    BY <2>1, <2>2, <2>3 DEF Sound
<1>8. ASSUME NEW v \in Workers \ {w}
      PROVE  Apart(claims, tx[v], u)
  <2>1. tx[v] \in TxRec /\ Sound(claims, nextId, tx[v])
    BY WorkerFacts
  <2>2. tx[v].pc = "insert" => tx[v].target \notin DOMAIN claims
    BY <2>1 DEF Sound, Stage, EditStage
  <2>3. ASSUME Hold(claims, u), tx[v].user = t.user, tx[v].key = t.key
        PROVE  ~Hold(claims, tx[v])
    <3>1. claims[x].active
      BY <1>4, <1>5, <1>6, <2>3 DEF Hold
    <3>2. x \in Mine(claims, tx[v]) /\ x \notin DOMAIN tx[v].writes
      BY <1>1, <1>3, <2>3 DEF Mine
    <3> QED
      BY <1>2, <2>1, <3>1, <3>2, NotHeld
  <2> QED
    BY <1>1, <1>3, <1>5, <1>6, <2>2, <2>3 DEF Apart
<1>9. nextId' \in Nat /\ nextId <= nextId' /\ begun' \in 0 .. MaxTxns
  BY <1>1, <1>2
<1> QED
  BY <1>1, <1>6, <1>7, <1>8, <1>9, MoveKeeps

\* The predecessor is the newest claim left; while the target was active no
\* other is, so what is unretracted is superseded.
LEMMA FindPredecessorKeeps ==
    ASSUME Inv, NEW w \in Workers, FindPredecessor(w)
    PROVE  Inv'
<1> DEFINE t == tx[w]
           x == t.target
           S == Superseded(w)
           V == Overlay(claims, t.writes)
<1>1. /\ t.pc = "predecessor" /\ claims' = claims /\ begun' = begun /\ nextId' = nextId
      /\ IF S = {} THEN tx' = [tx EXCEPT ![w] = [t EXCEPT !.pc = "resolve"]]
         ELSE tx' = [tx EXCEPT ![w] = [t EXCEPT !.pc = "reactivate", !.todo = {SetMax(S)}]]
  BY DEF FindPredecessor, Goto
<1>2. /\ t \in TxRec /\ x \in Nat /\ t.writes \in Pending
      /\ claims \in Pending /\ nextId \in Nat /\ begun \in 0 .. MaxTxns
      /\ Fits(claims, nextId, t) /\ Stage(claims, nextId, t) /\ Outcome(claims, t)
      /\ LogOk(claims)
      /\ DOMAIN claims \subseteq Nat /\ \A i \in DOMAIN claims : i < nextId
  BY WorkerFacts DEF Inv, Sound, TxTypeOK
<1>3. /\ x \in Mine(claims, t) /\ x \in DOMAIN claims /\ t.no # 0
      /\ DOMAIN t.writes = {x} /\ ~t.writes[x].active /\ t.writes[x].retractedBy # 0
      /\ InSlot(claims[x], t.user, t.key)
  BY <1>1, <1>2 DEF Stage, RevertStage, Mine
<1>4. /\ DOMAIN V = DOMAIN claims /\ V[x] = t.writes[x]
      /\ \A i \in DOMAIN claims \ {x} : V[i] = claims[i]
  <2>1. /\ DOMAIN V = DOMAIN claims \cup DOMAIN t.writes
        /\ \A i \in DOMAIN t.writes : V[i] = t.writes[i]
        /\ \A i \in DOMAIN claims \ DOMAIN t.writes : V[i] = claims[i]
    BY <1>2, OverlayFacts
  <2> HIDE DEF V
  <2> QED
    BY <1>3, <2>1
<1> HIDE DEF V
<1>5. S = {i \in DOMAIN claims \ {x} : /\ InSlot(claims[i], t.user, t.key)
                                       /\ ~claims[i].active /\ claims[i].retractedBy = 0}
  BY <1>4 DEF Superseded, Visible, V
<1> HIDE DEF S
<1>6. ASSUME claims[x].active, NEW i \in Mine(claims, t), i # x, claims[i].retractedBy = 0
      PROVE  i \in S
  <2>1. claims[x].retractedBy = 0
    BY <1>2, <1>3, <1>6 DEF LogOk
  <2>2. PICK a \in DOMAIN claims :
          /\ InSlot(claims[x], claims[a].user, claims[a].key)
          /\ \A j \in DOMAIN claims :
                InSlot(claims[j], claims[a].user, claims[a].key) /\ claims[j].active => j = a
    BY <1>2, <1>3, <2>1 DEF LogOk
  <2>3. i \in DOMAIN claims /\ InSlot(claims[i], t.user, t.key)
    BY DEF Mine
  <2>4. ~claims[i].active
    BY <1>3, <1>6, <2>2, <2>3 DEF InSlot
  <2> QED
    BY <1>5, <1>6, <2>3, <2>4
<1>7. nextId' \in Nat /\ nextId <= nextId' /\ begun' \in 0 .. MaxTxns
  BY <1>1, <1>2
<1>8. ASSUME NEW u \in TxRec, u.writes = t.writes, u.user = t.user, u.key = t.key,
             u.pc # "insert"
      PROVE  /\ Fits(claims, nextId, u)
             /\ Mine(V, u) = Mine(V, t) /\ Mine(claims, u) = Mine(claims, t)
             /\ Hold(claims, u) <=> claims[x].active
             /\ \A v \in Workers \ {w} : Apart(claims, tx[v], u)
  <2>1. Hold(claims, u) <=> Hold(claims, t)
    BY <1>8 DEF Hold
  <2>2. Hold(claims, u) <=> claims[x].active
    BY <1>3, <1>8 DEF Hold
  <2>3. \A v \in Workers \ {w} : Apart(claims, tx[v], t)
    BY WorkerFacts
  <2>4. \A v \in Workers \ {w} : Apart(claims, tx[v], u)
    BY <1>8, <2>1, <2>3 DEF Apart
  <2> QED
    BY <1>2, <1>8, <2>2, <2>4 DEF Fits, Mine
<1>9. CASE S = {}
  <2> DEFINE u == [t EXCEPT !.pc = "resolve"]
  <2>1. /\ u \in TxRec /\ u.pc = "resolve" /\ u.writes = t.writes
        /\ u.user = t.user /\ u.key = t.key /\ u.no = t.no
    BY <1>2 DEF TxRec, Stages
  <2>2. tx' = [tx EXCEPT ![w] = u]
    BY <1>1, <1>9
  <2> HIDE DEF u
  <2>3. /\ Fits(claims, nextId, u) /\ Mine(V, u) = Mine(V, t)
        /\ Hold(claims, u) <=> claims[x].active
        /\ \A v \in Workers \ {w} : Apart(claims, tx[v], u)
    BY <1>8, <2>1
  <2>4. Stage(claims, nextId, u)
    BY <1>3, <2>1 DEF Stage, EditStage, RevertStage
  <2>5. ASSUME claims[x].active, NEW i \in Mine(V, t)
        PROVE  V[i].retractedBy # 0
    BY <1>3, <1>4, <1>6, <1>9, <2>5 DEF Mine
  <2>6. Outcome(claims, u)
    BY <1>3, <2>1, <2>3, <2>5 DEF Outcome, V
  <2> QED
    BY <1>1, <1>7, <2>1, <2>2, <2>3, <2>4, <2>6, MoveKeeps DEF Sound
<1>10. CASE S # {}
  <2> DEFINE p == SetMax(S)
             u == [t EXCEPT !.pc = "reactivate", !.todo = {p}]
  <2>1. S \in SUBSET Nat /\ \A i \in S : i < nextId
    BY <1>2, <1>5
  <2>2. p \in S /\ \A i \in S : i <= p
    BY <1>2, <1>10, <2>1, SetMaxExists
  <2> HIDE DEF p
  <2>3. /\ u \in TxRec /\ u.pc = "reactivate" /\ u.writes = t.writes /\ u.target = x
        /\ u.user = t.user /\ u.key = t.key /\ u.no = t.no /\ u.todo = {p}
    BY <1>2, <2>1, <2>2 DEF TxRec, Stages
  <2>4. tx' = [tx EXCEPT ![w] = u]
    BY <1>1, <1>10 DEF p
  <2> HIDE DEF u
  <2>5. /\ Fits(claims, nextId, u) /\ Mine(claims, u) = Mine(claims, t)
        /\ \A v \in Workers \ {w} : Apart(claims, tx[v], u)
    BY <1>8, <2>3
  <2>6. p \in Mine(claims, u) /\ p # x
    BY <1>5, <2>2, <2>5 DEF Mine
  <2>7. claims[x].active =>
          \A i \in Mine(claims, u) : i # x /\ claims[i].retractedBy = 0 => i <= p
    BY <1>6, <2>2, <2>5
  <2>8. Stage(claims, nextId, u)
    BY <1>3, <2>3, <2>5, <2>6, <2>7 DEF Stage, EditStage, RevertStage
  <2>9. Outcome(claims, u)
    BY <1>3, <2>3 DEF Outcome, Final
  <2> QED
    BY <1>1, <1>7, <2>3, <2>4, <2>5, <2>8, <2>9, MoveKeeps DEF Sound
<1> QED
  BY <1>9, <1>10

\* The predecessor takes the slot: it is active alone, and nothing newer is left.
LEMMA ReactivateKeeps ==
    ASSUME Inv, NEW w \in Workers, Reactivate(w)
    PROVE  Inv'
<1> DEFINE t == tx[w]
           x == t.target
           p == CHOOSE i \in t.todo : TRUE
           new == [claims[p] EXCEPT !.active = TRUE]
           one == [i \in {p} |-> new]
           writes == Overlay(t.writes, one)
           u == [t EXCEPT !.pc = "resolve", !.writes = writes]
           old == Overlay(claims, t.writes)
           V == Overlay(claims, writes)
<1>1. /\ t.pc = "reactivate" /\ tx' = [tx EXCEPT ![w] = u]
      /\ claims' = claims /\ begun' = begun /\ nextId' = nextId
      /\ ~SlotBusy(w, t.user, t.key) /\ claims[p].retractedBy = 0
      /\ \A v \in Workers \ {w} : p \notin DOMAIN tx[v].writes
      /\ \A j \in DOMAIN old \ {p} : InSlot(old[j], t.user, t.key) => ~old[j].active
  <2>1. one = [i \in {p} |-> [claims[i] EXCEPT !.active = TRUE]]
    OBVIOUS
  <2> HIDE DEF one, p
  <2> QED
    BY <2>1 DEF Reactivate, Goto, SlotTaken, Visible, Locked, RejectsActive, p
<1>2. /\ t \in TxRec /\ x \in Nat /\ t.writes \in Pending
      /\ claims \in Pending /\ nextId \in Nat /\ begun \in 0 .. MaxTxns
      /\ Fits(claims, nextId, t) /\ Stage(claims, nextId, t) /\ LogOk(claims)
      /\ DOMAIN claims \subseteq Nat /\ \A i \in DOMAIN claims : i < nextId
  BY WorkerFacts DEF Inv, Sound, TxTypeOK
<1>3. /\ x \in Mine(claims, t) /\ x \in DOMAIN claims /\ t.no # 0
      /\ DOMAIN t.writes = {x} /\ ~t.writes[x].active /\ t.writes[x].retractedBy # 0
      /\ InSlot(claims[x], t.user, t.key) /\ InSlot(t.writes[x], t.user, t.key)
  BY <1>1, <1>2 DEF Stage, RevertStage, Mine, Fits
<1>4. /\ p \in Mine(claims, t) /\ p # x
      /\ claims[x].active =>
            \A i \in Mine(claims, t) : i # x /\ claims[i].retractedBy = 0 => i <= p
  <2>1. PICK q \in Mine(claims, t) :
          /\ t.todo = {q} /\ q # x
          /\ claims[x].active =>
                \A i \in Mine(claims, t) : i # x /\ claims[i].retractedBy = 0 => i <= q
    BY <1>1, <1>2 DEF Stage, RevertStage
  <2>2. p = q
    BY <2>1
  <2> QED
    BY <2>1, <2>2
<1> HIDE DEF p
<1>5. /\ p \in DOMAIN claims /\ p \in Nat /\ p < nextId /\ InSlot(claims[p], t.user, t.key)
      /\ claims[p] \in ClaimRow
  BY <1>2, <1>4, PendingFacts DEF Mine
<1>6. /\ new \in ClaimRow /\ new.active /\ new.retractedBy = 0
      /\ InSlot(new, t.user, t.key)
  BY <1>1, <1>5 DEF ClaimRow, InSlot
<1> HIDE DEF new
<1>7. one \in Pending /\ DOMAIN one = {p} /\ one[p] = new
  <2>1. one \in [{p} -> ClaimRow]
    BY <1>6
  <2> QED
    BY <1>5, <2>1, PendingFacts
<1> HIDE DEF one
<1>8. /\ writes \in Pending /\ DOMAIN writes = {x, p} /\ writes[p] = new
      /\ writes[x] = t.writes[x]
  <2>1. t.writes \in Pending /\ one \in Pending
    BY <1>2, <1>7
  <2>2. /\ writes \in Pending
        /\ DOMAIN writes = DOMAIN t.writes \cup DOMAIN one
        /\ \A i \in DOMAIN one : writes[i] = one[i]
        /\ \A i \in DOMAIN t.writes \ DOMAIN one : writes[i] = t.writes[i]
    BY <2>1, OverlayFacts
  <2> HIDE DEF writes
  <2> QED
    BY <1>3, <1>4, <1>7, <2>2
<1> HIDE DEF writes
<1>9. /\ u \in TxRec /\ u.pc = "resolve" /\ u.writes = writes
      /\ u.user = t.user /\ u.key = t.key /\ u.no = t.no
  BY <1>2, <1>8 DEF TxRec, Stages
<1> HIDE DEF u
<1>10. /\ DOMAIN V = DOMAIN claims /\ V[p] = new /\ V[x] = t.writes[x]
       /\ \A i \in DOMAIN claims \ {x, p} :
             V[i] = claims[i] /\ i \in DOMAIN old /\ old[i] = claims[i]
  <2>1. claims \in Pending /\ t.writes \in Pending /\ writes \in Pending
    BY <1>2, <1>8
  <2>2. /\ DOMAIN V = DOMAIN claims \cup DOMAIN writes
        /\ \A i \in DOMAIN writes : V[i] = writes[i]
        /\ \A i \in DOMAIN claims \ DOMAIN writes : V[i] = claims[i]
    BY <2>1, OverlayFacts
  <2>3. /\ DOMAIN old = DOMAIN claims \cup DOMAIN t.writes
        /\ \A i \in DOMAIN claims \ DOMAIN t.writes : old[i] = claims[i]
    BY <2>1, OverlayFacts
  <2> HIDE DEF old, V
  <2> QED
    BY <1>3, <1>5, <1>8, <2>2, <2>3
<1> HIDE DEF old, V
<1>11. ASSUME NEW i \in Mine(V, t)
       PROVE  (V[i].active => i = p) /\ (V[i].retractedBy = 0 => i <= p)
  <2>1. CASE i = p
    BY <1>5, <2>1
  <2>2. CASE i = x
    BY <1>3, <1>10, <2>2
  <2>3. CASE i \in DOMAIN claims \ {x, p}
    <3>1. V[i] = claims[i] /\ InSlot(claims[i], t.user, t.key) /\ ~claims[i].active
      BY <1>1, <1>10, <2>3 DEF Mine
    <3>2. ASSUME claims[i].retractedBy = 0
          PROVE  i <= p
      <4>1. CASE claims[x].active
        BY <1>4, <2>3, <3>1, <3>2, <4>1 DEF Mine
      <4>2. CASE ~claims[x].active
        <5>1. PICK a \in DOMAIN claims :
                InSlot(claims[i], claims[a].user, claims[a].key) /\ claims[a].active /\ i <= a
          BY <1>2, <2>3, <3>2 DEF LogOk
        <5>2. InSlot(claims[a], t.user, t.key) /\ a # x
          BY <3>1, <4>2, <5>1 DEF InSlot
        <5>3. a = p
          BY <1>1, <1>10, <5>1, <5>2
        <5> QED
          BY <5>1, <5>3
      <4> QED
        BY <4>1, <4>2
    <3> QED
      BY <3>1, <3>2
  <2> QED
    BY <1>10, <2>1, <2>2, <2>3 DEF Mine
<1>12. Sound(claims, nextId, u)
  <2>1. Fits(claims, nextId, u)
    BY <1>2, <1>3, <1>5, <1>6, <1>8, <1>9 DEF Fits
  <2>2. Stage(claims, nextId, u)
    BY <1>3, <1>9 DEF Stage, EditStage, RevertStage
  <2>3. Outcome(claims, u)
    <3>1. Hold(claims, u) /\ p \in DOMAIN u.writes /\ u.writes[p].active
      BY <1>6, <1>8, <1>9 DEF Hold
    <3>2. ASSUME NEW j \in DOMAIN u.writes, u.writes[j].active
          PROVE  j = p
      BY <1>3, <1>8, <1>9, <3>2
    <3>3. Mine(V, u) = Mine(V, t)
      BY <1>9 DEF Mine
    <3>4. Overlay(claims, u.writes) = V /\ u.pc \in Final
      BY <1>9 DEF V, Final
    <3> QED
      BY <1>11, <3>1, <3>2, <3>3, <3>4 DEF Outcome
  <2> QED
    BY <2>1, <2>2, <2>3 DEF Sound
<1>13. ASSUME NEW v \in Workers \ {w}
       PROVE  Apart(claims, tx[v], u)
  <2>1. Apart(claims, tx[v], t) /\ Sound(claims, nextId, tx[v])
    BY WorkerFacts
  <2>2. tx[v].pc = "insert" => tx[v].target \notin DOMAIN claims
    BY <2>1 DEF Sound, Stage, EditStage
  <2>3. tx[v].user = t.user /\ tx[v].key = t.key => ~Hold(claims, tx[v])
    BY <1>1, SlotIsFree
  <2> QED
    BY <1>1, <1>3, <1>5, <1>8, <1>9, <2>1, <2>2, <2>3 DEF Apart
<1>14. nextId' \in Nat /\ nextId <= nextId' /\ begun' \in 0 .. MaxTxns
  BY <1>1, <1>2
<1> QED
  BY <1>1, <1>9, <1>12, <1>13, <1>14, MoveKeeps

\* A statement that leaves writes and stage as they are, once they are final.
LEMMA FinalStepKeeps ==
    ASSUME Inv, NEW w \in Workers, NEW u \in TxRec, tx[w].pc \in Final, u.pc \in Final,
           u.no = tx[w].no, u.user = tx[w].user, u.key = tx[w].key, u.writes = tx[w].writes,
           tx' = [tx EXCEPT ![w] = u], UNCHANGED <<claims, nextId, begun>>
    PROVE  Inv'
<1> DEFINE t == tx[w]
           V == Overlay(claims, t.writes)
<1>1. /\ Sound(claims, nextId, t) /\ nextId \in Nat /\ begun \in 0 .. MaxTxns
      /\ \A v \in Workers \ {w} : Apart(claims, tx[v], t)
  BY WorkerFacts
<1>2. (Hold(claims, u) <=> Hold(claims, t)) /\ Mine(V, u) = Mine(V, t)
  BY DEF Hold, Mine
<1>3. Sound(claims, nextId, u)
  <2>1. Fits(claims, nextId, u)
    BY <1>1 DEF Sound, Fits
  <2>2. Stage(claims, nextId, u)
    BY <1>1 DEF Sound, Stage, EditStage, RevertStage, Final
  <2>3. Outcome(claims, u)
    BY <1>1, <1>2 DEF Sound, Outcome
  <2> QED
    BY <2>1, <2>2, <2>3 DEF Sound
<1>4. \A v \in Workers \ {w} : Apart(claims, tx[v], u)
  BY <1>1, <1>2 DEF Apart, Final
<1>5. nextId' \in Nat /\ nextId <= nextId' /\ begun' \in 0 .. MaxTxns
  BY <1>1
<1> QED
  BY <1>3, <1>4, <1>5, MoveKeeps

\* The columns resolve to ids of claims, or to no claim.
LEMMA ResolutionType ==
    ASSUME NEW C \in Pending, NEW m \in Nat, \A i \in DOMAIN C : i < m
    PROVE  Resolution(C) \in [Keys -> Nat]
<1> SUFFICES ASSUME NEW k \in Keys
             PROVE  Resolution(C)[k] \in Nat
  BY DEF Resolution
<1> DEFINE A == {i \in DOMAIN C : C[i].key = k /\ C[i].active}
<1>1. A \in SUBSET Nat /\ \A i \in A : i < m
  BY PendingFacts
<1>2. Resolution(C)[k] = IF A = {} THEN 0 ELSE SetMax(A)
  BY DEF Resolution
<1>3. A # {} => SetMax(A) \in Nat
  BY <1>1, SetMaxExists
<1> QED
  BY <1>2, <1>3

LEMMA ResolveKeeps ==
    ASSUME Inv, NEW w \in Workers, Resolve(w)
    PROVE  Inv'
<1> DEFINE t == tx[w]
           u == [t EXCEPT !.pc = "save", !.view = View(w)]
           V == Overlay(claims, t.writes)
<1>1. t.pc = "resolve" /\ tx' = [tx EXCEPT ![w] = u] /\ UNCHANGED <<claims, nextId, begun>>
  BY DEF Resolve, Goto
<1>2. /\ t \in TxRec /\ claims \in Pending /\ t.writes \in Pending /\ nextId \in Nat
      /\ Sound(claims, nextId, t) /\ \A i \in DOMAIN claims : i < nextId
  BY WorkerFacts DEF Inv, TxTypeOK
<1>3. View(w) \in [Keys -> Nat]
  <2>1. V \in Pending /\ DOMAIN V = DOMAIN claims \cup DOMAIN t.writes
    BY <1>2, OverlayFacts
  <2>2. \A i \in DOMAIN V : i < nextId
    BY <1>2, <2>1 DEF Sound, Fits
  <2> QED
    BY <1>2, <2>1, <2>2, ResolutionType DEF View, Visible
<1>4. /\ u \in TxRec /\ u.pc = "save" /\ u.writes = t.writes
      /\ u.user = t.user /\ u.key = t.key /\ u.no = t.no
  BY <1>2, <1>3 DEF TxRec, Stages
<1> HIDE DEF u
<1> QED
  BY <1>1, <1>4, FinalStepKeeps DEF Final

LEMMA SaveKeeps ==
    ASSUME Inv, NEW w \in Workers, Save(w)
    PROVE  Inv'
<1> DEFINE t == tx[w]
           u == [t EXCEPT !.pc = "commit"]
<1>1. t.pc = "save" /\ tx' = [tx EXCEPT ![w] = u] /\ UNCHANGED <<claims, nextId, begun>>
  BY DEF Save, Goto
<1>2. t \in TxRec
  BY WorkerFacts
<1>3. /\ u \in TxRec /\ u.pc = "commit" /\ u.writes = t.writes
      /\ u.user = t.user /\ u.key = t.key /\ u.no = t.no
  BY <1>2 DEF TxRec, Stages
<1> HIDE DEF u
<1> QED
  BY <1>1, <1>3, FinalStepKeeps DEF Final

LEMMA CommitKeeps ==
    ASSUME Inv, NEW w \in Workers, Commit(w)
    PROVE  Inv'
<1> DEFINE t == tx[w]
           D == Overlay(claims, t.writes)
<1>1. /\ t.pc = "commit" /\ claims' = D /\ tx' = [tx EXCEPT ![w] = Idle]
      /\ nextId' = nextId /\ begun' = begun
  BY DEF Commit, Goto, Visible
<1>2. /\ t \in TxRec /\ claims \in Pending /\ t.writes \in Pending /\ nextId \in Nat
      /\ tx \in [Workers -> TxRec] /\ begun \in 0 .. MaxTxns
      /\ Sound(claims, nextId, t) /\ \A i \in DOMAIN claims : i < nextId
      /\ LogOk(claims)
  BY WorkerFacts DEF Inv, TxTypeOK
<1>3. D \in Pending /\ DOMAIN D = DOMAIN claims \cup DOMAIN t.writes
  BY <1>2, OverlayFacts
<1>4. \A i \in DOMAIN D : i < nextId
  BY <1>2, <1>3 DEF Sound, Fits
<1>5. LogOk(D)
  BY <1>1, <1>2, CommitKeepsLog
<1>6. Idle \in TxRec /\ Sound(D, nextId, Idle) /\ \A r : Apart(D, r, Idle)
  BY IdleFacts
<1> HIDE DEF D
<1>7. ASSUME NEW v \in Workers \ {w}
      PROVE  Sound(D, nextId, tx[v]) /\ (Hold(D, tx[v]) <=> Hold(claims, tx[v]))
  <2>1. /\ tx[v] \in TxRec /\ Sound(claims, nextId, tx[v])
        /\ Apart(claims, t, tx[v])
    BY WorkerFacts
  <2> QED
    BY <1>1, <1>2, <2>1, CommitElsewhere DEF D
<1>8. tx' \in [Workers -> TxRec] /\ tx'[w] = Idle /\ \A v \in Workers \ {w} : tx'[v] = tx[v]
  BY <1>1, <1>2, <1>6
<1>9. ASSUME NEW u \in Workers, NEW v \in Workers, u # v
      PROVE  Apart(D, tx'[u], tx'[v])
  <2>1. CASE u = w
    BY <1>6, <1>8, <2>1, ApartSymmetric
  <2>2. CASE v = w
    BY <1>6, <1>8, <2>2
  <2>3. CASE u # w /\ v # w
    <3>1. Apart(claims, tx[u], tx[v])
      BY <1>9 DEF Inv
    <3> QED
      BY <1>7, <1>8, <2>3, <3>1 DEF Apart
  <2> QED
    BY <2>1, <2>2, <2>3
<1>10. TxTypeOK'
  BY <1>1, <1>2, <1>3, <1>4, <1>8 DEF TxTypeOK
<1>11. \A v \in Workers : Sound(D, nextId, tx'[v])
  BY <1>6, <1>7, <1>8
<1> QED
  BY <1>1, <1>5, <1>9, <1>10, <1>11 DEF Inv

-----------------------------------------------------------------------------
\* The edits committed beforehand leave one active claim a slot, its newest.
LEMMA InitHolds ==
    ASSUME Init
    PROVE  Inv
<1> DEFINE H == DOMAIN History
           Later(i) == {j \in H : j > i /\ History[j] = History[i]}
<1>1. /\ claims = [i \in H |-> [user |-> History[i][1], key |-> History[i][2],
                               active |-> Later(i) = {}, retractedBy |-> 0]]
      /\ nextId = Len(History) + 1 /\ begun = 0 /\ tx = [w \in Workers |-> Idle]
  BY DEF Init
<1>2. /\ H = 1 .. Len(History) /\ Len(History) \in Nat
      /\ \A i \in H : History[i] \in Users \X Keys
  BY TxnAssumption
<1>3. \A i, j \in H : /\ History[i][1] \in Users /\ History[i][2] \in Keys
                      /\ History[i] = History[j]
                            <=> History[i][1] = History[j][1] /\ History[i][2] = History[j][2]
  BY <1>2
<1>4. /\ DOMAIN claims = H
      /\ claims = [i \in H |-> claims[i]]
  <2> HIDE DEF H, Later
  <2> QED
    BY <1>1
<1>5. ASSUME NEW i \in H
      PROVE  /\ claims[i] \in ClaimRow
             /\ claims[i].user = History[i][1] /\ claims[i].key = History[i][2]
             /\ claims[i].active = (Later(i) = {})
             /\ claims[i].retractedBy = 0
  <2> DEFINE last == Later(i) = {}
  <2>1. claims[i] = [user |-> History[i][1], key |-> History[i][2],
                     active |-> last, retractedBy |-> 0]
    BY <1>1
  <2>2. last \in BOOLEAN /\ 0 \in 0 .. MaxTxns
    BY TxnAssumption
  <2>3. History[i][1] \in Users /\ History[i][2] \in Keys
    BY <1>3
  <2> HIDE DEF last, H
  <2>4. claims[i] \in ClaimRow
    BY <2>1, <2>2, <2>3 DEF ClaimRow
  <2> QED
    BY <2>1, <2>4 DEF last
<1>6. LogOk(claims)
  <2>1. ASSUME NEW i \in H
        PROVE  \E a \in H : /\ History[a] = History[i] /\ i <= a /\ Later(a) = {}
                            /\ \A j \in H : History[j] = History[a] /\ Later(j) = {} => j = a
    <3> DEFINE S == {j \in H : History[j] = History[i]}
               a == SetMax(S)
               m == Len(History) + 1
    <3>1. S \in SUBSET Nat /\ i \in S /\ m \in Nat /\ \A j \in S : j < m
      BY <1>2
    <3>2. a \in S /\ \A j \in S : j <= a
      <4> HIDE DEF S, m
      <4> QED
        BY <3>1, SetMaxExists
    <3> HIDE DEF a
    <3>3. Later(a) = {}
      BY <1>2, <3>2
    <3>4. ASSUME NEW j \in H, History[j] = History[a], Later(j) = {}
          PROVE  j = a
      <4>1. j \in S /\ j <= a /\ ~(a > j)
        BY <3>2, <3>4
      <4> QED
        BY <1>2, <3>2, <4>1
    <3> QED
      BY <3>1, <3>2, <3>3, <3>4
  <2>2. ASSUME NEW i \in H, NEW j \in H
        PROVE  InSlot(claims[i], claims[j].user, claims[j].key) <=> History[i] = History[j]
    BY <1>3, <1>5 DEF InSlot
  <2>3. ASSUME NEW i \in H
        PROVE  \E a \in H :
                 /\ InSlot(claims[i], claims[a].user, claims[a].key)
                 /\ claims[a].active /\ i <= a
                 /\ \A j \in H : InSlot(claims[j], claims[a].user, claims[a].key)
                                 /\ claims[j].active => j = a
    <3>1. PICK a \in H : /\ History[a] = History[i] /\ i <= a /\ Later(a) = {}
                         /\ \A j \in H : History[j] = History[a] /\ Later(j) = {} => j = a
      BY <2>1
    <3> HIDE DEF Later, H
    <3>2. \A j \in H : InSlot(claims[j], claims[a].user, claims[a].key)
                       /\ claims[j].active => j = a
      BY <1>5, <2>2, <3>1, ZenonT(60)
    <3> QED
      BY <1>5, <2>2, <3>1, <3>2
  <2> HIDE DEF Later, H
  <2> QED
    BY <1>4, <1>5, <2>3 DEF LogOk
<1>7. TxTypeOK
  <2>1. claims \in [H -> ClaimRow]
    <3> HIDE DEF H, Later
    <3> QED
      BY <1>4, <1>5
  <2>2. claims \in Pending
    BY <1>2, <2>1, PendingFacts
  <2>3. nextId \in Nat /\ \A i \in DOMAIN claims : i < nextId
    BY <1>1, <1>2, <1>4
  <2>4. begun \in 0 .. MaxTxns /\ tx \in [Workers -> TxRec]
    <3>1. Idle \in TxRec
      BY IdleFacts
    <3> QED
      BY <1>1, <3>1, TxnAssumption
  <2> QED
    BY <2>2, <2>3, <2>4 DEF TxTypeOK
<1>8. /\ \A w \in Workers : Sound(claims, nextId, tx[w])
      /\ \A v, w \in Workers : v # w => Apart(claims, tx[v], tx[w])
  BY <1>1, IdleFacts
<1> QED
  BY <1>6, <1>7, <1>8 DEF Inv

\* Every statement of every request keeps the invariant.
LEMMA NextKeeps == Inv /\ [Next]_vars => Inv'
<1> SUFFICES ASSUME Inv, [Next]_vars
             PROVE  Inv'
  OBVIOUS
<1>1. CASE UNCHANGED vars
  BY <1>1 DEF vars, Inv, TxTypeOK
<1>2. ASSUME NEW w \in Workers, NEW u \in Users, NEW k \in Keys, BeginEdit(w, u, k)
      PROVE  Inv'
  BY <1>2, BeginEditKeeps
<1>3. ASSUME NEW w \in Workers, NEW c \in DOMAIN claims, BeginRevert(w, c)
      PROVE  Inv'
  BY <1>3, BeginRevertKeeps
<1>4. ASSUME NEW w \in Workers, Deactivate(w)
      PROVE  Inv'
  BY <1>4, DeactivateKeeps
<1>5. ASSUME NEW w \in Workers, Insert(w)
      PROVE  Inv'
  BY <1>5, InsertKeeps
<1>6. ASSUME NEW w \in Workers, Stamp(w)
      PROVE  Inv'
  BY <1>6, StampKeeps
<1>7. ASSUME NEW w \in Workers, FindPredecessor(w)
      PROVE  Inv'
  BY <1>7, FindPredecessorKeeps
<1>8. ASSUME NEW w \in Workers, Reactivate(w)
      PROVE  Inv'
  BY <1>8, ReactivateKeeps
<1>9. ASSUME NEW w \in Workers, Resolve(w)
      PROVE  Inv'
  BY <1>9, ResolveKeeps
<1>10. ASSUME NEW w \in Workers, Save(w)
       PROVE  Inv'
  BY <1>10, SaveKeeps
<1>11. ASSUME NEW w \in Workers, Commit(w)
       PROVE  Inv'
  BY <1>11, CommitKeeps
<1>12. ASSUME NEW w \in Workers, Fail(w)
       PROVE  Inv'
  BY <1>12, RollbackKeeps DEF Fail
<1> QED
  BY <1>1, <1>2, <1>3, <1>4, <1>5, <1>6, <1>7, <1>8, <1>9, <1>10, <1>11, <1>12 DEF Next

\* However edits and reverts interleave, statement by statement, a user has at
\* most one active claim per column, it is the newest one not reverted, a slot
\* with such a claim has it active, and none is active and retracted
\* (assert_claim, execute_revert and the claim table's two constraints).
THEOREM SlotsStaySound == Spec => []SlotsStayStacks
<1>1. Init => Inv
  BY InitHolds
<1>2. Inv /\ [Next]_vars => Inv'
  BY NextKeeps
<1>3. Inv => SlotsStayStacks
  BY DEF Inv, LogOk, SlotsStayStacks, NewestIsActive, RetractedIsInactive, SameSlot
<1> QED
  BY <1>1, <1>2, <1>3, PTL DEF Spec

-----------------------------------------------------------------------------
\* A request that nothing has overlapped so far is the only one under way, and
\* what it resolved is still what it sees.
Undisturbed ==
    \A w \in Workers : tx[w].solo =>
        /\ tx[w].pc # "idle"
        /\ \A v \in Workers \ {w} : tx[v].pc = "idle"
        /\ tx[w].pc \in {"save", "commit"} => tx[w].view = Resolution(Visible(w))

\* A request that begins beside another ends that one's solitude and its own.
LEMMA BeginUndisturbed ==
    ASSUME Inv, NEW w \in Workers, NEW t \in TxRec, Begin(w, t),
           t.pc \in {"lock", "stamp"}
    PROVE  Undisturbed'
<1> DEFINE alone == \A v \in Workers \ {w} : tx[v].pc = "idle"
           u == [t EXCEPT !.no = begun + 1, !.solo = alone]
<1>1. tx' = [v \in Workers |-> IF v = w THEN u ELSE [tx[v] EXCEPT !.solo = FALSE]]
  BY DEF Begin
<1>2. alone \in BOOLEAN
  OBVIOUS
<1> HIDE DEF alone
<1>3. u.pc = t.pc /\ u.solo = alone
  BY <1>2 DEF TxRec
<1> HIDE DEF u
<1>4. tx'[w] = u
  BY <1>1
<1>5. \A v \in Workers \ {w} : tx'[v].pc = tx[v].pc /\ ~tx'[v].solo
  BY <1>1 DEF Inv, TxTypeOK, TxRec
<1> QED
  BY <1>3, <1>4, <1>5 DEF Undisturbed, alone

\* A statement of a request already under way.
LEMMA StatementUndisturbed ==
    ASSUME Inv, Undisturbed, NEW w \in Workers, NEW u,
           tx[w].pc # "idle", tx' = [tx EXCEPT ![w] = u],
           u.solo => /\ tx[w].solo /\ u.pc # "idle"
                     /\ u.pc \in {"save", "commit"} => u.view = Resolution(Overlay(claims', u.writes))
    PROVE  Undisturbed'
<1>1. tx'[w] = u /\ \A v \in Workers \ {w} : tx'[v] = tx[v]
  BY DEF Inv, TxTypeOK
<1>2. \A v \in Workers \ {w} : ~tx[v].solo
  BY SMTT(60) DEF Undisturbed
<1> QED
  BY <1>1, <1>2 DEF Undisturbed, Visible

\* Only a commit changes the claims, and it leaves the row it resolved.
LEMMA OnlyCommitsWrite ==
    ASSUME Inv, Next, claims' # claims
    PROVE  \E w \in Workers : Commit(w)
  BY DEF Next, BeginEdit, BeginRevert, Begin, Deactivate, Insert, Stamp, FindPredecessor,
         Reactivate, Resolve, Save, Fail, Rollback

LEMMA NextUndisturbed ==
    ASSUME Inv, Undisturbed, [Next]_vars
    PROVE  Undisturbed'
<1>1. CASE UNCHANGED vars
  BY <1>1 DEF vars, Undisturbed, Visible
<1>2. Idle.solo = FALSE /\ Idle \in TxRec
  BY IdleFacts DEF Idle
<1>3. ASSUME NEW w \in Workers
      PROVE  /\ tx[w] \in TxRec
             /\ claims \in Pending /\ nextId \in Nat
  BY WorkerFacts
<1>4. ASSUME NEW w \in Workers, NEW u \in Users, NEW k \in Keys, BeginEdit(w, u, k)
      PROVE  Undisturbed'
  <2> DEFINE todo == {i \in DOMAIN claims : InSlot(claims[i], u, k) /\ claims[i].active}
             t == [Idle EXCEPT !.pc = "lock", !.user = u, !.key = k, !.todo = todo]
  <2>1. Begin(w, t) /\ todo \in SUBSET Nat
    BY <1>4, WorkerFacts DEF BeginEdit
  <2>2. t \in TxRec /\ t.pc = "lock"
    <3> HIDE DEF todo
    <3> QED
      BY <1>2, <2>1 DEF TxRec, Stages
  <2> QED
    BY <2>1, <2>2, BeginUndisturbed
<1>5. ASSUME NEW w \in Workers, NEW c \in DOMAIN claims, BeginRevert(w, c)
      PROVE  Undisturbed'
  <2> DEFINE t == [Idle EXCEPT !.pc = "stamp", !.user = claims[c].user,
                     !.key = claims[c].key, !.target = c]
  <2>1. Begin(w, t) /\ c \in Nat /\ claims[c].user \in Users /\ claims[c].key \in Keys
    BY <1>5, WorkerFacts, PendingFacts DEF BeginRevert
  <2>2. t \in TxRec /\ t.pc = "stamp"
    BY <1>2, <2>1 DEF TxRec, Stages
  <2> QED
    BY <2>1, <2>2, BeginUndisturbed
<1>6. ASSUME NEW w \in Workers, Deactivate(w)
      PROVE  Undisturbed'
  <2> DEFINE hit == {i \in tx[w].todo : claims[i].active}
             writes == [i \in hit |-> [claims[i] EXCEPT !.active = FALSE]]
             u == [tx[w] EXCEPT !.pc = "insert", !.target = nextId, !.writes = writes]
  <2>1. tx[w].pc = "lock" /\ tx' = [tx EXCEPT ![w] = u]
    BY <1>6 DEF Deactivate, Goto
  <2> HIDE DEF writes
  <2>2. u.solo = tx[w].solo /\ u.pc = "insert"
    BY <1>3 DEF TxRec
  <2> HIDE DEF u
  <2> QED
    BY <2>1, <2>2, StatementUndisturbed
<1>7. ASSUME NEW w \in Workers, Insert(w)
      PROVE  Undisturbed'
  <2> DEFINE new == [user |-> tx[w].user, key |-> tx[w].key, active |-> TRUE, retractedBy |-> 0]
             writes == Overlay(tx[w].writes, [i \in {tx[w].target} |-> new])
             u == [tx[w] EXCEPT !.pc = "resolve", !.writes = writes]
  <2>1. tx[w].pc = "insert" /\ tx' = [tx EXCEPT ![w] = u]
    BY <1>7 DEF Insert, Goto
  <2> HIDE DEF writes
  <2>2. u.solo = tx[w].solo /\ u.pc = "resolve"
    BY <1>3 DEF TxRec
  <2> HIDE DEF u
  <2> QED
    BY <2>1, <2>2, StatementUndisturbed
<1>8. ASSUME NEW w \in Workers, Stamp(w)
      PROVE  Undisturbed'
  <2> DEFINE writes == [i \in {tx[w].target} |->
                          [claims[i] EXCEPT !.active = FALSE, !.retractedBy = tx[w].no]]
             u == [tx[w] EXCEPT !.pc = "predecessor", !.writes = writes]
  <2>1. tx[w].pc = "stamp" /\ tx' = [tx EXCEPT ![w] = u]
    BY <1>8 DEF Stamp, Goto
  <2> HIDE DEF writes
  <2>2. u.solo = tx[w].solo /\ u.pc = "predecessor"
    BY <1>3 DEF TxRec
  <2> HIDE DEF u
  <2> QED
    BY <2>1, <2>2, StatementUndisturbed
<1>9. ASSUME NEW w \in Workers, FindPredecessor(w)
      PROVE  Undisturbed'
  <2> DEFINE none == [tx[w] EXCEPT !.pc = "resolve"]
             todo == {SetMax(Superseded(w))}
             some == [tx[w] EXCEPT !.pc = "reactivate", !.todo = todo]
  <2>1. /\ tx[w].pc = "predecessor"
        /\ tx' = [tx EXCEPT ![w] = none] \/ tx' = [tx EXCEPT ![w] = some]
    BY <1>9 DEF FindPredecessor, Goto
  <2> HIDE DEF todo
  <2>2. /\ none.solo = tx[w].solo /\ none.pc = "resolve"
        /\ some.solo = tx[w].solo /\ some.pc = "reactivate"
    BY <1>3 DEF TxRec
  <2> HIDE DEF none, some
  <2> QED
    BY <2>1, <2>2, StatementUndisturbed
<1>10. ASSUME NEW w \in Workers, Reactivate(w)
       PROVE  Undisturbed'
  <2> DEFINE p == CHOOSE i \in tx[w].todo : TRUE
             writes == Overlay(tx[w].writes, [i \in {p} |-> [claims[i] EXCEPT !.active = TRUE]])
             u == [tx[w] EXCEPT !.pc = "resolve", !.writes = writes]
  <2>1. tx[w].pc = "reactivate" /\ tx' = [tx EXCEPT ![w] = u]
    BY <1>10 DEF Reactivate, Goto
  <2> HIDE DEF writes
  <2>2. u.solo = tx[w].solo /\ u.pc = "resolve"
    BY <1>3 DEF TxRec
  <2> HIDE DEF u
  <2> QED
    BY <2>1, <2>2, StatementUndisturbed
<1>11. ASSUME NEW w \in Workers, Resolve(w)
       PROVE  Undisturbed'
  <2> DEFINE u == [tx[w] EXCEPT !.pc = "save", !.view = View(w)]
  <2>1. tx[w].pc = "resolve" /\ tx' = [tx EXCEPT ![w] = u] /\ claims' = claims
    BY <1>11 DEF Resolve, Goto
  <2>2. /\ u.solo = tx[w].solo /\ u.pc = "save" /\ u.writes = tx[w].writes
        /\ u.view = Resolution(Overlay(claims, tx[w].writes))
    BY <1>3 DEF TxRec, View, Visible
  <2> HIDE DEF u
  <2> QED
    BY <2>1, <2>2, StatementUndisturbed
<1>12. ASSUME NEW w \in Workers, Save(w)
       PROVE  Undisturbed'
  <2> DEFINE u == [tx[w] EXCEPT !.pc = "commit"]
  <2>1. tx[w].pc = "save" /\ tx' = [tx EXCEPT ![w] = u] /\ claims' = claims
    BY <1>12 DEF Save, Goto
  <2>2. /\ u.solo = tx[w].solo /\ u.pc = "commit"
        /\ u.writes = tx[w].writes /\ u.view = tx[w].view
    BY <1>3 DEF TxRec
  <2>3. tx[w].solo => tx[w].view = Resolution(Overlay(claims, tx[w].writes))
    BY <2>1 DEF Undisturbed, Visible
  <2> HIDE DEF u
  <2> QED
    BY <2>1, <2>2, <2>3, StatementUndisturbed
<1>13. ASSUME NEW w \in Workers, Commit(w) \/ Fail(w)
       PROVE  Undisturbed'
  <2>1. tx[w].pc # "idle" /\ tx' = [tx EXCEPT ![w] = Idle]
    BY <1>13 DEF Commit, Fail, Rollback, Goto
  <2> QED
    BY <1>2, <2>1, StatementUndisturbed
<1> QED
  BY <1>1, <1>4, <1>5, <1>6, <1>7, <1>8, <1>9, <1>10, <1>11, <1>12, <1>13 DEF Next

\* UndisturbedWriteRepairs as a relation between two states.
Repairs ==
    claims' # claims /\ (\A w \in Workers : tx[w] # tx'[w] => tx[w].solo)
        => row' = Resolution(claims')

\* A write that no other request overlapped, from its first read to its commit,
\* leaves every column of the row what the claims now resolve to, whatever
\* earlier races did to the row (execute_claims, resolve_entity).
THEOREM SoloWritesRepair == Spec => UndisturbedWriteRepairs
<1>1. Init => Inv /\ Undisturbed
  <2> SUFFICES ASSUME Init
               PROVE  Inv /\ Undisturbed
    OBVIOUS
  <2>1. Idle.solo = FALSE
    BY DEF Idle
  <2> QED
    BY <2>1, InitHolds DEF Init, Undisturbed
<1>2. Inv /\ Undisturbed /\ [Next]_vars => Inv' /\ Undisturbed'
  BY NextKeeps, NextUndisturbed
<1>3. Inv /\ Undisturbed /\ [Next]_vars => [Repairs]_vars
  <2> SUFFICES ASSUME Inv, Undisturbed, Next, claims' # claims,
                      \A w \in Workers : tx[w] # tx'[w] => tx[w].solo
               PROVE  row' = Resolution(claims')
    BY DEF Repairs, vars
  <2>1. PICK w \in Workers : Commit(w)
    BY OnlyCommitsWrite
  <2>2. /\ tx[w].pc = "commit" /\ claims' = Visible(w) /\ row' = tx[w].view
        /\ tx' = [tx EXCEPT ![w] = Idle]
    BY <2>1 DEF Commit, Goto
  <2>3. tx'[w].pc = "idle"
    BY <2>2 DEF Inv, TxTypeOK, Idle
  <2>4. tx[w].solo
    BY <2>2, <2>3
  <2> QED
    BY <2>2, <2>4 DEF Undisturbed
<1> QED
  BY <1>1, <1>2, <1>3, PTL DEF Spec, UndisturbedWriteRepairs, Repairs

-----------------------------------------------------------------------------
(* The batch resolver, a component without shared state.  Its passes look  *)
(* at one row after the other; BatchInv says what a pass knows of the rows *)
(* it has seen.                                                            *)

BatchStages == {"slugs", "ids", "chains", "write", "done", "refused", "failed"}

\* Any stored table and any winners, of all columns at once
AnyBatch ==
    /\ table \in [Bulk!Rows -> Bulk!Row] /\ Bulk!Unique(table, "slug")
    /\ batch \in SUBSET Bulk!Rows
    /\ wins \in [batch -> Bulk!Wins]
    /\ objs = [r \in batch |-> Bulk!Applied(r, wins[r])]
    /\ owners = [v \in {} |-> None]
    /\ stage = "slugs"
    /\ place = 1

AnyBatchSpec == AnyBatch /\ [][Bulk!Next]_bulkVars

BatchTypes ==
    /\ table \in [Bulk!Rows -> Bulk!Row] /\ Bulk!Unique(table, "slug")
    /\ batch \in SUBSET Bulk!Rows
    /\ wins \in [batch -> Bulk!Wins]
    /\ objs \in [batch -> Bulk!Row]
    /\ stage \in BatchStages
    /\ place \in Nat \ {0}

\* The row claims no other slug than its own
Keeps(r) == Bulk!Wanted(r).slug = table[r].slug

\* In the pass over the slugs: an owner is a row the pass has seen, which has
\* the slug; of the rows seen, each that changes its slug or keeps its own is
\* the owner of it
SlugsOwned ==
    /\ \A v \in DOMAIN owners :
          owners[v] \in batch /\ owners[v] < place /\ objs[owners[v]].slug = v
    /\ \A r \in batch : r < place /\ objs[r].slug # table[r].slug =>
          objs[r].slug \in DOMAIN owners /\ owners[objs[r].slug] = r
    /\ \A r \in batch : r < place /\ Keeps(r) =>
          table[r].slug \in DOMAIN owners /\ owners[table[r].slug] = r
    /\ \A r \in batch : Keeps(r) => objs[r].slug = table[r].slug
    /\ \A r \in batch : objs[r].xid = Bulk!Wanted(r).xid

\* In the pass over the ids: the rows seen that have an id are its owners, and
\* every id a row seen asked for has one
IdsOwned ==
    /\ \A v \in DOMAIN owners :
          v # None /\ owners[v] \in batch /\ owners[v] < place /\ objs[owners[v]].xid = v
    /\ \A r \in batch : r < place /\ objs[r].xid # None =>
          objs[r].xid \in DOMAIN owners /\ owners[objs[r].xid] = r
    /\ \A r \in batch : r < place /\ Bulk!Wanted(r).xid # None =>
          Bulk!Wanted(r).xid \in DOMAIN owners
    /\ \A r \in batch : r >= place => objs[r].xid = Bulk!Wanted(r).xid

BatchInv ==
    /\ stage \in {"done", "failed"} \/ BatchTypes
    /\ stage = "slugs" => SlugsOwned
    /\ stage = "ids" => IdsOwned
    /\ Bulk!BatchesKeepOwners

LEMMA AppliedIsARow ==
    ASSUME BatchTypes, NEW r \in batch
    PROVE  Bulk!Applied(r, wins[r]) \in Bulk!Row
  BY DEF BatchTypes, Bulk!Applied, Bulk!Row, Bulk!Wins

\* A step of the pass over the slugs.
LEMMA SlugStepOwns ==
    ASSUME Bulk!BulkAssumption, BatchTypes, SlugsOwned, Bulk!SlugStep
    PROVE  BatchTypes' /\ SlugsOwned' /\ stage' = "slugs"
<1> DEFINE v == objs[place].slug
<1>1. /\ place \in batch /\ place' = place + 1 /\ stage' = stage /\ stage = "slugs"
      /\ UNCHANGED <<table, wins, batch>>
  BY DEF Bulk!SlugStep
<1>2. \A p, q \in batch : table[p].slug = table[q].slug => p = q
  BY DEF BatchTypes, Bulk!Unique, Bulk!BulkAssumption, Bulk!Row
<1>6. place \in Nat /\ \A r \in batch : r \in Nat /\ (r < place + 1 <=> r < place \/ r = place)
  BY DEF BatchTypes, Bulk!Rows, Bulk!BulkAssumption
<1>3. \A r \in batch : Keeps(r)' = Keeps(r) /\ Bulk!Wanted(r)' = Bulk!Wanted(r)
  BY <1>1 DEF Keeps, Bulk!Wanted, Bulk!Applied
<1>4. CASE v \notin DOMAIN owners
  <2>1. /\ objs' = objs
        /\ owners' = [w \in DOMAIN owners \cup {v} |-> IF w = v THEN place ELSE owners[w]]
    BY <1>4 DEF Bulk!SlugStep, Bulk!Own
  <2>2. BatchTypes'
    BY <1>1, <2>1 DEF BatchTypes, Bulk!Unique
  <2>3. \A w \in DOMAIN owners' :
           owners'[w] \in batch /\ owners'[w] < place' /\ objs'[owners'[w]].slug = w
    BY <1>1, <1>4, <1>6, <2>1 DEF SlugsOwned
  <2>4. \A r \in batch : r < place' /\ objs'[r].slug # table[r].slug =>
           objs'[r].slug \in DOMAIN owners' /\ owners'[objs'[r].slug] = r
    BY <1>1, <1>4, <1>6, <2>1 DEF SlugsOwned
  <2>5. \A r \in batch : r < place' /\ Keeps(r) =>
           table[r].slug \in DOMAIN owners' /\ owners'[table[r].slug] = r
    BY <1>1, <1>4, <1>6, <2>1 DEF SlugsOwned
  <2>7. \A r \in batch : (Keeps(r) => objs'[r].slug = table[r].slug)
                         /\ objs'[r].xid = Bulk!Wanted(r).xid
    BY <2>1 DEF SlugsOwned
  <2>6. SlugsOwned'
    BY <1>1, <1>3, <2>3, <2>4, <2>5, <2>7 DEF SlugsOwned
  <2> QED
    BY <1>1, <2>2, <2>6
<1>5. CASE v \in DOMAIN owners
  <2> DEFINE u == owners[v]
             loser == Bulk!SlugLoser(u, place)
             winner == IF loser = place THEN u ELSE place
  <2>1. /\ objs' = [objs EXCEPT ![loser].slug = table[loser].slug]
        /\ owners' = [w \in DOMAIN owners \cup {v} |-> IF w = v THEN winner ELSE owners[w]]
    BY <1>5 DEF Bulk!SlugStep, Bulk!Own
  <2>2. u \in batch /\ u < place /\ objs[u].slug = v /\ u # place
    BY <1>5 DEF SlugsOwned, BatchTypes
  <2>3. loser \in {u, place} /\ winner \in {u, place} /\ loser # winner
    BY <2>2 DEF Bulk!SlugLoser
  <2>4. \A r \in batch : /\ objs'[r].slug = IF r = loser THEN table[r].slug ELSE objs[r].slug
                         /\ objs'[r].xid = objs[r].xid
    BY <1>1, <2>1, <2>2, <2>3 DEF BatchTypes, Bulk!Row
  <2>5. BatchTypes'
    <3>1. loser \in batch /\ table[loser].slug \in Slugs
      BY <1>1, <2>2, <2>3 DEF BatchTypes, Bulk!Row
    <3>2. objs' \in [batch -> Bulk!Row]
      BY <2>1, <3>1 DEF BatchTypes, Bulk!Row
    <3> QED
      BY <1>1, <1>6, <3>2 DEF BatchTypes, Bulk!Unique
  <2>6. Keeps(place) => winner = place
    BY <1>1, <1>2, <2>2 DEF Bulk!SlugLoser, Bulk!Changed, SlugsOwned
  <2>7. \A r \in batch : r < place /\ Keeps(r) /\ table[r].slug = v => winner = r
    BY <1>1, <1>2, <2>2 DEF Bulk!SlugLoser, Bulk!Changed, SlugsOwned
  <2>8. objs'[winner].slug = v
    BY <1>1, <2>2, <2>3, <2>4
  <2>9. \A r \in batch : r < place' => r < place \/ r = place
    BY <1>1 DEF BatchTypes, Bulk!Rows
  <2>10. \A w \in DOMAIN owners' :
            owners'[w] \in batch /\ owners'[w] < place' /\ objs'[owners'[w]].slug = w
    <3> SUFFICES ASSUME NEW w \in DOMAIN owners'
                 PROVE  owners'[w] \in batch /\ owners'[w] < place' /\ objs'[owners'[w]].slug = w
      OBVIOUS
    <3>1. CASE w = v
      <4>1. owners'[w] = winner
        BY <2>1, <3>1
      <4> QED
        BY <1>1, <1>6, <2>2, <2>3, <2>8, <3>1, <4>1
    <3>2. CASE w # v
      <4>1. w \in DOMAIN owners /\ owners'[w] = owners[w]
        BY <2>1, <3>2
      <4>2. owners[w] \in batch /\ owners[w] < place /\ objs[owners[w]].slug = w
        BY <4>1 DEF SlugsOwned
      <4>3. owners[w] # loser
        BY <1>1, <2>2, <2>3, <3>2, <4>2, SMTT(60)
      <4> QED
        BY <1>1, <1>6, <2>4, <4>1, <4>2, <4>3
    <3> QED
      BY <3>1, <3>2
  <2>11. \A r \in batch : r < place' /\ objs'[r].slug # table[r].slug =>
            objs'[r].slug \in DOMAIN owners' /\ owners'[objs'[r].slug] = r
    BY <1>1, <2>1, <2>2, <2>3, <2>4, <2>9, SMTT(60) DEF SlugsOwned
  <2>12. \A r \in batch : r < place' /\ Keeps(r) =>
            table[r].slug \in DOMAIN owners' /\ owners'[table[r].slug] = r
    BY <1>1, <2>1, <2>6, <2>7, <2>9 DEF SlugsOwned
  <2>13. \A r \in batch : Keeps(r) => objs'[r].slug = table[r].slug
    BY <2>4 DEF SlugsOwned
  <2>14. SlugsOwned'
    BY <1>1, <1>3, <2>4, <2>10, <2>11, <2>12, <2>13 DEF SlugsOwned
  <2> QED
    BY <1>1, <2>5, <2>14
<1> QED
  BY <1>4, <1>5

\* A step of the pass over the ids.
LEMMA IdStepOwns ==
    ASSUME Bulk!BulkAssumption, BatchTypes, IdsOwned, Bulk!IdStep
    PROVE  BatchTypes' /\ IdsOwned' /\ stage' = "ids" /\ \A r \in batch : objs'[r].slug = objs[r].slug
<1> DEFINE v == objs[place].xid
<1>1. /\ place \in batch /\ place' = place + 1 /\ stage' = stage /\ stage = "ids"
      /\ UNCHANGED <<table, wins, batch>>
  BY DEF Bulk!IdStep
<1>2. \A r \in batch : Bulk!Wanted(r)' = Bulk!Wanted(r)
  BY <1>1 DEF Bulk!Wanted, Bulk!Applied
<1>3. \A r \in batch : /\ r < place' <=> r < place \/ r = place
                       /\ r >= place' <=> r >= place /\ r # place
  BY <1>1 DEF BatchTypes, Bulk!Rows
<1>4. CASE v \in DOMAIN owners
  <2>1. objs' = [objs EXCEPT ![place].xid = None] /\ owners' = owners
    BY <1>4 DEF Bulk!IdStep
  <2>2. \A r \in batch : /\ objs'[r].xid = IF r = place THEN None ELSE objs[r].xid
                         /\ objs'[r].slug = objs[r].slug
    BY <1>1, <2>1 DEF BatchTypes, Bulk!Row
  <2>3. BatchTypes'
    BY <1>1, <2>1 DEF BatchTypes, Bulk!Unique, Bulk!Row
  <2>4. v = Bulk!Wanted(place).xid
    BY <1>1 DEF IdsOwned, BatchTypes
  <2>5. owners[v] # place
    BY <1>1, <1>4 DEF IdsOwned, BatchTypes
  <2>6. \A w \in DOMAIN owners : owners[w] # place
    BY <1>1 DEF IdsOwned, BatchTypes
  <2>7. IdsOwned'
    BY <1>1, <1>2, <1>3, <1>4, <2>1, <2>2, <2>4, <2>6 DEF IdsOwned
  <2> QED
    BY <1>1, <2>2, <2>3, <2>7
<1>5. CASE v \notin DOMAIN owners
  <2>1. objs' = objs /\ owners' = IF v = None THEN owners
                                  ELSE [w \in DOMAIN owners \cup {v} |-> IF w = v THEN place ELSE owners[w]]
    BY <1>5 DEF Bulk!IdStep, Bulk!Own
  <2>2. BatchTypes'
    BY <1>1, <2>1 DEF BatchTypes, Bulk!Unique
  <2>3. v = Bulk!Wanted(place).xid
    BY <1>1 DEF IdsOwned, BatchTypes
  <2>4. IdsOwned'
    BY <1>1, <1>2, <1>3, <1>5, <2>1, <2>3 DEF IdsOwned
  <2> QED
    BY <1>1, <2>1, <2>2, <2>4
<1> QED
  BY <1>4, <1>5

\* The look for chains passes a batch exactly if it makes none.
LEMMA ChainsAreSeen ==
    ASSUME Bulk!BulkAssumption, BatchTypes
    PROVE  Bulk!MakesAChain <=>
             \E s \in Bulk!Edged :
                Bulk!HangsOffAMiddle(s) \/ (Bulk!HasChildren(s) /\ s \in Bulk!Moved)
<1>1. None \notin Bulk!Rows
  BY DEF Bulk!BulkAssumption
<1>2. \A r \in batch : r \in Bulk!Rows /\ objs[r].parent \in Bulk!Rows \cup {None}
                                   /\ objs[r].live \in BOOLEAN
  BY DEF BatchTypes, Bulk!Row
<1>3. \A r \in Bulk!Rows : table[r].parent \in Bulk!Rows \cup {None} /\ table[r].live \in BOOLEAN
  BY DEF BatchTypes, Bulk!Row
<1>4. \A r \in Bulk!Rows : Bulk!Live(r) /\ Bulk!Parent(r) # None
                            <=> r \in Bulk!Edged \/ (r \in Bulk!ActiveOutside /\ table[r].parent # None)
  BY <1>2, <1>3 DEF Bulk!Live, Bulk!Parent, Bulk!Edged, Bulk!LiveBatch, Bulk!ActiveOutside
<1>5. \A s \in Bulk!Edged : s \in batch /\ objs[s].parent \in Bulk!Rows /\ Bulk!Parent(s) = objs[s].parent
                             /\ Bulk!Live(s)
  BY <1>2 DEF Bulk!Edged, Bulk!LiveBatch, Bulk!Parent, Bulk!Live
<1>6. Bulk!Moved \subseteq batch
  BY DEF Bulk!Moved
<1>7. ASSUME Bulk!MakesAChain
      PROVE  \E s \in Bulk!Edged :
                Bulk!HangsOffAMiddle(s) \/ (Bulk!HasChildren(s) /\ s \in Bulk!Moved)
  <2>1. PICK s \in Bulk!Rows, p \in Bulk!Rows :
           Bulk!Chain(s, p) /\ (s \in Bulk!Moved \/ p \in Bulk!Moved)
    BY <1>7 DEF Bulk!MakesAChain
  <2>2. Bulk!Live(s) /\ Bulk!Live(p) /\ Bulk!Parent(s) = p /\ Bulk!Parent(p) # None
    BY <2>1 DEF Bulk!Chain
  <2>3. CASE s \in Bulk!Edged
    <3>1. objs[s].parent = p
      BY <1>5, <2>2, <2>3
    <3>2. Bulk!Chained(p)
      BY <1>4, <2>2 DEF Bulk!Chained
    <3> QED
      BY <2>1, <2>3, <3>1, <3>2 DEF Bulk!HangsOffAMiddle
  <2>4. CASE s \in Bulk!ActiveOutside
    <3>1. s \notin Bulk!Moved
      BY <1>6, <2>4 DEF Bulk!ActiveOutside
    <3>2. p \in Bulk!Edged
      BY <1>4, <1>6, <2>1, <2>2, <3>1 DEF Bulk!ActiveOutside
    <3>3. table[s].parent = p
      BY <2>2, <2>4 DEF Bulk!ActiveOutside, Bulk!Parent
    <3> QED
      BY <2>1, <2>4, <3>1, <3>2, <3>3 DEF Bulk!HasChildren
  <2> QED
    BY <1>1, <1>4, <2>2, <2>3, <2>4
<1>8. ASSUME NEW s \in Bulk!Edged,
             Bulk!HangsOffAMiddle(s) \/ (Bulk!HasChildren(s) /\ s \in Bulk!Moved)
      PROVE  Bulk!MakesAChain
  <2>1. CASE Bulk!HangsOffAMiddle(s)
    <3> DEFINE p == objs[s].parent
    <3>1. Bulk!Chained(p) /\ (s \in Bulk!Moved \/ p \in Bulk!Moved)
      BY <2>1 DEF Bulk!HangsOffAMiddle
    <3>2. s \in Bulk!Rows /\ p \in Bulk!Rows /\ Bulk!Live(s) /\ Bulk!Parent(s) = p
      BY <1>2, <1>5
    <3>3. Bulk!Live(p) /\ Bulk!Parent(p) # None
      BY <1>4, <3>1, <3>2 DEF Bulk!Chained
    <3> QED
      BY <3>1, <3>2, <3>3 DEF Bulk!MakesAChain, Bulk!Chain
  <2>2. CASE Bulk!HasChildren(s) /\ s \in Bulk!Moved
    <3>1. PICK c \in Bulk!ActiveOutside : table[c].parent = s
      BY <2>2 DEF Bulk!HasChildren
    <3>2. s \in Bulk!Rows /\ Bulk!Live(s) /\ Bulk!Parent(s) # None
      BY <1>1, <1>2, <1>5
    <3>3. c \in Bulk!Rows /\ Bulk!Live(c) /\ Bulk!Parent(c) = s
      BY <3>1 DEF Bulk!ActiveOutside, Bulk!Live, Bulk!Parent
    <3> QED
      BY <2>2, <3>2, <3>3 DEF Bulk!MakesAChain, Bulk!Chain
  <2> QED
    BY <1>8, <2>1, <2>2
<1> QED
  BY <1>7, <1>8

\* What the conjuncts of BatchesKeepOwners read is decided in the pass before.
LEMMA SlugsSettle ==
    ASSUME Bulk!BulkAssumption, BatchTypes, SlugsOwned, place > Count
    PROVE  \A r \in batch : Keeps(r) => {q \in batch : objs[q].slug = table[r].slug} = {r}
<1>1. \A r \in batch : r < place
  BY DEF BatchTypes, Bulk!Rows, Bulk!BulkAssumption
<1>2. \A p, q \in batch : table[p].slug = table[q].slug => p = q
  BY DEF BatchTypes, Bulk!Unique, Bulk!BulkAssumption, Bulk!Row
<1>3. ASSUME NEW r \in batch, Keeps(r), NEW q \in batch, objs[q].slug = table[r].slug
      PROVE  q = r
  BY <1>1, <1>2, <1>3 DEF SlugsOwned
<1> QED
  BY <1>3 DEF SlugsOwned

LEMMA IdsSettle ==
    ASSUME Bulk!BulkAssumption, BatchTypes, IdsOwned, place > Count
    PROVE  \A v \in ExternalIds :
              (\E r \in batch : Bulk!Wanted(r).xid = v) =>
                 \E r \in batch : {q \in batch : objs[q].xid = v} = {r}
<1> SUFFICES ASSUME NEW v \in ExternalIds, NEW r \in batch, Bulk!Wanted(r).xid = v
             PROVE  \E o \in batch : {q \in batch : objs[q].xid = v} = {o}
  OBVIOUS
<1>1. \A q \in batch : q < place
  BY DEF BatchTypes, Bulk!Rows, Bulk!BulkAssumption
<1>2. v # None
  BY DEF Bulk!BulkAssumption
<1>3. v \in DOMAIN owners /\ owners[v] \in batch /\ objs[owners[v]].xid = v
  BY <1>1, <1>2 DEF IdsOwned
<1>4. {q \in batch : objs[q].xid = v} = {owners[v]}
  BY <1>1, <1>2, <1>3 DEF IdsOwned
<1> QED
  BY <1>3, <1>4

LEMMA BatchInit == ASSUME Bulk!BulkAssumption, AnyBatch PROVE BatchInv
<1>1. BatchTypes
  BY DEF AnyBatch, BatchTypes, BatchStages, Bulk!Applied, Bulk!Row, Bulk!Wins
<1>2. SlugsOwned
  BY DEF AnyBatch, SlugsOwned, Bulk!Wanted, Bulk!Applied, Keeps, Bulk!Rows, Bulk!BulkAssumption
<1> QED
  BY <1>1, <1>2 DEF AnyBatch, BatchInv, Bulk!BatchesKeepOwners, Bulk!PreserversKeepTheirSlug,
     Bulk!ClaimedIdsHaveOneOwner, Bulk!NoBatchMakesAChain, Bulk!StandingChainsStopNothing

LEMMA BatchStep ==
    ASSUME Bulk!BulkAssumption, BatchInv, [Bulk!Next]_bulkVars
    PROVE  BatchInv'
<1> USE DEF BatchInv
<1>1. CASE UNCHANGED bulkVars
  BY <1>1 DEF bulkVars, BatchTypes, SlugsOwned, IdsOwned, Keeps, Bulk!BatchesKeepOwners,
     Bulk!PreserversKeepTheirSlug, Bulk!ClaimedIdsHaveOneOwner, Bulk!NoBatchMakesAChain,
     Bulk!StandingChainsStopNothing, Bulk!Wanted, Bulk!Applied, Bulk!Unique, Bulk!MakesAChain,
     Bulk!Chain, Bulk!Live, Bulk!Parent, Bulk!Moved
<1>2. CASE Bulk!SlugStep
  <2>1. BatchTypes' /\ SlugsOwned' /\ stage' = "slugs"
    BY <1>2, SlugStepOwns DEF Bulk!SlugStep
  <2> QED
    BY <2>1 DEF Bulk!BatchesKeepOwners, Bulk!PreserversKeepTheirSlug,
       Bulk!ClaimedIdsHaveOneOwner, Bulk!NoBatchMakesAChain, Bulk!StandingChainsStopNothing
<1>3. CASE Bulk!IdStep
  <2>1. /\ BatchTypes' /\ IdsOwned' /\ stage' = "ids" /\ stage = "ids"
        /\ \A r \in batch : objs'[r].slug = objs[r].slug
    BY <1>3, IdStepOwns DEF Bulk!IdStep
  <2>2. UNCHANGED <<table, wins, batch>>
    BY <1>3 DEF Bulk!IdStep
  <2>3. Bulk!PreserversKeepTheirSlug'
    BY <2>1, <2>2 DEF Bulk!BatchesKeepOwners, Bulk!PreserversKeepTheirSlug, Bulk!Wanted, Bulk!Applied
  <2> QED
    BY <2>1, <2>3 DEF Bulk!BatchesKeepOwners, Bulk!ClaimedIdsHaveOneOwner,
       Bulk!NoBatchMakesAChain, Bulk!StandingChainsStopNothing
<1>4. ASSUME NEW from \in {"slugs", "ids"}, NEW to, place <= Count, stage = from,
             place' = place + 1, place \notin batch,
             UNCHANGED <<table, wins, batch, objs, owners, stage>>
      PROVE  BatchInv'
  <2>1. \A r \in batch : /\ r < place' <=> r < place
                         /\ r >= place' <=> r >= place
    BY <1>4 DEF BatchTypes, Bulk!Rows, Bulk!BulkAssumption
  <2>2. BatchTypes'
    BY <1>4 DEF BatchTypes, Bulk!Unique
  <2>3. stage = "slugs" => SlugsOwned'
    BY <1>4, <2>1 DEF SlugsOwned, Keeps, Bulk!Wanted, Bulk!Applied
  <2>4. stage = "ids" => IdsOwned'
    BY <1>4, <2>1 DEF IdsOwned, Bulk!Wanted, Bulk!Applied
  <2>5. Bulk!BatchesKeepOwners'
    BY <1>4 DEF Bulk!BatchesKeepOwners, Bulk!PreserversKeepTheirSlug, Bulk!Wanted, Bulk!Applied,
       Bulk!ClaimedIdsHaveOneOwner, Bulk!NoBatchMakesAChain, Bulk!StandingChainsStopNothing
  <2> QED
    BY <1>4, <2>2, <2>3, <2>4, <2>5
<1>5. CASE Bulk!Pass("slugs", "ids") /\ place > Count
  <2>1. /\ stage = "slugs" /\ stage' = "ids" /\ place' = 1 /\ owners' = [v \in {} |-> None]
        /\ UNCHANGED <<table, wins, batch, objs>>
    BY <1>5 DEF Bulk!Pass, BatchTypes, Bulk!BulkAssumption
  <2>2. BatchTypes'
    BY <2>1 DEF BatchTypes, BatchStages, Bulk!Unique
  <2>3. \A r \in batch : ~(r < 1)
    BY <2>1 DEF BatchTypes, Bulk!Rows, Bulk!BulkAssumption
  <2>4. IdsOwned'
    BY <2>1, <2>3 DEF IdsOwned, SlugsOwned, Bulk!Wanted, Bulk!Applied
  <2>5. Bulk!PreserversKeepTheirSlug'
    BY <1>5, <2>1, SlugsSettle DEF Bulk!PreserversKeepTheirSlug, Keeps, Bulk!Wanted, Bulk!Applied
  <2> QED
    BY <2>1, <2>2, <2>4, <2>5 DEF Bulk!BatchesKeepOwners, Bulk!ClaimedIdsHaveOneOwner,
       Bulk!NoBatchMakesAChain, Bulk!StandingChainsStopNothing
<1>6. CASE Bulk!Pass("ids", "chains") /\ place > Count
  <2>1. /\ stage = "ids" /\ stage' = "chains" /\ place' = 1
        /\ UNCHANGED <<table, wins, batch, objs>>
    BY <1>6 DEF Bulk!Pass, BatchTypes, Bulk!BulkAssumption
  <2>2. BatchTypes'
    BY <2>1 DEF BatchTypes, BatchStages, Bulk!Unique
  <2>3. Bulk!ClaimedIdsHaveOneOwner'
    BY <1>6, <2>1, IdsSettle DEF Bulk!ClaimedIdsHaveOneOwner, Bulk!Wanted, Bulk!Applied
  <2> QED
    BY <2>1, <2>2, <2>3 DEF Bulk!BatchesKeepOwners, Bulk!PreserversKeepTheirSlug,
       Bulk!NoBatchMakesAChain, Bulk!StandingChainsStopNothing
<1>7. CASE Bulk!CheckChains
  <2>1. stage = "chains" /\ UNCHANGED <<table, wins, batch, objs, owners, place>>
    BY <1>7 DEF Bulk!CheckChains
  <2>2. stage' = IF Bulk!MakesAChain THEN "refused" ELSE "write"
    BY <1>7, ChainsAreSeen DEF Bulk!CheckChains
  <2>3. BatchTypes'
    BY <2>1, <2>2 DEF BatchTypes, BatchStages, Bulk!Unique
  <2>4. Bulk!MakesAChain' = Bulk!MakesAChain
    BY <2>1 DEF Bulk!MakesAChain, Bulk!Chain, Bulk!Live, Bulk!Parent, Bulk!Moved
  <2>5. Bulk!ClaimedIdsHaveOneOwner'
    BY <2>1 DEF Bulk!BatchesKeepOwners, Bulk!ClaimedIdsHaveOneOwner, Bulk!Wanted, Bulk!Applied
  <2> QED
    BY <2>2, <2>3, <2>4, <2>5 DEF Bulk!BatchesKeepOwners, Bulk!PreserversKeepTheirSlug,
       Bulk!NoBatchMakesAChain, Bulk!StandingChainsStopNothing
<1>8. CASE Bulk!Write
  <2>1. /\ stage' \in {"done", "failed"} /\ UNCHANGED <<wins, batch, objs, owners, place>>
        /\ table' = table \/ (stage' = "done" /\ table' = Bulk!Written(batch))
    BY <1>8 DEF Bulk!Write
  <2> QED
    BY <2>1 DEF Bulk!BatchesKeepOwners, Bulk!PreserversKeepTheirSlug,
       Bulk!ClaimedIdsHaveOneOwner, Bulk!NoBatchMakesAChain, Bulk!StandingChainsStopNothing
<1>9. CASE Bulk!Pass("slugs", "ids") /\ ~(place > Count)
  BY <1>4, <1>9 DEF Bulk!Pass
<1>10. CASE Bulk!Pass("ids", "chains") /\ ~(place > Count)
  BY <1>4, <1>10 DEF Bulk!Pass
<1> QED
  BY <1>1, <1>2, <1>3, <1>5, <1>6, <1>7, <1>8, <1>9, <1>10 DEF Bulk!Next

\* Whatever the table holds and the batch claims, of all columns at once: a row
\* whose slug no claim changes keeps it for itself, a contested external id ends
\* on one row, and a batch is refused exactly when it would make a chain of live
\* rows (_resolve_bulk).
THEOREM BatchesAreFair ==
    Bulk!BulkAssumption /\ AnyBatchSpec => []Bulk!BatchesKeepOwners
<1>1. Bulk!BulkAssumption /\ AnyBatch => BatchInv
  BY BatchInit
<1>2. Bulk!BulkAssumption /\ BatchInv /\ [Bulk!Next]_bulkVars => BatchInv'
  BY BatchStep
<1>3. BatchInv => Bulk!BatchesKeepOwners
  BY DEF BatchInv
<1>4. CASE Bulk!BulkAssumption
  BY <1>1, <1>2, <1>3, <1>4, PTL DEF AnyBatchSpec
<1>5. CASE ~Bulk!BulkAssumption
  BY <1>5
<1> QED
  BY <1>4, <1>5

\* The batches that the run resolves, one column at a time, are among them.
COROLLARY SpecBatchesAreFair ==
    Bulk!BulkAssumption /\ Bulk!Spec => []Bulk!BatchesKeepOwners
<1>1. ASSUME Bulk!BulkAssumption, Bulk!Init PROVE AnyBatch
  <2>1. /\ Bulk!StoredSlug \in [Bulk!Rows -> Slugs]
        /\ \A p, q \in Bulk!Rows : Bulk!StoredSlug[p] = Bulk!StoredSlug[q] => p = q
    BY <1>1 DEF Bulk!BulkAssumption, Bulk!StoredSlug
  <2>2. table \in Bulk!StoredTables
    BY <1>1 DEF Bulk!Init
  <2>3. PICK xid \in [Bulk!Rows -> ExternalIds \cup {None}],
             parent \in [Bulk!Rows -> Bulk!Rows \cup {None}],
             live \in [Bulk!Rows -> BOOLEAN] :
               table = [r \in Bulk!Rows |-> [slug |-> Bulk!StoredSlug[r], xid |-> xid[r],
                                             parent |-> parent[r], live |-> live[r]]]
    BY <2>2 DEF Bulk!StoredTables
  <2>4. table \in [Bulk!Rows -> Bulk!Row] /\ \A r \in Bulk!Rows : table[r].slug = Bulk!StoredSlug[r]
    BY <2>1, <2>3 DEF Bulk!Row
  <2>5. Bulk!Unique(table, "slug")
    BY <2>1, <2>4 DEF Bulk!Unique
  <2>6. \/ \E s \in [batch -> Slugs \cup {None}] : wins = [r \in batch |-> [Bulk!Unclaimed EXCEPT !.slug = s[r]]]
        \/ \E x \in [batch -> ExternalIds \cup {None, Cleared}] : wins = [r \in batch |-> [Bulk!Unclaimed EXCEPT !.xid = x[r]]]
        \/ \E p \in [batch -> Bulk!Rows \cup {None}], l \in [batch -> BOOLEAN] :
              wins = [r \in batch |-> [Bulk!Unclaimed EXCEPT !.parent = p[r], !.live = l[r]]]
    BY <1>1 DEF Bulk!Init
  <2>7. wins \in [batch -> Bulk!Wins]
    <3>1. \A r \in batch : wins[r] \in Bulk!Wins
      <4>1. ASSUME NEW s \in [batch -> Slugs \cup {None}], NEW r \in batch,
                   wins = [q \in batch |-> [Bulk!Unclaimed EXCEPT !.slug = s[q]]]
            PROVE  wins[r] \in Bulk!Wins
        BY <4>1 DEF Bulk!Unclaimed, Bulk!Wins
      <4>2. ASSUME NEW x \in [batch -> ExternalIds \cup {None, Cleared}], NEW r \in batch,
                   wins = [q \in batch |-> [Bulk!Unclaimed EXCEPT !.xid = x[q]]]
            PROVE  wins[r] \in Bulk!Wins
        BY <4>2 DEF Bulk!Unclaimed, Bulk!Wins
      <4>3. ASSUME NEW p \in [batch -> Bulk!Rows \cup {None}], NEW l \in [batch -> BOOLEAN],
                   NEW r \in batch,
                   wins = [q \in batch |-> [Bulk!Unclaimed EXCEPT !.parent = p[q], !.live = l[q]]]
            PROVE  wins[r] \in Bulk!Wins
        BY <4>3 DEF Bulk!Unclaimed, Bulk!Wins
      <4> QED
        BY <2>6, <4>1, <4>2, <4>3
    <3>2. wins = [r \in batch |-> wins[r]]
      BY <2>6
    <3> QED
      BY <3>1, <3>2
  <2> QED
    BY <1>1, <2>4, <2>5, <2>7 DEF Bulk!Init, AnyBatch
<1>2. CASE Bulk!BulkAssumption
  <2>1. Bulk!Init => AnyBatch
    BY <1>1, <1>2
  <2> QED
    BY <1>2, <2>1, BatchesAreFair, PTL DEF AnyBatchSpec, Bulk!Spec, Bulk!vars, bulkVars
<1>3. CASE ~Bulk!BulkAssumption
  BY <1>3
<1> QED
  BY <1>2, <1>3

\* Whatever the interactive writes and the rows of relationships do, a batch
\* gives each unique value one owner, and an untouched row keeps its own.
COROLLARY ScenesKeepOwners == SceneSpec => []BatchesKeepOwners
<1>1. Bulk!BulkAssumption
  BY ResolutionAssumption
<1>2. SceneInit => Bulk!Init
  BY DEF SceneInit
<1>3. [SceneNext]_<<scene, boundaryVars, vars, saveVars, bulkVars>>
        => [Bulk!Next]_bulkVars
  BY DEF SceneNext, bulkVars
<1>4. Bulk!BatchesKeepOwners => BatchesKeepOwners
  BY DEF BatchesKeepOwners
<1> QED
  BY <1>1, <1>2, <1>3, <1>4, SpecBatchesAreFair, PTL DEF SceneSpec, Bulk!Spec, Bulk!vars, bulkVars
-----------------------------------------------------------------------------
(***************************************************************************)
(* Saves of relationships.  The invariant is about the table of rows (keys *)
(* and the unique constraint) and about what a request has read: as long   *)
(* as nobody has committed beside it, its winners and its rows are those   *)
(* of the database.                                                        *)
(***************************************************************************)
Chosen == [Saves!Subjects -> [Saves!Members -> [value : Saves!Values, at : Nat]]]
Listed == [pk : Nat, subject : Saves!Subjects, member : Saves!Members, payload : Saves!Values]

Planned == [pc : {"claims"}, edit : Saves!Edit, alone : BOOLEAN]
Picked == [pc : {"rows"}, edit : Saves!Edit, alone : BOOLEAN, subject : Saves!Subjects,
           at : Nat, want : Chosen]
Diffed == [pc : {"rows"}, edit : Saves!Edit, alone : BOOLEAN, subject : Saves!Subjects,
           at : Nat, want : Chosen, have : SUBSET Listed]

SaveTyped ==
    /\ kind \in Kinds
    /\ chosen \in Chosen /\ listed \subseteq Listed
    /\ listedPk \in Nat /\ clock \in Nat
    /\ saving \in [Workers -> {Saves!Idle} \cup Planned \cup Picked \cup Diffed]

\* The keys of a table of rows, and its unique constraint.
RowsApart(rs, next) ==
    /\ \A r \in rs : r.pk < next
    /\ \A r, q \in rs : r.pk = q.pk => r = q
    /\ \A r, q \in rs : r.member = q.member /\ (Saves!Shared \/ r.subject = q.subject) => r = q

\* What a request that nobody committed beside has read still is so.
Current(k) ==
    k.pc = "rows" =>
        /\ k.subject = k.edit.subject
        /\ k.alone => k.want = Saves!WithOwn(k.edit, k.at)
        /\ k.alone /\ "have" \in DOMAIN k => k.have = {r \in listed : r.subject \in Saves!Scope(k.subject)}

SaveInv == SaveTyped /\ RowsApart(listed, listedPk) /\ \A w \in Workers : Current(saving[w])

LEMMA SaveStage ==
    ASSUME SaveTyped, NEW w \in Workers
    PROVE  /\ saving[w].pc = "idle" => saving[w] = Saves!Idle
           /\ saving[w].pc = "claims" => saving[w] \in Planned
           /\ saving[w].pc = "rows" /\ "have" \notin DOMAIN saving[w] => saving[w] \in Picked
           /\ Saves!Ready(w) => saving[w] \in Diffed
<1>1. saving[w] \in {Saves!Idle} \cup Planned \cup Picked \cup Diffed
  BY DEF SaveTyped
<1>2. CASE saving[w] = Saves!Idle
  BY <1>2 DEF Saves!Idle, Saves!Ready
<1>3. CASE saving[w] \in Planned
  BY <1>3 DEF Planned, Saves!Ready
<1>4. CASE saving[w] \in Picked
  BY <1>4 DEF Picked, Saves!Ready
<1>5. CASE saving[w] \in Diffed
  BY <1>5 DEF Diffed, Saves!Ready
<1> QED
  BY <1>1, <1>2, <1>3, <1>4, <1>5

-----------------------------------------------------------------------------
\* The rows a write leaves.
After(k, ins, num) ==
    {Saves!Put(k, r) : r \in Saves!Left(k) \cup {Saves!Row(k, num, d) : d \in ins}}

LEMMA SameSize == \A S : Saves!Cardinality(S) = Cardinality(S)
  BY DEF Saves!Cardinality, Cardinality

LEMMA WriteFacts ==
    ASSUME NEW w \in Workers, Saves!Write(w)
    PROVE  /\ Saves!Ready(w) /\ UNCHANGED <<kind, saves, clock>>
           /\ chosen' = Saves!WithOwn(saving[w].edit, saving[w].at)
           /\ saving' = [Saves!Others(w) EXCEPT ![w] = Saves!Idle]
           /\ \E ins \in Saves!Inserts(Saves!Left(saving[w]), Saves!Created(saving[w])) :
                 \E num \in Saves!Numberings(ins) :
                    /\ listed' = After(saving[w], ins, num)
                    /\ listedPk' = listedPk + Cardinality(ins)
<1>1. Saves!Ready(w) /\ Saves!Finish(w)
  BY DEF Saves!Write
<1>2. \E ins \in Saves!Inserts(Saves!Left(saving[w]), Saves!Created(saving[w])) :
         \E num \in Saves!Numberings(ins) :
            /\ listed' = After(saving[w], ins, num)
            /\ listedPk' = listedPk + Cardinality(ins)
  BY SameSize DEF Saves!Write, After
<1> QED
  BY <1>1, <1>2 DEF Saves!Finish

\* A row of the members a request wants, as the request makes it.
LEMMA PutFacts ==
    ASSUME SaveTyped, NEW k \in Diffed, NEW r \in Listed
    PROVE  /\ Saves!Put(k, r) \in Listed
           /\ Saves!Put(k, r).pk = r.pk /\ Saves!Put(k, r).subject = r.subject /\ Saves!Put(k, r).member = r.member
           /\ r.payload = k.want[r.subject][r.member].value \/ (\E q \in Saves!Updated(k) : q.pk = r.pk)
                 => Saves!Put(k, r).payload = k.want[r.subject][r.member].value
<1>1. k.want \in Chosen /\ r.subject \in Saves!Subjects /\ r.member \in Saves!Members
  BY DEF Diffed, Listed
<1>2. k.want[r.subject][r.member] \in [value : Saves!Values, at : Nat]
  BY <1>1 DEF Chosen
<1>3. k.want[r.subject][r.member].value \in Saves!Values
  BY <1>2
<1> QED
  BY <1>3 DEF Saves!Put, Listed

\* A set of one kind that has one element is that element.
LEMMA JustOne ==
    ASSUME NEW S, IsFiniteSet(S), Saves!Cardinality(S) = 1
    PROVE  \E x : S = {x}
  BY SameSize, FS_Singleton

\* What is inserted is wanted, finite, and clashes with nothing; what is not
\* inserted of what is to be created clashes with a row or with what is.
LEMMA InsertFacts ==
    ASSUME SaveTyped, Saves!KindsAssumption, NEW k \in Diffed,
           NEW ins \in Saves!Inserts(Saves!Left(k), Saves!Created(k))
    PROVE  /\ ins \subseteq Saves!Desired(k.want, Saves!Scope(k.subject))
           /\ ins \subseteq Saves!Subjects \X Saves!Members
           /\ IsFiniteSet(ins) /\ Cardinality(ins) \in Nat
           /\ \A d \in ins : ~Saves!Clash(Saves!Left(k), d)
           /\ \A d, e \in ins : d[2] = e[2] /\ (Saves!Shared \/ d[1] = e[1]) => d = e
           /\ \A d \in Saves!Created(k) : ~Saves!Clash(Saves!Left(k), d) =>
                 \E p \in ins : p[2] = d[2] /\ (Saves!Shared \/ p[1] = d[1])
<1> DEFINE free == {d \in Saves!Created(k) : ~Saves!Clash(Saves!Left(k), d)}
           Beside(d) == {p \in ins : p[2] = d[2] /\ (Saves!Shared \/ p[1] = d[1])}
<1>1. ins \subseteq free /\ \A d \in free : Saves!Cardinality(Beside(d)) = 1
  BY DEF Saves!Inserts
<1>2. Saves!Scope(k.subject) \subseteq Saves!Subjects
  BY DEF Saves!Scope, Diffed
<1>3. /\ Saves!Created(k) \subseteq Saves!Desired(k.want, Saves!Scope(k.subject))
      /\ Saves!Created(k) \subseteq Saves!Subjects \X Saves!Members
  BY <1>2 DEF Saves!Created, Saves!Desired
<1>4. ins \subseteq Saves!Subjects \X Saves!Members
  BY <1>1, <1>3
<1>5. IsFiniteSet(Saves!Subjects) /\ IsFiniteSet(Saves!Members)
  BY DEF SaveTyped, Saves!KindsAssumption, Saves!Subjects, Saves!Members, Saves!IsFiniteSet, IsFiniteSet
<1>6. IsFiniteSet(Saves!Subjects \X Saves!Members)
  BY <1>5, FS_Product
<1>7. IsFiniteSet(ins) /\ Cardinality(ins) \in Nat
  BY <1>4, <1>6, FS_Subset, FS_CardinalityType
<1>8. ASSUME NEW d \in free PROVE \E x : Beside(d) = {x}
  <2>1. Beside(d) \in SUBSET ins
    OBVIOUS
  <2>2. IsFiniteSet(Beside(d))
    BY <1>7, <2>1, FS_Subset
  <2> HIDE DEF Beside
  <2> QED
    BY <1>1, <2>2, JustOne
<1>9. ASSUME NEW d \in ins, NEW e \in ins, d[2] = e[2] /\ (Saves!Shared \/ d[1] = e[1])
      PROVE  d = e
  <2>1. d \in Beside(d) /\ e \in Beside(d)
    BY <1>9
  <2> QED
    BY <1>1, <1>8, <2>1
<1>10. ASSUME NEW d \in free PROVE \E p \in ins : p[2] = d[2] /\ (Saves!Shared \/ p[1] = d[1])
  BY <1>8
<1> QED
  BY <1>1, <1>3, <1>4, <1>7, <1>9, <1>10

LEMMA RowFacts ==
    ASSUME SaveTyped, NEW k \in Diffed, NEW ins, ins \subseteq Saves!Subjects \X Saves!Members,
           Cardinality(ins) \in Nat, NEW num \in Saves!Numberings(ins), NEW d \in ins
    PROVE  /\ Saves!Row(k, num, d) \in Listed
           /\ Saves!Row(k, num, d).pk = num[d]
           /\ Saves!Row(k, num, d).subject = d[1] /\ Saves!Row(k, num, d).member = d[2]
           /\ Saves!Row(k, num, d).payload = k.want[d[1]][d[2]].value
           /\ listedPk <= num[d] /\ num[d] < listedPk + Cardinality(ins)
           /\ \A e \in ins : num[e] = num[d] => e = d
<1>1. /\ num \in [ins -> listedPk .. listedPk + Cardinality(ins) - 1]
      /\ \A e \in ins : num[e] = num[d] => e = d
  BY SameSize DEF Saves!Numberings
<1>2. num[d] \in Nat /\ listedPk <= num[d] /\ num[d] < listedPk + Cardinality(ins)
  BY <1>1 DEF SaveTyped
<1>3. d[1] \in Saves!Subjects /\ d[2] \in Saves!Members
  OBVIOUS
<1>4. k.want \in Chosen
  BY DEF Diffed
<1>5. k.want[d[1]][d[2]] \in [value : Saves!Values, at : Nat]
  BY <1>3, <1>4 DEF Chosen
<1>6. k.want[d[1]][d[2]].value \in Saves!Values
  BY <1>5
<1> QED
  BY <1>1, <1>2, <1>3, <1>6 DEF Saves!Row, Listed

\* Whatever else has committed, a write keeps the table's keys apart.
LEMMA AfterApart ==
    ASSUME SaveTyped, RowsApart(listed, listedPk), Saves!KindsAssumption, NEW k \in Diffed,
           NEW ins \in Saves!Inserts(Saves!Left(k), Saves!Created(k)),
           NEW num \in Saves!Numberings(ins)
    PROVE  /\ After(k, ins, num) \subseteq Listed
           /\ RowsApart(After(k, ins, num), listedPk + Cardinality(ins))
<1> DEFINE made == {Saves!Row(k, num, d) : d \in ins}
           all == Saves!Left(k) \cup made
           next == listedPk + Cardinality(ins)
<1>1. /\ ins \subseteq Saves!Subjects \X Saves!Members /\ Cardinality(ins) \in Nat
      /\ \A d \in ins : ~Saves!Clash(Saves!Left(k), d)
      /\ \A d, e \in ins : d[2] = e[2] /\ (Saves!Shared \/ d[1] = e[1]) => d = e
  BY InsertFacts
<1>2. Saves!Left(k) \subseteq listed /\ listed \subseteq Listed
  BY DEF Saves!Left, SaveTyped
<1>3. \A d \in ins :
         /\ Saves!Row(k, num, d) \in Listed /\ Saves!Row(k, num, d).pk = num[d]
         /\ Saves!Row(k, num, d).subject = d[1] /\ Saves!Row(k, num, d).member = d[2]
         /\ listedPk <= num[d] /\ num[d] < next /\ \A e \in ins : num[e] = num[d] => e = d
  BY <1>1, RowFacts
<1>4. \A r \in all : r \in Listed
  BY <1>2, <1>3
<1>5. listedPk \in Nat /\ next \in Nat /\ \A r \in all : r.pk \in Nat
  BY <1>1, <1>4 DEF SaveTyped, Listed
<1>6. \A r \in Saves!Left(k) : r.pk < listedPk
  BY <1>2 DEF RowsApart
<1>7. ASSUME NEW r \in all PROVE r.pk < next
  <2>1. CASE r \in Saves!Left(k)
    BY <1>1, <1>5, <1>6, <2>1
  <2>2. CASE r \in made
    BY <1>3, <2>2
  <2> QED
    BY <2>1, <2>2
<1>8. ASSUME NEW r \in all, NEW q \in all, r.pk = q.pk PROVE r = q
  <2>1. CASE r \in Saves!Left(k) /\ q \in Saves!Left(k)
    BY <1>2, <1>8, <2>1 DEF RowsApart
  <2>2. CASE r \in made /\ q \in made
    BY <1>3, <1>8, <2>2
  <2>3. ASSUME NEW x \in Saves!Left(k), NEW y \in made, x.pk = y.pk PROVE FALSE
    <3>1. PICK d \in ins : y = Saves!Row(k, num, d)
      OBVIOUS
    <3>2. x.pk < listedPk /\ x.pk \in Nat /\ listedPk <= y.pk
      BY <1>3, <1>5, <1>6, <3>1
    <3> QED
      BY <1>5, <2>3, <3>2
  <2> QED
    BY <1>8, <2>1, <2>2, <2>3
<1>9. ASSUME NEW r \in all, NEW q \in all,
             r.member = q.member /\ (Saves!Shared \/ r.subject = q.subject)
      PROVE  r = q
  <2>1. CASE r \in Saves!Left(k) /\ q \in Saves!Left(k)
    BY <1>2, <1>9, <2>1 DEF RowsApart
  <2>2. CASE r \in made /\ q \in made
    <3>1. PICK d \in ins, e \in ins : r = Saves!Row(k, num, d) /\ q = Saves!Row(k, num, e)
      BY <2>2
    <3> QED
      BY <1>1, <1>3, <1>9, <3>1
  <2>3. ASSUME NEW x \in Saves!Left(k), NEW y \in made,
               x.member = y.member /\ (Saves!Shared \/ x.subject = y.subject)
        PROVE  FALSE
    <3>1. PICK d \in ins : y = Saves!Row(k, num, d)
      OBVIOUS
    <3>2. Saves!Clash(Saves!Left(k), d)
      BY <1>3, <2>3, <3>1 DEF Saves!Clash
    <3> QED
      BY <1>1, <3>2
  <2> QED
    BY <1>9, <2>1, <2>2, <2>3
<1> HIDE DEF all, next
<1>10. \A r \in all :
          /\ Saves!Put(k, r) \in Listed /\ Saves!Put(k, r).pk = r.pk
          /\ Saves!Put(k, r).subject = r.subject /\ Saves!Put(k, r).member = r.member
  BY <1>4, PutFacts
<1>11. \A p \in After(k, ins, num) : \E r \in all : p = Saves!Put(k, r)
  BY DEF After, all
<1>12. After(k, ins, num) \subseteq Listed
  BY <1>10, <1>11
<1>13. \A p \in After(k, ins, num) : p.pk < next
  BY <1>7, <1>10, <1>11
<1>14. \A p, q \in After(k, ins, num) : p.pk = q.pk => p = q
  BY <1>8, <1>10, <1>11
<1>15. \A p, q \in After(k, ins, num) :
          p.member = q.member /\ (Saves!Shared \/ p.subject = q.subject) => p = q
  BY <1>9, <1>10, <1>11
<1> QED
  BY <1>12, <1>13, <1>14, <1>15 DEF RowsApart, next

\* A write whose request has read the table as it is leaves, of what it covers,
\* what it wants; rows that are wanted keep their keys.
LEMMA AfterConverges ==
    ASSUME SaveTyped, RowsApart(listed, listedPk), Saves!KindsAssumption, NEW k \in Diffed,
           k.have = {r \in listed : r.subject \in Saves!Scope(k.subject)},
           NEW ins \in Saves!Inserts(Saves!Left(k), Saves!Created(k)),
           NEW num \in Saves!Numberings(ins)
    PROVE  /\ \A p \in After(k, ins, num) : p.subject \in Saves!Scope(k.subject) =>
                  /\ <<p.subject, p.member>> \in Saves!Desired(k.want, Saves!Scope(k.subject))
                  /\ p.payload = k.want[p.subject][p.member].value
           /\ \A d \in Saves!Desired(k.want, Saves!Scope(k.subject)) :
                 \E p \in After(k, ins, num) : p.member = d[2] /\ (Saves!Shared \/ p.subject = d[1])
           /\ \A r \in listed :
                 (r.subject \in Saves!Scope(k.subject) =>
                    <<r.subject, r.member>> \in Saves!Desired(k.want, Saves!Scope(k.subject)))
                 => \E p \in After(k, ins, num) :
                       p.pk = r.pk /\ p.subject = r.subject /\ p.member = r.member
<1> DEFINE scope == Saves!Scope(k.subject)
           D == Saves!Desired(k.want, scope)
           made == {Saves!Row(k, num, d) : d \in ins}
           all == Saves!Left(k) \cup made
<1>1. /\ ins \subseteq D /\ ins \subseteq Saves!Subjects \X Saves!Members
      /\ Cardinality(ins) \in Nat
      /\ \A d \in Saves!Created(k) : ~Saves!Clash(Saves!Left(k), d) =>
            \E p \in ins : p[2] = d[2] /\ (Saves!Shared \/ p[1] = d[1])
  BY InsertFacts
<1>2. Saves!Left(k) \subseteq listed /\ listed \subseteq Listed
  BY DEF Saves!Left, SaveTyped
<1>3. \A d \in ins :
         /\ Saves!Row(k, num, d) \in Listed
         /\ Saves!Row(k, num, d).subject = d[1] /\ Saves!Row(k, num, d).member = d[2]
         /\ Saves!Row(k, num, d).payload = k.want[d[1]][d[2]].value
  BY <1>1, RowFacts
<1>4. \A r \in all : /\ r \in Listed /\ Saves!Put(k, r) \in After(k, ins, num)
                     /\ Saves!Put(k, r).pk = r.pk
                     /\ Saves!Put(k, r).subject = r.subject /\ Saves!Put(k, r).member = r.member
  BY <1>2, <1>3, PutFacts DEF After
<1>5. \A p \in After(k, ins, num) : \E r \in all : p = Saves!Put(k, r)
  BY DEF After
<1>6. \A r \in Saves!Left(k) : r.subject \in scope => r \in k.have \ Saves!Deleted(k)
  BY DEF Saves!Left
<1>7. ASSUME NEW r \in listed, r.subject \in scope => <<r.subject, r.member>> \in D
      PROVE  r \in Saves!Left(k)
  <2>1. \A q \in Saves!Deleted(k) : q \in listed /\ q.subject \in scope /\ <<q.subject, q.member>> \notin D
    BY DEF Saves!Deleted
  <2>2. \A q \in Saves!Deleted(k) : q.pk # r.pk
    BY <1>7, <2>1 DEF RowsApart
  <2> QED
    BY <2>2 DEF Saves!Left
<1> HIDE DEF D, scope
<1>8. ASSUME NEW r \in all, r.subject \in scope
      PROVE  /\ <<r.subject, r.member>> \in D
             /\ Saves!Put(k, r).payload = k.want[r.subject][r.member].value
  <2>1. CASE r \in Saves!Left(k)
    <3>1. r \in k.have \ Saves!Deleted(k)
      BY <1>6, <1>8, <2>1
    <3>2. <<r.subject, r.member>> \in D
      BY <3>1 DEF Saves!Deleted, D, scope
    <3>3. r.payload = k.want[r.subject][r.member].value \/ r \in Saves!Updated(k)
      BY <3>1 DEF Saves!Updated
    <3> QED
      BY <1>4, <3>2, <3>3, PutFacts
  <2>2. CASE r \in made
    <3>1. PICK d \in ins : r = Saves!Row(k, num, d)
      BY <2>2
    <3>2. d = <<d[1], d[2]>>
      BY <1>1
    <3> QED
      BY <1>1, <1>3, <1>4, <3>1, <3>2, PutFacts
  <2> QED
    BY <1>8, <2>1, <2>2
<1>9. ASSUME NEW d \in D
      PROVE  \E r \in all : r.member = d[2] /\ (Saves!Shared \/ r.subject = d[1])
  <2>1. CASE Saves!Clash(Saves!Left(k), d)
    BY <2>1 DEF Saves!Clash
  <2>2. CASE d \in Saves!Created(k) /\ ~Saves!Clash(Saves!Left(k), d)
    BY <1>1, <1>3, <2>2
  <2>3. CASE d \notin Saves!Created(k)
    <3>1. PICK r \in k.have \ Saves!Deleted(k) : r.subject = d[1] /\ r.member = d[2]
      BY <1>9, <2>3 DEF Saves!Created, Saves!At, D, scope
    <3>2. r \in listed /\ <<r.subject, r.member>> \in D
      BY <3>1 DEF Saves!Deleted, D, scope
    <3> QED
      BY <1>7, <3>1, <3>2
  <2> QED
    BY <2>1, <2>2, <2>3
<1> HIDE DEF all
<1>10. \A p \in After(k, ins, num) : p.subject \in scope =>
          <<p.subject, p.member>> \in D /\ p.payload = k.want[p.subject][p.member].value
  BY <1>4, <1>5, <1>8
<1>11. \A d \in D : \E p \in After(k, ins, num) : p.member = d[2] /\ (Saves!Shared \/ p.subject = d[1])
  BY <1>4, <1>9
<1>12. \A r \in listed : (r.subject \in scope => <<r.subject, r.member>> \in D) =>
          \E p \in After(k, ins, num) : p.pk = r.pk /\ p.subject = r.subject /\ p.member = r.member
  BY <1>4, <1>7 DEF all
<1> QED
  BY <1>10, <1>11, <1>12 DEF D, scope

-----------------------------------------------------------------------------
\* A request's own claims beside the others'.
LEMMA OwnFacts ==
    ASSUME chosen \in Chosen, NEW e \in Saves!Edit, NEW at \in Nat
    PROVE  /\ Saves!WithOwn(e, at) \in Chosen
           /\ \A m \in Saves!Members : m \notin Saves!Edited(e) =>
                 Saves!WithOwn(e, at)[e.subject][m] = chosen[e.subject][m]
<1> DEFINE mine == [m \in Saves!Members |->
                      IF m \in Saves!Edited(e) /\ chosen[e.subject][m].at < at
                      THEN [value |-> e.form[m], at |-> at] ELSE chosen[e.subject][m]]
<1>1. /\ e.subject \in Saves!Subjects
      /\ \A m \in Saves!Members : e.form[m] \in Saves!Values
  BY DEF Saves!Edit, Saves!Form
<1>2. chosen[e.subject] \in [Saves!Members -> [value : Saves!Values, at : Nat]]
  BY <1>1 DEF Chosen
<1>3. mine \in [Saves!Members -> [value : Saves!Values, at : Nat]]
  BY <1>1, <1>2
<1>4. Saves!WithOwn(e, at) = [chosen EXCEPT ![e.subject] = mine]
  BY DEF Saves!WithOwn
<1>5. \A m \in Saves!Members : m \notin Saves!Edited(e) => mine[m] = chosen[e.subject][m]
  OBVIOUS
<1> HIDE DEF mine
<1> QED
  BY <1>1, <1>3, <1>4, <1>5 DEF Chosen

LEMMA ShownFacts ==
    ASSUME SaveTyped, NEW s
    PROVE  Saves!Shown(listed, s) \in Saves!Form
<1> SUFFICES ASSUME NEW m \in Saves!Members,
                    \E r \in listed : r.subject = s /\ r.member = m
             PROVE  (CHOOSE r \in listed : r.subject = s /\ r.member = m).payload \in Saves!Values
  BY DEF Saves!Shown, Saves!Form, Saves!Values
<1> QED
  BY DEF SaveTyped, Listed

\* The first rows are numbered apart, and no two of them contest a member.
LEMMA SavesStart == Saves!KindsAssumption /\ Saves!Init => SaveInv
<1> SUFFICES ASSUME Saves!KindsAssumption, Saves!Init PROVE SaveInv
  OBVIOUS
<1> DEFINE S == Saves!Subjects \X Saves!Members
           n == Cardinality(S)
           D == Saves!Desired(chosen, Saves!Subjects)
           made(d) == [pk |-> Saves!Number[d], subject |-> d[1], member |-> d[2],
                       payload |-> chosen[d[1]][d[2]].value]
<1>1. kind \in Kinds
  BY DEF Saves!Init
<1>2. IsFiniteSet(Saves!Subjects) /\ IsFiniteSet(Saves!Members)
  BY <1>1 DEF Saves!KindsAssumption, Saves!Subjects, Saves!Members, Saves!IsFiniteSet, IsFiniteSet
<1>3. IsFiniteSet(S) /\ n \in Nat /\ ExistsBijection(1 .. n, S)
  BY <1>2, FS_Product, FS_CardinalityType
<1>4. \E f \in [S -> 1 .. n] : \A d, e \in S : d # e => f[d] # f[e]
  <2>1. ExistsBijection(S, 1 .. n)
    BY <1>3, Fun_ExistsBijSymmetric
  <2> HIDE DEF n, S
  <2> QED
    BY <2>1 DEF ExistsBijection, Bijection, Injection, IsInjective
<1>5. Saves!Number \in [S -> 1 .. n] /\ \A d, e \in S : d # e => Saves!Number[d] # Saves!Number[e]
  <2>1. Saves!Cardinality(S) = n
    BY SameSize
  <2>2. \E f \in [S -> 1 .. Saves!Cardinality(S)] : \A d, e \in S : d # e => f[d] # f[e]
    BY <1>4, <2>1
  <2>3. /\ Saves!Number \in [S -> 1 .. Saves!Cardinality(S)]
        /\ \A d, e \in S : d # e => Saves!Number[d] # Saves!Number[e]
    BY <2>2, Zenon DEF Saves!Number
  <2> QED
    BY <2>1, <2>3
<1>6. chosen \in Chosen
  BY DEF Saves!Init, Chosen
<1>7. D \subseteq S /\ \A d \in D : chosen[d[1]][d[2]].value # Absent
  BY DEF Saves!Desired
<1>8. listed = {made(d) : d \in D} /\ listedPk = n + 1 /\ clock = 1
      /\ saving = [w \in Workers |-> Saves!Idle]
  BY SameSize DEF Saves!Init
<1>9. ASSUME NEW d \in D
      PROVE  /\ made(d) \in Listed /\ made(d).pk = Saves!Number[d]
             /\ made(d).subject = d[1] /\ made(d).member = d[2]
             /\ made(d).pk \in 1 .. n
  <2>1. d[1] \in Saves!Subjects /\ d[2] \in Saves!Members
    BY <1>7
  <2>2. chosen[d[1]][d[2]] \in [value : Saves!Values, at : Nat]
    BY <1>6, <2>1 DEF Chosen
  <2>3. chosen[d[1]][d[2]].value \in Saves!Values
    BY <2>2
  <2>4. Saves!Number[d] \in 1 .. n
    BY <1>5, <1>7
  <2> HIDE DEF D, n, S
  <2> QED
    BY <1>3, <2>1, <2>3, <2>4 DEF Listed
<1>10. ASSUME Saves!Shared, NEW d \in D, NEW e \in D, d[2] = e[2] PROVE d = e
  <2> DEFINE holders == {s \in Saves!Subjects : chosen[s][d[2]].value # Absent}
  <2>1. Cardinality(holders) <= 1
    BY <1>7, <1>10, SameSize DEF Saves!Init
  <2>2. holders \in SUBSET Saves!Subjects
    OBVIOUS
  <2>3. IsFiniteSet(holders) /\ Cardinality(holders) \in Nat
    BY <1>2, <2>2, FS_Subset, FS_CardinalityType
  <2>4. d[1] \in holders /\ e[1] \in holders
    BY <1>7, <1>10
  <2> HIDE DEF holders
  <2>5. Cardinality(holders) = 1
    BY <2>1, <2>3, <2>4, FS_EmptySet
  <2>6. d[1] = e[1]
    BY <2>3, <2>4, <2>5, FS_Singleton
  <2> QED
    BY <1>7, <1>10, <2>6
<1> HIDE DEF D, n, made
<1>11. SaveTyped
  BY <1>1, <1>3, <1>6, <1>8, <1>9 DEF SaveTyped
<1>12. \A r \in listed : r.pk < listedPk
  BY <1>3, <1>8, <1>9
<1>13. \A r, q \in listed : r.pk = q.pk => r = q
  BY <1>5, <1>7, <1>8, <1>9
<1>14. \A r, q \in listed : r.member = q.member /\ (Saves!Shared \/ r.subject = q.subject) => r = q
  <2>1. \A d, e \in D : d[2] = e[2] /\ (Saves!Shared \/ d[1] = e[1]) => d = e
    BY <1>7, <1>10
  <2> QED
    BY <1>8, <1>9, <2>1
<1>15. \A w \in Workers : Current(saving[w])
  BY <1>8 DEF Current, Saves!Idle
<1> QED
  BY <1>11, <1>12, <1>13, <1>14, <1>15 DEF SaveInv, RowsApart

-----------------------------------------------------------------------------
\* What a step that writes nothing leaves as it was.
LEMMA Reads ==
    ASSUME UNCHANGED <<kind, chosen, listed, listedPk>>
    PROVE  /\ Chosen' = Chosen /\ Listed' = Listed /\ Saves!Idle' = Saves!Idle
           /\ Planned' = Planned /\ Picked' = Picked /\ Diffed' = Diffed
           /\ RowsApart(listed, listedPk) => RowsApart(listed, listedPk)'
           /\ \A x : Current(x) => Current(x)'
<1>1. Chosen' = Chosen /\ Listed' = Listed
  BY DEF Chosen, Listed, Saves!Subjects, Saves!Members, Saves!Values, Saves!Payloads
<1>2. /\ Planned' = Planned /\ Picked' = Picked /\ Diffed' = Diffed
      /\ Saves!Idle' = Saves!Idle
  BY <1>1 DEF Planned, Picked, Diffed, Saves!Edit, Saves!Form, Saves!Values, Saves!Payloads,
     Saves!Subjects, Saves!Members, Saves!Idle
<1>3. RowsApart(listed, listedPk) => RowsApart(listed, listedPk)'
  BY DEF RowsApart, Saves!Shared
<1>4. \A e, at : Saves!WithOwn(e, at)' = Saves!WithOwn(e, at)
  BY DEF Saves!WithOwn, Saves!Edited, Saves!Members
<1>5. \A s : Saves!Scope(s)' = Saves!Scope(s)
  BY DEF Saves!Scope, Saves!FullType, Saves!Subjects
<1>6. \A x : Current(x) => Current(x)'
  BY <1>4, <1>5 DEF Current
<1> QED
  BY <1>1, <1>2, <1>3, <1>6

\* A request that reads moves on; the others' reads are not affected.
LEMMA ReadsKeep ==
    ASSUME SaveInv, NEW w \in Workers, NEW k, saving' = [saving EXCEPT ![w] = k],
           k \in {Saves!Idle} \cup Planned \cup Picked \cup Diffed, Current(k),
           clock' \in Nat, UNCHANGED <<kind, chosen, listed, listedPk>>
    PROVE  SaveInv'
<1>1. SaveTyped'
  BY Reads DEF SaveInv, SaveTyped
<1>2. RowsApart(listed, listedPk)'
  BY Reads DEF SaveInv
<1>3. \A v \in Workers : saving'[v] = IF v = w THEN k ELSE saving[v]
  BY DEF SaveInv, SaveTyped
<1>4. \A v \in Workers : Current(saving[v])'
  BY <1>3, Reads DEF SaveInv
<1> QED
  BY <1>1, <1>2, <1>4 DEF SaveInv

LEMMA SavesRest == SaveInv /\ UNCHANGED saveVars => SaveInv'
<1> SUFFICES ASSUME SaveInv, UNCHANGED saveVars PROVE SaveInv'
  OBVIOUS
<1>1. UNCHANGED <<kind, chosen, listed, listedPk>> /\ clock' = clock /\ saving' = saving
  BY DEF saveVars
<1>2. SaveTyped' /\ RowsApart(listed, listedPk)'
  BY <1>1, Reads DEF SaveInv, SaveTyped
<1>3. \A w \in Workers : Current(saving[w])'
  BY <1>1, Reads DEF SaveInv
<1> QED
  BY <1>2, <1>3 DEF SaveInv

LEMMA PlanKeeps ==
    ASSUME SaveInv, NEW w \in Workers, Saves!Plan(w)
    PROVE  SaveInv'
<1>1. PICK s \in Saves!Subjects, f \in Saves!Form :
         saving' = [saving EXCEPT ![w] =
            [pc |-> "claims", edit |-> [subject |-> s, shown |-> Saves!Shown(listed, s), form |-> f],
             alone |-> TRUE]]
  BY DEF Saves!Plan
<1> DEFINE e == [subject |-> s, shown |-> Saves!Shown(listed, s), form |-> f]
           k == [pc |-> "claims", edit |-> e, alone |-> TRUE]
<1>2. e \in Saves!Edit
  BY ShownFacts DEF SaveInv, Saves!Edit
<1> HIDE DEF e
<1>3. k \in Planned /\ Current(k)
  BY <1>2 DEF Planned, Current
<1>4. saving' = [saving EXCEPT ![w] = k]
  BY <1>1 DEF e
<1>5. UNCHANGED <<kind, chosen, listed, listedPk, clock>> /\ clock \in Nat
  BY DEF Saves!Plan, SaveInv, SaveTyped
<1> HIDE DEF k
<1> QED
  BY <1>3, <1>4, <1>5, ReadsKeep

LEMMA PickKeeps ==
    ASSUME SaveInv, NEW w \in Workers, Saves!PickWinners(w)
    PROVE  SaveInv'
<1> DEFINE e == saving[w].edit
           k == [pc |-> "rows", edit |-> e, alone |-> TRUE, subject |-> e.subject,
                 at |-> clock, want |-> Saves!WithOwn(e, clock)]
<1>1. saving[w] \in Planned /\ clock \in Nat /\ chosen \in Chosen
  BY SaveStage DEF SaveInv, SaveTyped, Saves!PickWinners
<1>2. e \in Saves!Edit /\ e.subject \in Saves!Subjects
  BY <1>1 DEF Planned, Saves!Edit
<1>3. saving' = [saving EXCEPT ![w] = k] /\ clock' = clock + 1
  BY DEF Saves!PickWinners
<1>4. UNCHANGED <<kind, chosen, listed, listedPk>>
  BY DEF Saves!PickWinners
<1> HIDE DEF e
<1>5. Saves!WithOwn(e, clock) \in Chosen
  BY <1>1, <1>2, OwnFacts
<1>6. k \in Picked /\ Current(k)
  BY <1>1, <1>2, <1>5 DEF Picked, Current
<1>7. clock' \in Nat
  BY <1>1, <1>3
<1> HIDE DEF k
<1> QED
  BY <1>3, <1>4, <1>6, <1>7, ReadsKeep

LEMMA ReadKeeps ==
    ASSUME SaveInv, NEW w \in Workers, Saves!ReadRows(w)
    PROVE  SaveInv'
<1> DEFINE old == saving[w]
           seen == {r \in listed : r.subject \in Saves!Scope(old.subject)}
           k == [pc |-> "rows", edit |-> old.edit, alone |-> old.alone, subject |-> old.subject,
                 at |-> old.at, want |-> old.want, have |-> seen]
<1>1. old \in Picked /\ clock \in Nat /\ listed \subseteq Listed
  BY SaveStage DEF SaveInv, SaveTyped, Saves!ReadRows
<1>2. Current(old)
  BY DEF SaveInv
<1>3. saving' = [saving EXCEPT ![w] = k]
  BY DEF Saves!ReadRows
<1>4. UNCHANGED <<kind, chosen, listed, listedPk, clock>>
  BY DEF Saves!ReadRows
<1> HIDE DEF old
<1>5. k \in Diffed
  BY <1>1 DEF Picked, Diffed
<1>6. Current(k)
  BY <1>1, <1>2 DEF Current, Picked
<1>7. clock' \in Nat
  BY <1>1, <1>4
<1> HIDE DEF k
<1> QED
  BY <1>3, <1>4, <1>5, <1>6, <1>7, ReadsKeep

LEMMA FailKeeps ==
    ASSUME SaveInv, NEW w \in Workers, Saves!Fail(w)
    PROVE  SaveInv'
<1>1. Current(Saves!Idle)
  BY DEF Current, Saves!Idle
<1> QED
  BY <1>1, ReadsKeep DEF Saves!Fail, SaveInv, SaveTyped

\* A commit takes their solitude from all that run.
LEMMA WriteKeeps ==
    ASSUME SaveInv, Saves!KindsAssumption, NEW w \in Workers, Saves!Write(w)
    PROVE  SaveInv'
<1> DEFINE k == saving[w]
<1>1. k \in Diffed /\ chosen \in Chosen
  BY SaveStage, WriteFacts DEF SaveInv, SaveTyped
<1>2. PICK ins \in Saves!Inserts(Saves!Left(k), Saves!Created(k)) :
         \E num \in Saves!Numberings(ins) :
            /\ listed' = After(k, ins, num)
            /\ listedPk' = listedPk + Cardinality(ins)
  BY WriteFacts
<1>3. PICK num \in Saves!Numberings(ins) :
         listed' = After(k, ins, num) /\ listedPk' = listedPk + Cardinality(ins)
  BY <1>2
<1>4. /\ chosen' = Saves!WithOwn(k.edit, k.at) /\ UNCHANGED <<kind, clock>>
      /\ saving' = [Saves!Others(w) EXCEPT ![w] = Saves!Idle]
  BY WriteFacts
<1>5. /\ listed' \subseteq Listed /\ RowsApart(After(k, ins, num), listedPk + Cardinality(ins))
      /\ Cardinality(ins) \in Nat
  BY <1>1, <1>3, AfterApart, InsertFacts DEF SaveInv
<1>6. chosen' \in Chosen
  BY <1>1, <1>4, OwnFacts DEF Diffed
<1>7. Chosen' = Chosen /\ Listed' = Listed
  BY <1>4 DEF Chosen, Listed, Saves!Subjects, Saves!Members, Saves!Values, Saves!Payloads
<1>8. Planned' = Planned /\ Picked' = Picked /\ Diffed' = Diffed /\ Saves!Idle' = Saves!Idle
  BY <1>4, <1>7 DEF Planned, Picked, Diffed, Saves!Edit, Saves!Form, Saves!Values, Saves!Payloads,
     Saves!Subjects, Saves!Members, Saves!Idle
<1>9. RowsApart(listed, listedPk)'
  BY <1>3, <1>4, <1>5 DEF RowsApart, Saves!Shared
<1>10. ASSUME NEW v \in Workers, v # w
      PROVE  saving'[v] = IF saving[v].pc \in {"claims", "rows"}
                          THEN [saving[v] EXCEPT !.alone = FALSE] ELSE saving[v]
  BY <1>4, <1>10 DEF Saves!Others
<1>11. saving'[w] = Saves!Idle
  BY <1>4 DEF Saves!Others
<1>12. ASSUME NEW v \in Workers, v # w
       PROVE  /\ saving'[v] \in {Saves!Idle} \cup Planned \cup Picked \cup Diffed
              /\ saving'[v].pc = saving[v].pc
              /\ saving[v].pc = "rows" => /\ ~saving'[v].alone
                                         /\ saving'[v].subject = saving'[v].edit.subject
  <2>1. saving[v] \in {Saves!Idle} \cup Planned \cup Picked \cup Diffed /\ Current(saving[v])
    BY DEF SaveInv, SaveTyped
  <2>2. CASE saving[v] = Saves!Idle
    BY <1>10, <1>12, <2>2 DEF Saves!Idle
  <2>3. CASE saving[v] \in Planned
    BY <1>10, <1>12, <2>3 DEF Planned
  <2>4. CASE saving[v] \in Picked
    BY <1>10, <1>12, <2>1, <2>4 DEF Picked, Current
  <2>5. CASE saving[v] \in Diffed
    BY <1>10, <1>12, <2>1, <2>5 DEF Diffed, Current
  <2> QED
    BY <2>1, <2>2, <2>3, <2>4, <2>5
<1>13. saving' \in [Workers -> {Saves!Idle} \cup Planned \cup Picked \cup Diffed]
  <2>1. saving' = [v \in Workers |-> saving'[v]]
    BY <1>4 DEF Saves!Others
  <2> QED
    BY <1>11, <1>12, <2>1
<1>14. SaveTyped'
  BY <1>3, <1>4, <1>5, <1>6, <1>7, <1>8, <1>13 DEF SaveInv, SaveTyped
<1>15. \A v \in Workers : Current(saving[v])'
  BY <1>11, <1>12 DEF Current, Saves!Idle
<1> QED
  BY <1>9, <1>14, <1>15 DEF SaveInv

LEMMA SaveStep == Saves!KindsAssumption /\ SaveInv /\ Saves!Next => SaveInv'
  BY PlanKeeps, PickKeeps, ReadKeeps, WriteKeeps, FailKeeps DEF Saves!Next

-----------------------------------------------------------------------------
LEMMA CommittedWrites ==
    ASSUME SaveInv, Saves!Next, NEW w \in Workers, Saves!Committed(w)
    PROVE  Saves!Write(w)
<1>1. PICK v \in Workers : Saves!Write(v)
  BY DEF Saves!Next, Saves!Plan, Saves!PickWinners, Saves!ReadRows, Saves!Fail, Saves!Committed
<1>2. v = w
  <2> SUFFICES ASSUME v # w PROVE FALSE
    OBVIOUS
  <2>1. saving[w] \in Diffed /\ saving'[w] = Saves!Idle
    BY SaveStage DEF SaveInv, Saves!Committed
  <2>2. saving' = [Saves!Others(v) EXCEPT ![v] = Saves!Idle]
    BY <1>1, WriteFacts
  <2>3. saving'[w] = [saving[w] EXCEPT !.alone = FALSE]
    BY <2>1, <2>2 DEF Saves!Others, Diffed
  <2> QED
    BY <2>1, <2>3 DEF Diffed, Saves!Idle
<1> QED
  BY <1>1, <1>2

\* What a request that nobody committed beside writes, of rows and of claims.
LEMMA SoloWrites ==
    ASSUME SaveInv, Saves!KindsAssumption, NEW w \in Workers, Saves!Write(w), saving[w].alone
    PROVE  /\ \A s \in Saves!Scope(saving[w].subject) :
                 /\ \A r \in listed' : r.subject = s =>
                       /\ <<s, r.member>> \in Saves!Desired(chosen', {s})
                       /\ r.payload = chosen'[s][r.member].value
                 /\ \A m \in Saves!Members : <<s, m>> \in Saves!Desired(chosen', {s}) =>
                       \E r \in listed' : r.member = m /\ (Saves!Shared \/ r.subject = s)
           /\ \A r \in listed :
                 <<r.subject, r.member>> \in Saves!Desired(chosen', Saves!Subjects) =>
                    \E q \in listed' : q.pk = r.pk /\ q.subject = r.subject /\ q.member = r.member
<1> DEFINE k == saving[w]
           scope == Saves!Scope(k.subject)
<1>1. /\ k \in Diffed /\ k.want = Saves!WithOwn(k.edit, k.at)
      /\ k.have = {r \in listed : r.subject \in scope}
  BY SaveStage, WriteFacts DEF SaveInv, Current, Saves!Ready
<1>2. chosen' = k.want
  BY <1>1, WriteFacts
<1>3. PICK ins \in Saves!Inserts(Saves!Left(k), Saves!Created(k)) :
         \E num \in Saves!Numberings(ins) : listed' = After(k, ins, num)
  BY WriteFacts
<1>4. PICK num \in Saves!Numberings(ins) : listed' = After(k, ins, num)
  BY <1>3
<1>5. /\ \A p \in listed' : p.subject \in scope =>
            /\ <<p.subject, p.member>> \in Saves!Desired(chosen', scope)
            /\ p.payload = chosen'[p.subject][p.member].value
      /\ \A d \in Saves!Desired(chosen', scope) :
            \E p \in listed' : p.member = d[2] /\ (Saves!Shared \/ p.subject = d[1])
      /\ \A r \in listed :
            (r.subject \in scope => <<r.subject, r.member>> \in Saves!Desired(chosen', scope))
            => \E p \in listed' : p.pk = r.pk /\ p.subject = r.subject /\ p.member = r.member
  BY <1>1, <1>2, <1>4, AfterConverges DEF SaveInv
<1>6. \A T, s, m : <<s, m>> \in Saves!Desired(chosen', T) <=>
          /\ s \in T /\ m \in Saves!Members
          /\ chosen'[s][m].value # Absent /\ Saves!Extracted(m)
  BY DEF Saves!Desired
<1> HIDE DEF scope
<1>7. ASSUME NEW s \in scope, NEW r \in listed', r.subject = s
      PROVE  /\ <<s, r.member>> \in Saves!Desired(chosen', {s})
             /\ r.payload = chosen'[s][r.member].value
  BY <1>5, <1>6, <1>7
<1>8. ASSUME NEW s \in scope, NEW m \in Saves!Members, <<s, m>> \in Saves!Desired(chosen', {s})
      PROVE  \E r \in listed' : r.member = m /\ (Saves!Shared \/ r.subject = s)
  <2>1. <<s, m>> \in Saves!Desired(chosen', scope)
    BY <1>6, <1>8
  <2> QED
    BY <1>5, <2>1
<1>9. ASSUME NEW r \in listed, <<r.subject, r.member>> \in Saves!Desired(chosen', Saves!Subjects)
      PROVE  \E q \in listed' : q.pk = r.pk /\ q.subject = r.subject /\ q.member = r.member
  BY <1>5, <1>6, <1>9
<1> QED
  BY <1>7, <1>8, <1>9 DEF scope

\* Of every kind of namespace: a save that nobody committed beside leaves the
\* rows its claims ask for, wanted rows keep their keys (reconcile), and no
\* save touches the claims of members its form left alone (plan_*_claims).
THEOREM SpecSavesConverge ==
    Saves!KindsAssumption /\ Saves!Spec
        => Saves!SoloConverges /\ Saves!KeptMembersKeepTheirRow /\ Saves!EditsOfOtherMembersStand
<1> SUFFICES ASSUME Saves!KindsAssumption
             PROVE  Saves!Spec => /\ Saves!SoloConverges /\ Saves!KeptMembersKeepTheirRow
                                  /\ Saves!EditsOfOtherMembersStand
  OBVIOUS
<1> DEFINE Converges == \A w \in Workers : Saves!Committed(w) /\ saving[w].alone =>
              \A s \in Saves!Scope(saving[w].subject) :
                 /\ \A r \in listed' : r.subject = s =>
                       /\ <<s, r.member>> \in Saves!Desired(chosen', {s})
                       /\ r.payload = chosen'[s][r.member].value
                 /\ \A m \in Saves!Members : <<s, m>> \in Saves!Desired(chosen', {s}) =>
                       \E r \in listed' : r.member = m /\ (Saves!Shared \/ r.subject = s)
           Kept == \A w \in Workers : Saves!Committed(w) /\ saving[w].alone =>
              \A r \in listed :
                 <<r.subject, r.member>> \in Saves!Desired(chosen', Saves!Subjects) =>
                    \E q \in listed' : q.pk = r.pk /\ q.subject = r.subject /\ q.member = r.member
           Stand == \A w \in Workers : Saves!Committed(w) =>
              \A m \in Saves!Members :
                 saving[w].edit.form[m] = saving[w].edit.shown[m] =>
                    chosen'[saving[w].subject][m] = chosen[saving[w].subject][m]
<1>1. Saves!Init => SaveInv
  BY SavesStart
<1>2. SaveInv /\ UNCHANGED saveVars => SaveInv'
  BY SavesRest
<1>3. SaveInv /\ [Saves!Next]_saveVars => SaveInv'
  BY <1>2, SaveStep
<1>4. SaveInv /\ Saves!Next => Converges
  BY CommittedWrites, SoloWrites
<1>5. SaveInv /\ Saves!Next => Kept
  BY CommittedWrites, SoloWrites
<1>6. SaveInv /\ Saves!Next => Stand
  <2> SUFFICES ASSUME SaveInv, Saves!Next, NEW w \in Workers, Saves!Committed(w),
                      NEW m \in Saves!Members,
                      saving[w].edit.form[m] = saving[w].edit.shown[m]
               PROVE  chosen'[saving[w].subject][m] = chosen[saving[w].subject][m]
    OBVIOUS
  <2>1. Saves!Write(w)
    BY CommittedWrites
  <2>2. /\ saving[w] \in Diffed /\ chosen \in Chosen /\ saving[w].subject = saving[w].edit.subject
        /\ chosen' = Saves!WithOwn(saving[w].edit, saving[w].at)
    BY <2>1, SaveStage, WriteFacts DEF SaveInv, SaveTyped, Current, Saves!Ready
  <2>3. m \notin Saves!Edited(saving[w].edit)
    BY DEF Saves!Edited
  <2> QED
    BY <2>2, <2>3, OwnFacts DEF Diffed
<1>7. SaveInv /\ [Saves!Next]_saveVars => [Converges]_saveVars /\ [Kept]_saveVars /\ [Stand]_saveVars
  BY <1>4, <1>5, <1>6
<1> HIDE DEF Converges, Kept, Stand
<1>8. Saves!Spec => [][Converges]_saveVars /\ [][Kept]_saveVars /\ [][Stand]_saveVars
  BY <1>1, <1>3, <1>7, PTL DEF Saves!Spec, Saves!vars, saveVars
<1> QED
  BY <1>8 DEF Saves!SoloConverges, Saves!KeptMembersKeepTheirRow, Saves!EditsOfOtherMembersStand,
     Saves!vars, saveVars, Converges, Kept, Stand

LEMMA ScenesSave == SceneSpec => Saves!KindsAssumption /\ Saves!Spec
<1>1. Saves!KindsAssumption
  BY ResolutionAssumption
<1>2. SceneInit => Saves!Init
  BY DEF SceneInit
<1>3. [SceneNext]_<<scene, boundaryVars, vars, saveVars, bulkVars>> => [Saves!Next]_saveVars
  BY DEF SceneNext, saveVars
<1> QED
  BY <1>1, <1>2, <1>3, PTL DEF SceneSpec, Saves!Spec, Saves!vars, saveVars

\* The same of the saves that the run checks.
THEOREM SavesAlwaysConverge == SceneSpec => SavesConverge
  BY ScenesSave, SpecSavesConverge DEF SavesConverge
-----------------------------------------------------------------------------
(* The claim boundary.  The invariant is that every claim ever stored was  *)
(* accepted and that the rows are what the claims resolve to now: a write  *)
(* resolves the one pair it speaks of, and no other pair's claims change;  *)
(* a target that no row points at takes no row with it when it goes.       *)
Entry == [who : Authors \cup {Source}, claim : Shaped, active : BOOLEAN, retracted : BOOLEAN]

Everywhere == Subjects \X Namespaces

\* The claims are accepted ones, and the rows are always what they resolve to.
ClaimsStand(l, live, rs) ==
    /\ l \in Seq(Entry)
    /\ DOMAIN live = DOMAIN Tables
    /\ \A t \in DOMAIN Tables : live[t] \subseteq Tables[t]
    /\ rs = [sn \in Everywhere |-> Materialized(l, live, sn[1], sn[2])]

ClaimsInv == ClaimsStand(log, alive, rows)

LEMMA ShapedFacts ==
    ASSUME NEW c \in Shaped
    PROVE  /\ c.field \in Namespaces /\ c.subject \in Subjects /\ c.value \in Offered[c.field]
           /\ ValidateSingle(c) /\ c.key = ClaimKey(c.field, c.value)
           /\ c = [subject |-> c.subject, field |-> c.field, key |-> c.key, value |-> c.value]
<1>1. PICK ns \in Namespaces :
         c \in {[subject |-> s, field |-> ns, key |-> k, value |-> v] :
                   s \in Subjects, k \in KeysOf(ns), v \in Offered[ns]}
  BY DEF Shaped, Claims
<1>2. ValidateSingle(c)
  BY DEF Shaped
<1> QED
  BY <1>1, <1>2 DEF ValidateSingle, Canonical

\* A namespace's keys and columns name one member or payload each.
LEMMA BindingFacts ==
    ASSUME NEW ns \in Namespaces
    PROVE  /\ BindingOf(ns) \in Bindings /\ BindingOf(ns).namespace = ns
           /\ WellFormed(ns) /\ Declared(ns) /\ Mirrored(ns)
BY SchemaAssumption, ThroughModelAssumption, TableAssumption DEF BindingOf, Namespaces

LEMMA MemberFacts ==
    ASSUME NEW ns \in Namespaces
    PROVE  /\ \A m, n \in MembersOf(ns) : m.name = n.name \/ m.column = n.column => m = n
           /\ \A m \in MembersOf(ns) :
                 /\ m.name # "exists" /\ [name |-> m.name, column |-> m.column] \in Specs(ns)
                 /\ m.kind = IF m.target = None THEN "str" ELSE "int"
                 /\ m.nullable => m.kind = "int"
                 /\ m.target # None => m.identity /\ m.target \in DOMAIN Tables
           /\ \A p \in Payload(ns) :
                 /\ p.name # "exists" /\ [name |-> p.name, column |-> p.column] \in Specs(ns)
                 /\ p.required \/ p.nullable
           /\ \A m \in MembersOf(ns) : \A p \in Payload(ns) : m.name # p.name
           /\ \A s, t \in Specs(ns) : s.column = t.column => s = t
<1> DEFINE B == BindingOf(ns)
<1>1. /\ B.members \cap B.payload = {}
      /\ \A x, y \in B.members \cup B.payload : ValueKey(x) = ValueKey(y) => x = y
      /\ \A x, y \in B.members \cup B.payload : x.field = y.field => x = y
      /\ \A x \in B.members \cup B.payload : ValueKey(x) # "exists"
      /\ \A m \in B.members : m.table # None => m.identity /\ m.table \in DOMAIN Tables
      /\ \A p \in B.payload : p.required \/ p.nullable
  BY BindingFacts DEF WellFormed, Mirrored
<1> DEFINE Spec1(m) == [name |-> ValueKey(m), column |-> m.field,
              kind |-> IF m.table = None THEN "str" ELSE "int",
              nullable |-> m.table # None /\ m.nullable, identity |-> m.identity, target |-> m.table]
           Spec2(p) == [name |-> ValueKey(p), column |-> p.field, kind |-> "str",
              nullable |-> p.nullable, required |-> p.required, choices |-> p.choices]
<1>2. MembersOf(ns) = {Spec1(m) : m \in B.members} /\ Payload(ns) = {Spec2(p) : p \in B.payload}
  BY DEF MembersOf, Payload
<1>3. \A m \in MembersOf(ns) : \E x \in B.members :
         /\ m.name = ValueKey(x) /\ m.column = x.field /\ m.identity = x.identity
         /\ m.kind = (IF x.table = None THEN "str" ELSE "int") /\ m.target = x.table
         /\ m.nullable => x.table # None
  <2>1. \A m \in MembersOf(ns) : \E x \in B.members : m = Spec1(x)
    BY <1>2
  <2>2. \A x : /\ Spec1(x).name = ValueKey(x) /\ Spec1(x).column = x.field
                /\ Spec1(x).kind = (IF x.table = None THEN "str" ELSE "int")
                /\ Spec1(x).identity = x.identity /\ Spec1(x).target = x.table
    OBVIOUS
  <2>3. \A x : Spec1(x).nullable = (x.table # None /\ x.nullable)
    OBVIOUS
  <2>4. \A x : Spec1(x).nullable => x.table # None
    BY <2>3, Zenon
  <2> HIDE DEF Spec1, B
  <2> QED
    BY <2>1, <2>2, <2>4
<1>4. \A p \in Payload(ns) : \E x \in B.payload :
         /\ p.name = ValueKey(x) /\ p.column = x.field
         /\ p.required = x.required /\ p.nullable = x.nullable
  BY <1>2
<1>5. \A m, n \in MembersOf(ns) : m.name = n.name \/ m.column = n.column => m = n
  BY <1>1, <1>2
<1> HIDE DEF B, Spec1, Spec2
<1>6. \A m \in MembersOf(ns) :
         /\ m.name # "exists" /\ [name |-> m.name, column |-> m.column] \in Specs(ns)
         /\ m.kind = IF m.target = None THEN "str" ELSE "int"
         /\ m.nullable => m.kind = "int"
         /\ m.target # None => m.identity /\ m.target \in DOMAIN Tables
  <2> SUFFICES ASSUME NEW m \in MembersOf(ns)
               PROVE  /\ m.name # "exists" /\ [name |-> m.name, column |-> m.column] \in Specs(ns)
                      /\ m.kind = IF m.target = None THEN "str" ELSE "int"
                      /\ m.nullable => m.kind = "int"
                      /\ m.target # None => m.identity /\ m.target \in DOMAIN Tables
    OBVIOUS
  <2>1. PICK x \in B.members :
          /\ m.name = ValueKey(x) /\ m.column = x.field /\ m.identity = x.identity
          /\ m.kind = (IF x.table = None THEN "str" ELSE "int") /\ m.target = x.table
          /\ m.nullable => x.table # None
    BY <1>3
  <2>2. [name |-> m.name, column |-> m.column] \in Specs(ns)
    BY DEF Specs
  <2>3. m.name # "exists"
    BY <1>1, <2>1
  <2>4. m.kind = IF m.target = None THEN "str" ELSE "int"
    BY <2>1
  <2>5. m.nullable => m.kind = "int"
    BY <2>1
  <2>6. m.target # None => m.identity /\ m.target \in DOMAIN Tables
    BY <1>1, <2>1
  <2> QED
    BY <2>2, <2>3, <2>4, <2>5, <2>6
<1>7. \A p \in Payload(ns) :
         /\ p.name # "exists" /\ [name |-> p.name, column |-> p.column] \in Specs(ns)
         /\ p.required \/ p.nullable
  BY <1>1, <1>4 DEF Specs
<1>8. \A m \in MembersOf(ns) : \A p \in Payload(ns) : m.name # p.name
  BY <1>1, <1>3, <1>4
<1>9. \A s \in Specs(ns) : \E x \in B.members \cup B.payload :
         s = [name |-> ValueKey(x), column |-> x.field]
  BY <1>3, <1>4 DEF Specs
<1>10. \A s, t \in Specs(ns) : s.column = t.column => s = t
  BY <1>1, <1>9
<1> QED
  BY <1>5, <1>6, <1>7, <1>8, <1>10

LEMMA RowCell ==
    ASSUME NEW ns \in Namespaces, NEW v, NEW n, NEW col,
           [name |-> n, column |-> col] \in Specs(ns)
    PROVE  Row(ns, v)[col] = IF n \in DOMAIN v THEN v[n] ELSE Null
<1> DEFINE s == [name |-> n, column |-> col]
           its(k) == CHOOSE t \in Specs(ns) : t.column = k
           columns == {t.column : t \in Specs(ns)}
<1>1. Row(ns, v) = [k \in columns |-> IF its(k).name \in DOMAIN v THEN v[its(k).name] ELSE Null]
  BY DEF Row
<1>2. s \in Specs(ns) /\ s.column = col /\ s.name = n /\ col \in columns
  OBVIOUS
<1> HIDE DEF s, columns
<1>3. its(col) = s
  BY <1>2, MemberFacts
<1> HIDE DEF its
<1> QED
  BY <1>1, <1>2, <1>3

\* What an accepted claim says of a member.
LEMMA ValueFacts ==
    ASSUME NEW c \in Shaped, NEW m \in MembersOf(c.field), m.identity \/ Positive(c.value)
    PROVE  /\ m.name \in DOMAIN c.value
           /\ c.value[m.name] = Null => m.nullable
           /\ c.value[m.name] # Null =>
                 /\ c.value[m.name] = <<m.kind, c.value[m.name][2]>>
                 /\ m.kind = "int" => c.value[m.name][2] # "null"
           /\ Row(c.field, c.value)[m.column] = c.value[m.name]
<1>1. c.field \in Namespaces /\ ValidateSingle(c) /\ c.value \in Offered[c.field]
  BY ShapedFacts
<1>2. m.name \in DOMAIN c.value
  BY <1>1 DEF ValidateSingle, Complete
<1>3. Typed(m, c.value[m.name])
  BY <1>1, <1>2 DEF ValidateSingle, WellTyped
<1>4. c.value[m.name] = <<c.value[m.name][1], c.value[m.name][2]>> /\ c.value[m.name] # <<"int", "null">>
  BY <1>1, <1>2, TableAssumption
<1>5. Row(c.field, c.value)[m.column] = c.value[m.name]
  <2>1. [name |-> m.name, column |-> m.column] \in Specs(c.field)
    BY <1>1, MemberFacts
  <2> QED
    BY <1>1, <1>2, <2>1, RowCell
<1> QED
  BY <1>2, <1>3, <1>4, <1>5 DEF Typed

\* Two accepted claims have one key exactly when they name one edge.
LEMMA KeysNameEdges ==
    ASSUME NEW c \in Shaped, NEW d \in Shaped
    PROVE  /\ c.key = d.key <=> SameEdge(c, d)
           /\ c.key = d.key => c.field = d.field
<1>1. /\ c.key = ClaimKey(c.field, c.value) /\ d.key = ClaimKey(d.field, d.value)
      /\ c.field \in Namespaces /\ d.field \in Namespaces
  BY ShapedFacts
<1>2. c.key = d.key => c.field = d.field
  BY <1>1 DEF ClaimKey
<1>3. ASSUME c.key = d.key PROVE SameEdge(c, d)
  <2> SUFFICES ASSUME NEW m \in Identity(c.field) PROVE c.value[m.name] = d.value[m.name]
    BY <1>2, <1>3 DEF SameEdge
  <2>1. m \in MembersOf(c.field) /\ m \in MembersOf(d.field) /\ m.identity /\ m.name \in Names(Identity(c.field))
    BY <1>2, <1>3 DEF Identity, Names
  <2>2. (IF c.value[m.name] = Null THEN "null" ELSE c.value[m.name][2])
          = (IF d.value[m.name] = Null THEN "null" ELSE d.value[m.name][2])
    BY <1>1, <1>2, <1>3, <2>1 DEF ClaimKey
  <2>3. /\ c.value[m.name] = Null => m.nullable
        /\ c.value[m.name] # Null => /\ c.value[m.name] = <<m.kind, c.value[m.name][2]>>
                                     /\ m.kind = "int" => c.value[m.name][2] # "null"
    BY <2>1, ValueFacts
  <2>4. /\ d.value[m.name] = Null => m.nullable
        /\ d.value[m.name] # Null => /\ d.value[m.name] = <<m.kind, d.value[m.name][2]>>
                                     /\ m.kind = "int" => d.value[m.name][2] # "null"
    BY <2>1, ValueFacts
  <2>5. m.nullable => m.kind = "int"
    BY <1>1, <2>1, MemberFacts
  <2> QED
    BY <2>2, <2>3, <2>4, <2>5
<1>4. ASSUME SameEdge(c, d) PROVE c.key = d.key
  <2>1. c.field = d.field /\ \A n \in Names(Identity(c.field)) : c.value[n] = d.value[n]
    BY <1>4 DEF SameEdge, Names
  <2> QED
    BY <1>1, <2>1 DEF ClaimKey
<1> QED
  BY <1>2, <1>3, <1>4

\* The groups of columns a row sets are the groups of keys its claim sets.
LEMMA TargetFacts ==
    ASSUME NEW c \in Shaped, Positive(c.value)
    PROVE  LET set == TargetsSet(c.field, Row(c.field, c.value))
           IN  /\ Ladder[c.field] \in {"one", "most"} => MostOne(set)
               /\ Ladder[c.field] = "one" => set # {}
<1> DEFINE ns == c.field
           v == c.value
           r == Row(ns, v)
           B == BindingOf(ns)
           Keys1(g) == {ValueKey(m) : m \in {n \in B.members : n.field \in g}}
<1>1. ns \in Namespaces /\ Exclusive(ns, v)
  BY ShapedFacts DEF ValidateSingle
<1>2. XorGroups(ns) = {Keys1(g) : g \in B.xor}
  BY DEF XorGroups
<1>3. /\ \A x, y \in B.members : ValueKey(x) = ValueKey(y) => x = y
      /\ UNION B.xor \subseteq {m.field : m \in B.members}
      /\ \A g, h \in B.xor : g = h \/ g \cap h = {}
      /\ Ladder[ns] = "one" => B.xor # {} /\ B.xorRequired
  BY <1>1, BindingFacts DEF WellFormed, Declared, XorDeclared, Mirrored
<1>4. ASSUME NEW x \in B.members
      PROVE  ValueKey(x) \in DOMAIN v /\ r[x.field] = v[ValueKey(x)]
  <2> DEFINE m == [name |-> ValueKey(x), column |-> x.field,
                   kind |-> IF x.table = None THEN "str" ELSE "int",
                   nullable |-> x.table # None /\ x.nullable, identity |-> x.identity,
                   target |-> x.table]
  <2>1. m \in MembersOf(ns) /\ m.name = ValueKey(x) /\ m.column = x.field
    BY DEF MembersOf
  <2> HIDE DEF m
  <2> HIDE DEF B
  <2> QED
    BY <2>1, ValueFacts
<1> HIDE DEF B, r
<1>5. ASSUME NEW g \in B.xor, NEW col \in g, r[col] \notin {Null, Empty}
      PROVE  /\ Present(v, Keys1(g)) /\ Keys1(g) \in XorGroups(ns)
             /\ \A h \in B.xor : Keys1(h) = Keys1(g) => h = g
  <2>1. PICK x \in B.members : x.field = col
    BY <1>3
  <2>2. ValueKey(x) \in Keys1(g) /\ ValueKey(x) \in DOMAIN v /\ v[ValueKey(x)] \notin {Null, Empty}
    BY <1>4, <1>5, <2>1
  <2>3. Present(v, Keys1(g))
    BY <2>2 DEF Present
  <2>4. ASSUME NEW h \in B.xor, Keys1(h) = Keys1(g) PROVE h = g
    <3>1. ValueKey(x) \in Keys1(h)
      BY <2>2, <2>4
    <3>2. x.field \in h
      BY <1>3, <3>1
    <3> QED
      BY <1>3, <2>1, <3>2
  <2> QED
    BY <1>2, <2>3, <2>4
<1>6. MostOne(TargetsSet(ns, r))
  <2> SUFFICES ASSUME NEW g \in B.xor, NEW h \in B.xor, NEW x \in g, NEW y \in h,
                      r[x] \notin {Null, Empty}, r[y] \notin {Null, Empty}
               PROVE  g = h
    BY DEF MostOne, TargetsSet, B
  <2>1. Present(v, Keys1(g)) /\ Keys1(g) \in XorGroups(ns) /\ \A k \in B.xor : Keys1(k) = Keys1(g) => k = g
    BY <1>5
  <2>2. Present(v, Keys1(h)) /\ Keys1(h) \in XorGroups(ns)
    BY <1>5
  <2> HIDE DEF Keys1
  <2> QED
    BY <1>1, <2>1, <2>2 DEF Exclusive, MostOne
<1>7. ASSUME Ladder[ns] = "one" PROVE TargetsSet(ns, r) # {}
  <2>1. PICK k \in XorGroups(ns) : Present(v, k)
    <3> HIDE DEF Keys1
    <3>1. XorGroups(ns) # {} /\ B.xorRequired
      BY <1>2, <1>3, <1>7
    <3> QED
      BY <1>1, <3>1 DEF Exclusive, B
  <2>2. PICK g \in B.xor : k = Keys1(g)
    BY <1>2
  <2>3. PICK n \in k \cap DOMAIN v : v[n] \notin {Null, Empty}
    BY <2>1 DEF Present
  <2>4. PICK x \in B.members : x.field \in g /\ ValueKey(x) = n
    BY <2>2, <2>3
  <2>5. r[x.field] \notin {Null, Empty}
    BY <1>4, <2>3, <2>4
  <2> QED
    BY <2>4, <2>5 DEF TargetsSet, B
<1> QED
  BY <1>6, <1>7 DEF r

\* A claim that was accepted makes a row its table takes.
LEMMA AcceptedRowsAreAllowed ==
    ASSUME NEW c \in Shaped, Positive(c.value)
    PROVE  RowAllowed(c.field, Row(c.field, c.value))
<1> DEFINE r == Row(c.field, c.value)
<1>1. c.field \in Namespaces /\ ValidateSingle(c)
  BY ShapedFacts
<1>2. ASSUME NEW m \in MembersOf(c.field)
      PROVE  /\ m.kind = "str" => r[m.column][1] = "str"
             /\ m.kind = "int" => IF r[m.column] = Null THEN m.nullable ELSE r[m.column][1] = "int"
  <2>1. /\ r[m.column] = c.value[m.name]
        /\ c.value[m.name] = Null => m.nullable
        /\ c.value[m.name] # Null => c.value[m.name] = <<m.kind, c.value[m.name][2]>>
    BY ValueFacts
  <2>2. m.nullable => m.kind = "int"
    BY <1>1, MemberFacts
  <2> HIDE DEF r
  <2> QED
    BY <2>1, <2>2
<1>3. ASSUME NEW p \in Payload(c.field)
      PROVE  IF r[p.column] = Null THEN p.nullable ELSE p.choices # {} => r[p.column] \in p.choices
  <2>1. r[p.column] = IF p.name \in DOMAIN c.value THEN c.value[p.name] ELSE Null
    BY <1>1, MemberFacts, RowCell
  <2>2. p.name \in DOMAIN c.value =>
           /\ c.value[p.name] = Null => p.nullable
           /\ c.value[p.name] # Null /\ p.choices # {} => c.value[p.name] \in p.choices
    BY <1>1 DEF ValidateSingle, WellTyped, Typed
  <2>3. p.name \notin DOMAIN c.value => p.nullable
    BY <1>1, MemberFacts DEF ValidateSingle, Complete
  <2> HIDE DEF r
  <2> QED
    BY <2>1, <2>2, <2>3
<1> HIDE DEF r
<1> QED
  BY <1>2, <1>3, TargetFacts DEF RowAllowed, r

-----------------------------------------------------------------------------
\* Only one claim of a slot wins.
LEMMA WinnersDiffer ==
    ASSUME NEW l \in Seq(Entry), NEW s, NEW ns, NEW i \in Winners(l, s, ns), NEW j \in Winners(l, s, ns),
           l[i].claim.key = l[j].claim.key
    PROVE  i = j
<1> SUFFICES ASSUME i # j PROVE FALSE
  OBVIOUS
<1>1. i \in Nat /\ j \in Nat
  BY DEF Winners
<1>2. Beats(l, i, j) /\ Beats(l, j, i)
  BY DEF Winners
<1> QED
  BY <1>1, <1>2 DEF Beats, Rank

LEMMA MaterializedFacts ==
    ASSUME NEW l \in Seq(Entry), NEW live, NEW s, NEW ns, NEW r \in Materialized(l, live, s, ns)
    PROVE  \E i \in Winners(l, s, ns) :
              /\ l[i].claim \in Shaped /\ l[i].claim.field = ns
              /\ Extracted(ns, l[i].claim.value, live)
              /\ r = Row(ns, l[i].claim.value)
<1>1. PICK i \in Winners(l, s, ns) :
         Extracted(ns, l[i].claim.value, live) /\ r = Row(ns, l[i].claim.value)
  BY DEF Materialized
<1>2. i \in DOMAIN l /\ l[i].claim.field = ns
  BY DEF Winners
<1>3. l[i] \in Entry
  BY <1>2
<1> QED
  BY <1>1, <1>2, <1>3 DEF Entry

\* Two rows of a subject differ in their key.
LEMMA RowsDiffer ==
    ASSUME NEW l \in Seq(Entry), NEW live, NEW s, NEW ns,
           NEW r \in Materialized(l, live, s, ns), NEW q \in Materialized(l, live, s, ns),
           \A col \in KeyColumns(ns) : r[col] = q[col]
    PROVE  r = q
<1>1. PICK i \in Winners(l, s, ns) :
         l[i].claim \in Shaped /\ l[i].claim.field = ns /\ r = Row(ns, l[i].claim.value)
  BY MaterializedFacts
<1>2. PICK j \in Winners(l, s, ns) :
         l[j].claim \in Shaped /\ l[j].claim.field = ns /\ q = Row(ns, l[j].claim.value)
  BY MaterializedFacts
<1>3. SameEdge(l[i].claim, l[j].claim)
  <2> SUFFICES ASSUME NEW m \in Identity(ns)
               PROVE  l[i].claim.value[m.name] = l[j].claim.value[m.name]
    BY <1>1, <1>2 DEF SameEdge
  <2>1. m \in MembersOf(ns) /\ m.identity /\ m.column \in KeyColumns(ns)
    BY DEF Identity, KeyColumns
  <2>2. r[m.column] = l[i].claim.value[m.name]
    BY <1>1, <2>1, ValueFacts
  <2>3. q[m.column] = l[j].claim.value[m.name]
    BY <1>2, <2>1, ValueFacts
  <2> QED
    BY <2>1, <2>2, <2>3
<1>4. i = j
  BY <1>1, <1>2, <1>3, KeysNameEdges, WinnersDiffer
<1> QED
  BY <1>1, <1>2, <1>4

LEMMA TableTakesRows ==
    ASSUME NEW l \in Seq(Entry), NEW live, NEW s, NEW ns \in Namespaces
    PROVE  TableAllows(s, ns, Materialized(l, live, s, ns))
<1>1. ASSUME NEW r \in Materialized(l, live, s, ns)
      PROVE  RowAllowed(ns, r) /\ KeyColumns(ns) \subseteq DOMAIN r
  <2>1. PICK i \in Winners(l, s, ns) :
           /\ l[i].claim \in Shaped /\ l[i].claim.field = ns
           /\ Extracted(ns, l[i].claim.value, live) /\ r = Row(ns, l[i].claim.value)
    BY MaterializedFacts
  <2>2. RowAllowed(ns, r)
    BY <2>1, AcceptedRowsAreAllowed DEF Extracted
  <2>3. DOMAIN r = {t.column : t \in Specs(ns)}
    BY <2>1 DEF Row
  <2>4. ASSUME NEW m \in Identity(ns) PROVE m.column \in {t.column : t \in Specs(ns)}
    <3>1. [name |-> m.name, column |-> m.column] \in Specs(ns)
      BY MemberFacts DEF Identity
    <3> QED
      BY <3>1
  <2> QED
    BY <2>2, <2>3, <2>4 DEF KeyColumns
<1>2. ASSUME NEW r \in Materialized(l, live, s, ns), NEW q \in Materialized(l, live, s, ns),
             NEW u \in Uniques[ns], Collide(u, s, r, q)
      PROVE  r = q
  <2>1. KeyColumns(ns) \subseteq u.fields \cup (IF u.on # None /\ u.null THEN {u.on} ELSE {})
    BY BindingFacts DEF Mirrored
  <2>2. KeyColumns(ns) \subseteq DOMAIN r /\ KeyColumns(ns) \subseteq DOMAIN q
    BY <1>1
  <2>3. ASSUME NEW col \in KeyColumns(ns) PROVE r[col] = q[col]
    <3>1. Cell(s, r, col) = r[col] /\ Cell(s, q, col) = q[col]
      BY <2>2 DEF Cell
    <3>2. CASE col \in u.fields
      BY <1>2, <3>1, <3>2 DEF Collide
    <3>3. CASE col = u.on /\ u.on # None /\ u.null
      BY <1>2, <3>1, <3>3 DEF Collide
    <3> QED
      BY <2>1, <3>2, <3>3
  <2> QED
    BY <2>3, RowsDiffer
<1>3. \A r \in Materialized(l, live, s, ns) : RowAllowed(ns, r)
  BY <1>1
<1>4. \A r, q \in Materialized(l, live, s, ns) : \A u \in Uniques[ns] : r # q => ~Collide(u, s, r, q)
  BY <1>2
<1> QED
  BY <1>3, <1>4, Zenon DEF TableAllows

\* The tombstone built from a claim that was accepted is accepted.
LEMMA TombstonesAreAccepted ==
    ASSUME NEW c \in Shaped, Positive(c.value)
    PROVE  LET t == [Build(c.field, Restrict(c.value, DOMAIN c.value \ {"exists"}), FALSE)
                        EXCEPT !.subject = c.subject]
           IN  /\ ValidateSingle(t) /\ TargetsExist({t}) /\ t.key = c.key
               /\ DOMAIN t.value = {"exists"} \cup Names(Identity(c.field))
<1> DEFINE ns == c.field
           ids == Names(Identity(ns))
           sent == Restrict(c.value, DOMAIN c.value \ {"exists"})
           t == [Build(ns, sent, FALSE) EXCEPT !.subject = c.subject]
           tv == [n \in ids \cup {"exists"} |-> IF n \in ids THEN c.value[n] ELSE No]
<1>1. ns \in Namespaces /\ ValidateSingle(c) /\ c.key = ClaimKey(ns, c.value)
  BY ShapedFacts
<1>2. /\ ids \subseteq DOMAIN c.value \ {"exists"}
      /\ \A m \in MembersOf(ns) : m.name \in ids => m.identity
  <2>1. \A m \in MembersOf(ns) : m.identity => m.name \in DOMAIN c.value /\ m.name # "exists"
    BY <1>1, MemberFacts DEF ValidateSingle, Complete
  <2> QED
    BY <1>1, <2>1, MemberFacts DEF Identity, Names
<1>3. \A n \in ids : sent[n] = c.value[n]
  BY <1>2 DEF Restrict
<1>4. ClaimKey(ns, sent) = ClaimKey(ns, c.value)
  BY <1>3 DEF ClaimKey
<1>5. Build(ns, sent, FALSE).value = tv
  <2>1. Restrict(sent, ids) = [n \in ids |-> c.value[n]]
    BY <1>3 DEF Restrict
  <2> HIDE DEF sent
  <2>2. "exists" \notin ids
    BY <1>2
  <2> QED
    BY <2>1, <2>2 DEF Build
<1>6. t = [subject |-> c.subject, field |-> ns, key |-> c.key, value |-> tv]
  <2> DEFINE b == Build(ns, sent, FALSE)
  <2>1. b = [subject |-> None, field |-> ns, key |-> ClaimKey(ns, sent), value |-> b.value]
    BY DEF Build
  <2> HIDE DEF b, tv, sent
  <2>2. [b EXCEPT !.subject = c.subject]
          = [subject |-> c.subject, field |-> ns, key |-> ClaimKey(ns, sent), value |-> b.value]
    BY <2>1
  <2> QED
    BY <1>1, <1>4, <1>5, <2>2 DEF b
<1> HIDE DEF sent, t
<1>7. Complete(ns, tv) /\ ~Positive(tv) /\ tv["exists"] = No /\ DOMAIN tv = ids \cup {"exists"}
  BY <1>2 DEF Complete, Positive, Yes, No, Names, Identity
<1>8. WellTyped(ns, tv)
  <2>1. \A m \in MembersOf(ns) : m.name \in DOMAIN tv => m.name \in ids /\ m.name \in DOMAIN c.value
    BY <1>1, <1>2, MemberFacts
  <2>2. \A p \in Payload(ns) : p.name \notin DOMAIN tv
    BY <1>1, MemberFacts DEF Names, Identity
  <2>3. \A m \in MembersOf(ns) : m.name \in DOMAIN c.value => Typed(m, c.value[m.name])
    BY <1>1 DEF ValidateSingle, WellTyped
  <2> QED
    BY <2>1, <2>2, <2>3 DEF WellTyped
<1>9. DOMAIN tv \subseteq Known(ns)
  BY DEF Known, Names, Identity
<1>10. ClaimKey(ns, tv) = c.key
  BY <1>1 DEF ClaimKey
<1> HIDE DEF tv, ids
<1>11. ValidateSingle(t)
  BY <1>1, <1>6, <1>7, <1>8, <1>9, <1>10 DEF ValidateSingle, Canonical, IsBool, No
<1>12. TargetsExist({t})
  BY <1>6, <1>7 DEF TargetsExist
<1> QED
  BY <1>6, <1>7, <1>11, <1>12 DEF t, sent, ids

LEMMA ClaimsResolve ==
    ASSUME ClaimsInv
    PROVE  /\ OneKeyPerEdge /\ AnyWinnersMaterialize /\ AlwaysRemovable
           /\ RowsPointAtRows /\ NothingSwallowed
<1>1. /\ log \in Seq(Entry) /\ \A t \in DOMAIN Tables : alive[t] \subseteq Tables[t]
      /\ \A s \in Subjects : \A ns \in Namespaces : rows[<<s, ns>>] = Materialized(log, alive, s, ns)
  BY DEF ClaimsInv, ClaimsStand, Everywhere
<1>2. \A i \in DOMAIN log : log[i] \in Entry /\ log[i].claim \in Shaped
  <2>1. \A e \in Entry : e.claim \in Shaped
    BY DEF Entry
  <2>2. \A i \in DOMAIN log : log[i] \in Entry
    BY <1>1
  <2> QED
    BY <2>1, <2>2
<1>3. OneKeyPerEdge
  BY <1>2, KeysNameEdges DEF OneKeyPerEdge, Standing
<1>4. AnyWinnersMaterialize
  <2>1. \A c \in Standing : Extracted(c.field, c.value, Tables) => RowAllowed(c.field, Row(c.field, c.value))
    BY <1>2, AcceptedRowsAreAllowed DEF Standing, Extracted
  <2>2. ASSUME NEW s \in Subjects, NEW ns \in Namespaces
        PROVE  /\ TableAllows(s, ns, rows[<<s, ns>>])
               /\ \A r, q \in rows[<<s, ns>>] : (\A col \in KeyColumns(ns) : r[col] = q[col]) => r = q
    BY <1>1, TableTakesRows, RowsDiffer
  <2> QED
    BY <2>1, <2>2 DEF AnyWinnersMaterialize
<1>5. AlwaysRemovable
  BY <1>2, TombstonesAreAccepted DEF AlwaysRemovable, Standing
<1>6. RowsPointAtRows
  <2> SUFFICES ASSUME NEW s \in Subjects, NEW ns \in Namespaces, NEW r \in rows[<<s, ns>>],
                      NEW m \in MembersOf(ns), m.target # None
               PROVE  r[m.column] \in alive[m.target] \cup {Null}
    BY DEF RowsPointAtRows
  <2>1. PICK i \in Winners(log, s, ns) :
           /\ log[i].claim \in Shaped /\ log[i].claim.field = ns
           /\ Extracted(ns, log[i].claim.value, alive) /\ r = Row(ns, log[i].claim.value)
    BY <1>1, MaterializedFacts
  <2>2. m.identity /\ m \in Identity(ns)
    BY MemberFacts DEF Identity
  <2>3. r[m.column] = log[i].claim.value[m.name]
    BY <2>1, <2>2, ValueFacts
  <2> QED
    BY <2>1, <2>2, <2>3 DEF Extracted
<1>7. ASSUME NEW i \in DOMAIN log, NEW c, c = log[i].claim,
             log[i].active, Positive(c.value),
             \A j \in DOMAIN log : log[j].active /\ log[j].claim.subject = c.subject
                                      /\ log[j].claim.key = c.key => j = i,
             \A m \in Identity(c.field) : m.target # None => c.value[m.name] \in alive[m.target] \cup {Null}
      PROVE  \E r \in rows[<<c.subject, c.field>>] : \A m \in Identity(c.field) : r[m.column] = c.value[m.name]
  <2> DEFINE r == Row(c.field, c.value)
  <2>1. c \in Shaped /\ c.field \in Namespaces /\ c.subject \in Subjects
    BY <1>2, <1>7, ShapedFacts
  <2>2. i \in Winners(log, c.subject, c.field)
    BY <1>7 DEF Winners
  <2> HIDE DEF r
  <2>3. \A m \in Identity(c.field) : /\ m.name \in DOMAIN c.value /\ r[m.column] = c.value[m.name]
                                     /\ c.value[m.name] = Null => m.nullable
    BY <2>1, ValueFacts DEF Identity, r
  <2>4. Extracted(c.field, c.value, alive)
    BY <1>7, <2>3 DEF Extracted
  <2>5. r \in Materialized(log, alive, c.subject, c.field)
    BY <1>7, <2>2, <2>4 DEF Materialized, r
  <2> QED
    BY <1>1, <2>1, <2>3, <2>5
<1>8. NothingSwallowed
  BY <1>7 DEF NothingSwallowed
<1> QED
  BY <1>3, <1>4, <1>5, <1>6, <1>8

-----------------------------------------------------------------------------
\* The standing claims of one subject in one namespace.
About(l, s, ns) == {i \in DOMAIN l : l[i].active /\ l[i].claim.subject = s /\ l[i].claim.field = ns}

Same(l, k, s, ns) ==
    /\ About(l, s, ns) = About(k, s, ns)
    /\ \A i \in About(l, s, ns) : l[i].who = k[i].who /\ l[i].claim = k[i].claim

LEMMA WinnersAreAbout ==
    ASSUME NEW l \in Seq(Entry), NEW s, NEW ns
    PROVE  Winners(l, s, ns) =
             {i \in About(l, s, ns) : \A j \in About(l, s, ns) :
                 l[j].claim.key = l[i].claim.key /\ j # i => Beats(l, i, j)}
<1>1. \A i \in DOMAIN l : l[i] \in Entry /\ l[i].claim \in Shaped
  <2>1. \A e \in Entry : e.claim \in Shaped
    BY DEF Entry
  <2>2. \A i \in DOMAIN l : l[i] \in Entry
    OBVIOUS
  <2> QED
    BY <2>1, <2>2
<1>2. \A i, j \in DOMAIN l : l[i].claim.key = l[j].claim.key => l[i].claim.field = l[j].claim.field
  BY <1>1, KeysNameEdges
<1> QED
  BY <1>2 DEF Winners, About

LEMMA SameRows ==
    ASSUME NEW l \in Seq(Entry), NEW k \in Seq(Entry), NEW s, NEW ns, NEW live, Same(l, k, s, ns)
    PROVE  Materialized(l, live, s, ns) = Materialized(k, live, s, ns)
<1>1. About(l, s, ns) = About(k, s, ns)
  BY DEF Same
<1>2. \A i \in About(l, s, ns) : l[i].who = k[i].who /\ l[i].claim = k[i].claim
  BY DEF Same
<1>3. \A i, j \in About(l, s, ns) : Beats(l, i, j) <=> Beats(k, i, j)
  BY <1>2 DEF Beats
<1>4. Winners(l, s, ns) = Winners(k, s, ns)
  <2> DEFINE A == About(l, s, ns)
  <2>1. Winners(l, s, ns) = {i \in A : \A j \in A : l[j].claim.key = l[i].claim.key /\ j # i => Beats(l, i, j)}
    BY WinnersAreAbout
  <2>2. Winners(k, s, ns) = {i \in A : \A j \in A : k[j].claim.key = k[i].claim.key /\ j # i => Beats(k, i, j)}
    BY <1>1, WinnersAreAbout
  <2>3. \A i \in A : l[i].claim.key = k[i].claim.key
    BY <1>2
  <2> HIDE DEF A
  <2> QED
    BY <1>3, <2>1, <2>2, <2>3 DEF A
<1>5. \A i \in Winners(l, s, ns) : l[i].claim = k[i].claim
  BY <1>2, WinnersAreAbout
<1> QED
  BY <1>4, <1>5 DEF Materialized

\* Nothing changed but what is said of the pairs in P; those were resolved.
Kept(l, k, P) == \A x, y : <<x, y>> \notin P => Same(l, k, x, y)

Redone(k, live, rs, qs, P) ==
    /\ qs = [sn \in Everywhere |-> qs[sn]]
    /\ \A sn \in Everywhere : qs[sn] = IF sn \in P THEN Materialized(k, live, sn[1], sn[2]) ELSE rs[sn]

LEMMA ResolvedStands ==
    ASSUME NEW l, NEW k \in Seq(Entry), NEW live, NEW rs, NEW qs, NEW P, ClaimsStand(l, live, rs),
           Kept(l, k, P), Redone(k, live, rs, qs, P)
    PROVE  ClaimsStand(k, live, qs)
<1>1. l \in Seq(Entry) /\ rs = [sn \in Everywhere |-> Materialized(l, live, sn[1], sn[2])]
  BY DEF ClaimsStand
<1>2. ASSUME NEW sn \in Everywhere
      PROVE  qs[sn] = Materialized(k, live, sn[1], sn[2])
  <2>1. CASE sn \in P
    BY <2>1 DEF Redone
  <2>2. CASE sn \notin P
    <3>1. Same(l, k, sn[1], sn[2])
      BY <2>2 DEF Everywhere, Kept
    <3>2. Materialized(l, live, sn[1], sn[2]) = Materialized(k, live, sn[1], sn[2])
      BY <1>1, <3>1, SameRows
    <3> QED
      BY <1>1, <2>2, <3>2 DEF Redone
  <2> QED
    BY <2>1, <2>2
<1>3. qs = [sn \in Everywhere |-> Materialized(k, live, sn[1], sn[2])]
  BY <1>2 DEF Redone
<1> QED
  BY <1>3 DEF ClaimsStand

LEMMA OneResolved ==
    ASSUME NEW k, NEW live, NEW rs, NEW s, NEW ns, DOMAIN rs = Everywhere
    PROVE  Redone(k, live, rs, [rs EXCEPT ![<<s, ns>>] = Materialized(k, live, s, ns)], {<<s, ns>>})
<1> DEFINE qs == [rs EXCEPT ![<<s, ns>>] = Materialized(k, live, s, ns)]
<1>1. qs = [sn \in Everywhere |-> IF sn = <<s, ns>> THEN Materialized(k, live, s, ns) ELSE rs[sn]]
  OBVIOUS
<1>2. <<s, ns>>[1] = s /\ <<s, ns>>[2] = ns
  OBVIOUS
<1> HIDE DEF qs
<1>3. ASSUME NEW sn \in Everywhere
      PROVE  qs[sn] = IF sn \in {<<s, ns>>} THEN Materialized(k, live, sn[1], sn[2]) ELSE rs[sn]
  <2>1. CASE sn = <<s, ns>>
    <3>1. sn[1] = s /\ sn[2] = ns
      BY <1>2, <2>1
    <3> QED
      BY <1>1, <2>1, <3>1
  <2>2. CASE sn # <<s, ns>>
    BY <1>1, <2>2
  <2> QED
    BY <2>1, <2>2
<1>4. qs = [sn \in Everywhere |-> qs[sn]]
  BY <1>1
<1> QED
  BY <1>3, <1>4 DEF Redone, qs

LEMMA TwoResolved ==
    ASSUME NEW k, NEW live, NEW rs, NEW s, NEW ns, NEW t, NEW nt, DOMAIN rs = Everywhere
    PROVE  Redone(k, live, rs,
                  [[rs EXCEPT ![<<s, ns>>] = Materialized(k, live, s, ns)]
                       EXCEPT ![<<t, nt>>] = Materialized(k, live, t, nt)],
                  {<<s, ns>>, <<t, nt>>})
<1> DEFINE ps == [rs EXCEPT ![<<s, ns>>] = Materialized(k, live, s, ns)]
           qs == [ps EXCEPT ![<<t, nt>>] = Materialized(k, live, t, nt)]
<1>1. Redone(k, live, rs, ps, {<<s, ns>>})
  BY OneResolved
<1> HIDE DEF ps
<1>2. DOMAIN ps = Everywhere
  BY <1>1 DEF Redone
<1>3. Redone(k, live, ps, qs, {<<t, nt>>})
  BY <1>2, OneResolved
<1> HIDE DEF qs
<1>4. Redone(k, live, rs, qs, {<<s, ns>>, <<t, nt>>})
  BY <1>1, <1>3 DEF Redone
<1> QED
  BY <1>4 DEF qs, ps

LEMMA AssertedFacts ==
    ASSUME NEW l \in Seq(Entry), NEW u \in Authors \cup {Source}, NEW c \in Shaped
    PROVE  /\ Asserted(l, u, c) \in Seq(Entry)
           /\ Kept(l, Asserted(l, u, c), {<<c.subject, c.field>>})
<1> DEFINE old(i) == IF Supersedes(u, c, l[i]) THEN [l[i] EXCEPT !.active = FALSE] ELSE l[i]
           e == [who |-> u, claim |-> c, active |-> TRUE, retracted |-> FALSE]
           h == [i \in 1 .. Len(l) |-> old(i)]
           k == Asserted(l, u, c)
<1>1. Len(l) \in Nat /\ DOMAIN l = 1 .. Len(l) /\ \A i \in DOMAIN l : l[i] \in Entry
  OBVIOUS
<1>2. ASSUME NEW i \in DOMAIN l
      PROVE  /\ old(i) \in Entry /\ old(i).who = l[i].who /\ old(i).claim = l[i].claim
             /\ ~Supersedes(u, c, l[i]) => old(i) = l[i]
             /\ old(i).active => l[i].active
  <2>1. l[i] \in Entry
    BY <1>1
  <2> DEFINE b == l[i]
  <2>2. b \in Entry
    BY <2>1
  <2> HIDE DEF b
  <2>3. LET off == [b EXCEPT !.active = FALSE]
        IN  off \in Entry /\ off.who = b.who /\ off.claim = b.claim /\ off.active = FALSE
    BY <2>2 DEF Entry
  <2> QED
    BY <2>2, <2>3 DEF b
<1> HIDE DEF old
<1>3. h \in Seq(Entry) /\ Len(h) = Len(l)
  BY <1>1, <1>2
<1>4. e \in Entry /\ e.claim = c
  BY DEF Entry
<1>5. k = Append(h, e)
  BY <1>1 DEF Asserted, old
<1> HIDE DEF h, e, k
<1>6. k \in Seq(Entry) /\ DOMAIN k = DOMAIN l \cup {Len(l) + 1} /\ k[Len(l) + 1] = e
  BY <1>1, <1>3, <1>4, <1>5
<1>7. \A i \in DOMAIN l : k[i] = old(i)
  BY <1>1, <1>3, <1>4, <1>5 DEF h
<1>8. ASSUME NEW x, NEW y, <<x, y>> # <<c.subject, c.field>> PROVE Same(l, k, x, y)
  <2>1. \A i \in DOMAIN l : l[i].claim.subject = x /\ l[i].claim.field = y => ~Supersedes(u, c, l[i])
    <3>1. \A i \in DOMAIN l : l[i].claim \in Shaped
      BY <1>1 DEF Entry
    <3> QED
      BY <1>8, <3>1, KeysNameEdges DEF Supersedes
  <2>2. ASSUME NEW i \in About(l, x, y) PROVE i \in About(k, x, y) /\ k[i] = l[i]
    <3>1. i \in DOMAIN l /\ l[i].active /\ l[i].claim.subject = x /\ l[i].claim.field = y
      BY DEF About
    <3>2. k[i] = l[i]
      BY <1>2, <1>7, <2>1, <3>1
    <3> QED
      BY <1>6, <3>1, <3>2 DEF About
  <2>3. ASSUME NEW i \in About(k, x, y) PROVE i \in About(l, x, y)
    <3>1. i \in DOMAIN k /\ k[i].active /\ k[i].claim.subject = x /\ k[i].claim.field = y
      BY DEF About
    <3>2. i \in DOMAIN l
      BY <1>4, <1>6, <1>8, <3>1
    <3>3. k[i].active => l[i].active
      BY <1>2, <1>7, <3>2
    <3>4. k[i].claim = l[i].claim
      BY <1>2, <1>7, <3>2
    <3> QED
      BY <3>1, <3>2, <3>3, <3>4 DEF About
  <2> QED
    BY <2>2, <2>3 DEF Same
<1> QED
  BY <1>6, <1>8 DEF k, Kept

LEMMA KeptTwice ==
    ASSUME NEW l, NEW k, NEW j, NEW P, NEW Q, Kept(l, k, P), Kept(k, j, Q)
    PROVE  Kept(l, j, P \cup Q)
<1>1. \A x, y : Same(l, k, x, y) /\ Same(k, j, x, y) => Same(l, j, x, y)
  BY DEF Same
<1> QED
  BY <1>1 DEF Kept

LEMMA AssertClaimStands ==
    ASSUME ClaimsInv, NEW u \in Authors, AssertClaim(u)
    PROVE  ClaimsInv'
<1>1. PICK c \in Shaped :
         log' = Asserted(log, u, c) /\ rows' = Resolved(log', alive, c.subject, c.field)
  BY DEF AssertClaim
<1>2. alive' = alive /\ ClaimsStand(log, alive, rows) /\ log \in Seq(Entry) /\ DOMAIN rows = Everywhere
  BY DEF AssertClaim, ClaimsInv, ClaimsStand
<1> DEFINE P == {<<c.subject, c.field>>}
<1>3. log' \in Seq(Entry) /\ Kept(log, log', P)
  BY <1>1, <1>2, AssertedFacts
<1>4. Redone(log', alive, rows, rows', P)
  BY <1>1, <1>2, OneResolved DEF Resolved
<1> HIDE DEF P
<1>5. ClaimsStand(log', alive, rows')
  BY <1>2, <1>3, <1>4, ResolvedStands
<1> QED
  BY <1>2, <1>5 DEF ClaimsInv

LEMMA IngestStands ==
    ASSUME ClaimsInv, Ingest
    PROVE  ClaimsInv'
<1>1. PICK c \in Shaped, d \in Shaped :
        /\ log' = IF c = d THEN Asserted(log, Source, c) ELSE Asserted(Asserted(log, Source, c), Source, d)
        /\ rows' = [[rows EXCEPT ![<<c.subject, c.field>>] = Materialized(log', alive, c.subject, c.field)]
                         EXCEPT ![<<d.subject, d.field>>] = Materialized(log', alive, d.subject, d.field)]
        /\ UNCHANGED alive
  BY DEF Ingest
<1>2. alive' = alive /\ ClaimsStand(log, alive, rows) /\ log \in Seq(Entry) /\ DOMAIN rows = Everywhere
  BY <1>1 DEF ClaimsInv, ClaimsStand
<1> DEFINE P == {<<c.subject, c.field>>}
           Q == {<<d.subject, d.field>>}
           k == Asserted(log, Source, c)
           j == Asserted(k, Source, d)
<1>3. k \in Seq(Entry) /\ Kept(log, k, P)
  BY <1>2, AssertedFacts
<1> HIDE DEF k
<1>4. j \in Seq(Entry) /\ Kept(k, j, Q)
  BY <1>3, AssertedFacts
<1>5. (log' = k /\ P = Q) \/ log' = j
  BY <1>1 DEF k
<1>6. P \cup Q = {<<c.subject, c.field>>, <<d.subject, d.field>>}
  OBVIOUS
<1> HIDE DEF j, P, Q
<1>7. log' \in Seq(Entry) /\ Kept(log, log', P \cup Q)
  <2>1. Kept(log, j, P \cup Q)
    BY <1>3, <1>4, KeptTwice
  <2>2. P = Q => P \cup Q = P
    OBVIOUS
  <2> QED
    BY <1>3, <1>4, <1>5, <2>1, <2>2
<1>8. Redone(log', alive, rows, rows', P \cup Q)
  <2> DEFINE new == [[rows EXCEPT ![<<c.subject, c.field>>] = Materialized(log', alive, c.subject, c.field)]
                            EXCEPT ![<<d.subject, d.field>>] = Materialized(log', alive, d.subject, d.field)]
  <2>1. Redone(log', alive, rows, new, {<<c.subject, c.field>>, <<d.subject, d.field>>})
    BY <1>2, TwoResolved
  <2>2. rows' = new
    BY <1>1
  <2> HIDE DEF new
  <2> QED
    BY <1>6, <2>1, <2>2
<1>9. ClaimsStand(log', alive, rows')
  BY <1>2, <1>7, <1>8, ResolvedStands
<1> QED
  BY <1>2, <1>9 DEF ClaimsInv

LEMMA RevertStands ==
    ASSUME ClaimsInv, Revert
    PROVE  ClaimsInv'
<1>1. PICK i \in DOMAIN log :
        /\ log[i].active /\ log[i].who \in Authors
        /\ log' = [j \in DOMAIN log |->
              IF j = i THEN [log[i] EXCEPT !.active = FALSE, !.retracted = TRUE]
              ELSE IF j \in Before(i) /\ (\A k \in Before(i) : k <= j) THEN [log[j] EXCEPT !.active = TRUE]
              ELSE log[j]]
        /\ rows' = Resolved(log', alive, log[i].claim.subject, log[i].claim.field)
        /\ UNCHANGED alive
  BY DEF Revert
<1>2. alive' = alive /\ ClaimsStand(log, alive, rows) /\ log \in Seq(Entry)
  BY <1>1 DEF ClaimsInv, ClaimsStand
<1> DEFINE s == log[i].claim.subject
           ns == log[i].claim.field
           P == {<<s, ns>>}
<1>3. \A j \in DOMAIN log : log[j] \in Entry
  BY <1>2
<1>4. \A j \in DOMAIN log : log[j].claim \in Shaped
  BY <1>3 DEF Entry
<1>5. \A j \in Before(i) : log[j].claim.subject = s /\ log[j].claim.field = ns
  <2> SUFFICES ASSUME NEW j \in Before(i) PROVE log[j].claim.subject = s /\ log[j].claim.field = ns
    OBVIOUS
  <2>1. j \in DOMAIN log /\ Supersedes(log[i].who, log[i].claim, [log[j] EXCEPT !.active = TRUE])
    BY DEF Before
  <2>2. [log[j] EXCEPT !.active = TRUE].claim = log[j].claim
    BY <1>3, <2>1 DEF Entry
  <2>3. log[j].claim.subject = s /\ log[j].claim.key = log[i].claim.key
    BY <2>1, <2>2 DEF Supersedes
  <2> QED
    BY <1>4, <2>1, <2>3, KeysNameEdges
<1>6. ASSUME NEW j \in DOMAIN log
      PROVE  /\ log'[j] \in Entry /\ log'[j].who = log[j].who /\ log'[j].claim = log[j].claim
             /\ j # i /\ j \notin Before(i) => log'[j] = log[j]
  <2> DEFINE b == log[j]
  <2>1. b \in Entry
    BY <1>3
  <2>2. log'[j] = IF j = i THEN [b EXCEPT !.active = FALSE, !.retracted = TRUE]
              ELSE IF j \in Before(i) /\ (\A k \in Before(i) : k <= j) THEN [b EXCEPT !.active = TRUE]
              ELSE b
    BY <1>1
  <2> HIDE DEF b
  <2>3. LET off == [b EXCEPT !.active = FALSE, !.retracted = TRUE]
        IN  off \in Entry /\ off.who = b.who /\ off.claim = b.claim
    BY <2>1 DEF Entry
  <2>4. LET on == [b EXCEPT !.active = TRUE]
        IN  on \in Entry /\ on.who = b.who /\ on.claim = b.claim
    BY <2>1 DEF Entry
  <2> QED
    BY <2>1, <2>2, <2>3, <2>4 DEF b
<1>7. DOMAIN log' = DOMAIN log /\ log' \in Seq(Entry)
  <2>1. log' = [j \in 1 .. Len(log) |-> log'[j]] /\ Len(log) \in Nat /\ DOMAIN log = 1 .. Len(log)
    BY <1>1, <1>2
  <2> QED
    BY <1>6, <2>1
<1>8. ASSUME NEW x, NEW y, <<x, y>> \notin P PROVE Same(log, log', x, y)
  <2>1. ASSUME NEW j \in DOMAIN log, log[j].claim.subject = x, log[j].claim.field = y
        PROVE  log'[j] = log[j]
    <3>1. j # i /\ j \notin Before(i)
      BY <1>5, <1>8, <2>1
    <3> QED
      BY <1>6, <3>1
  <2>2. \A j \in DOMAIN log : log'[j].claim = log[j].claim
    BY <1>6
  <2>3. ASSUME NEW j \in About(log, x, y) PROVE j \in About(log', x, y) /\ log'[j] = log[j]
    <3>1. j \in DOMAIN log /\ log[j].active /\ log[j].claim.subject = x /\ log[j].claim.field = y
      BY DEF About
    <3>2. log'[j] = log[j]
      BY <2>1, <3>1
    <3> QED
      BY <1>7, <3>1, <3>2 DEF About
  <2>4. ASSUME NEW j \in About(log', x, y) PROVE j \in About(log, x, y)
    <3>1. j \in DOMAIN log /\ log'[j].active /\ log'[j].claim.subject = x /\ log'[j].claim.field = y
      BY <1>7 DEF About
    <3>2. log[j].claim.subject = x /\ log[j].claim.field = y
      BY <2>2, <3>1
    <3>3. log'[j] = log[j]
      BY <2>1, <3>1, <3>2
    <3> QED
      BY <3>1, <3>2, <3>3 DEF About
  <2> QED
    BY <2>3, <2>4 DEF Same
<1>9. Kept(log, log', P)
  BY <1>8 DEF Kept
<1>10. Redone(log', alive, rows, rows', P)
  <2>1. DOMAIN rows = Everywhere
    BY <1>2 DEF ClaimsStand
  <2> HIDE DEF s, ns
  <2> QED
    BY <1>1, <2>1, OneResolved DEF Resolved, s, ns
<1> HIDE DEF P
<1>11. ClaimsStand(log', alive, rows')
  BY <1>2, <1>7, <1>9, <1>10, ResolvedStands
<1> QED
  BY <1>2, <1>11 DEF ClaimsInv

\* A row that is referenced by none leaves every claim extracted that was.
LEMMA DeleteTargetStands ==
    ASSUME ClaimsInv, DeleteTarget
    PROVE  ClaimsInv'
<1>1. PICK t \in DOMAIN Tables : \E pk \in alive[t] :
        /\ ~Referenced(t, pk)
        /\ alive' = [alive EXCEPT ![t] = @ \ {pk}]
        /\ UNCHANGED <<log, rows>>
  BY DEF DeleteTarget
<1>2. PICK pk \in alive[t] :
        /\ ~Referenced(t, pk)
        /\ alive' = [alive EXCEPT ![t] = @ \ {pk}]
        /\ log' = log /\ rows' = rows
  BY <1>1
<1>3. /\ log \in Seq(Entry)
      /\ DOMAIN alive = DOMAIN Tables
      /\ \A u \in DOMAIN Tables : alive[u] \subseteq Tables[u]
      /\ rows = [sn \in Everywhere |-> Materialized(log, alive, sn[1], sn[2])]
  BY DEF ClaimsInv, ClaimsStand
<1>4. /\ DOMAIN alive' = DOMAIN Tables
      /\ \A u \in DOMAIN Tables : alive'[u] = IF u = t THEN alive[t] \ {pk} ELSE alive[u]
  BY <1>2, <1>3
<1>5. ASSUME NEW s \in Subjects, NEW ns \in Namespaces, NEW i \in Winners(log, s, ns)
      PROVE  Extracted(ns, log[i].claim.value, alive) <=> Extracted(ns, log[i].claim.value, alive')
  <2> DEFINE c == log[i].claim
  <2>1. i \in DOMAIN log /\ c.field = ns
    BY DEF Winners
  <2>2. c \in Shaped
    <3>1. log[i] \in Entry
      BY <1>3, <2>1
    <3> QED
      BY <3>1 DEF Entry
  <2>3. \A m \in Identity(ns) : m \in MembersOf(ns) /\ m.identity /\ (m.target # None => m.target \in DOMAIN Tables)
    BY MemberFacts DEF Identity
  <2> HIDE DEF c
  <2>4. ASSUME Extracted(ns, c.value, alive') PROVE Extracted(ns, c.value, alive)
    BY <1>4, <2>3, <2>4 DEF Extracted
  <2>5. ASSUME Extracted(ns, c.value, alive), NEW m \in Identity(ns), m.target # None, c.value[m.name] # Null
        PROVE  c.value[m.name] \in alive'[m.target]
    <3>1. c.value[m.name] \in alive[m.target]
      BY <2>5 DEF Extracted
    <3>2. CASE m.target # t
      BY <1>4, <2>3, <2>5, <3>1, <3>2
    <3>3. CASE m.target = t
      <4>1. Row(ns, c.value) \in rows[<<s, ns>>]
        BY <1>3, <2>5 DEF Materialized, Everywhere, c
      <4>2. Row(ns, c.value)[m.column] = c.value[m.name]
        BY <2>1, <2>2, <2>3, ValueFacts
      <4>3. <<s, ns>> \in Subjects \X Namespaces /\ <<s, ns>>[2] = ns
        OBVIOUS
      <4>4. c.value[m.name] # pk
        BY <1>2, <2>3, <3>3, <4>1, <4>2, <4>3 DEF Referenced
      <4> QED
        BY <1>4, <3>1, <3>3, <4>4
    <3> QED
      BY <3>2, <3>3
  <2>6. ASSUME Extracted(ns, c.value, alive) PROVE Extracted(ns, c.value, alive')
    BY <2>5, <2>6 DEF Extracted
  <2> QED
    BY <2>4, <2>6 DEF c
<1>6. \A s \in Subjects : \A ns \in Namespaces : Materialized(log, alive, s, ns) = Materialized(log, alive', s, ns)
  BY <1>5 DEF Materialized
<1>7. rows = [sn \in Everywhere |-> Materialized(log, alive', sn[1], sn[2])]
  BY <1>3, <1>6 DEF Everywhere
<1>8. \A u \in DOMAIN Tables : alive'[u] \subseteq Tables[u]
  BY <1>3, <1>4
<1>9. ClaimsStand(log, alive', rows)
  BY <1>3, <1>4, <1>7, <1>8 DEF ClaimsStand
<1> QED
  BY <1>2, <1>9 DEF ClaimsInv

LEMMA ClaimsStart ==
    ASSUME BoundaryInit
    PROVE  ClaimsInv
<1>1. log = <<>> /\ alive = Tables /\ rows = [sn \in Everywhere |-> {}]
  BY DEF BoundaryInit, Everywhere
<1>2. log \in Seq(Entry) /\ DOMAIN log = {}
  BY <1>1
<1>3. \A sn \in Everywhere : Materialized(log, alive, sn[1], sn[2]) = {}
  BY <1>2 DEF Materialized, Winners
<1>4. rows = [sn \in Everywhere |-> Materialized(log, alive, sn[1], sn[2])]
  BY <1>1, <1>3
<1> QED
  BY <1>1, <1>2, <1>4 DEF ClaimsInv, ClaimsStand

LEMMA ClaimsStep == ClaimsInv /\ [BoundaryNext]_boundaryVars => ClaimsInv'
<1> SUFFICES ASSUME ClaimsInv, [BoundaryNext]_boundaryVars PROVE ClaimsInv'
  OBVIOUS
<1>1. CASE UNCHANGED boundaryVars
  BY <1>1 DEF boundaryVars, ClaimsInv
<1> QED
  BY <1>1, AssertClaimStands, IngestStands, RevertStands, DeleteTargetStands DEF BoundaryNext

(* AcceptedClaimsResolve, for all bindings, tables and rules *)
THEOREM ClaimsAlwaysResolve == SceneSpec => []AcceptedClaimsResolve
<1> DEFINE I == scene = "claims" => ClaimsInv
<1>1. SceneInit => I
  BY ClaimsStart DEF SceneInit
<1>2. I /\ [SceneNext]_<<scene, boundaryVars, vars, saveVars, bulkVars>> => I'
  BY ClaimsStep DEF SceneNext, boundaryVars, ClaimsInv
<1>3. I => AcceptedClaimsResolve
  BY ClaimsResolve DEF AcceptedClaimsResolve
<1> QED
  BY <1>1, <1>2, <1>3, PTL DEF SceneSpec
=============================================================================
