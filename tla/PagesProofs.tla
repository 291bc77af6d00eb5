---------------------------- MODULE PagesProofs ----------------------------
(* Proofs about what readers are shown: the cached responses               *)
(* (ResponseCache), then the games listing and its sidebar (GameListing),  *)
(* then the listing and the search of manufacturers (ManufacturerList).    *)
EXTENDS MCPages, TLAPS, FiniteSetTheorems, NaturalsInduction, SequenceTheorems,
        WellFoundedInduction

\* What a builder that nothing overtook has read is still current.
BuildersAreCurrent ==
    \A r \in Readers :
        LET b == readers[r]
        IN  ~b.payload.overlapped =>
              /\ b.pc \in {"rows", "fill"} => b.payload.rank = Rank(b.slot)
              /\ b.pc = "fill" => b.payload.rows = catalog

\* A builder of the kiosk applies no display policy.
KioskBuilds ==
    \A r \in Readers : readers[r].slot \in KioskSlots => readers[r].payload.rank = 0

\* The ingest command flushes at its end only.
IngestFlushesLast ==
    \A w \in Writers : writers[w].pc = "ingest" => writers[w].todo = {}

Inv == TypeOK /\ BuildersAreCurrent /\ KioskBuilds /\ IngestFlushesLast /\ UnovertakenIsFresh

\* The bounds are natural, and there is a slot to read.
Bounds == MaxChanges \in Nat /\ Slots # {} /\ KioskSlots \subseteq Slots

ReaderRow == [pc : {"idle", "rank", "rows", "fill"}, slot : Slots, payload : Payload]

WriterRow == [pc : {"idle", "claims", "saved", "ingest"}, kind : {"edit", "ingest", "policy"},
              todo : SUBSET Slots, applied : BOOLEAN]

LedgerOK == ledger \subseteq Patches /\ lost \subseteq Slots

CountersOK == catalog \in Changes /\ policy \in Changes

SlotsOK ==
    /\ slots \in [Slots -> Payload \cup {Empty}]
    /\ \A s \in KioskSlots : slots[s] # Empty => slots[s].rank = 0

ReadersOK == readers \in [Readers -> ReaderRow]

WritersOK == writers \in [Writers -> WriterRow]

LEMMA TypeParts ==
    TypeOK <=> CountersOK /\ LedgerOK /\ SlotsOK /\ ReadersOK /\ WritersOK
BY DEF TypeOK, LedgerOK, CountersOK, SlotsOK, ReadersOK, WritersOK, ReaderRow, WriterRow

LEMMA ZeroChanges == Bounds => 0 \in Changes /\ Blank \in Payload
<1> SUFFICES ASSUME Bounds PROVE 0 \in Changes /\ Blank \in Payload
  OBVIOUS
<1>1. 0 \in Changes
  BY DEF Bounds, Changes
<1> QED
  BY <1>1 DEF Blank, Payload

LEMMA RankInChanges ==
    ASSUME Bounds, CountersOK, NEW s \in Slots
    PROVE  Rank(s) \in Changes
BY ZeroChanges DEF Rank, CountersOK

LEMMA InitInv == Bounds /\ Init => Inv
<1> SUFFICES ASSUME Bounds, Init PROVE Inv
  OBVIOUS
<1>1. (CHOOSE s \in Slots : TRUE) \in Slots
  BY DEF Bounds
<1>2. CountersOK /\ LedgerOK
  BY ZeroChanges DEF Init, CountersOK, LedgerOK
<1>3. SlotsOK
  BY DEF Init, SlotsOK, Bounds
<1>4. ReadersOK
  BY <1>1, ZeroChanges DEF Init, ReadersOK, ReaderRow
<1>5. WritersOK
  BY DEF Init, WritersOK, WriterRow, IdleWriter
<1>6. TypeOK
  BY <1>2, <1>3, <1>4, <1>5, TypeParts
<1>7. BuildersAreCurrent /\ KioskBuilds /\ IngestFlushesLast
  BY DEF Init, BuildersAreCurrent, KioskBuilds, IngestFlushesLast, Blank, IdleWriter
<1>8. UnovertakenIsFresh
  BY DEF Init, UnovertakenIsFresh
<1> QED
  BY <1>6, <1>7, <1>8 DEF Inv

-----------------------------------------------------------------------------
\* A step that moves one builder and no payload keeps the invariant, provided
\* what the builder has read is current.
LEMMA BuilderMoves ==
    ASSUME Bounds, Inv, NEW r \in Readers, NEW b \in ReaderRow,
           readers' = [readers EXCEPT ![r] = b],
           UNCHANGED <<catalog, policy, ledger, slots, writers, lost>>,
           b.slot \in KioskSlots => b.payload.rank = 0,
           ~b.payload.overlapped =>
              /\ b.pc \in {"rows", "fill"} => b.payload.rank = Rank(b.slot)
              /\ b.pc = "fill" => b.payload.rows = catalog
    PROVE  Inv'
<1>1. TypeOK'
  <2>1. ReadersOK'
    BY TypeParts DEF Inv, ReadersOK
  <2>2. CountersOK' /\ SlotsOK' /\ WritersOK' /\ LedgerOK'
    BY TypeParts DEF Inv, CountersOK, SlotsOK, WritersOK, LedgerOK
  <2> QED
    BY <2>1, <2>2 DEF TypeOK, LedgerOK, CountersOK, SlotsOK, ReadersOK, WritersOK, ReaderRow, WriterRow
<1>2. ReadersOK
  BY TypeParts DEF Inv
<1>3. BuildersAreCurrent' /\ KioskBuilds'
  BY <1>2 DEF Inv, ReadersOK, BuildersAreCurrent, KioskBuilds, Rank
<1>4. IngestFlushesLast' /\ UnovertakenIsFresh'
  BY DEF Inv, IngestFlushesLast, UnovertakenIsFresh, ShowsCatalog, FlushPending, Owes, Rank
<1> QED
  BY <1>1, <1>3, <1>4 DEF Inv

LEMMA MissStep ==
    ASSUME Bounds, Inv, NEW r \in Readers, NEW s \in Slots, Miss(r, s)
    PROVE  Inv'
<1> DEFINE b == At("rank", s, Blank)
<1>1. b \in ReaderRow /\ b.payload.rank = 0
  BY ZeroChanges DEF ReaderRow, Blank, At
<1> QED
  BY <1>1, BuilderMoves DEF Miss, At

LEMMA ReadRankStep ==
    ASSUME Bounds, Inv, NEW r \in Readers, ReadRank(r)
    PROVE  Inv'
<1> DEFINE q == readers[r]
           p == [q.payload EXCEPT !.rank = Rank(q.slot)]
           b == At("rows", q.slot, p)
<1>1. q \in ReaderRow
  BY TypeParts DEF Inv, ReadersOK
<1>2. Rank(q.slot) \in Changes
  BY <1>1, RankInChanges, TypeParts DEF Inv, ReaderRow
<1>3. p \in Payload /\ p.rank = Rank(q.slot)
  BY <1>1, <1>2 DEF ReaderRow, Payload
<1>4. b \in ReaderRow
  BY <1>1, <1>3 DEF ReaderRow, At
<1>5. readers' = [readers EXCEPT ![r] = b]
  BY DEF ReadRank
<1>6. b.slot \in KioskSlots => b.payload.rank = 0
  BY <1>3 DEF Rank, At
<1> HIDE DEF p
<1> QED
  BY <1>3, <1>4, <1>5, <1>6, BuilderMoves DEF ReadRank, At

LEMMA ReadRowsStep ==
    ASSUME Bounds, Inv, NEW r \in Readers, ReadRows(r)
    PROVE  Inv'
<1> DEFINE q == readers[r]
           p == [q.payload EXCEPT !.rows = catalog]
           b == At("fill", q.slot, p)
<1>1. q \in ReaderRow
  BY TypeParts DEF Inv, ReadersOK
<1>2. p \in Payload /\ p.rows = catalog /\ p.rank = q.payload.rank
                    /\ p.overlapped = q.payload.overlapped
  BY <1>1, TypeParts DEF Inv, CountersOK, ReaderRow, Payload
<1>3. b \in ReaderRow
  BY <1>1, <1>2 DEF ReaderRow, At
<1>4. readers' = [readers EXCEPT ![r] = b]
  BY DEF ReadRows
<1>5. b.slot \in KioskSlots => b.payload.rank = 0
  BY <1>2 DEF Inv, KioskBuilds, At
<1>6. ~b.payload.overlapped => b.payload.rank = Rank(b.slot)
  BY <1>2 DEF Inv, BuildersAreCurrent, ReadRows, At
<1> HIDE DEF p
<1> QED
  BY <1>2, <1>3, <1>4, <1>5, <1>6, BuilderMoves DEF ReadRows, At

\* A stored payload is as current as its builder was.
LEMMA FillStep ==
    ASSUME Bounds, Inv, NEW r \in Readers, Fill(r)
    PROVE  Inv'
<1> DEFINE q == readers[r]
           b == At("idle", q.slot, Blank)
<1>1. q \in ReaderRow
  BY TypeParts DEF Inv, ReadersOK
<1>2. b \in ReaderRow
  BY <1>1, ZeroChanges DEF ReaderRow, At
<1>3. readers' = [readers EXCEPT ![r] = b]
  BY DEF Fill
<1>4. slots' = [slots EXCEPT ![q.slot] = q.payload]
  BY DEF Fill
<1>5. q.slot \in KioskSlots => q.payload.rank = 0
  BY DEF Inv, KioskBuilds
<1>6. SlotsOK'
  BY <1>1, <1>4, <1>5, TypeParts DEF Inv, SlotsOK, ReaderRow, Bounds
<1>7. TypeOK'
  <2>1. ReadersOK'
    BY <1>2, <1>3, TypeParts DEF Inv, ReadersOK
  <2>2. CountersOK' /\ WritersOK' /\ LedgerOK'
    BY TypeParts DEF Inv, CountersOK, WritersOK, LedgerOK, Fill
  <2> QED
    BY <1>6, <2>1, <2>2 DEF TypeOK, LedgerOK, CountersOK, SlotsOK, ReadersOK, WritersOK, ReaderRow, WriterRow
<1>8. BuildersAreCurrent' /\ KioskBuilds'
  BY <1>3, TypeParts DEF Inv, ReadersOK, BuildersAreCurrent, KioskBuilds, Rank, Fill, Blank, At
<1>9. ASSUME NEW s \in Slots, slots'[s] # Empty, ~slots'[s].overlapped
      PROVE  (ShowsCatalog(s) \/ FlushPending(s) \/ s \in lost)'
  <2>1. CASE s = q.slot
    <3>1. slots'[s] = q.payload
      BY <1>4, <2>1, TypeParts DEF Inv, SlotsOK
    <3>2. q.payload.rows = catalog /\ q.payload.rank = Rank(s)
      BY <1>9, <2>1, <3>1 DEF Inv, BuildersAreCurrent, Fill
    <3> QED
      BY <3>1, <3>2 DEF ShowsCatalog, Fill, Rank
  <2>2. CASE s # q.slot
    <3>1. slots'[s] = slots[s]
      BY <1>4, <2>2, TypeParts DEF Inv, SlotsOK
    <3> QED
      BY <1>9, <3>1 DEF Inv, UnovertakenIsFresh, ShowsCatalog, FlushPending, Owes, Fill, Rank
  <2> QED
    BY <2>1, <2>2
<1>10. UnovertakenIsFresh'
  BY <1>9 DEF UnovertakenIsFresh
<1>11. IngestFlushesLast'
  BY DEF Inv, IngestFlushesLast, Fill
<1> QED
  BY <1>7, <1>8, <1>10, <1>11 DEF Inv

-----------------------------------------------------------------------------
\* A step of one writer that changes nothing else, and loses no flush it owes
\* unrecorded, keeps the invariant.
LEMMA WriterMoves ==
    ASSUME Inv, NEW w \in Writers, NEW t \in WriterRow, Turns(w, t),
           UNCHANGED <<catalog, policy, ledger, slots, readers>>,
           t.pc = "ingest" => t.todo = {},
           lost' \subseteq Slots, lost \subseteq lost',
           \A s \in Slots : Owes(w, s) =>
              \/ t.pc = "idle" /\ s \in t.todo
              \/ t.pc = "ingest" /\ t.applied
              \/ s \in lost'
    PROVE  Inv'
<1>1. WritersOK
  BY TypeParts DEF Inv
<1>2. WritersOK' /\ IngestFlushesLast'
  BY <1>1 DEF Inv, WritersOK, IngestFlushesLast, Turns
<1>3. TypeOK'
  <2>1. CountersOK' /\ SlotsOK' /\ ReadersOK' /\ LedgerOK'
    BY TypeParts DEF Inv, CountersOK, SlotsOK, ReadersOK, LedgerOK
  <2> QED
    BY <1>2, <2>1 DEF TypeOK, LedgerOK, CountersOK, SlotsOK, ReadersOK, WritersOK, ReaderRow, WriterRow
<1>4. BuildersAreCurrent' /\ KioskBuilds'
  BY DEF Inv, BuildersAreCurrent, KioskBuilds, Rank
<1>5. ASSUME NEW s \in Slots, FlushPending(s) PROVE FlushPending(s)' \/ s \in lost'
  <2>1. PICK v \in Writers : Owes(v, s)
    BY <1>5 DEF FlushPending
  <2>2. Owes(v, s)' \/ s \in lost'
    BY <1>1, <2>1 DEF WritersOK, Turns, Owes
  <2> QED
    BY <2>2 DEF FlushPending
<1>6. UnovertakenIsFresh'
  BY <1>5 DEF Inv, UnovertakenIsFresh, ShowsCatalog, Rank
<1> QED
  BY <1>2, <1>3, <1>4, <1>6 DEF Inv

LEMMA QuietWriterSteps ==
    ASSUME Inv, NEW w \in Writers,
           \/ BeginEdit(w) \/ SaveRow(w) \/ AbortEdit(w) \/ BeginIngest(w) \/ FinishIngest(w)
    PROVE  Inv'
<1> DEFINE q == writers[w]
<1>1. q \in WriterRow /\ IdleWriter \in WriterRow
  BY TypeParts DEF Inv, WritersOK, WriterRow, IdleWriter
<1>2. q.pc = "ingest" => q.todo = {}
  BY DEF Inv, IngestFlushesLast
<1>8. lost \subseteq Slots
  BY DEF Inv, TypeOK
<1>3. CASE BeginEdit(w)
  <2> DEFINE t == [q EXCEPT !.pc = "claims", !.kind = "edit"]
  <2>1. t \in WriterRow /\ t.pc = "claims" /\ t.todo = q.todo
    BY <1>1 DEF WriterRow
  <2>2. \A s \in Slots : ~Owes(w, s)
    BY <1>3 DEF BeginEdit, Idle, Owes
  <2> HIDE DEF t
  <2> QED
    BY <1>3, <1>8, <2>1, <2>2, WriterMoves DEF BeginEdit, t
<1>4. CASE SaveRow(w)
  <2> DEFINE t == [q EXCEPT !.pc = "saved", !.todo = Flushed]
  <2>1. t \in WriterRow /\ t.pc = "saved" /\ t.todo = Slots
    BY <1>1 DEF WriterRow, Flushed
  <2> HIDE DEF t
  <2> QED
    BY <1>4, <1>8, <2>1, WriterMoves DEF SaveRow, Owes, t
<1>5. CASE AbortEdit(w)
  <2>1. \A s \in Slots : ~Owes(w, s)
    BY <1>5 DEF AbortEdit, Owes
  <2> QED
    BY <1>1, <1>5, <1>8, <2>1, WriterMoves DEF AbortEdit, IdleWriter
<1>6. CASE BeginIngest(w)
  <2> DEFINE t == [IdleWriter EXCEPT !.pc = "ingest", !.kind = "ingest"]
  <2>1. t \in WriterRow /\ t.todo = {}
    BY DEF WriterRow, IdleWriter
  <2>2. \A s \in Slots : ~Owes(w, s)
    BY <1>6 DEF BeginIngest, Idle, Owes
  <2> HIDE DEF t
  <2> QED
    BY <1>6, <1>8, <2>1, <2>2, WriterMoves DEF BeginIngest, t
<1>7. CASE FinishIngest(w)
  <2> DEFINE todo == IF q.applied THEN Flushed ELSE {}
             t == [IdleWriter EXCEPT !.kind = "ingest", !.todo = todo]
  <2>1. t \in WriterRow /\ t.pc = "idle" /\ t.todo = todo
    BY DEF WriterRow, IdleWriter, Flushed
  <2>2. q.pc = "ingest"
    BY <1>7 DEF FinishIngest
  <2>3. \A s \in Slots : Owes(w, s) => s \in todo
    BY <1>2, <2>2 DEF Owes, Flushed
  <2> HIDE DEF t, todo
  <2> QED
    BY <1>7, <1>8, <2>1, <2>3, WriterMoves DEF FinishIngest, t, todo
<1> QED
  BY <1>3, <1>4, <1>5, <1>6, <1>7

\* What a process that dies owed is recorded as lost.
LEMMA DieStep ==
    ASSUME Inv, NEW w \in Writers, Die(w)
    PROVE  Inv'
<1>1. IdleWriter \in WriterRow /\ lost \subseteq Slots
  BY DEF Inv, TypeOK, WriterRow, IdleWriter
<1>2. Turns(w, IdleWriter) /\ IdleWriter.pc = "idle"
  BY DEF Die, IdleWriter
<1>3. lost' = lost \cup {s \in Slots : Owes(w, s)}
  BY DEF Die
<1> QED
  BY <1>1, <1>2, <1>3, WriterMoves DEF Die

\* Deleting a slot pays what its writer owed it.
LEMMA FlushStep ==
    ASSUME Inv, NEW w \in Writers, NEW s \in Slots, Flush(w, s)
    PROVE  Inv'
<1> DEFINE t == [writers[w] EXCEPT !.todo = @ \ {s}]
<1>1. WritersOK /\ SlotsOK
  BY TypeParts DEF Inv
<1>2. t \in WriterRow /\ t.pc = writers[w].pc /\ t.applied = writers[w].applied
                      /\ t.todo = writers[w].todo \ {s}
  BY <1>1 DEF WritersOK, WriterRow
<1>3. writers' = [writers EXCEPT ![w] = t]
  BY DEF Flush, Turns
<1> HIDE DEF t
<1>4. WritersOK' /\ IngestFlushesLast'
  BY <1>1, <1>2, <1>3 DEF Inv, WritersOK, IngestFlushesLast
<1>5. slots' = [slots EXCEPT ![s] = Empty]
  BY DEF Flush
<1>6. SlotsOK'
  BY <1>1, <1>5 DEF SlotsOK
<1>7. TypeOK'
  <2>1. CountersOK' /\ ReadersOK' /\ LedgerOK'
    BY TypeParts DEF Inv, CountersOK, ReadersOK, LedgerOK, Flush
  <2> QED
    BY <1>4, <1>6, <2>1 DEF TypeOK, LedgerOK, CountersOK, SlotsOK, ReadersOK, WritersOK, ReaderRow, WriterRow
<1>8. BuildersAreCurrent' /\ KioskBuilds'
  BY DEF Inv, BuildersAreCurrent, KioskBuilds, Rank, Flush
<1>9. ASSUME NEW z \in Slots, slots'[z] # Empty, ~slots'[z].overlapped
      PROVE  (ShowsCatalog(z) \/ FlushPending(z) \/ z \in lost)'
  <2>1. z # s /\ slots'[z] = slots[z]
    BY <1>1, <1>5, <1>9 DEF SlotsOK
  <2>2. CASE ShowsCatalog(z)
    BY <2>1, <2>2 DEF ShowsCatalog, Rank, Flush
  <2>3. CASE FlushPending(z)
    <3>1. PICK v \in Writers : Owes(v, z)
      BY <2>3 DEF FlushPending
    <3>2. Owes(v, z)'
      BY <1>1, <1>2, <1>3, <2>1, <3>1 DEF WritersOK, Owes
    <3> QED
      BY <3>2 DEF FlushPending
  <2>4. CASE z \in lost
    BY <2>1, <2>4 DEF Flush
  <2> QED
    BY <1>9, <2>1, <2>2, <2>3, <2>4 DEF Inv, UnovertakenIsFresh
<1>10. UnovertakenIsFresh'
  BY <1>9 DEF UnovertakenIsFresh
<1> QED
  BY <1>4, <1>7, <1>8, <1>10 DEF Inv

-----------------------------------------------------------------------------
\* A change overtakes every builder.
LEMMA OvertakenBuilders ==
    ASSUME Inv, Overtake
    PROVE  ReadersOK' /\ BuildersAreCurrent' /\ KioskBuilds'
<1>1. ReadersOK
  BY TypeParts DEF Inv
<1>2. ASSUME NEW r \in Readers
      PROVE  /\ readers'[r] \in ReaderRow
             /\ readers'[r].slot = readers[r].slot
             /\ readers'[r].payload.rank = readers[r].payload.rank
             /\ readers'[r].pc # "idle" => readers'[r].payload.overlapped
  <2> DEFINE b == readers[r]
             p == [b.payload EXCEPT !.overlapped = TRUE]
  <2>1. b \in ReaderRow
    BY <1>1 DEF ReadersOK
  <2>2. p \in Payload /\ p.overlapped /\ p.rank = b.payload.rank
    BY <2>1 DEF ReaderRow, Payload
  <2>3. readers'[r] = IF b.pc = "idle" THEN b ELSE At(b.pc, b.slot, p)
    BY DEF Overtake
  <2> HIDE DEF p
  <2> QED
    BY <2>1, <2>2, <2>3 DEF At, ReaderRow
<1>3. ReadersOK'
  <2>1. readers' = [r \in Readers |-> readers'[r]]
    BY DEF Overtake
  <2> QED
    BY <1>2, <2>1 DEF ReadersOK, ReaderRow, Payload, Changes
<1>4. BuildersAreCurrent' /\ KioskBuilds'
  BY <1>2 DEF Inv, BuildersAreCurrent, KioskBuilds
<1> QED
  BY <1>3, <1>4

\* A change whose writer then owes every slot a flush keeps the invariant.
LEMMA ChangesThatFlush ==
    ASSUME Inv, NEW w \in Writers, NEW t \in WriterRow, Turns(w, t), Overtake,
           UNCHANGED slots, CountersOK', LedgerOK',
           t.pc = "ingest" => t.todo = {},
           (t.pc = "idle" /\ t.todo = Slots) \/ (t.pc = "ingest" /\ t.applied)
    PROVE  Inv'
<1>1. WritersOK /\ SlotsOK
  BY TypeParts DEF Inv
<1>2. WritersOK' /\ IngestFlushesLast'
  BY <1>1 DEF Inv, WritersOK, IngestFlushesLast, Turns
<1>3. SlotsOK'
  BY <1>1 DEF SlotsOK
<1>4. ReadersOK' /\ BuildersAreCurrent' /\ KioskBuilds'
  BY OvertakenBuilders
<1>5. TypeOK'
  BY <1>2, <1>3, <1>4 DEF TypeOK, LedgerOK, CountersOK, SlotsOK, ReadersOK, WritersOK, ReaderRow, WriterRow
<1>6. \A s \in Slots : FlushPending(s)'
  BY <1>1 DEF WritersOK, Turns, FlushPending, Owes
<1>7. UnovertakenIsFresh'
  BY <1>6 DEF UnovertakenIsFresh
<1> QED
  BY <1>2, <1>4, <1>5, <1>7 DEF Inv

\* The successor of a counter below the bound.
LEMMA Successor ==
    ASSUME Bounds, NEW n \in Changes, n < MaxChanges
    PROVE  n + 1 \in Changes
BY DEF Bounds, Changes

LEMMA ChangeSteps ==
    ASSUME Bounds, Inv, NEW w \in Writers,
           \/ CommitEdit(w) \/ ChangePolicy(w)
           \/ \E p \in Patches : ApplyPatch(w, p)
    PROVE  Inv'
<1> DEFINE q == writers[w]
<1>1. q \in WriterRow /\ CountersOK /\ LedgerOK
  BY TypeParts DEF Inv, WritersOK
<1>2. CASE CommitEdit(w)
  <2> DEFINE t == [q EXCEPT !.pc = "idle", !.todo = OnCommit]
  <2>1. t \in WriterRow /\ t.pc = "idle" /\ t.todo = Slots
    BY <1>1 DEF WriterRow, OnCommit, Flushed
  <2>2. CountersOK'
    BY <1>1, <1>2, Successor DEF CommitEdit, CountersOK
  <2>3. Turns(w, t) /\ Overtake /\ UNCHANGED slots /\ LedgerOK'
    BY <1>1, <1>2 DEF CommitEdit, LedgerOK
  <2> HIDE DEF t
  <2> QED
    BY <2>1, <2>2, <2>3, ChangesThatFlush
<1>3. CASE ChangePolicy(w)
  <2> DEFINE t == [q EXCEPT !.kind = "policy", !.todo = Flushed]
  <2>1. t \in WriterRow /\ t.pc = "idle" /\ t.todo = Slots
    BY <1>1, <1>3 DEF WriterRow, Flushed, ChangePolicy, Idle
  <2>2. CountersOK'
    BY <1>1, <1>3, Successor DEF ChangePolicy, CountersOK
  <2>3. Turns(w, t) /\ Overtake /\ UNCHANGED slots /\ LedgerOK'
    BY <1>1, <1>3 DEF ChangePolicy, LedgerOK
  <2> HIDE DEF t
  <2> QED
    BY <2>1, <2>2, <2>3, ChangesThatFlush
<1>4. ASSUME NEW p \in Patches, ApplyPatch(w, p) PROVE Inv'
  <2> DEFINE t == [q EXCEPT !.applied = TRUE]
  <2>1. t \in WriterRow /\ t.pc = "ingest" /\ t.applied /\ t.todo = q.todo
    BY <1>1, <1>4 DEF WriterRow, ApplyPatch
  <2>2. q.todo = {}
    BY <1>4 DEF Inv, IngestFlushesLast, ApplyPatch
  <2>3. CountersOK' /\ LedgerOK'
    BY <1>1, <1>4, Successor DEF ApplyPatch, CountersOK, LedgerOK
  <2>4. Turns(w, t) /\ Overtake /\ UNCHANGED slots
    BY <1>4 DEF ApplyPatch
  <2> HIDE DEF t
  <2> QED
    BY <2>1, <2>2, <2>3, <2>4, ChangesThatFlush
<1> QED
  BY <1>2, <1>3, <1>4

-----------------------------------------------------------------------------
LEMMA StepInv == Bounds /\ Inv /\ [Next]_vars => Inv'
<1> SUFFICES ASSUME Bounds, Inv, [Next]_vars PROVE Inv'
  OBVIOUS
<1>1. ASSUME NEW r \in Readers,
             \/ \E s \in Slots : Miss(r, s)
             \/ ReadRank(r) \/ ReadRows(r) \/ Fill(r)
      PROVE  Inv'
  BY <1>1, MissStep, ReadRankStep, ReadRowsStep, FillStep
<1>2. ASSUME NEW w \in Writers, \E s \in Slots : Flush(w, s) PROVE Inv'
  BY <1>2, FlushStep
<1>3. ASSUME NEW w \in Writers,
             \/ BeginEdit(w) \/ SaveRow(w) \/ AbortEdit(w) \/ BeginIngest(w) \/ FinishIngest(w)
      PROVE  Inv'
  BY <1>3, QuietWriterSteps
<1>4. ASSUME NEW w \in Writers,
             \/ CommitEdit(w) \/ ChangePolicy(w)
             \/ \E p \in Patches : ApplyPatch(w, p)
      PROVE  Inv'
  BY <1>4, ChangeSteps
<1>5. ASSUME NEW w \in Writers, Die(w) PROVE Inv'
  BY <1>5, DieStep
<1>6. CASE UNCHANGED vars
  <2>1. TypeOK'
    BY <1>6 DEF vars, Inv, TypeOK
  <2>2. BuildersAreCurrent' /\ KioskBuilds' /\ IngestFlushesLast'
    BY <1>6 DEF vars, Inv, BuildersAreCurrent, KioskBuilds, IngestFlushesLast, Rank
  <2>3. UnovertakenIsFresh'
    BY <1>6 DEF vars, Inv, UnovertakenIsFresh, ShowsCatalog, FlushPending, Owes, Rank
  <2> QED
    BY <2>1, <2>2, <2>3 DEF Inv
<1> QED
  BY <1>1, <1>2, <1>3, <1>4, <1>5, <1>6 DEF Next

\* For any number of slots, readers, writers and patches, and whoever dies: a
\* payload that no change overtook while it was built shows the committed
\* catalog, or is about to be flushed, or lost its flush to a death (core/response_cache.py,
\* catalog/signals.py and the on_commit hook of catalog/resolve/_dispatch.py).
THEOREM CacheIsFresh == Bounds /\ Spec => []UnovertakenIsFresh
<1> SUFFICES ASSUME Bounds PROVE Spec => []UnovertakenIsFresh
  OBVIOUS
<1>1. Init => Inv
  BY InitInv
<1>2. Inv /\ [Next]_vars => Inv'
  BY StepInv
<1>3. Inv => UnovertakenIsFresh
  BY DEF Inv
<1> QED
  BY <1>1, <1>2, <1>3, PTL DEF Spec

-----------------------------------------------------------------------------
(***************************************************************************)
(* The games listing.  Its badges come from an algebra of their own; the   *)
(* proof is that both are read off the same rows: a click on an option     *)
(* leaves the Models that carry the option (ClickIsRows), a Title counted  *)
(* unanimous is one with all its live Models among them                    *)
(* (UnanimousIsTitles), and what is absorbed is the same (TallyIsCards).   *)
(* The invariant: the catalog fits the sidebar and Variants are flat.      *)
(***************************************************************************)
GameInv == Games!TypeOK /\ Games!Flat(gameModels)

(***************************************************************************)
(* What the assumption on the sidebars says of the one at hand, and the    *)
(* types of the catalog, field by field.                                   *)
(***************************************************************************)
GameSetsOK ==
    /\ IsFiniteSet(Games!Models) /\ IsFiniteSet(Games!Titles)
    /\ None \notin Games!Models /\ None \notin Games!Dims /\ None \notin Games!TitleDims
    /\ \A d \in Games!TitleDims : None \notin Games!Values[d]

GameRowsOK ==
    \A m \in Games!Models :
        /\ gameModels[m].live \in BOOLEAN /\ gameModels[m].q \in BOOLEAN
        /\ gameModels[m].title \in Games!Titles
        /\ gameModels[m].variantOf \in Games!Models \cup {None}

GameValuesOK ==
    \A m \in Games!Models : \A d \in Games!Dims :
        /\ gameModels[m].vals[d] \subseteq Games!Held[d]
        /\ d \notin Games!Many => \A x, y \in gameModels[m].vals[d] : x = y

GameTitlesOK ==
    \A t \in Games!Titles : gameTitles[t].live \in BOOLEAN /\ gameTitles[t].q \in BOOLEAN

GameFilterOK ==
    /\ gameFilter = [q |-> gameFilter.q, sel |-> gameFilter.sel, tsel |-> gameFilter.tsel]
    /\ gameFilter.q \in BOOLEAN
    /\ gameFilter.sel = [d \in Games!Dims |-> gameFilter.sel[d]]
    /\ gameFilter.tsel = [d \in Games!TitleDims |-> gameFilter.tsel[d]]

GameFlat ==
    \A m \in Games!Models : gameModels[m].variantOf # None =>
        LET p == gameModels[m].variantOf
        IN  p \in Games!Models /\ gameModels[p].variantOf = None
            /\ gameModels[p].title = gameModels[m].title

LEMMA EditsAreBounded == MaxEdits \in Nat
BY GamesAssumption DEF Games!SidebarsAssumption

LEMMA GameSets ==
    ASSUME GameInv
    PROVE  GameSetsOK /\ \A d \in Games!Dims : Games!DimensionFits(Games!Sidebar, d)
<1>1. sidebar \in DOMAIN Sidebars
  BY DEF GameInv, Games!TypeOK
<1> QED
  BY <1>1, GamesAssumption
  DEF Games!SidebarsAssumption, GameSetsOK, Games!Sidebar, Games!Models, Games!Titles, Games!Dims,
      Games!TitleDims, Games!Values, Games!IsFiniteSet, IsFiniteSet

LEMMA GameTypes ==
    ASSUME GameInv
    PROVE  GameRowsOK /\ GameValuesOK /\ GameTitlesOK /\ GameFilterOK /\ GameFlat
<1>1. Games!IsCatalog(Games!Sidebar, gameModels, gameTitles)
  BY DEF GameInv, Games!TypeOK
<1>2. GameRowsOK
  BY <1>1 DEF GameRowsOK, Games!IsCatalog, Games!IsModel, Games!Models, Games!Titles
<1>3. GameValuesOK
  <2>1. ASSUME NEW m \in Games!Models PROVE Games!IsModel(Games!Sidebar, gameModels[m])
    BY <1>1 DEF Games!IsCatalog, Games!Models
  <2> QED
    BY <2>1 DEF GameValuesOK, Games!IsModel, Games!Dims, Games!Held, Games!Many
<1>4. GameTitlesOK
  BY <1>1 DEF GameTitlesOK, Games!IsCatalog, Games!TitleRow, Games!Titles
<1>5. GameFilterOK
  BY DEF GameInv, Games!TypeOK, GameFilterOK
<1>6. GameFlat
  <2>1. DOMAIN gameModels = Games!Models
    BY <1>1 DEF Games!IsCatalog, Games!Models
  <2> QED
    BY <2>1, <1>2 DEF GameFlat, GameRowsOK, GameInv, Games!Flat
<1> QED
  BY <1>2, <1>3, <1>4, <1>5, <1>6

(***************************************************************************)
(* The two walks of a taxonomy are each other's mirror: the complement of  *)
(* what is closed upwards is closed downwards.                             *)
(***************************************************************************)
LEMMA WalksMirror ==
    ASSUME NEW s \in DOMAIN Games!Broader, NEW c \in DOMAIN Games!Broader,
           \A v \in DOMAIN Games!Broader : Games!Broader[v] \subseteq DOMAIN Games!Broader
    PROVE  c \in Games!_descendants(s) <=> s \in Games!ancestor_map(c)
<1> DEFINE B == Games!Broader
           Down(S) == \A x \in DOMAIN B : B[x] \cap S # {} => x \in S
           Up(S) == \A x \in S : B[x] \subseteq S
<1>1. c \in Games!_descendants(s) <=> \A S \in SUBSET DOMAIN B : s \in S /\ Down(S) => c \in S
  BY DEF Games!_descendants
<1>2. s \in Games!ancestor_map(c) <=> \A S \in SUBSET DOMAIN B : c \in S /\ Up(S) => s \in S
  BY DEF Games!ancestor_map
<1>3. ASSUME NEW S \in SUBSET DOMAIN B PROVE Up(S) <=> Down(DOMAIN B \ S)
  OBVIOUS
<1> HIDE DEF Up, Down
<1>4. ASSUME NEW S \in SUBSET DOMAIN B PROVE DOMAIN B \ (DOMAIN B \ S) = S
  OBVIOUS
<1>6. ASSUME c \in Games!_descendants(s) PROVE s \in Games!ancestor_map(c)
  <2> SUFFICES ASSUME NEW S \in SUBSET DOMAIN B, c \in S, Up(S) PROVE s \in S
    BY <1>2
  <2>1. Down(DOMAIN B \ S)
    BY <1>3
  <2> QED
    BY <2>1, <1>1, <1>6
<1>7. ASSUME s \in Games!ancestor_map(c) PROVE c \in Games!_descendants(s)
  <2> SUFFICES ASSUME NEW S \in SUBSET DOMAIN B, s \in S, Down(S) PROVE c \in S
    BY <1>1
  <2>1. Up(DOMAIN B \ S)
    BY <1>3, <1>4
  <2> QED
    BY <2>1, <1>2, <1>7
<1> QED
  BY <1>6, <1>7

(***************************************************************************)
(* One option of one dimension, against one Model: the listing narrows to  *)
(* the Models whose rows have the option, shape by shape.                  *)
(***************************************************************************)
Fits(d) == Games!DimensionFits(Games!Sidebar, d)

LEMMA OptionIsRow ==
    ASSUME GameInv, NEW d \in Games!Dims, NEW v \in Games!Values[d], NEW m \in Games!Models,
           Games!Shape[d] # "sparse"
    PROVE  Games!NarrowsTo(d, {v}, m) <=> v \in Games!ValueRows(d, m)
<1> DEFINE held == gameModels[m].vals[d]
<1>1. Fits(d) /\ held \subseteq Games!Held[d]
  BY GameSets, GameTypes DEF Fits, GameValuesOK
<1>2. CASE Games!Shape[d] = "path"
  BY <1>2 DEF Games!NarrowsTo, Games!ValueRows
<1>3. CASE Games!Shape[d] = "taxonomy"
  <2>1. /\ v \in DOMAIN Games!Broader /\ held \subseteq DOMAIN Games!Broader
        /\ \A x \in DOMAIN Games!Broader : Games!Broader[x] \subseteq DOMAIN Games!Broader
    BY <1>1, <1>3 DEF Fits, Games!DimensionFits, Games!Shape, Games!Values, Games!Held, Games!Broader
  <2>2. \A c \in held : c \in Games!_descendants(v) <=> v \in Games!ancestor_map(c)
    BY <2>1, WalksMirror
  <2>3. Games!NarrowsTo(d, {v}, m) <=> (held \cap Games!_descendants(v)) # {}
    BY <1>3 DEF Games!NarrowsTo
  <2>4. Games!ValueRows(d, m) = UNION {Games!ancestor_map(c) : c \in held}
    BY <1>3 DEF Games!ValueRows
  <2> QED
    BY <2>2, <2>3, <2>4
<1>4. CASE Games!Shape[d] = "bucket"
  <2>1. v \in Games!PlayerBuckets /\ held \subseteq Int
    BY <1>1, <1>4 DEF Fits, Games!DimensionFits, Games!Shape, Games!Values, Games!Held
  <2>2. Games!NarrowsTo(d, {v}, m) <=> Games!_bucket_q(v, held)
    BY <1>4 DEF Games!NarrowsTo
  <2>3. Games!ValueRows(d, m) = {IF n >= 6 THEN 6 ELSE n : n \in held} \cap Games!PlayerBuckets
    BY <1>4 DEF Games!ValueRows
  <2>4. Games!_bucket_q(v, held) <=> \E n \in held : v = IF n >= 6 THEN 6 ELSE n
    BY <2>1 DEF Games!_bucket_q, Games!PlayerBuckets
  <2> QED
    BY <2>1, <2>2, <2>3, <2>4
<1>5. CASE Games!Shape[d] = "edge"
  BY <1>5 DEF Games!NarrowsTo, Games!ValueRows
<1> QED
  BY <1>1, <1>2, <1>3, <1>4, <1>5 DEF Fits, Games!DimensionFits, Games!Shape

LEMMA PresetIsRow ==
    ASSUME GameInv, NEW d \in Games!Dims, NEW v \in Games!Values[d], NEW m \in Games!Models,
           Games!Shape[d] = "sparse"
    PROVE  Games!NarrowsTo(d, Games!preset_values(d, v), m) <=> v \in Games!ValueRows(d, m)
<1> DEFINE held == gameModels[m].vals[d]
<1>1. Fits(d) /\ held \subseteq Games!Held[d]
  BY GameSets, GameTypes DEF Fits, GameValuesOK
<1>2. held \subseteq Games!Values[d] /\ Games!Unclassified \notin Games!Values[d]
  BY <1>1 DEF Fits, Games!DimensionFits, Games!Shape, Games!Values, Games!Held
<1>3. Games!NarrowsTo(d, Games!preset_values(d, v), m)
         <=> Games!_sparse_q(Games!preset_values(d, v), held)
  BY DEF Games!NarrowsTo
<1>4. Games!ValueRows(d, m) = IF held = {} THEN {Games!DefaultSlug[d]} ELSE held
  BY DEF Games!ValueRows
<1>5. Games!_sparse_q(Games!preset_values(d, v), held)
         <=> v \in held \/ (v = Games!DefaultSlug[d] /\ held = {})
  BY <1>2 DEF Games!_sparse_q, Games!preset_values
<1> QED
  BY <1>3, <1>4, <1>5

\* Values that accumulate narrow one by one.
LEMMA OptionsNarrowTogether ==
    ASSUME GameInv, NEW d \in Games!Dims, NEW v, NEW S, NEW m \in Games!Models,
           Games!Shape[d] # "sparse"
    PROVE  Games!NarrowsTo(d, S \cup {v}, m)
              <=> Games!NarrowsTo(d, {v}, m) /\ Games!NarrowsTo(d, S, m)
<1>1. Fits(d)
  BY GameSets DEF Fits
<1>2. CASE Games!Shape[d] = "path"
  BY <1>2 DEF Games!NarrowsTo
<1>3. CASE Games!Shape[d] = "taxonomy"
  BY <1>3 DEF Games!NarrowsTo
<1>4. CASE Games!Shape[d] = "bucket"
  BY <1>4 DEF Games!NarrowsTo
<1>5. CASE Games!Shape[d] = "edge"
  BY <1>5 DEF Games!NarrowsTo
<1> QED
  BY <1>1, <1>2, <1>3, <1>4, <1>5 DEF Fits, Games!DimensionFits, Games!Shape

\* Nothing chosen narrows to everything, but in a sparse dimension.
LEMMA NothingNarrows ==
    ASSUME GameInv, NEW d \in Games!Dims, NEW m \in Games!Models, Games!Shape[d] # "sparse"
    PROVE  Games!NarrowsTo(d, {}, m)
<1>1. Fits(d)
  BY GameSets DEF Fits
<1> QED
  BY <1>1 DEF Games!NarrowsTo, Fits, Games!DimensionFits, Games!Shape

(***************************************************************************)
(* A click on an option narrows to the rows of the option.                 *)
(***************************************************************************)
LEMMA ClickedFilter ==
    ASSUME GameInv, NEW d \in Games!Dims, NEW v \in Games!Values[d]
    PROVE  LET g == Games!Chosen(gameFilter, d, v) IN
           /\ g.q = gameFilter.q /\ g.tsel = gameFilter.tsel
           /\ \A e \in Games!Dims \ {d} : g.sel[e] = gameFilter.sel[e]
           /\ g.sel[d] = CASE Games!Combine[d] = "and" -> gameFilter.sel[d] \cup {v}
                           [] Games!Combine[d] = "or" -> Games!preset_values(d, v)
                           [] OTHER -> {v}
           /\ v \in g.sel[d]
<1>1. GameFilterOK
  BY GameTypes
<1> QED
  BY <1>1 DEF GameFilterOK, Games!Chosen, Games!preset_values

LEMMA ClickIsRows ==
    ASSUME GameInv, NEW d \in Games!Dims, NEW v \in Games!Values[d], NEW m \in Games!Models
    PROVE  m \in Games!model_only_models(Games!Chosen(gameFilter, d, v), None)
              <=> /\ m \in Games!model_only_models(gameFilter, Games!facet_exclude(d))
                  /\ v \in Games!ValueRows(d, m)
<1> DEFINE g == Games!Chosen(gameFilter, d, v)
           Others == \A e \in Games!Dims \ {d} :
                        gameFilter.sel[e] # {} => Games!NarrowsTo(e, gameFilter.sel[e], m)
           Old == gameFilter.sel[d] # {} => Games!NarrowsTo(d, gameFilter.sel[d], m)
<1>1. Fits(d) /\ None \notin Games!Dims
  BY GameSets DEF Fits, GameSetsOK
<1>8. /\ \A e \in Games!Dims \ {d} : g.sel[e] = gameFilter.sel[e]
      /\ v \in g.sel[d]
      /\ Games!Combine[d] = "and" => g.sel[d] = gameFilter.sel[d] \cup {v}
      /\ Games!Combine[d] = "or" => g.sel[d] = Games!preset_values(d, v)
      /\ Games!Combine[d] # "and" /\ Games!Combine[d] # "or" => g.sel[d] = {v}
  BY ClickedFilter
<1>9. m \in Games!model_only_models(g, None)
         <=> Games!Standing(m) /\ \A e \in Games!Dims : g.sel[e] # {} => Games!NarrowsTo(e, g.sel[e], m)
  BY <1>1 DEF Games!model_only_models, Games!Active
<1> HIDE DEF g
<1>2. m \in Games!model_only_models(g, None)
         <=> Games!Standing(m) /\ Others /\ Games!NarrowsTo(d, g.sel[d], m)
  <2>1. (\A e \in Games!Dims : g.sel[e] # {} => Games!NarrowsTo(e, g.sel[e], m))
           <=> /\ \A e \in Games!Dims \ {d} : g.sel[e] # {} => Games!NarrowsTo(e, g.sel[e], m)
               /\ g.sel[d] # {} => Games!NarrowsTo(d, g.sel[d], m)
    OBVIOUS
  <2>2. (\A e \in Games!Dims \ {d} : g.sel[e] # {} => Games!NarrowsTo(e, g.sel[e], m)) <=> Others
    <3>1. ASSUME NEW e \in Games!Dims \ {d}
          PROVE  (g.sel[e] # {} => Games!NarrowsTo(e, g.sel[e], m))
                    <=> (gameFilter.sel[e] # {} => Games!NarrowsTo(e, gameFilter.sel[e], m))
      <4>1. g.sel[e] = gameFilter.sel[e]
        BY <1>8
      <4> QED
        BY <4>1, Zenon
    <3> QED
      BY <3>1
  <2>3. g.sel[d] # {}
    BY <1>8
  <2> HIDE DEF Others
  <2> QED
    BY <1>9, <2>1, <2>2, <2>3
<1>3. m \in Games!model_only_models(gameFilter, Games!facet_exclude(d))
         <=> Games!Standing(m) /\ Others /\ (Games!Combine[d] = "and" => Old)
  BY <1>1 DEF Games!model_only_models, Games!Active, Games!facet_exclude
<1>4. Games!Combine[d] = "or" <=> Games!Shape[d] = "sparse"
  BY <1>1 DEF Fits, Games!DimensionFits, Games!Shape, Games!Combine
<1>5. CASE Games!Combine[d] = "and"
  <2>4. g.sel[d] = gameFilter.sel[d] \cup {v} /\ Games!Shape[d] # "sparse"
    BY <1>4, <1>5, <1>8
  <2>1. Games!NarrowsTo(d, g.sel[d], m) <=> Games!NarrowsTo(d, {v}, m) /\ Games!NarrowsTo(d, gameFilter.sel[d], m)
    <3>1. Games!NarrowsTo(d, gameFilter.sel[d] \cup {v}, m)
             <=> Games!NarrowsTo(d, {v}, m) /\ Games!NarrowsTo(d, gameFilter.sel[d], m)
      BY <2>4, OptionsNarrowTogether
    <3> QED
      BY <2>4, <3>1
  <2>2. Games!NarrowsTo(d, gameFilter.sel[d], m) <=> Old
    BY <1>4, <1>5, NothingNarrows
  <2>3. Games!NarrowsTo(d, {v}, m) <=> v \in Games!ValueRows(d, m)
    BY <1>4, <1>5, OptionIsRow
  <2> HIDE DEF Old, Others
  <2> QED
    BY <1>2, <1>3, <1>5, <2>1, <2>2, <2>3 DEF g
<1>6. CASE Games!Combine[d] = "or"
  <2>1. Games!NarrowsTo(d, g.sel[d], m) <=> v \in Games!ValueRows(d, m)
    <3>1. g.sel[d] = Games!preset_values(d, v) /\ Games!Shape[d] = "sparse"
      BY <1>4, <1>6, <1>8
    <3> QED
      BY <3>1, PresetIsRow, Zenon
  <2> HIDE DEF Old, Others
  <2> QED
    BY <1>2, <1>3, <1>6, <2>1 DEF g
<1>7. CASE Games!Combine[d] # "and" /\ Games!Combine[d] # "or"
  <2>1. Games!NarrowsTo(d, g.sel[d], m) <=> v \in Games!ValueRows(d, m)
    <3>1. g.sel[d] = {v} /\ Games!Shape[d] # "sparse"
      BY <1>4, <1>7, <1>8
    <3> QED
      BY <3>1, OptionIsRow, Zenon
  <2> HIDE DEF Old, Others
  <2> QED
    BY <1>2, <1>3, <1>7, <2>1 DEF g
<1> QED
  BY <1>5, <1>6, <1>7

(***************************************************************************)
(* Counting.  Cards are tagged, so a page has as many as it has titles and *)
(* models on it.                                                           *)
(***************************************************************************)
LEMMA CountsAgree ==
    ASSUME NEW S PROVE Games!Cardinality(S) = Cardinality(S)
BY DEF Cardinality, Games!Cardinality

LEMMA TaggedCount ==
    ASSUME NEW S, IsFiniteSet(S), NEW k
    PROVE  LET T == {<<k, x>> : x \in S} IN IsFiniteSet(T) /\ Cardinality(T) = Cardinality(S)
<1> DEFINE T == {<<k, x>> : x \in S}
           tag == [x \in S |-> <<k, x>>]
<1>1. tag \in Bijection(S, T)
  <2>1. tag \in [S -> T]
    OBVIOUS
  <2>2. \A x, y \in S : tag[x] = tag[y] => x = y
    OBVIOUS
  <2>3. \A z \in T : \E x \in S : tag[x] = z
    OBVIOUS
  <2> HIDE DEF tag, T
  <2> QED
    BY <2>1, <2>2, <2>3 DEF Bijection, Injection, Surjection, IsInjective
<1> HIDE DEF tag
<1>2. ExistsBijection(S, T)
  BY <1>1 DEF ExistsBijection
<1> QED
  BY <1>2, FS_Bijection

LEMMA CardsCount ==
    ASSUME NEW A, NEW B, IsFiniteSet(A), IsFiniteSet(B)
    PROVE  Cardinality({<<"title", t>> : t \in A} \cup {<<"model", m>> : m \in B})
              = Cardinality(A) + Cardinality(B)
<1> DEFINE P == {<<"title", t>> : t \in A}
           Q == {<<"model", m>> : m \in B}
<1>1. IsFiniteSet(P) /\ Cardinality(P) = Cardinality(A)
  BY TaggedCount
<1>2. IsFiniteSet(Q) /\ Cardinality(Q) = Cardinality(B)
  BY TaggedCount
<1>3. P \cap Q = {}
  OBVIOUS
<1> HIDE DEF P, Q
<1>4. Cardinality(P \cup Q) = Cardinality(P) + Cardinality(Q) - Cardinality(P \cap Q)
  BY <1>1, <1>2, FS_Union
<1>7. Cardinality(P \cap Q) = 0
  BY <1>3, FS_EmptySet
<1>5. Cardinality({}) = 0 /\ Cardinality(A) \in Nat /\ Cardinality(B) \in Nat
  BY FS_EmptySet, FS_CardinalityType
<1>6. Cardinality(P \cup Q) = Cardinality(A) + Cardinality(B)
  BY <1>1, <1>2, <1>4, <1>5, <1>7
<1> QED
  BY <1>6 DEF P, Q

(***************************************************************************)
(* The rows of a filter: what it matches, with the titles' own dimensions. *)
(***************************************************************************)
RowsOf(g) ==
    {m \in Games!model_only_models(g, None) : Games!_title_only_q(g, gameModels[m].title, None)}

LEMMA RowsStand ==
    ASSUME GameInv, NEW g, NEW m \in Games!model_only_models(g, None)
    PROVE  /\ m \in Games!Models /\ gameModels[m].live /\ gameModels[m].title \in Games!Titles
           /\ gameTitles[gameModels[m].title].live
BY GameTypes DEF GameRowsOK, Games!model_only_models, Games!Standing

\* A title all of whose live models match, counted, is one whose live models
\* are among the matches.
LEMMA UnanimousIsTitles ==
    ASSUME GameInv, NEW g, g.q = gameFilter.q, Games!_model_dimensions_active(g)
    PROVE  Games!_unanimous_cells(RowsOf(g)) = Games!title_rows(g)
<1> DEFINE R == RowsOf(g)
           Mine(t) == {m \in R : gameModels[m].title = t}
           All(t) == {m \in Games!Models : Games!Standing(m) /\ gameModels[m].title = t}
           Gate(t) == Games!_title_only_q(g, t, None)
           Own(t) == gameTitles[t].live /\ (gameFilter.q => gameTitles[t].q)
<1>0. R = {m \in Games!model_only_models(g, None) : Gate(gameModels[m].title)}
  BY DEF RowsOf
<1>1. Games!_unanimous_cells(R) =
        {t \in {gameModels[m].title : m \in R} :
            Cardinality(Mine(t)) = Cardinality(All(t)) /\ t \in Games!own_q_titles}
  BY CountsAgree DEF Games!_unanimous_cells, Games!totals_by_title
<1>2. Games!own_q_titles = {t \in Games!Titles : Own(t)}
  BY DEF Games!own_q_titles
<1>3. Games!title_rows(g) =
        {t \in Games!Titles : /\ Own(t) /\ Gate(t)
                             /\ Games!LiveModels(t) # {}
                             /\ Games!LiveModels(t) \subseteq Games!model_only_models(g, None)}
  BY DEF Games!title_rows
<1>4. ASSUME NEW t \in Games!Titles, gameTitles[t].live PROVE Games!LiveModels(t) = All(t)
  BY <1>4 DEF Games!LiveModels, Games!Standing
<1>5. ASSUME NEW t PROVE (Cardinality(Mine(t)) = Cardinality(All(t))) <=> Mine(t) = All(t)
  <2>1. Mine(t) \subseteq All(t)
    BY <1>0 DEF Games!model_only_models
  <2>2. All(t) \subseteq Games!Models /\ IsFiniteSet(Games!Models)
    BY GameSets DEF GameSetsOK
  <2> HIDE DEF Mine, All
  <2>3. IsFiniteSet(All(t))
    BY <2>2, FS_Subset
  <2> QED
    BY <2>1, <2>3, FS_Subset
<1>6. ASSUME NEW t \in Games!Titles, Own(t)
      PROVE  (t \in {gameModels[m].title : m \in R} /\ Mine(t) = All(t))
                <=> /\ Gate(t) /\ Games!LiveModels(t) # {}
                    /\ Games!LiveModels(t) \subseteq Games!model_only_models(g, None)
  <2>1. Games!LiveModels(t) = All(t)
    BY <1>4, <1>6
  <2>2. t \in {gameModels[m].title : m \in R} <=> Mine(t) # {}
    OBVIOUS
  <2>3. Mine(t) = {m \in All(t) : m \in Games!model_only_models(g, None) /\ Gate(t)}
    BY <1>0, RowsStand DEF Games!model_only_models
  <2> HIDE DEF Mine, All, Gate, R
  <2> QED
    BY <2>1, <2>2, <2>3
<1>7. \A t \in {gameModels[m].title : m \in R} : t \in Games!Titles
  BY <1>0, RowsStand
<1> HIDE DEF Mine, All, Gate, R, Own
<1> QED
  <2>1. Games!_unanimous_cells(R) = Games!title_rows(g)
    BY <1>1, <1>2, <1>3, <1>5, <1>6, <1>7
  <2> QED
    BY <2>1 DEF R

\* Absorbed by a parent that matches is absorbed by one that is a row: the
\* parent is under the same title.
LEMMA TallyIsCards ==
    ASSUME GameInv, NEW g, g.q = gameFilter.q
    PROVE  Games!_tally(RowsOf(g), Games!title_rows(g)) = Games!Cardinality(Games!game_rows(g))
<1> DEFINE R == RowsOf(g)
           C == Games!title_rows(g)
           K == R \cap Games!q_match_models
           M == {m \in K : gameModels[m].title \notin C /\ gameModels[m].variantOf \notin K}
<1>1. Games!_tally(R, C) = Cardinality(C) + Cardinality(M)
  BY CountsAgree DEF Games!_tally
<1>2. Games!matching_models(g) = K
  BY RowsStand DEF Games!matching_models, Games!carding_models, Games!q_match_models, RowsOf, Games!Standing
<1>3. ASSUME NEW m \in K
      PROVE  gameModels[m].variantOf \in K <=> gameModels[m].variantOf \in Games!carding_models(g)
  <2> DEFINE p == gameModels[m].variantOf
  <2>1. K \subseteq Games!carding_models(g) /\ K = Games!matching_models(g)
    BY <1>2 DEF Games!matching_models
  <2>2. ASSUME p \in Games!carding_models(g) PROVE p \in K
    <3>1. p \in Games!Models /\ m \in Games!Models
      BY <2>1, <2>2, <1>3, RowsStand DEF Games!carding_models
    <3>2. p # None
      BY <3>1, GameSets DEF GameSetsOK
    <3>3. gameModels[p].title = gameModels[m].title
      BY <3>1, <3>2, GameTypes DEF GameFlat
    <3>4. Games!_title_only_q(g, gameModels[m].title, None)
      BY <1>3 DEF RowsOf
    <3> QED
      BY <2>1, <2>2, <3>3, <3>4 DEF Games!matching_models
  <2> HIDE DEF K
  <2> QED
    BY <2>1, <2>2
<1>4. Games!model_rows(g) = M
  <2> HIDE DEF K, C
  <2>1. Games!model_rows(g) = {m \in K : /\ gameModels[m].title \notin C
                                        /\ gameModels[m].variantOf \notin Games!carding_models(g)}
    BY <1>2 DEF Games!model_rows, C
  <2> QED
    BY <1>3, <2>1
<1>5. IsFiniteSet(C) /\ IsFiniteSet(M)
  <2>1. C \subseteq Games!Titles /\ M \subseteq Games!Models
    BY RowsStand DEF Games!title_rows, RowsOf
  <2>2. IsFiniteSet(Games!Titles) /\ IsFiniteSet(Games!Models)
    BY GameSets DEF GameSetsOK
  <2> HIDE DEF C, M
  <2> QED
    BY <2>1, <2>2, FS_Subset
<1> HIDE DEF C, M, R
<1>6. Games!game_rows(g) = {<<"title", t>> : t \in C} \cup {<<"model", m>> : m \in M}
  BY <1>4 DEF Games!game_rows, C
<1> QED
  BY <1>1, <1>5, <1>6, CardsCount, CountsAgree DEF R, C

(***************************************************************************)
(* The numbers of the sidebar.                                             *)
(***************************************************************************)
LEMMA BadgeIsClick ==
    ASSUME GameInv, NEW d \in Games!Dims, NEW v \in Games!Values[d]
    PROVE  Games!Badge(d, v) = Games!Clicked(d, v)
<1> DEFINE g == Games!Chosen(gameFilter, d, v)
<1>1. g.q = gameFilter.q /\ g.tsel = gameFilter.tsel /\ v \in g.sel[d]
  BY ClickedFilter
<1>2. \A m \in Games!Models :
         m \in Games!model_only_models(g, None)
            <=> /\ m \in Games!model_only_models(gameFilter, Games!facet_exclude(d))
                /\ v \in Games!ValueRows(d, m)
  BY ClickIsRows
<1> HIDE DEF g
<1>3. \A t : Games!_title_only_q(g, t, None) <=> Games!_title_only_q(gameFilter, t, None)
  BY <1>1 DEF Games!_title_only_q
<1>4. Games!Rows(d, v) = RowsOf(g)
  <2>1. \A h, e : Games!model_only_models(h, e) \subseteq Games!Models
    BY DEF Games!model_only_models
  <2> QED
    BY <1>2, <1>3, <2>1 DEF Games!Rows, RowsOf
<1>5. Games!_model_dimensions_active(g)
  BY <1>1 DEF Games!_model_dimensions_active, Games!Active
<1>6. Games!_unanimous_cells(RowsOf(g)) = Games!title_rows(g)
  BY <1>1, <1>5, UnanimousIsTitles
<1>7. Games!_tally(RowsOf(g), Games!title_rows(g)) = Games!Cardinality(Games!game_rows(g))
  BY <1>1, TallyIsCards
<1> QED
  BY <1>4, <1>6, <1>7 DEF Games!Badge, Games!Clicked, g

LEMMA TitleBadgeIsClick ==
    ASSUME GameInv, NEW d \in Games!TitleDims, NEW v \in Games!Values[d]
    PROVE  Games!TitleBadge(d, v)
              = Games!Cardinality(Games!game_rows(Games!ChosenTitle(gameFilter, d, v)))
<1> DEFINE g == Games!ChosenTitle(gameFilter, d, v)
<1>1. /\ g.q = gameFilter.q /\ g.sel = gameFilter.sel /\ g.tsel[d] = v
      /\ \A e \in Games!TitleDims \ {d} : g.tsel[e] = gameFilter.tsel[e]
  BY GameTypes DEF GameFilterOK, Games!ChosenTitle
<1>2. v # None /\ None \notin Games!TitleDims
  BY GameSets DEF GameSetsOK
<1> HIDE DEF g
<1>3. \A e : Games!model_only_models(g, e) = Games!model_only_models(gameFilter, e)
  BY <1>1 DEF Games!model_only_models, Games!Active
<1>4. ASSUME NEW t
      PROVE  Games!_title_only_q(g, t, None)
                <=> Games!_title_only_q(gameFilter, t, d) /\ gameTitles[t].vals[d] = v
  <2>1. Games!_title_only_q(g, t, None)
           <=> \A e \in Games!TitleDims : g.tsel[e] = None \/ g.tsel[e] = gameTitles[t].vals[e]
    BY <1>2 DEF Games!_title_only_q
  <2>2. Games!_title_only_q(gameFilter, t, d)
           <=> \A e \in Games!TitleDims \ {d} :
                  gameFilter.tsel[e] = None \/ gameFilter.tsel[e] = gameTitles[t].vals[e]
    BY DEF Games!_title_only_q
  <2> QED
    BY <1>1, <1>2, <2>1, <2>2
<1>5. Games!TitleRowsOf(d, v) = RowsOf(g)
  BY <1>3, <1>4 DEF Games!TitleRowsOf, RowsOf
<1>6. Games!_model_dimensions_active(g) <=> Games!_model_dimensions_active(gameFilter)
  BY <1>1 DEF Games!_model_dimensions_active, Games!Active
<1>7. Games!_tally(RowsOf(g), Games!title_rows(g)) = Games!Cardinality(Games!game_rows(g))
  BY <1>1, TallyIsCards
<1>8. CASE Games!_model_dimensions_active(gameFilter)
  <2>1. Games!_unanimous_cells(RowsOf(g)) = Games!title_rows(g)
    BY <1>1, <1>6, <1>8, UnanimousIsTitles
  <2> QED
    BY <1>5, <1>7, <1>8, <2>1 DEF Games!TitleBadge, g
<1>9. CASE ~Games!_model_dimensions_active(gameFilter)
  <2>1. Games!_vacuous_title_cells(d, v) = Games!title_rows(g)
    BY <1>1, <1>4, <1>6, <1>9 DEF Games!_vacuous_title_cells, Games!own_q_titles, Games!title_rows
  <2> QED
    BY <1>5, <1>7, <1>9, <2>1 DEF Games!TitleBadge, g
<1> QED
  BY <1>8, <1>9

LEMMA PresetsShareOut == GameInv => Games!PresetsPartition
<1> SUFFICES ASSUME GameInv, NEW d \in Games!Dims, Games!Shape[d] = "sparse",
                    NEW m \in Games!model_only_models(gameFilter, d)
             PROVE  Games!Cardinality({v \in Games!Values[d] :
                       Games!NarrowsTo(d, Games!preset_values(d, v), m)}) = 1
  BY DEF Games!PresetsPartition
<1> DEFINE held == gameModels[m].vals[d]
           P == {v \in Games!Values[d] : Games!NarrowsTo(d, Games!preset_values(d, v), m)}
<1>1. m \in Games!Models
  BY DEF Games!model_only_models
<1>2. /\ held \subseteq Games!Values[d] /\ Games!DefaultSlug[d] \in Games!Values[d]
      /\ \A x, y \in held : x = y
  BY <1>1, GameSets, GameTypes
  DEF GameValuesOK, Games!DimensionFits, Games!Held, Games!Values, Games!Many, Games!DefaultSlug, Games!Shape
<1>3. P = {v \in Games!Values[d] : v \in Games!ValueRows(d, m)}
  BY <1>1, PresetIsRow
<1>4. Games!ValueRows(d, m) = IF held = {} THEN {Games!DefaultSlug[d]} ELSE held
  BY DEF Games!ValueRows
<1> HIDE DEF P, held
<1>5. \E x : P = {x}
  <2>1. CASE held = {}
    BY <1>2, <1>3, <1>4, <2>1
  <2>2. ASSUME NEW x \in held PROVE P = {x}
    BY <1>2, <1>3, <1>4, <2>2
  <2> QED
    BY <2>1, <2>2
<1>6. Cardinality(P) = 1
  BY <1>5, FS_Singleton
<1> QED
  BY <1>6, CountsAgree DEF P

(***************************************************************************)
(* The cards.                                                              *)
(***************************************************************************)
LEMMA CardsAreTagged ==
    ASSUME NEW g, NEW x
    PROVE  /\ <<"title", x>> \in Games!game_rows(g) <=> x \in Games!title_rows(g)
           /\ <<"model", x>> \in Games!game_rows(g) <=> x \in Games!model_rows(g)
BY DEF Games!game_rows

\* What matches is carded, or its title is, or its parent, under the same
\* title and matching too, is.
LEMMA MatchesCard ==
    ASSUME GameInv, NEW g, NEW m \in Games!matching_models(g)
    PROVE  \/ gameModels[m].title \in Games!title_rows(g)
           \/ m \in Games!model_rows(g)
           \/ gameModels[m].variantOf \in Games!model_rows(g)
<1> DEFINE p == gameModels[m].variantOf
<1>1. \A n \in Games!carding_models(g) : n \in Games!Models
  BY DEF Games!carding_models, Games!model_only_models
<1>2. m \in Games!carding_models(g) /\ Games!_title_only_q(g, gameModels[m].title, None)
  BY DEF Games!matching_models
<1>3. None \notin Games!carding_models(g)
  BY <1>1, GameSets DEF GameSetsOK
<1>4. ASSUME p \in Games!carding_models(g) PROVE gameModels[p].variantOf = None /\ gameModels[p].title = gameModels[m].title
  BY <1>1, <1>2, <1>3, <1>4, GameTypes DEF GameFlat
<1>5. ASSUME p \in Games!carding_models(g) PROVE p \in Games!matching_models(g)
  BY <1>2, <1>4, <1>5 DEF Games!matching_models
<1> QED
  BY <1>2, <1>3, <1>4, <1>5 DEF Games!model_rows

LEMMA MatchesAreShown == GameInv => Games!EveryMatchIsShown
<1> SUFFICES ASSUME GameInv, NEW m \in Games!Models, Games!Wanted(m)
             PROVE  \E card \in Games!game_rows(gameFilter) : m \in Games!Behind(card)
  BY DEF Games!EveryMatchIsShown
<1>1. m \in Games!matching_models(gameFilter)
  <2>1. None \notin Games!Dims /\ None \notin Games!TitleDims
    BY GameSets DEF GameSetsOK
  <2>2. m \in Games!carding_models(gameFilter)
    BY <2>1 DEF Games!Wanted, Games!carding_models, Games!model_only_models, Games!Standing, Games!Active
  <2>3. Games!_title_only_q(gameFilter, gameModels[m].title, None)
    BY <2>1 DEF Games!Wanted, Games!_title_only_q
  <2> QED
    BY <2>2, <2>3 DEF Games!matching_models
<1>2. CASE gameModels[m].title \in Games!title_rows(gameFilter)
  <2>1. m \in Games!Behind(<<"title", gameModels[m].title>>)
    BY DEF Games!Behind, Games!Wanted
  <2> QED
    BY <1>2, <2>1, CardsAreTagged
<1>3. CASE m \in Games!model_rows(gameFilter)
  <2>1. m \in Games!Behind(<<"model", m>>)
    BY DEF Games!Behind
  <2> QED
    BY <1>3, <2>1, CardsAreTagged
<1>4. CASE gameModels[m].variantOf \in Games!model_rows(gameFilter)
  <2>1. m \in Games!Behind(<<"model", gameModels[m].variantOf>>)
    BY DEF Games!Behind
  <2> QED
    BY <1>4, <2>1, CardsAreTagged
<1> QED
  BY <1>1, <1>2, <1>3, <1>4, MatchesCard

LEMMA CardsStandAlone == Games!NoneShownTwice
<1> SUFFICES ASSUME NEW m \in Games!model_rows(gameFilter)
             PROVE  /\ gameModels[m].title \notin Games!title_rows(gameFilter)
                    /\ gameModels[m].variantOf \notin Games!model_rows(gameFilter)
  BY CardsAreTagged DEF Games!NoneShownTwice
<1> QED
  BY DEF Games!model_rows, Games!matching_models

LEMMA WordsAreKept == GameInv => Games!CardsKeepTheirWord
<1> DEFINE fits == {m \in Games!Models : \A d \in Games!Dims :
                       gameFilter.sel[d] # {} => Games!NarrowsTo(d, gameFilter.sel[d], m)}
<1> SUFFICES ASSUME GameInv, \E d \in Games!Dims : gameFilter.sel[d] # {},
                    NEW card \in Games!game_rows(gameFilter)
             PROVE  IF card[1] = "title"
                    THEN Games!Behind(card) # {} /\ Games!Behind(card) \subseteq fits
                    ELSE card[2] \in fits
  BY DEF Games!CardsKeepTheirWord
<1>1. Games!model_only_models(gameFilter, None) \subseteq fits
  <2>1. None \notin Games!Dims
    BY GameSets DEF GameSetsOK
  <2> QED
    BY <2>1 DEF Games!model_only_models, Games!Active
<1> HIDE DEF fits
<1>2. ASSUME NEW t \in Games!title_rows(gameFilter), card = <<"title", t>>
      PROVE  Games!Behind(card) # {} /\ Games!Behind(card) \subseteq fits
  <2>1. Games!Behind(card) = Games!LiveModels(t)
    BY <1>2 DEF Games!Behind, Games!LiveModels
  <2>2. Games!_model_dimensions_active(gameFilter)
    BY DEF Games!_model_dimensions_active, Games!Active
  <2> QED
    BY <1>1, <2>1, <2>2 DEF Games!title_rows
<1>3. ASSUME NEW m \in Games!model_rows(gameFilter), card = <<"model", m>>
      PROVE  card[2] \in fits
  BY <1>1, <1>3 DEF Games!model_rows, Games!matching_models, Games!carding_models
<1>4. \/ \E t \in Games!title_rows(gameFilter) : card = <<"title", t>>
      \/ \E m \in Games!model_rows(gameFilter) : card = <<"model", m>>
  BY DEF Games!game_rows
<1> QED
  BY <1>2, <1>3, <1>4

LEMMA FreeIsFree == GameInv => Games!FreeMeansFree
<1> DEFINE g == [q |-> gameFilter.q, sel |-> [d \in Games!Dims |-> {}],
                 tsel |-> [d \in Games!TitleDims |-> None]]
<1> SUFFICES ASSUME GameInv, gameFilter.q, Games!Cardinality(Games!game_rows(g)) = 0
             PROVE  /\ \A t \in Games!Titles : gameTitles[t].live => ~gameTitles[t].q
                    /\ \A m \in Games!Models :
                          gameModels[m].live /\ gameTitles[gameModels[m].title].live => ~gameModels[m].q
  BY DEF Games!FreeMeansFree, Games!_query_only_count
<1>1. /\ g.q = gameFilter.q /\ \A d \in Games!Dims : g.sel[d] = {}
      /\ \A d \in Games!TitleDims : g.tsel[d] = None
  OBVIOUS
<1> HIDE DEF g
<1>2. Games!game_rows(g) = {}
  <2>1. Games!title_rows(g) \subseteq Games!Titles /\ Games!model_rows(g) \subseteq Games!Models
    BY DEF Games!title_rows, Games!model_rows, Games!matching_models, Games!carding_models,
           Games!model_only_models
  <2>2. IsFiniteSet(Games!title_rows(g)) /\ IsFiniteSet(Games!model_rows(g))
    BY <2>1, GameSets, FS_Subset DEF GameSetsOK
  <2>3. Cardinality(Games!title_rows(g)) + Cardinality(Games!model_rows(g)) = 0
    BY <2>2, CardsCount, CountsAgree DEF Games!game_rows
  <2>4. Games!title_rows(g) = {} /\ Games!model_rows(g) = {}
    BY <2>2, <2>3, FS_CardinalityType, FS_EmptySet
  <2> QED
    BY <2>4 DEF Games!game_rows
<1>3. \A x : x \notin Games!title_rows(g) /\ x \notin Games!model_rows(g)
  BY <1>2, CardsAreTagged
<1>4. \A t : Games!_title_only_q(g, t, None)
  BY <1>1 DEF Games!_title_only_q
<1>5. ~Games!_model_dimensions_active(g)
  BY <1>1 DEF Games!_model_dimensions_active, Games!Active
<1>6. ASSUME NEW t \in Games!Titles, gameTitles[t].live, gameTitles[t].q PROVE FALSE
  BY <1>3, <1>4, <1>5, <1>6 DEF Games!title_rows
<1>7. ASSUME NEW m \in Games!Models, Games!Standing(m), gameModels[m].q PROVE FALSE
  <2>1. m \in Games!matching_models(g)
    BY <1>1, <1>4, <1>7 DEF Games!matching_models, Games!carding_models, Games!model_only_models, Games!Active
  <2> QED
    BY <1>3, <2>1, MatchesCard
<1> QED
  BY <1>6, <1>7 DEF Games!Standing

(***************************************************************************)
(* The types, and that variants stay flat, are inductive.                  *)
(***************************************************************************)
LEMMA GamesStart == Games!Init => GameInv
<1> SUFFICES ASSUME Games!Init PROVE GameInv
  OBVIOUS
<1>1. sidebar \in DOMAIN Sidebars /\ gameModels = Games!Sidebar.models /\ gameTitles = Games!Sidebar.titles
  BY EditsAreBounded DEF Games!Init
<1>2. Games!IsCatalog(Games!Sidebar, gameModels, gameTitles) /\ Games!Flat(gameModels)
  BY <1>1, GamesAssumption DEF Games!SidebarsAssumption, Games!Sidebar
<1>3. /\ gameFilter = [q |-> FALSE, sel |-> [d \in Games!Dims |-> {}],
                       tsel |-> [d \in Games!TitleDims |-> None]]
      /\ gameEdits \in 0 .. MaxEdits
  BY EditsAreBounded DEF Games!Init
<1>4. gameFilter.sel = [d \in Games!Dims |-> gameFilter.sel[d]] /\ \A d \in Games!Dims : gameFilter.sel[d] = {}
  <2>1. gameFilter.sel = [d \in Games!Dims |-> {}]
    BY <1>3
  <2> QED
    BY <2>1
<1>5. gameFilter.tsel \in [Games!TitleDims -> {None} \cup UNION {Games!Values[d] : d \in Games!TitleDims}]
  <2>1. gameFilter.tsel = [d \in Games!TitleDims |-> None]
    BY <1>3
  <2> QED
    BY <2>1
<1>6. gameFilter = [q |-> gameFilter.q, sel |-> gameFilter.sel, tsel |-> gameFilter.tsel] /\ gameFilter.q \in BOOLEAN
  BY <1>3
<1>7. gameFilter \in [q : BOOLEAN, sel : {[d \in Games!Dims |-> gameFilter.sel[d]]},
                     tsel : [Games!TitleDims -> {None} \cup UNION {Games!Values[d] : d \in Games!TitleDims}]]
  BY <1>4, <1>5, <1>6
<1> QED
  BY <1>1, <1>2, <1>3, <1>4, <1>7 DEF GameInv, Games!TypeOK

LEMMA EditsKeepTypes ==
    ASSUME GameInv, Games!Edit, Games!IsCatalog(Games!Sidebar, gameModels', gameTitles'),
           Games!Flat(gameModels')
    PROVE  GameInv'
<1>1. sidebar' = sidebar /\ gameFilter' = gameFilter /\ gameEdits' \in 0 .. MaxEdits
  BY EditsAreBounded DEF Games!Edit, GameInv, Games!TypeOK
<1>2. Games!Sidebar' = Games!Sidebar /\ Games!Dims' = Games!Dims /\ Games!TitleDims' = Games!TitleDims
      /\ Games!Values' = Games!Values /\ Games!Shape' = Games!Shape
  BY <1>1 DEF Games!Sidebar, Games!Dims, Games!TitleDims, Games!Values, Games!Shape
<1> QED
  BY <1>1, <1>2 DEF GameInv, Games!TypeOK

\* One model becomes another row, which fits and is flat among the others.
LEMMA ModelEdit ==
    ASSUME GameInv, Games!Edit, gameTitles' = gameTitles, NEW m \in Games!Models, NEW r,
           gameModels' = [gameModels EXCEPT ![m] = r],
           Games!IsModel(Games!Sidebar, r),
           \/ r.variantOf = gameModels[m].variantOf /\ r.title = gameModels[m].title
           \/ r.variantOf = None /\ r.title = gameModels[m].title
           \/ /\ r.title = gameModels[m].title /\ r.variantOf \in Games!Models \ {m}
              /\ gameModels[r.variantOf].variantOf = None
              /\ gameModels[r.variantOf].title = r.title
              /\ \A v \in Games!Models : gameModels[v].variantOf # m
    PROVE  GameInv'
<1>1. Games!IsCatalog(Games!Sidebar, gameModels, gameTitles) /\ DOMAIN gameModels = Games!Models
  BY DEF GameInv, Games!TypeOK, Games!IsCatalog, Games!Models
<1>2. /\ DOMAIN gameModels' = Games!Models
      /\ gameModels'[m] = r
      /\ \A n \in Games!Models \ {m} : gameModels'[n] = gameModels[n]
  BY <1>1
<1>3. Games!IsCatalog(Games!Sidebar, gameModels', gameTitles')
  <2>1. gameModels' = [n \in Games!Models |-> gameModels'[n]]
    BY <1>1
  <2>2. \A n \in Games!Models : Games!IsModel(Games!Sidebar, gameModels'[n])
    BY <1>1, <1>2 DEF Games!IsCatalog, Games!Models
  <2> QED
    BY <1>1, <2>1, <2>2 DEF Games!IsCatalog, Games!Models
<1>4. GameFlat /\ None \notin Games!Models
  BY GameTypes, GameSets DEF GameSetsOK
<1>5. Games!Flat(gameModels')
  <2> SUFFICES ASSUME NEW n \in Games!Models, gameModels'[n].variantOf # None
               PROVE  LET p == gameModels'[gameModels'[n].variantOf]
                      IN  p.variantOf = None /\ p.title = gameModels'[n].title
    BY <1>2 DEF Games!Flat
  <2>1. CASE n = m
    BY <1>2, <1>4, <2>1 DEF GameFlat
  <2>2. CASE n # m
    BY <1>2, <1>4, <2>2 DEF GameFlat
  <2> QED
    BY <2>1, <2>2
<1> QED
  BY <1>3, <1>5, EditsKeepTypes

\* What a row is made of, and that a field can be replaced by its like.
LEMMA RowEdits ==
    ASSUME GameInv, NEW m \in Games!Models
    PROVE  LET r == gameModels[m] IN
           /\ Games!IsModel(Games!Sidebar, r)
           /\ \A b \in BOOLEAN : /\ Games!IsModel(Games!Sidebar, [r EXCEPT !.live = b])
                                 /\ Games!IsModel(Games!Sidebar, [r EXCEPT !.q = b])
           /\ \A p \in Games!Models \cup {None} : Games!IsModel(Games!Sidebar, [r EXCEPT !.variantOf = p])
<1> DEFINE r == gameModels[m]
<1>1. Games!IsModel(Games!Sidebar, r)
  BY DEF GameInv, Games!TypeOK, Games!IsCatalog, Games!Models
<1> HIDE DEF r
<1>2. ASSUME NEW b \in BOOLEAN PROVE Games!IsModel(Games!Sidebar, [r EXCEPT !.live = b])
  BY <1>1 DEF Games!IsModel
<1>3. ASSUME NEW b \in BOOLEAN PROVE Games!IsModel(Games!Sidebar, [r EXCEPT !.q = b])
  BY <1>1 DEF Games!IsModel
<1>4. ASSUME NEW p \in Games!Models \cup {None} PROVE Games!IsModel(Games!Sidebar, [r EXCEPT !.variantOf = p])
  BY <1>1 DEF Games!IsModel, Games!Models
<1> QED
  BY <1>1, <1>2, <1>3, <1>4 DEF r

LEMMA SetValueKeeps ==
    ASSUME GameInv, NEW m \in Games!Models, NEW d \in Games!Dims, NEW v \in Games!Held[d],
           Games!SetValue(m, d, v)
    PROVE  GameInv'
<1> DEFINE r == gameModels[m]
           V == IF v \in r.vals[d] THEN r.vals[d] \ {v}
                ELSE IF d \in Games!Many THEN r.vals[d] \cup {v} ELSE {v}
           s == [r EXCEPT !.vals = [r.vals EXCEPT ![d] = V]]
<1>1. Games!IsModel(Games!Sidebar, r)
  BY RowEdits
<1>2. V \subseteq Games!Held[d] /\ (d \notin Games!Many => \A x, y \in V : x = y)
  BY GameTypes DEF GameValuesOK
<1>3. gameModels' = [gameModels EXCEPT ![m] = s] /\ Games!Edit /\ gameTitles' = gameTitles
  BY DEF Games!SetValue
<1> HIDE DEF V, r
<1>4. Games!IsModel(Games!Sidebar, s)
  <2>1. r.vals = [e \in Games!Dims |-> r.vals[e]]
    BY <1>1 DEF Games!IsModel, Games!Dims
  <2>2. /\ s.vals = [e \in Games!Dims |-> s.vals[e]] /\ s.vals[d] = V
        /\ \A e \in Games!Dims \ {d} : s.vals[e] = r.vals[e]
    BY <1>1, <2>1 DEF Games!IsModel
  <2>3. s \in [live : BOOLEAN, title : DOMAIN Games!Sidebar.titles,
               variantOf : DOMAIN Games!Sidebar.models \cup {None},
               q : BOOLEAN, vals : {[e \in Games!Dims |-> s.vals[e]]}]
    BY <1>1, <2>2 DEF Games!IsModel
  <2>4. ASSUME NEW e \in Games!Dims
        PROVE  s.vals[e] \subseteq Games!Held[e] /\ (e \notin Games!Many => \A x, y \in s.vals[e] : x = y)
    BY <1>1, <1>2, <2>2 DEF Games!IsModel, Games!Dims, Games!Held, Games!Many
  <2> QED
    BY <2>3, <2>4 DEF Games!IsModel, Games!Dims, Games!Held, Games!Many
<1>5. s.variantOf = r.variantOf /\ s.title = r.title
  BY <1>1 DEF Games!IsModel
<1> HIDE DEF s
<1> QED
  BY <1>3, <1>4, <1>5, ModelEdit DEF r

LEMMA SetVariantOfKeeps ==
    ASSUME GameInv, NEW m \in Games!Models, NEW p \in Games!Models \cup {None},
           Games!SetVariantOf(m, p)
    PROVE  GameInv'
<1> DEFINE r == [gameModels[m] EXCEPT !.variantOf = p]
<1>1. Games!IsModel(Games!Sidebar, r) /\ Games!IsModel(Games!Sidebar, gameModels[m])
  BY RowEdits
<1>2. r.variantOf = p /\ r.title = gameModels[m].title
  BY <1>1 DEF Games!IsModel
<1>3. gameModels' = [gameModels EXCEPT ![m] = r] /\ Games!Edit /\ gameTitles' = gameTitles
  BY DEF Games!SetVariantOf
<1>4. p # None => /\ p \in Games!Models \ {m} /\ gameModels[p].variantOf = None
                  /\ gameModels[p].title = r.title
                  /\ \A v \in Games!Models : gameModels[v].variantOf # m
  BY <1>2 DEF Games!SetVariantOf
<1> HIDE DEF r
<1> QED
  BY <1>1, <1>2, <1>3, <1>4, ModelEdit

LEMMA RenameModelKeeps ==
    ASSUME GameInv, NEW m \in Games!Models, Games!RenameModel(m)
    PROVE  GameInv'
<1> DEFINE r == [gameModels[m] EXCEPT !.q = ~gameModels[m].q]
<1>1. Games!IsModel(Games!Sidebar, r) /\ Games!IsModel(Games!Sidebar, gameModels[m])
  BY RowEdits
<1>2. r.variantOf = gameModels[m].variantOf /\ r.title = gameModels[m].title
  BY <1>1 DEF Games!IsModel
<1>3. gameModels' = [gameModels EXCEPT ![m] = r] /\ Games!Edit /\ gameTitles' = gameTitles
  BY DEF Games!RenameModel
<1> HIDE DEF r
<1> QED
  BY <1>1, <1>2, <1>3, ModelEdit

LEMMA LivesKeep ==
    ASSUME GameInv, NEW m \in Games!Models, Games!DeleteModel(m) \/ Games!RestoreModel(m)
    PROVE  GameInv'
<1>1. PICK b \in BOOLEAN : /\ gameModels' = [gameModels EXCEPT ![m] = [gameModels[m] EXCEPT !.live = b]]
                           /\ Games!Edit /\ gameTitles' = gameTitles
  BY DEF Games!DeleteModel, Games!RestoreModel
<1> DEFINE r == [gameModels[m] EXCEPT !.live = b]
<1>2. Games!IsModel(Games!Sidebar, r) /\ Games!IsModel(Games!Sidebar, gameModels[m])
  BY RowEdits
<1>3. r.variantOf = gameModels[m].variantOf /\ r.title = gameModels[m].title
  BY <1>2 DEF Games!IsModel
<1>4. gameModels' = [gameModels EXCEPT ![m] = r]
  BY <1>1
<1> HIDE DEF r
<1> QED
  BY <1>1, <1>2, <1>3, <1>4, ModelEdit

\* A title's own row is edited, or its models die with it.
LEMMA TitlesKeep ==
    ASSUME GameInv, NEW t \in Games!Titles,
           \/ \E d \in Games!TitleDims : \E v \in Games!Values[d] \cup {None} : Games!SetTitleValue(t, d, v)
           \/ Games!RenameTitle(t) \/ Games!RestoreTitle(t)
    PROVE  GameInv'
<1>1. Games!IsCatalog(Games!Sidebar, gameModels, gameTitles) /\ Games!Flat(gameModels)
  BY DEF GameInv, Games!TypeOK
<1>2. gameTitles \in [Games!Titles -> Games!TitleRow(Games!Sidebar)]
  BY <1>1 DEF Games!IsCatalog, Games!Titles
<1>3. gameTitles[t] \in Games!TitleRow(Games!Sidebar)
  BY <1>2
<1>4. gameTitles' \in [Games!Titles -> Games!TitleRow(Games!Sidebar)] /\ Games!Edit /\ gameModels' = gameModels
  <2>1. CASE Games!RenameTitle(t)
    BY <1>2, <1>3, <2>1 DEF Games!RenameTitle, Games!TitleRow
  <2>2. CASE Games!RestoreTitle(t)
    BY <1>2, <1>3, <2>2 DEF Games!RestoreTitle, Games!TitleRow
  <2>3. ASSUME NEW d \in Games!TitleDims, NEW v \in Games!Values[d] \cup {None}, Games!SetTitleValue(t, d, v)
        PROVE  gameTitles' \in [Games!Titles -> Games!TitleRow(Games!Sidebar)] /\ Games!Edit /\ gameModels' = gameModels
    <3> DEFINE U == {None} \cup UNION {Games!Values[e] : e \in Games!TitleDims}
               w == [gameTitles[t].vals EXCEPT ![d] = v]
               r == [gameTitles[t] EXCEPT !.vals = w]
    <3>1. Games!TitleRow(Games!Sidebar) = [live : BOOLEAN, q : BOOLEAN, vals : [Games!TitleDims -> U]]
      BY DEF Games!TitleRow, Games!TitleDims, Games!Values
    <3>2. v \in U
      <4>1. Games!Values[d] \in {Games!Values[e] : e \in Games!TitleDims}
        OBVIOUS
      <4> QED
        BY <4>1
    <3>3. gameTitles' = [gameTitles EXCEPT ![t] = r] /\ Games!Edit /\ gameModels' = gameModels
      BY <2>3 DEF Games!SetTitleValue
    <3> HIDE DEF U
    <3>4. w \in [Games!TitleDims -> U]
      BY <1>3, <3>1, <3>2
    <3> HIDE DEF w
    <3>5. r \in Games!TitleRow(Games!Sidebar)
      BY <1>3, <3>1, <3>4
    <3> HIDE DEF r
    <3> QED
      BY <1>2, <3>3, <3>5
  <2> QED
    BY <2>1, <2>2, <2>3
<1>5. Games!IsCatalog(Games!Sidebar, gameModels', gameTitles')
  BY <1>1, <1>4 DEF Games!IsCatalog, Games!Titles
<1> QED
  BY <1>1, <1>4, <1>5, EditsKeepTypes

LEMMA DeleteTitleKeeps ==
    ASSUME GameInv, NEW t \in Games!Titles, Games!DeleteTitle(t)
    PROVE  GameInv'
<1>1. /\ Games!IsCatalog(Games!Sidebar, gameModels, gameTitles) /\ Games!Flat(gameModels)
      /\ DOMAIN gameModels = Games!Models
  BY DEF GameInv, Games!TypeOK, Games!IsCatalog, Games!Models
<1>2. /\ Games!Edit /\ gameTitles' = [gameTitles EXCEPT ![t].live = FALSE]
      /\ gameModels' = [m \in Games!Models |-> IF gameModels[m].title = t
                                               THEN [gameModels[m] EXCEPT !.live = FALSE] ELSE gameModels[m]]
  BY DEF Games!DeleteTitle
<1>3. gameTitles' \in [Games!Titles -> Games!TitleRow(Games!Sidebar)]
  <2>1. gameTitles \in [Games!Titles -> Games!TitleRow(Games!Sidebar)]
    BY <1>1 DEF Games!IsCatalog, Games!Titles
  <2>2. gameTitles[t] \in Games!TitleRow(Games!Sidebar)
    BY <2>1
  <2> QED
    BY <1>2, <2>1, <2>2 DEF Games!TitleRow
<1>4. ASSUME NEW m \in Games!Models
      PROVE  /\ Games!IsModel(Games!Sidebar, gameModels'[m])
             /\ gameModels'[m].variantOf = gameModels[m].variantOf
             /\ gameModels'[m].title = gameModels[m].title
  <2>1. Games!IsModel(Games!Sidebar, gameModels[m]) /\ Games!IsModel(Games!Sidebar, [gameModels[m] EXCEPT !.live = FALSE])
    BY RowEdits
  <2>2. /\ [gameModels[m] EXCEPT !.live = FALSE].variantOf = gameModels[m].variantOf
        /\ [gameModels[m] EXCEPT !.live = FALSE].title = gameModels[m].title
    BY <2>1 DEF Games!IsModel
  <2>3. gameModels'[m] = IF gameModels[m].title = t THEN [gameModels[m] EXCEPT !.live = FALSE] ELSE gameModels[m]
    BY <1>2
  <2> QED
    BY <2>1, <2>2, <2>3
<1>5. gameModels' = [m \in Games!Models |-> gameModels'[m]]
  BY <1>2
<1>6. Games!IsCatalog(Games!Sidebar, gameModels', gameTitles')
  BY <1>3, <1>4, <1>5 DEF Games!IsCatalog, Games!Models, Games!Titles
<1>7. Games!Flat(gameModels')
  <2>1. GameFlat
    BY GameTypes
  <2> QED
    BY <1>4, <1>5, <2>1 DEF Games!Flat, GameFlat
<1> QED
  BY <1>2, <1>6, <1>7, EditsKeepTypes

LEMMA NarrowingKeeps ==
    ASSUME GameInv,
           \/ Games!Search
           \/ \E d \in Games!Dims : \E v \in Games!Values[d] : Games!Choose(d, v)
           \/ \E d \in Games!TitleDims : \E v \in Games!Values[d] \cup {None} : Games!ChooseTitle(d, v)
    PROVE  GameInv'
<1> DEFINE U == {None} \cup UNION {Games!Values[d] : d \in Games!TitleDims}
           Ok(g) == /\ g = [q |-> g.q, sel |-> g.sel, tsel |-> g.tsel]
                    /\ g.q \in BOOLEAN
                    /\ g.sel = [d \in Games!Dims |-> g.sel[d]]
                    /\ g.tsel \in [Games!TitleDims -> U]
                    /\ \A d \in Games!Dims :
                          g.sel[d] \subseteq Games!Values[d]
                              \cup IF Games!Shape[d] = "sparse" THEN {Games!Unclassified} ELSE {}
<1>1. Ok(gameFilter)
  BY DEF GameInv, Games!TypeOK
<1>2. /\ sidebar' = sidebar /\ gameModels' = gameModels /\ gameTitles' = gameTitles /\ gameEdits' = gameEdits
      /\ Ok(gameFilter')
  <2>1. CASE Games!Search
    BY <1>1, <2>1 DEF Games!Search, Games!Narrowed
  <2>2. ASSUME NEW d \in Games!Dims, NEW v \in Games!Values[d], Games!Choose(d, v) PROVE <1>2
    <3>1. Games!Narrowed(Games!Chosen(gameFilter, d, v))
      BY <2>2 DEF Games!Choose
    <3>2. Fits(d)
      BY GameSets DEF Fits
    <3>3. PICK W : /\ W \subseteq gameFilter.sel[d] \cup Games!Values[d]
                                 \cup IF Games!Shape[d] = "sparse" THEN {Games!Unclassified} ELSE {}
                   /\ Games!Chosen(gameFilter, d, v) = [gameFilter EXCEPT !.sel[d] = W]
      BY <3>2 DEF Games!Chosen, Games!preset_values, Fits, Games!DimensionFits, Games!Shape, Games!Combine
    <3>4. Ok([gameFilter EXCEPT !.sel[d] = W])
      BY <1>1, <3>3
    <3> QED
      BY <3>1, <3>3, <3>4 DEF Games!Narrowed
  <2>3. ASSUME NEW d \in Games!TitleDims, NEW v \in Games!Values[d] \cup {None}, Games!ChooseTitle(d, v) PROVE <1>2
    <3> DEFINE w == [gameFilter.tsel EXCEPT ![d] = v]
    <3>1. gameFilter' = [gameFilter EXCEPT !.tsel = w]
      BY <2>3 DEF Games!ChooseTitle, Games!ChosenTitle, Games!Narrowed
    <3>4. v \in U
      <4>1. Games!Values[d] \in {Games!Values[e] : e \in Games!TitleDims}
        OBVIOUS
      <4> QED
        BY <4>1
    <3> HIDE DEF U
    <3>2. w \in [Games!TitleDims -> U]
      BY <1>1, <3>4
    <3> HIDE DEF w
    <3>3. Ok(gameFilter')
      BY <1>1, <3>1, <3>2
    <3> HIDE DEF Ok
    <3> QED
      BY <2>3, <3>3 DEF Games!ChooseTitle, Games!Narrowed
  <2> QED
    BY <2>1, <2>2, <2>3
<1>3. Games!Sidebar' = Games!Sidebar /\ Games!Dims' = Games!Dims /\ Games!TitleDims' = Games!TitleDims
      /\ Games!Values' = Games!Values /\ Games!Shape' = Games!Shape
  BY <1>2 DEF Games!Sidebar, Games!Dims, Games!TitleDims, Games!Values, Games!Shape
<1>4. Games!IsCatalog(Games!Sidebar', gameModels', gameTitles') /\ Games!Flat(gameModels')
      /\ sidebar' \in DOMAIN Sidebars /\ gameEdits' \in 0 .. MaxEdits
  BY <1>2, <1>3 DEF GameInv, Games!TypeOK
<1>5. /\ gameFilter' \in [q : BOOLEAN, sel : {[d \in Games!Dims' |-> gameFilter'.sel[d]]}, tsel : [Games!TitleDims' -> U]]
      /\ \A d \in Games!Dims' : gameFilter'.sel[d] \subseteq Games!Values'[d]
            \cup IF Games!Shape'[d] = "sparse" THEN {Games!Unclassified} ELSE {}
  BY <1>2, <1>3
<1> QED
  BY <1>3, <1>4, <1>5 DEF GameInv, Games!TypeOK

LEMMA GamesStep == GameInv /\ [Games!Next]_gameVars => GameInv'
<1> SUFFICES ASSUME GameInv, [Games!Next]_gameVars PROVE GameInv'
  OBVIOUS
<1>1. ASSUME NEW m \in Games!Models, NEW d \in Games!Dims, NEW v \in Games!Held[d], Games!SetValue(m, d, v)
      PROVE  GameInv'
  BY <1>1, SetValueKeeps
<1>2. ASSUME NEW m \in Games!Models, NEW p \in Games!Models \cup {None}, Games!SetVariantOf(m, p)
      PROVE  GameInv'
  BY <1>2, SetVariantOfKeeps
<1>3. ASSUME NEW m \in Games!Models, Games!RenameModel(m) \/ Games!DeleteModel(m) \/ Games!RestoreModel(m)
      PROVE  GameInv'
  BY <1>3, RenameModelKeeps, LivesKeep
<1>4. ASSUME NEW t \in Games!Titles,
             \/ \E d \in Games!TitleDims : \E v \in Games!Values[d] \cup {None} : Games!SetTitleValue(t, d, v)
             \/ Games!RenameTitle(t) \/ Games!DeleteTitle(t) \/ Games!RestoreTitle(t)
      PROVE  GameInv'
  BY <1>4, TitlesKeep, DeleteTitleKeeps
<1>5. CASE UNCHANGED gameVars
  BY <1>5 DEF gameVars, GameInv, Games!TypeOK, Games!Sidebar, Games!Dims, Games!TitleDims, Games!Values, Games!Shape
<1>6. CASE \/ Games!Search
           \/ \E d \in Games!Dims : \E v \in Games!Values[d] : Games!Choose(d, v)
           \/ \E d \in Games!TitleDims : \E v \in Games!Values[d] \cup {None} : Games!ChooseTitle(d, v)
  BY <1>6, NarrowingKeeps
<1> QED
  BY <1>1, <1>2, <1>3, <1>4, <1>5, <1>6 DEF Games!Next

(***************************************************************************)
(* For every sidebar, catalog, search and choice of facets.                *)
(***************************************************************************)
LEMMA GamesMatch == GameInv => GamesMatchTheSidebar
<1> SUFFICES ASSUME GameInv PROVE GamesMatchTheSidebar
  OBVIOUS
<1>1. Games!BadgesMatchTheClick /\ Games!TitleBadgesMatchTheClick
  BY BadgeIsClick, TitleBadgeIsClick DEF Games!BadgesMatchTheClick, Games!TitleBadgesMatchTheClick
<1> QED
  BY <1>1, MatchesAreShown, CardsStandAlone, WordsAreKept, FreeIsFree, PresetsShareOut DEF GamesMatchTheSidebar

(* GamesAlwaysMatch: whatever the sidebar's facets and the catalog behind   *)
(* them, a title that has what a reader asked for is on the page once,      *)
(* behind a card that keeps its word, and the number beside every option is *)
(* the number of cards that a click on it shows (game_facet_counts,         *)
(* game_rows_merged).                                                       *)
THEOREM GamesAlwaysMatch == SceneSpec => []GamesMatchTheSidebar
<1>1. SceneInit => GameInv
  BY GamesStart DEF SceneInit
<1> DEFINE Step == [SceneNext]_<<scene, vars, gameVars, makerVars>>
<1>2. GameInv /\ Step => GameInv'
  <2>1. Step => [Games!Next]_gameVars
    BY DEF SceneNext, gameVars
  <2> QED
    BY <2>1, GamesStep
<1>3. GameInv => GamesMatchTheSidebar
  BY GamesMatch
<1> QED
  BY <1>1, <1>2, <1>3, PTL DEF SceneSpec
(***************************************************************************)
(* Orders on finite sets: an element's place is the number of those before *)
(* it, which no two share, so the set can be listed in order.              *)
(***************************************************************************)
StrictOrder(S, R) ==
    /\ \A x \in S : <<x, x>> \notin R
    /\ \A x, y, z \in S : <<x, y>> \in R /\ <<y, z>> \in R => <<x, z>> \in R
    /\ \A x, y \in S : x # y => <<x, y>> \in R \/ <<y, x>> \in R

LEMMA SortedExists ==
    ASSUME NEW S, IsFiniteSet(S), NEW R, StrictOrder(S, R)
    PROVE  \E s \in [1 .. Cardinality(S) -> S] :
              /\ \A i, j \in 1 .. Cardinality(S) : i < j => <<s[i], s[j]>> \in R
              /\ \A x \in S : \E i \in 1 .. Cardinality(S) : s[i] = x
<1> DEFINE n == Cardinality(S)
           Earlier(x) == {y \in S : <<y, x>> \in R}
           place == [x \in S |-> Cardinality(Earlier(x)) + 1]
<1>1. n \in Nat /\ IsFiniteSet(1 .. n) /\ Cardinality(1 .. n) = n
  BY FS_CardinalityType, FS_Interval
<1>2. ASSUME NEW x \in S
      PROVE  IsFiniteSet(Earlier(x)) /\ Cardinality(Earlier(x)) \in Nat /\ Cardinality(Earlier(x)) < n
  <2>1. Earlier(x) \subseteq S \ {x}
    BY DEF StrictOrder
  <2> HIDE DEF Earlier
  <2>2. IsFiniteSet(S \ {x}) /\ Cardinality(S \ {x}) = n - 1
    BY FS_RemoveElement
  <2>3. IsFiniteSet(Earlier(x)) /\ Cardinality(Earlier(x)) <= Cardinality(S \ {x})
    BY <2>1, <2>2, FS_Subset
  <2> QED
    BY <1>1, <2>2, <2>3, FS_CardinalityType
<1>3. ASSUME NEW x \in S, NEW y \in S, <<x, y>> \in R
      PROVE  Cardinality(Earlier(x)) < Cardinality(Earlier(y))
  <2>1. Earlier(x) \subseteq Earlier(y) /\ x \in Earlier(y) /\ x \notin Earlier(x)
    BY <1>3 DEF StrictOrder
  <2> HIDE DEF Earlier
  <2>2. Cardinality(Earlier(x)) <= Cardinality(Earlier(y)) /\ Cardinality(Earlier(x)) # Cardinality(Earlier(y))
    BY <1>2, <2>1, FS_Subset
  <2> QED
    BY <1>2, <2>2
<1>4. place \in [S -> 1 .. n]
  <2> HIDE DEF Earlier
  <2> QED
    BY <1>1, <1>2
<1>5. \A x, y \in S : <<x, y>> \in R => place[x] < place[y]
  <2> HIDE DEF Earlier
  <2> QED
    BY <1>2, <1>3
<1> HIDE DEF place
<1>6. \A x, y \in S : place[x] = place[y] => x = y
  <2> SUFFICES ASSUME NEW x \in S, NEW y \in S, x # y PROVE place[x] # place[y]
    OBVIOUS
  <2>1. <<x, y>> \in R \/ <<y, x>> \in R
    BY DEF StrictOrder
  <2>2. place[x] \in Int /\ place[y] \in Int
    BY <1>4
  <2> QED
    BY <1>5, <2>1, <2>2
<1>7. \A i \in 1 .. n : \E x \in S : place[x] = i
  <2>1. place \in Injection(S, 1 .. n)
    BY <1>4, <1>6 DEF Injection, IsInjective
  <2>2. place \in Surjection(S, 1 .. n)
    BY <1>1, <2>1, FS_Injection
  <2> QED
    BY <2>2 DEF Surjection
<1> DEFINE s == [i \in 1 .. n |-> CHOOSE x \in S : place[x] = i]
<1>8. \A i \in 1 .. n : s[i] \in S /\ place[s[i]] = i
  BY <1>7
<1>9. s \in [1 .. n -> S]
  BY <1>8
<1> HIDE DEF s
<1>10. \A i, j \in 1 .. n : i < j => <<s[i], s[j]>> \in R
  <2> SUFFICES ASSUME NEW i \in 1 .. n, NEW j \in 1 .. n, i < j PROVE <<s[i], s[j]>> \in R
    OBVIOUS
  <2>1. s[i] \in S /\ s[j] \in S /\ place[s[i]] = i /\ place[s[j]] = j
    BY <1>8
  <2>2. s[i] # s[j]
    BY <2>1
  <2>3. <<s[j], s[i]>> \notin R
    BY <1>5, <2>1
  <2> QED
    BY <2>1, <2>2, <2>3 DEF StrictOrder
<1>11. \A x \in S : \E i \in 1 .. n : s[i] = x
  <2> SUFFICES ASSUME NEW x \in S PROVE s[place[x]] = x /\ place[x] \in 1 .. n
    OBVIOUS
  <2> QED
    BY <1>4, <1>6, <1>8
<1> QED
  BY <1>9, <1>10, <1>11

LEMMA LeastExists ==
    ASSUME NEW S, IsFiniteSet(S), S # {}, NEW R, StrictOrder(S, R)
    PROVE  \E x \in S : \A y \in S : y = x \/ <<x, y>> \in R
<1>1. PICK s \in [1 .. Cardinality(S) -> S] :
              /\ \A i, j \in 1 .. Cardinality(S) : i < j => <<s[i], s[j]>> \in R
              /\ \A x \in S : \E i \in 1 .. Cardinality(S) : s[i] = x
  BY SortedExists
<1>2. Cardinality(S) \in Nat /\ Cardinality(S) # 0
  BY FS_CardinalityType, FS_EmptySet
<1>3. s[1] \in S /\ \A y \in S : y = s[1] \/ <<s[1], y>> \in R
  BY <1>1, <1>2
<1> QED
  BY <1>3

LEMMA EndsExist ==
    ASSUME NEW S \in SUBSET Int, IsFiniteSet(S), S # {}
    PROVE  /\ MakerList!Min(S) \in S /\ \A y \in S : MakerList!Min(S) <= y
           /\ MakerList!Max(S) \in S /\ \A y \in S : MakerList!Max(S) >= y
<1> DEFINE R == {e \in S \X S : e[1] < e[2]}
           Q == {e \in S \X S : e[1] > e[2]}
<1>1. StrictOrder(S, R) /\ StrictOrder(S, Q)
  BY DEF StrictOrder
<1>2. \A x, y \in S : (<<x, y>> \in R <=> x < y) /\ (<<x, y>> \in Q <=> x > y)
  OBVIOUS
<1> HIDE DEF R, Q
<1>3. \E x \in S : \A y \in S : x <= y
  <2>1. PICK x \in S : \A y \in S : y = x \/ <<x, y>> \in R
    BY <1>1, LeastExists
  <2>2. ASSUME NEW y \in S PROVE x <= y
    <3>1. x \in Int /\ y \in Int /\ (<<x, y>> \in R <=> x < y)
      BY <1>2
    <3> QED
      BY <2>1, <3>1
  <2> QED
    BY <2>2
<1>4. \E x \in S : \A y \in S : x >= y
  <2>1. PICK x \in S : \A y \in S : y = x \/ <<x, y>> \in Q
    BY <1>1, LeastExists
  <2>2. ASSUME NEW y \in S PROVE x >= y
    <3>1. x \in Int /\ y \in Int /\ (<<x, y>> \in Q <=> x > y)
      BY <1>2
    <3> QED
      BY <2>1, <3>1
  <2> QED
    BY <2>2
<1> QED
  BY <1>3, <1>4 DEF MakerList!Min, MakerList!Max

LEMMA LeastNumber ==
    ASSUME NEW S \in SUBSET Nat, S # {}
    PROVE  \E n \in S : \A m \in S : n <= m
<1> DEFINE Less == OpToRel(<, Nat)
<1>1. PICK n \in S : \A m \in S : <<m, n>> \notin Less
  BY NatLessThanWellFounded, WFMin
<1>2. \A m \in S : ~(m < n)
  BY <1>1 DEF OpToRel
<1> QED
  BY <1>2

(***************************************************************************)
(* The places.  A place's ancestors are the beginnings of its path: what   *)
(* the counts walk up to is what the filter's text comparison accepts.     *)
(***************************************************************************)
Spots == Register.places

LEMMA SpotFacts ==
    /\ \A p \in Spots : p \in Seq(STRING) /\ Len(p) \in Nat /\ Len(p) >= 1
    /\ \A p \in Spots : Len(p) # 1 => MakerList!Front(p) \in Spots
BY MakersAssumption DEF MakerList!ListAssumption, Spots

LEMMA PrefixIs ==
    ASSUME NEW p \in Seq(STRING), NEW q \in Seq(STRING)
    PROVE  MakerList!IsPrefix(q, p) <=> Len(q) <= Len(p) /\ \A i \in 1 .. Len(q) : q[i] = p[i]
<1>1. CASE Len(q) <= Len(p)
  <2> DEFINE a == SubSeq(q, 1, Len(q))
             b == SubSeq(p, 1, Len(q))
  <2>1. a \in Seq(STRING) /\ b \in Seq(STRING) /\ Len(a) = Len(q) /\ Len(b) = Len(q)
    BY <1>1
  <2>2. \A i \in 1 .. Len(q) : a[i] = q[i] /\ b[i] = p[i]
    BY <1>1
  <2> HIDE DEF a, b
  <2>3. a = b <=> \A i \in 1 .. Len(q) : q[i] = p[i]
    <3>1. ASSUME a = b PROVE \A i \in 1 .. Len(q) : q[i] = p[i]
      BY <2>2, <3>1
    <3>2. ASSUME \A i \in 1 .. Len(q) : q[i] = p[i] PROVE a = b
      <4>1. \A i \in 1 .. Len(a) : a[i] = b[i]
        BY <2>1, <2>2, <3>2
      <4> QED
        BY <2>1, <4>1, SeqEqual
    <3> QED
      BY <3>1, <3>2
  <2> QED
    BY <1>1, <2>3 DEF MakerList!IsPrefix, a, b
<1>2. CASE ~(Len(q) <= Len(p))
  BY <1>2 DEF MakerList!IsPrefix
<1> QED
  BY <1>1, <1>2

LEMMA FrontFacts ==
    ASSUME NEW p \in Spots
    PROVE  /\ MakerList!Front(p) \in Seq(STRING) /\ Len(MakerList!Front(p)) = Len(p) - 1
           /\ \A i \in 1 .. Len(p) - 1 : MakerList!Front(p)[i] = p[i]
<1>1. p \in Seq(STRING) /\ Len(p) \in Nat \ {0}
  BY SpotFacts
<1> DEFINE r == MakerList!Front(p)
<1>2. r \in Seq(STRING) /\ Len(r) = Len(p) - 1 /\ \A i \in 1 .. Len(p) - 1 : r[i] = p[i]
  <2>1. Len(p) - 1 \in Nat /\ \A i \in 1 .. Len(p) - 1 : p[i] \in STRING
    BY <1>1
  <2>2. r = SubSeq(p, 1, Len(p) - 1)
    BY DEF MakerList!Front
  <2> HIDE DEF r
  <2>3. r \in Seq(STRING) /\ Len(r) = (IF 1 <= Len(p) - 1 THEN (Len(p) - 1) - 1 + 1 ELSE 0)
    BY <2>1, <2>2, SubSeqProperties
  <2>4. \A i \in 1 .. (Len(p) - 1) - 1 + 1 : r[i] = p[1 + i - 1]
    BY <2>1, <2>2, SubSeqProperties
  <2>5. Len(r) = Len(p) - 1
    <3>1. \A k \in Nat \ {0} : (IF 1 <= k - 1 THEN (k - 1) - 1 + 1 ELSE 0) = k - 1
      OBVIOUS
    <3>2. Len(r) = (IF 1 <= Len(p) - 1 THEN (Len(p) - 1) - 1 + 1 ELSE 0)
      BY <2>3
    <3> QED
      BY <1>1, <3>1, <3>2
  <2>6. \A i \in 1 .. Len(p) - 1 : i \in 1 .. (Len(p) - 1) - 1 + 1 /\ 1 + i - 1 = i
    BY <1>1
  <2> QED
    BY <2>3, <2>4, <2>5, <2>6
<1> HIDE DEF r
<1> QED
  BY <1>2 DEF r

LEMMA PrefixStep ==
    ASSUME NEW p \in Spots, NEW q \in Spots
    PROVE  MakerList!IsPrefix(q, p)
              <=> q = p \/ (Len(p) # 1 /\ MakerList!IsPrefix(q, MakerList!Front(p)))
<1>1. p \in Seq(STRING) /\ q \in Seq(STRING) /\ Len(p) \in Nat \ {0} /\ Len(q) \in Nat \ {0}
  BY SpotFacts
<1> DEFINE r == MakerList!Front(p)
<1>2. r \in Seq(STRING) /\ Len(r) = Len(p) - 1 /\ \A i \in 1 .. Len(p) - 1 : r[i] = p[i]
  BY FrontFacts
<1> HIDE DEF r
<1>3. q = p <=> Len(q) = Len(p) /\ \A i \in 1 .. Len(q) : q[i] = p[i]
  BY <1>1
<1>4. MakerList!IsPrefix(q, p) <=> Len(q) <= Len(p) /\ \A i \in 1 .. Len(q) : q[i] = p[i]
  BY <1>1, PrefixIs
<1>5. MakerList!IsPrefix(q, r) <=> Len(q) <= Len(p) - 1 /\ \A i \in 1 .. Len(q) : q[i] = r[i]
  BY <1>1, <1>2, PrefixIs
<1>6. Len(q) <= Len(p) - 1 => ((\A i \in 1 .. Len(q) : q[i] = r[i]) <=> \A i \in 1 .. Len(q) : q[i] = p[i])
  <2> SUFFICES ASSUME Len(q) <= Len(p) - 1
               PROVE  (\A i \in 1 .. Len(q) : q[i] = r[i]) <=> \A i \in 1 .. Len(q) : q[i] = p[i]
    OBVIOUS
  <2>1. \A i \in 1 .. Len(q) : r[i] = p[i]
    BY <1>1, <1>2
  <2> QED
    BY <2>1
<1> QED
  BY <1>1, <1>3, <1>4, <1>5, <1>6 DEF r

LEMMA AncestorsArePrefixes ==
    ASSUME NEW p \in Spots
    PROVE  MakerList!ancestor_map[p] = {q \in Spots : MakerList!IsPrefix(q, p)}
<1> DEFINE Up(g, x) == {x} \cup (IF Len(x) = 1 THEN {} ELSE g[MakerList!Front(x)])
           A == MakerList!ancestor_map
           G == [x \in Spots |-> {q \in Spots : MakerList!IsPrefix(q, x)}]
<1>1. A = CHOOSE g : g = [x \in Spots |-> Up(g, x)]
  BY DEF MakerList!ancestor_map, Spots
<1>2. ASSUME NEW x \in Spots PROVE G[x] = Up(G, x)
  <2>1. G[x] = {q \in Spots : MakerList!IsPrefix(q, x)}
    OBVIOUS
  <2>2. Len(x) # 1 => G[MakerList!Front(x)] = {q \in Spots : MakerList!IsPrefix(q, MakerList!Front(x))}
    BY SpotFacts
  <2> HIDE DEF G
  <2> QED
    BY <2>1, <2>2, PrefixStep
<1>3. G = [x \in Spots |-> Up(G, x)]
  <2>1. G = [x \in Spots |-> G[x]]
    OBVIOUS
  <2> HIDE DEF G
  <2> QED
    BY <1>2, <2>1
<1>4. A = [x \in Spots |-> Up(A, x)]
  <2> HIDE DEF G, A, Up
  <2> QED
    BY <1>1, <1>3
<1>5. \A x \in Spots : A[x] = Up(A, x)
  <2> HIDE DEF A, Up
  <2> QED
    BY <1>4
<1> HIDE DEF A, G
<1>6. ASSUME NEW y \in Spots, A[y] # G[y] PROVE FALSE
  <2> DEFINE Odd == {Len(x) : x \in {z \in Spots : A[z] # G[z]}}
  <2>1. Odd \subseteq Nat /\ Odd # {}
    BY <1>6, SpotFacts
  <2>2. PICK n \in Odd : \A m \in Odd : n <= m
    BY <2>1, LeastNumber
  <2>3. PICK x \in Spots : A[x] # G[x] /\ n = Len(x)
    BY <2>2
  <2>4. Len(x) # 1 => A[MakerList!Front(x)] = G[MakerList!Front(x)]
    <3> SUFFICES ASSUME Len(x) # 1 PROVE A[MakerList!Front(x)] = G[MakerList!Front(x)]
      OBVIOUS
    <3>1. MakerList!Front(x) \in Spots /\ x \in Seq(STRING) /\ Len(x) \in Nat \ {0}
      BY SpotFacts
    <3>2. Len(MakerList!Front(x)) = Len(x) - 1
      BY FrontFacts
    <3>3. Len(MakerList!Front(x)) < n
      BY <2>3, <3>1, <3>2
    <3>4. Len(MakerList!Front(x)) \notin Odd
      BY <2>2, <3>3, <2>1
    <3> QED
      BY <3>1, <3>4
  <2> QED
    BY <1>2, <1>5, <2>3, <2>4
<1> QED
  BY <1>6 DEF A, G
(***************************************************************************)
(* The register keeps its types.                                           *)
(***************************************************************************)
LEMMA MakerStep ==
    ASSUME MakerList!TypeOK, MakerList!Next
    PROVE  MakerList!TypeOK'
<1> USE DEF MakerList!TypeOK
<1>1. ASSUME NEW g \in MakerList!FilterRow, MakerList!Narrow(g) PROVE MakerList!TypeOK'
  BY <1>1 DEF MakerList!Narrow
<1>2. ASSUME NEW m \in DOMAIN Register.models, NEW r \in MakerList!ModelRow, MakerList!EditModel(m, r)
      PROVE  MakerList!TypeOK'
  BY <1>2, EditsAreBounded DEF MakerList!EditModel, MakerList!Edit
<1>3. ASSUME NEW e \in DOMAIN Register.entities, NEW r \in MakerList!EntityRow, MakerList!EditEntity(e, r)
      PROVE  MakerList!TypeOK'
  BY <1>3, EditsAreBounded DEF MakerList!EditEntity, MakerList!Edit
<1>4. ASSUME NEW x \in Register.manufacturers, NEW r \in MakerList!MakerRow, MakerList!EditMaker(x, r)
      PROVE  MakerList!TypeOK'
  BY <1>4, EditsAreBounded DEF MakerList!EditMaker, MakerList!Edit
<1>5. CASE MakerList!Search
  <2>1. [makerFilter EXCEPT !.q = ~@] \in MakerList!FilterRow
    BY DEF MakerList!FilterRow
  <2> QED
    BY <1>1, <1>5, <2>1 DEF MakerList!Search
<1>6. ASSUME NEW d \in DOMAIN MakerList!Values, NEW v \in MakerList!Values[d] \cup {None}, MakerList!Select(d, v)
      PROVE  MakerList!TypeOK'
  <2>1. [makerFilter EXCEPT ![d] = v] \in MakerList!FilterRow
    <3>1. CASE d = "location"
      BY <3>1 DEF MakerList!FilterRow, MakerList!Values
    <3>2. CASE d = "person"
      BY <3>2 DEF MakerList!FilterRow, MakerList!Values
    <3>3. CASE d = "technology_generation"
      BY <3>3 DEF MakerList!FilterRow, MakerList!Values
    <3> QED
      BY <3>1, <3>2, <3>3 DEF MakerList!Values
  <2> QED
    BY <1>1, <1>6, <2>1 DEF MakerList!Select
<1>7. ASSUME NEW d \in {"year_min", "year_max"}, NEW y \in Register.years \cup {None}, MakerList!Select(d, y)
      PROVE  MakerList!TypeOK'
  <2>1. [makerFilter EXCEPT ![d] = y] \in MakerList!FilterRow
    BY DEF MakerList!FilterRow
  <2> QED
    BY <1>1, <1>7, <2>1 DEF MakerList!Select
<1>8. ASSUME NEW m \in DOMAIN Register.models,
             \/ MakerList!PatchModel(m) \/ MakerList!DeleteModel(m) \/ MakerList!RestoreModel(m)
             \/ \E p \in DOMAIN Register.models \cup {None} : MakerList!SetVariantOf(m, p)
      PROVE  MakerList!TypeOK'
  <2> DEFINE row == makerModels[m]
  <2>1. row \in MakerList!ModelRow
    OBVIOUS
  <2> HIDE DEF row
  <2>2. \A y \in Register.years \cup {None} : [row EXCEPT !.year = y] \in MakerList!ModelRow
    BY <2>1 DEF MakerList!ModelRow
  <2>3. \A v \in Register.people : [row EXCEPT !.people = MakerList!Toggle(@, v)] \in MakerList!ModelRow
    BY <2>1 DEF MakerList!ModelRow, MakerList!Toggle
  <2>4. \A v \in Register.generations \cup {None} : [row EXCEPT !.generation = v] \in MakerList!ModelRow
    BY <2>1 DEF MakerList!ModelRow
  <2>5. \A e \in DOMAIN Register.entities \cup {None} : [row EXCEPT !.entity = e] \in MakerList!ModelRow
    BY <2>1 DEF MakerList!ModelRow
  <2>6. \A p \in DOMAIN Register.models \cup {None} : [row EXCEPT !.variantOf = p] \in MakerList!ModelRow
    BY <2>1 DEF MakerList!ModelRow
  <2>7. [row EXCEPT !.live = FALSE] \in MakerList!ModelRow /\ [row EXCEPT !.live = TRUE] \in MakerList!ModelRow
    BY <2>1 DEF MakerList!ModelRow
  <2>8. CASE MakerList!PatchModel(m)
    <3> USE DEF row
    <3>1. \/ \E y \in Register.years \cup {None} : MakerList!EditModel(m, [row EXCEPT !.year = y])
          \/ \E v \in Register.people : MakerList!EditModel(m, [row EXCEPT !.people = MakerList!Toggle(@, v)])
          \/ \E v \in Register.generations \cup {None} : MakerList!EditModel(m, [row EXCEPT !.generation = v])
          \/ \E e \in DOMAIN Register.entities \cup {None} : MakerList!EditModel(m, [row EXCEPT !.entity = e])
      BY <2>8 DEF MakerList!PatchModel
    <3> HIDE DEF row, MakerList!TypeOK
    <3> QED
      BY <1>2, <2>2, <2>3, <2>4, <2>5, <3>1
  <2>9. CASE MakerList!DeleteModel(m) \/ MakerList!RestoreModel(m)
    <3> HIDE DEF MakerList!TypeOK
    <3> QED
      BY <1>2, <2>7, <2>9 DEF MakerList!DeleteModel, MakerList!RestoreModel, row
  <2>10. CASE \E p \in DOMAIN Register.models \cup {None} : MakerList!SetVariantOf(m, p)
    <3> HIDE DEF MakerList!TypeOK
    <3> QED
      BY <1>2, <2>6, <2>10 DEF MakerList!SetVariantOf, row
  <2> QED
    BY <1>8, <2>8, <2>9, <2>10
<1>9. ASSUME NEW e \in DOMAIN Register.entities,
             MakerList!PatchEntity(e) \/ MakerList!DeleteEntity(e) \/ MakerList!RestoreEntity(e)
      PROVE  MakerList!TypeOK'
  <2> DEFINE row == makerEntities[e]
  <2>1. row \in MakerList!EntityRow
    OBVIOUS
  <2> HIDE DEF row
  <2>2. [row EXCEPT !.q = ~@] \in MakerList!EntityRow
    BY <2>1 DEF MakerList!EntityRow
  <2>3. \A x \in Register.manufacturers : [row EXCEPT !.manufacturer = x] \in MakerList!EntityRow
    BY <2>1 DEF MakerList!EntityRow
  <2>4. \A p \in Register.places : [row EXCEPT !.places = MakerList!Toggle(@, p)] \in MakerList!EntityRow
    BY <2>1 DEF MakerList!EntityRow, MakerList!Toggle
  <2>5. [row EXCEPT !.live = FALSE] \in MakerList!EntityRow /\ [row EXCEPT !.live = TRUE] \in MakerList!EntityRow
    BY <2>1 DEF MakerList!EntityRow
  <2> HIDE DEF MakerList!TypeOK
  <2> QED
    BY <1>3, <1>9, <2>2, <2>3, <2>4, <2>5
       DEF MakerList!PatchEntity, MakerList!DeleteEntity, MakerList!RestoreEntity, row
<1>10. ASSUME NEW x \in Register.manufacturers,
              MakerList!PatchMaker(x) \/ MakerList!DeleteMaker(x) \/ MakerList!RestoreMaker(x)
       PROVE  MakerList!TypeOK'
  <2> DEFINE row == makers[x]
  <2>1. row \in MakerList!MakerRow
    OBVIOUS
  <2> HIDE DEF row
  <2>2. [row EXCEPT !.q = ~@] \in MakerList!MakerRow /\ [row EXCEPT !.d = ~@] \in MakerList!MakerRow
    BY <2>1 DEF MakerList!MakerRow
  <2>3. [row EXCEPT !.live = FALSE] \in MakerList!MakerRow /\ [row EXCEPT !.live = TRUE] \in MakerList!MakerRow
    BY <2>1 DEF MakerList!MakerRow
  <2> HIDE DEF MakerList!TypeOK
  <2> QED
    BY <1>4, <1>10, <2>2, <2>3 DEF MakerList!PatchMaker, MakerList!DeleteMaker, MakerList!RestoreMaker, row
<1> HIDE DEF MakerList!TypeOK
<1> QED
  BY <1>5, <1>6, <1>7, <1>8, <1>9, <1>10 DEF MakerList!Next

LEMMA MakerTypes ==
    /\ MakerList!Init => MakerList!TypeOK
    /\ MakerList!TypeOK /\ UNCHANGED makerVars => MakerList!TypeOK'
<1>1. MakerList!Init => MakerList!TypeOK
  <2> SUFFICES ASSUME MakerList!Init PROVE MakerList!TypeOK
    OBVIOUS
  <2>1. MakerList!NoFilter \in MakerList!FilterRow
    BY DEF MakerList!NoFilter, MakerList!FilterRow
  <2> QED
    BY <2>1, MakersAssumption
       DEF MakerList!Init, MakerList!TypeOK, MakerList!ListAssumption, MakerList!MakerRow
<1>2. MakerList!TypeOK /\ UNCHANGED makerVars => MakerList!TypeOK'
  BY DEF MakerList!TypeOK, makerVars
<1> QED
  BY <1>1, <1>2
(***************************************************************************)
(* What the counts find from the models and places is what the click finds *)
(* from the manufacturers.                                                 *)
(***************************************************************************)
LEMMA MakerCounts ==
    /\ \A S : MakerList!Cardinality(S) = Cardinality(S)
    /\ \A S : MakerList!IsFiniteSet(S) <=> IsFiniteSet(S)
<1>1. ASSUME NEW S PROVE MakerList!Cardinality(S) = Cardinality(S)
  BY DEF MakerList!Cardinality, Cardinality
<1>2. ASSUME NEW S PROVE MakerList!IsFiniteSet(S) <=> IsFiniteSet(S)
  BY DEF MakerList!IsFiniteSet, IsFiniteSet
<1> QED
  BY <1>1, <1>2

LEMMA MakerFacts ==
    ASSUME MakerList!TypeOK
    PROVE  /\ IsFiniteSet(DOMAIN Register.models) /\ IsFiniteSet(Register.manufacturers)
           /\ Register.manufacturers \subseteq Int /\ Register.years \subseteq Int
           /\ None \notin Register.manufacturers /\ None \notin Register.years /\ None \notin Register.places
           /\ None \notin Register.people /\ None \notin Register.generations
           /\ None \notin MakerList!DIMENSIONS /\ Register.limit \in Nat
           /\ \A x : MakerList!CountedModels(x) \subseteq DOMAIN Register.models
           /\ \A m \in DOMAIN Register.models : makerModels[m].year \in Register.years \cup {None}
           /\ \A e \in DOMAIN Register.entities : /\ makerEntities[e].places \subseteq Register.places
                                                   /\ makerEntities[e].manufacturer \in Register.manufacturers
BY MakersAssumption, MakerCounts
   DEF MakerList!ListAssumption, MakerList!TypeOK, MakerList!CountedModels, MakerList!ModelRow,
       MakerList!EntityRow

LEMMA ClickIs ==
    ASSUME MakerList!TypeOK, NEW d \in DOMAIN MakerList!Values, NEW v
    PROVE  MakerList!filtered([makerFilter EXCEPT ![d] = v], None)
              = {x \in MakerList!filtered(makerFilter, d) :
                    MakerList!apply_dimension(x, d, [makerFilter EXCEPT ![d] = v])}
<1> DEFINE g == [makerFilter EXCEPT ![d] = v]
<1>1. d \in {"location", "person", "technology_generation"}
  BY DEF MakerList!Values
<1>2. ASSUME NEW x, NEW key \in MakerList!DIMENSIONS, key # d
      PROVE  MakerList!apply_dimension(x, key, g) <=> MakerList!apply_dimension(x, key, makerFilter)
  <2>1. \A h \in DOMAIN makerFilter : h # d => g[h] = makerFilter[h]
    OBVIOUS
  <2>2. DOMAIN makerFilter
           = {"q", "location", "year_min", "year_max", "person", "technology_generation"}
    BY DEF MakerList!TypeOK, MakerList!FilterRow
  <2>3. /\ g.q = makerFilter.q /\ g.year_min = makerFilter.year_min /\ g.year_max = makerFilter.year_max
        /\ d # "location" => g.location = makerFilter.location
        /\ d # "person" => g.person = makerFilter.person
        /\ d # "technology_generation" => g.technology_generation = makerFilter.technology_generation
    BY <1>1, <2>1, <2>2
  <2> HIDE DEF g
  <2>4. CASE key = "q"
    BY <2>3, <2>4 DEF MakerList!apply_dimension
  <2>5. CASE key = "location"
    BY <1>2, <2>3, <2>5 DEF MakerList!apply_dimension
  <2>6. CASE key = "year"
    BY <2>3, <2>6 DEF MakerList!apply_dimension
  <2>7. CASE key = "person"
    BY <1>2, <2>3, <2>7 DEF MakerList!apply_dimension
  <2>8. CASE key = "technology_generation"
    BY <1>2, <2>3, <2>8 DEF MakerList!apply_dimension
  <2> QED
    BY <2>4, <2>5, <2>6, <2>7, <2>8 DEF MakerList!DIMENSIONS
<1>3. MakerList!DIMENSIONS \ {None} = MakerList!DIMENSIONS /\ d \in MakerList!DIMENSIONS
  BY <1>1, MakerFacts DEF MakerList!DIMENSIONS
<1> HIDE DEF g
<1>4. ASSUME NEW x
      PROVE  x \in MakerList!filtered(g, None)
                <=> x \in MakerList!filtered(makerFilter, d) /\ MakerList!apply_dimension(x, d, g)
  BY <1>2, <1>3 DEF MakerList!filtered
<1> QED
  BY <1>4 DEF g

LEMMA MakersCount ==
    ASSUME MakerList!TypeOK
    PROVE  MakerList!CountsMatchTheClick
<1> SUFFICES ASSUME NEW d \in DOMAIN MakerList!Values, NEW v \in MakerList!Values[d]
             PROVE  MakerList!Count(d, v)
                       = MakerList!Cardinality(MakerList!filtered([makerFilter EXCEPT ![d] = v], None))
  BY DEF MakerList!CountsMatchTheClick
<1> DEFINE g == [makerFilter EXCEPT ![d] = v]
           ids == MakerList!filtered(makerFilter, d)
<1>1. MakerList!filtered(g, None) = {x \in ids : MakerList!apply_dimension(x, d, g)}
  BY ClickIs
<1>2. d \in {"location", "person", "technology_generation"} /\ g[d] = v
  BY DEF MakerList!Values, MakerList!TypeOK, MakerList!FilterRow
<1>3. v # None /\ ids \subseteq Register.manufacturers
  BY MakerFacts DEF MakerList!Values, MakerList!filtered
<1> HIDE DEF ids, g
<1>4. CASE d = "location"
  <2>1. v \in Register.places
    BY <1>4 DEF MakerList!Values
  <2> DEFINE Pairs == MakerList!Located(ids)
             Kept == {q \in Pairs : v \in MakerList!ancestor_map[q[2]]}
  <2>2. MakerList!Count(d, v) = MakerList!Cardinality({pair[1] : pair \in Kept})
    BY <1>4 DEF MakerList!Count, MakerList!hierarchy_rollup, ids
  <2>3. ASSUME NEW e \in DOMAIN Register.entities, NEW p \in makerEntities[e].places
        PROVE  v \in MakerList!ancestor_map[p] <=> MakerList!Under(p, v)
    <3>1. p \in Spots /\ v \in Spots
      BY <2>1, MakerFacts DEF Spots
    <3> QED
      BY <3>1, AncestorsArePrefixes DEF MakerList!Under
  <2>4. ASSUME NEW q
        PROVE  q \in Pairs <=> \E e \in DOMAIN Register.entities :
                  /\ makerEntities[e].live /\ makerEntities[e].manufacturer \in ids
                  /\ \E p \in makerEntities[e].places : q = <<makerEntities[e].manufacturer, p>>
    BY DEF MakerList!Located
  <2> HIDE DEF Pairs
  <2>5. ASSUME NEW x
        PROVE  x \in {pair[1] : pair \in Kept} <=> x \in ids /\ MakerList!apply_dimension(x, d, g)
    <3>1. MakerList!apply_dimension(x, d, g) <=> \E e \in DOMAIN Register.entities :
             /\ makerEntities[e].live /\ makerEntities[e].manufacturer = x
             /\ \E p \in makerEntities[e].places : MakerList!Under(p, v)
      BY <1>2, <1>3, <1>4 DEF MakerList!apply_dimension, MakerList!LiveEntities
    <3>2. ASSUME x \in {pair[1] : pair \in Kept}
          PROVE  x \in ids /\ MakerList!apply_dimension(x, d, g)
      <4>1. PICK q \in Pairs : x = q[1] /\ v \in MakerList!ancestor_map[q[2]]
        BY <3>2
      <4>2. PICK e \in DOMAIN Register.entities :
                  /\ makerEntities[e].live /\ makerEntities[e].manufacturer \in ids
                  /\ \E p \in makerEntities[e].places : q = <<makerEntities[e].manufacturer, p>>
        BY <2>4, <4>1
      <4>3. PICK p \in makerEntities[e].places : q = <<makerEntities[e].manufacturer, p>>
        BY <4>2
      <4>4. x = makerEntities[e].manufacturer /\ v \in MakerList!ancestor_map[p]
        BY <4>1, <4>3
      <4>5. MakerList!Under(p, v)
        BY <2>3, <4>4
      <4> QED
        BY <3>1, <4>2, <4>4, <4>5
    <3>3. ASSUME x \in ids, MakerList!apply_dimension(x, d, g)
          PROVE  x \in {pair[1] : pair \in Kept}
      <4>1. PICK e \in DOMAIN Register.entities :
             /\ makerEntities[e].live /\ makerEntities[e].manufacturer = x
             /\ \E p \in makerEntities[e].places : MakerList!Under(p, v)
        BY <3>1, <3>3
      <4>2. PICK p \in makerEntities[e].places : MakerList!Under(p, v)
        BY <4>1
      <4> DEFINE q == <<x, p>>
      <4>3. q \in Pairs /\ q[1] = x /\ q[2] = p
        BY <2>4, <3>3, <4>1
      <4>4. v \in MakerList!ancestor_map[q[2]]
        BY <2>3, <4>2, <4>3
      <4> HIDE DEF q
      <4> QED
        BY <4>3, <4>4
    <3> QED
      BY <3>2, <3>3
  <2> HIDE DEF Kept
  <2>6. {pair[1] : pair \in Kept} = MakerList!filtered(g, None)
    BY <1>1, <2>5
  <2> QED
    BY <2>2, <2>6 DEF g
<1>5. CASE d = "person" \/ d = "technology_generation"
  <2> DEFINE ms == IF d = "person" THEN {m \in DOMAIN Register.models : v \in makerModels[m].people}
                   ELSE {m \in DOMAIN Register.models : makerModels[m].generation = v}
             Found == {MakerList!MakerOf(m) :
                          m \in {n \in ms : MakerList!_MODEL(n) /\ MakerList!MakerOf(n) \in ids}}
  <2>1. MakerList!Count(d, v) = MakerList!Cardinality(Found)
    BY <1>5 DEF MakerList!Count, MakerList!count_distinct, ids
  <2>2. ASSUME NEW x
        PROVE  x \in Found <=> x \in ids /\ MakerList!apply_dimension(x, d, g)
    <3>1. MakerList!apply_dimension(x, d, g) <=> \E m \in ms : MakerList!_MODEL(m) /\ MakerList!MakerOf(m) = x
      <4>1. CASE d = "person"
        BY <1>2, <1>3, <4>1 DEF MakerList!apply_dimension, MakerList!CountedModels
      <4>2. CASE d = "technology_generation"
        BY <1>2, <1>3, <4>2 DEF MakerList!apply_dimension, MakerList!CountedModels
      <4> QED
        BY <1>5, <4>1, <4>2
    <3> HIDE DEF ms
    <3> QED
      BY <3>1
  <2> HIDE DEF Found
  <2>3. Found = MakerList!filtered(g, None)
    BY <1>1, <2>2
  <2> QED
    BY <2>1, <2>3 DEF g
<1> QED
  BY <1>2, <1>4, <1>5
(***************************************************************************)
(* The years: a set of them is empty or has ends, which a span reaches.    *)
(***************************************************************************)
LEMMA YearsOf ==
    ASSUME MakerList!TypeOK, NEW ms \in SUBSET DOMAIN Register.models
    PROVE  LET ys == {makerModels[m].year : m \in ms} \ {None}
           IN  /\ ys \subseteq Register.years /\ ys \subseteq Int
               /\ \A y \in ys : \E m \in ms : makerModels[m].year = y /\ y # None
               /\ \A m \in ms : makerModels[m].year # None => makerModels[m].year \in ys
               /\ ys # {} => /\ MakerList!Min(ys) \in ys /\ \A y \in ys : MakerList!Min(ys) <= y
                             /\ MakerList!Max(ys) \in ys /\ \A y \in ys : MakerList!Max(ys) >= y
<1> DEFINE all == {makerModels[m].year : m \in ms}
           ys == all \ {None}
<1>1. ys \subseteq Register.years /\ ys \subseteq Int
  BY MakerFacts
<1>2. \A y \in ys : \E m \in ms : makerModels[m].year = y /\ y # None
  OBVIOUS
<1>3. \A m \in ms : makerModels[m].year # None => makerModels[m].year \in ys
  OBVIOUS
<1>4. IsFiniteSet(ys)
  <2>1. IsFiniteSet(ms)
    BY MakerFacts, FS_Subset
  <2>2. IsFiniteSet(all)
    <3> DEFINE g == [m \in ms |-> makerModels[m].year]
    <3>1. g \in Surjection(ms, all)
      BY DEF Surjection
    <3> QED
      BY <2>1, <3>1, FS_Surjection
  <2> HIDE DEF all
  <2> QED
    BY <2>2, FS_Subset
<1> HIDE DEF all, ys
<1>5. ys # {} => /\ MakerList!Min(ys) \in ys /\ \A y \in ys : MakerList!Min(ys) <= y
                 /\ MakerList!Max(ys) \in ys /\ \A y \in ys : MakerList!Max(ys) >= y
  BY <1>1, <1>4, EndsExist
<1> QED
  BY <1>1, <1>2, <1>3, <1>5 DEF ys, all

LEMMA MakersReachTheEnds ==
    ASSUME MakerList!TypeOK
    PROVE  MakerList!YearsReachTheEnds
<1> DEFINE ids == MakerList!filtered(makerFilter, "year")
           ms == {n \in DOMAIN Register.models : MakerList!_MODEL(n) /\ MakerList!MakerOf(n) \in ids}
           ys == {makerModels[m].year : m \in ms} \ {None}
           Found(lo, hi) == \E x \in ids : MakerList!SpanOverlaps(x, lo, hi)
           b == MakerList!bounds(ids)
<1>1. /\ ys \subseteq Register.years /\ ys \subseteq Int
      /\ \A y \in ys : \E m \in ms : makerModels[m].year = y /\ y # None
      /\ \A m \in ms : makerModels[m].year # None => makerModels[m].year \in ys
      /\ ys # {} => /\ MakerList!Min(ys) \in ys /\ \A y \in ys : MakerList!Min(ys) <= y
                    /\ MakerList!Max(ys) \in ys /\ \A y \in ys : MakerList!Max(ys) >= y
  <2> HIDE DEF ids
  <2>1. ms \in SUBSET DOMAIN Register.models
    OBVIOUS
  <2> HIDE DEF ms
  <2> QED
    BY <2>1, YearsOf
<1>2. \A m : m \in ms <=> \E x \in ids : m \in MakerList!CountedModels(x)
  BY DEF MakerList!CountedModels
<1>3. b = IF ys = {} THEN [min |-> None, max |-> None]
          ELSE [min |-> MakerList!Min(ys), max |-> MakerList!Max(ys)]
  BY DEF MakerList!bounds
<1> HIDE DEF ms, ys, ids
<1>4. ASSUME NEW y \in Register.years
      PROVE  /\ Found(None, y) <=> \E z \in ys : z <= y
             /\ Found(y, None) <=> \E z \in ys : z >= y
  <2>1. y # None
    BY MakerFacts
  <2>2. \A x : MakerList!SpanOverlaps(x, None, y)
                  <=> \E m \in MakerList!CountedModels(x) : makerModels[m].year # None /\ makerModels[m].year <= y
    BY <2>1 DEF MakerList!SpanOverlaps
  <2>3. \A x : MakerList!SpanOverlaps(x, y, None)
                  <=> \E m \in MakerList!CountedModels(x) : makerModels[m].year # None /\ makerModels[m].year >= y
    BY <2>1 DEF MakerList!SpanOverlaps
  <2> QED
    BY <1>1, <1>2, <2>2, <2>3
<1> HIDE DEF Found
<1>5. CASE ys = {}
  <2>1. b.min = None /\ ~\E y \in Register.years : Found(y, None)
    BY <1>3, <1>4, <1>5
  <2> QED
    BY <2>1 DEF MakerList!YearsReachTheEnds, Found, ids
<1>6. CASE ys # {}
  <2>1. b.min = MakerList!Min(ys) /\ b.max = MakerList!Max(ys)
    BY <1>3, <1>6
  <2>2. b.min \in ys /\ b.max \in ys /\ \A y \in ys : b.min <= y /\ b.max >= y
    BY <1>1, <1>6, <2>1
  <2> HIDE DEF b
  <2>3. b.min \in Int /\ b.max \in Int /\ b.min \in Register.years /\ b.max \in Register.years
    BY <1>1, <2>2
  <2>4. Found(None, b.min) /\ Found(b.max, None) /\ b.min # None
    BY <1>4, <2>2, <2>3, MakerFacts
  <2>5. ASSUME NEW y \in Register.years
        PROVE  (Found(None, y) => y >= b.min) /\ (Found(y, None) => y <= b.max)
    <3>1. y \in Int
      BY MakerFacts
    <3>2. Found(None, y) => y >= b.min
      BY <1>1, <1>4, <2>2, <2>3, <3>1
    <3>3. Found(y, None) => y <= b.max
      BY <1>1, <1>4, <2>2, <2>3, <3>1
    <3> QED
      BY <3>2, <3>3
  <2> QED
    BY <2>4, <2>5 DEF MakerList!YearsReachTheEnds, Found, ids, b
<1> QED
  BY <1>5, <1>6

LEMMA MakersSpan ==
    ASSUME MakerList!TypeOK
    PROVE  MakerList!SpanIsTheOneShown
<1> SUFFICES ASSUME NEW x \in MakerList!filtered(MakerList!NoFilter, None),
                    MakerList!PageModels(x) = MakerList!CountedModels(x),
                    NEW lo \in Register.years, NEW hi \in Register.years, lo <= hi
             PROVE  LET shown == MakerList!model_year_bounds(MakerList!PageModels(x))
                    IN  MakerList!SpanOverlaps(x, lo, hi)
                           <=> shown.first # None /\ shown.first <= hi /\ shown.last >= lo
  BY DEF MakerList!SpanIsTheOneShown
<1> DEFINE ms == MakerList!CountedModels(x)
           ys == {makerModels[m].year : m \in ms} \ {None}
           shown == MakerList!model_year_bounds(MakerList!PageModels(x))
<1>1. /\ ys \subseteq Register.years /\ ys \subseteq Int
      /\ \A y \in ys : \E m \in ms : makerModels[m].year = y /\ y # None
      /\ \A m \in ms : makerModels[m].year # None => makerModels[m].year \in ys
      /\ ys # {} => /\ MakerList!Min(ys) \in ys /\ \A y \in ys : MakerList!Min(ys) <= y
                    /\ MakerList!Max(ys) \in ys /\ \A y \in ys : MakerList!Max(ys) >= y
  <2>1. ms \in SUBSET DOMAIN Register.models
    BY MakerFacts
  <2> HIDE DEF ms
  <2> QED
    BY <2>1, YearsOf
<1>2. shown = IF ys = {} THEN [first |-> None, last |-> None]
              ELSE [first |-> MakerList!Min(ys), last |-> MakerList!Max(ys)]
  BY DEF MakerList!model_year_bounds
<1>3. lo \in Int /\ hi \in Int /\ lo # None /\ hi # None
  BY MakerFacts
<1>4. MakerList!SpanOverlaps(x, lo, hi) <=> (\E y \in ys : y <= hi) /\ (\E y \in ys : y >= lo)
  <2>1. MakerList!SpanOverlaps(x, lo, hi)
           <=> /\ \E m \in ms : makerModels[m].year # None /\ makerModels[m].year <= hi
               /\ \E m \in ms : makerModels[m].year # None /\ makerModels[m].year >= lo
    BY <1>3 DEF MakerList!SpanOverlaps
  <2> HIDE DEF ms, ys
  <2> QED
    BY <1>1, <2>1
<1> HIDE DEF ys, shown, ms
<1>5. CASE ys = {}
  BY <1>2, <1>4, <1>5 DEF shown
<1>6. CASE ys # {}
  <2>1. shown.first = MakerList!Min(ys) /\ shown.last = MakerList!Max(ys)
    BY <1>2, <1>6
  <2>2. shown.first \in ys /\ shown.last \in ys /\ \A y \in ys : shown.first <= y /\ shown.last >= y
    BY <1>1, <1>6, <2>1
  <2>3. shown.first # None /\ shown.first \in Int /\ shown.last \in Int
    BY <1>1, <2>2
  <2>4. (\E y \in ys : y <= hi) <=> shown.first <= hi
    BY <1>1, <1>3, <2>2, <2>3
  <2>5. (\E y \in ys : y >= lo) <=> shown.last >= lo
    BY <1>1, <1>3, <2>2, <2>3
  <2> QED
    BY <1>4, <2>3, <2>4, <2>5 DEF shown
<1> QED
  BY <1>5, <1>6

(***************************************************************************)
(* The search.                                                             *)
(***************************************************************************)
LEMMA NothingChosen ==
    ASSUME MakerList!TypeOK, NEW x
    PROVE  /\ x \in MakerList!filtered(MakerList!NoFilter, None)
                 <=> x \in Register.manufacturers /\ makers[x].live
           /\ x \in MakerList!filtered([MakerList!NoFilter EXCEPT !.q = TRUE], None)
                 <=> x \in Register.manufacturers /\ makers[x].live /\ MakerList!_apply_q(x)
           /\ \A p \in Register.places : x \in MakerList!filtered([MakerList!NoFilter EXCEPT !.location = p], None)
                 <=> /\ x \in Register.manufacturers /\ makers[x].live
                     /\ \E e \in MakerList!LiveEntities(x) :
                           \E q \in makerEntities[e].places : MakerList!Under(q, p)
<1>1. MakerList!DIMENSIONS \ {None} = MakerList!DIMENSIONS
  BY MakerFacts
<1>2. ASSUME NEW g, g.year_min = None, g.year_max = None, g.person = None, g.technology_generation = None
      PROVE  x \in MakerList!filtered(g, None)
                <=> /\ x \in Register.manufacturers /\ makers[x].live
                    /\ g.q => MakerList!_apply_q(x)
                    /\ g.location # None => \E e \in MakerList!LiveEntities(x) :
                                               \E q \in makerEntities[e].places : MakerList!Under(q, g.location)
  <2>1. MakerList!apply_dimension(x, "q", g) <=> (g.q => MakerList!_apply_q(x))
    BY DEF MakerList!apply_dimension
  <2>2. MakerList!apply_dimension(x, "location", g)
           <=> (g.location # None => \E e \in MakerList!LiveEntities(x) :
                                        \E q \in makerEntities[e].places : MakerList!Under(q, g.location))
    BY DEF MakerList!apply_dimension
  <2>3. /\ MakerList!apply_dimension(x, "year", g) /\ MakerList!apply_dimension(x, "person", g)
        /\ MakerList!apply_dimension(x, "technology_generation", g)
    BY <1>2 DEF MakerList!apply_dimension, MakerList!SpanOverlaps
  <2>4. x \in MakerList!filtered(g, None)
           <=> /\ x \in Register.manufacturers /\ makers[x].live
               /\ \A key \in MakerList!DIMENSIONS : MakerList!apply_dimension(x, key, g)
    BY <1>1 DEF MakerList!filtered
  <2> QED
    BY <2>1, <2>2, <2>3, <2>4 DEF MakerList!DIMENSIONS
<1>3. x \in MakerList!filtered(MakerList!NoFilter, None)
         <=> x \in Register.manufacturers /\ makers[x].live
  <2> DEFINE g == MakerList!NoFilter
  <2>1. /\ g.year_min = None /\ g.year_max = None /\ g.person = None /\ g.technology_generation = None
        /\ g.q = FALSE /\ g.location = None
    BY DEF MakerList!NoFilter
  <2> HIDE DEF g
  <2>2. x \in MakerList!filtered(g, None) <=> x \in Register.manufacturers /\ makers[x].live
    BY <1>2, <2>1
  <2> QED
    BY <2>2 DEF g
<1>4. x \in MakerList!filtered([MakerList!NoFilter EXCEPT !.q = TRUE], None)
         <=> x \in Register.manufacturers /\ makers[x].live /\ MakerList!_apply_q(x)
  <2> DEFINE g == [MakerList!NoFilter EXCEPT !.q = TRUE]
  <2>1. /\ g.year_min = None /\ g.year_max = None /\ g.person = None /\ g.technology_generation = None
        /\ g.q = TRUE /\ g.location = None
    BY DEF MakerList!NoFilter
  <2> HIDE DEF g
  <2>2. x \in MakerList!filtered(g, None)
           <=> x \in Register.manufacturers /\ makers[x].live /\ MakerList!_apply_q(x)
    BY <1>2, <2>1
  <2> QED
    BY <2>2 DEF g
<1>5. ASSUME NEW p \in Register.places
      PROVE  x \in MakerList!filtered([MakerList!NoFilter EXCEPT !.location = p], None)
                <=> /\ x \in Register.manufacturers /\ makers[x].live
                    /\ \E e \in MakerList!LiveEntities(x) :
                          \E q \in makerEntities[e].places : MakerList!Under(q, p)
  <2> DEFINE g == [MakerList!NoFilter EXCEPT !.location = p]
  <2>1. /\ g.year_min = None /\ g.year_max = None /\ g.person = None /\ g.technology_generation = None
        /\ g.q = FALSE /\ g.location = p
    BY DEF MakerList!NoFilter
  <2>2. p # None
    BY MakerFacts
  <2> HIDE DEF g
  <2>3. x \in MakerList!filtered(g, None)
           <=> /\ x \in Register.manufacturers /\ makers[x].live
               /\ \E e \in MakerList!LiveEntities(x) :
                     \E q \in makerEntities[e].places : MakerList!Under(q, p)
    BY <1>2, <2>1, <2>2
  <2> QED
    BY <2>3 DEF g
<1> QED
  BY <1>3, <1>4, <1>5

LEMMA MakersFree ==
    ASSUME MakerList!TypeOK
    PROVE  MakerList!FreeNamesAreFree /\ MakerList!PlacesSearchAsTheyFilter /\ MakerList!SelectionsStayListed
<1>1. MakerList!FreeNamesAreFree
  <2> DEFINE found == MakerList!filtered([MakerList!NoFilter EXCEPT !.q = TRUE], None)
  <2>1. \A x \in Register.manufacturers : makers[x].live /\ makers[x].q => x \in found
    BY NothingChosen DEF MakerList!_apply_q
  <2>2. ASSUME makerFilter.q, MakerList!query_count(makerFilter) = 0 PROVE found = {}
    <3>1. Cardinality(found) = 0
      BY <2>2, MakerCounts DEF MakerList!query_count
    <3>2. found \subseteq Register.manufacturers
      BY DEF MakerList!filtered
    <3> HIDE DEF found
    <3> QED
      BY <3>1, <3>2, MakerFacts, FS_Subset, FS_EmptySet
  <2> HIDE DEF found
  <2> QED
    BY <2>1, <2>2 DEF MakerList!FreeNamesAreFree, found
<1>2. MakerList!PlacesSearchAsTheyFilter
  <2> SUFFICES ASSUME NEW p \in Register.hits, NEW x,
                      x \in MakerList!filtered([MakerList!NoFilter EXCEPT !.location = p], None)
               PROVE  x \in MakerList!filtered([MakerList!NoFilter EXCEPT !.q = TRUE], None)
    BY DEF MakerList!PlacesSearchAsTheyFilter
  <2>1. p \in Register.places
    BY MakersAssumption DEF MakerList!ListAssumption
  <2>2. /\ x \in Register.manufacturers /\ makers[x].live
        /\ \E e \in MakerList!LiveEntities(x) : \E q \in makerEntities[e].places : MakerList!Under(q, p)
    BY <2>1, NothingChosen
  <2>3. PICK e \in MakerList!LiveEntities(x) : \E q \in makerEntities[e].places : MakerList!Under(q, p)
    BY <2>2
  <2>4. PICK q \in makerEntities[e].places : MakerList!Under(q, p)
    BY <2>3
  <2>5. e \in DOMAIN Register.entities
    BY DEF MakerList!LiveEntities
  <2>6. q \in Register.places
    BY <2>5, MakerFacts
  <2>7. p \in MakerList!ancestor_map[q]
    BY <2>1, <2>4, <2>6, AncestorsArePrefixes DEF Spots, MakerList!Under
  <2>8. q \in MakerList!_location_match_paths
    BY <2>6, <2>7 DEF MakerList!_location_match_paths
  <2>9. MakerList!_apply_q(x)
    BY <2>8 DEF MakerList!_apply_q
  <2> QED
    BY <2>2, <2>9, NothingChosen
<1>3. MakerList!SelectionsStayListed
  BY DEF MakerList!SelectionsStayListed, MakerList!facet_counts, MakerList!with_selected
<1> QED
  BY <1>1, <1>2, <1>3
(***************************************************************************)
(* The section of the search: two lists in order, one after the other.     *)
(***************************************************************************)
LEMMA MakersListed ==
    ASSUME MakerList!TypeOK, NEW S \in SUBSET Register.manufacturers
    PROVE  LET s == MakerList!InOrder(S)
           IN  /\ Cardinality(S) \in Nat /\ s \in [1 .. Cardinality(S) -> S]
               /\ \A i, j \in 1 .. Cardinality(S) : s[i] = s[j] => i = j
               /\ \A x \in S : \E i \in 1 .. Cardinality(S) : s[i] = x
<1> DEFINE n == Cardinality(S)
           R == {e \in S \X S : MakerList!Before(e[1], e[2])}
           Sorted(t) == \A i, j \in DOMAIN t : i < j => MakerList!Before(t[i], t[j])
           s == MakerList!InOrder(S)
<1>1. IsFiniteSet(S) /\ n \in Nat /\ S \subseteq Int
  BY MakerFacts, FS_Subset, FS_CardinalityType
<1>2. \A x \in S : MakerList!model_count(x) \in Int
  <2> SUFFICES ASSUME NEW x \in S PROVE MakerList!model_count(x) \in Int
    OBVIOUS
  <2>1. IsFiniteSet(MakerList!CountedModels(x))
    BY MakerFacts, FS_Subset
  <2>2. MakerList!model_count(x) = Cardinality(MakerList!CountedModels(x))
    BY MakerCounts DEF MakerList!model_count
  <2> QED
    BY <2>1, <2>2, FS_CardinalityType
<1>3. /\ \A x \in S : ~MakerList!Before(x, x)
      /\ \A x, y, z \in S : MakerList!Before(x, y) /\ MakerList!Before(y, z) => MakerList!Before(x, z)
      /\ \A x, y \in S : x # y => MakerList!Before(x, y) \/ MakerList!Before(y, x)
  BY <1>1, <1>2 DEF MakerList!Before
<1>4. \A x, y \in S : <<x, y>> \in R <=> MakerList!Before(x, y)
  OBVIOUS
<1> HIDE DEF R
<1>5. StrictOrder(S, R)
  BY <1>3, <1>4 DEF StrictOrder
<1>6. \E t \in [1 .. n -> S] : Sorted(t)
  <2>1. PICK t \in [1 .. n -> S] : \A i, j \in 1 .. n : i < j => <<t[i], t[j]>> \in R
    BY <1>1, <1>5, SortedExists
  <2>2. \A i, j \in DOMAIN t : i < j => MakerList!Before(t[i], t[j])
    BY <1>4, <2>1
  <2> QED
    BY <2>2
<1>7. s = CHOOSE t \in [1 .. n -> S] : Sorted(t)
  BY MakerCounts DEF MakerList!InOrder
<1> HIDE DEF s
<1>8. s \in [1 .. n -> S] /\ Sorted(s)
  <2> HIDE DEF Sorted
  <2> QED
    BY <1>6, <1>7
<1>9. \A i, j \in 1 .. n : s[i] = s[j] => i = j
  <2> SUFFICES ASSUME NEW i \in 1 .. n, NEW j \in 1 .. n, s[i] = s[j], i # j PROVE FALSE
    OBVIOUS
  <2>1. s[i] \in S /\ (i < j \/ j < i)
    BY <1>1, <1>8
  <2>2. MakerList!Before(s[i], s[i])
    BY <1>8, <2>1
  <2> QED
    BY <1>3, <2>1, <2>2
<1> HIDE DEF n
<1>10. \A x \in S : \E i \in 1 .. n : s[i] = x
  <2>1. s \in Injection(1 .. n, S)
    BY <1>8, <1>9 DEF Injection, IsInjective
  <2>2. IsFiniteSet(1 .. n) /\ Cardinality(1 .. n) = n
    BY <1>1, FS_Interval
  <2>3. s \in Surjection(1 .. n, S)
    BY <1>1, <2>1, <2>2, FS_Injection DEF n
  <2> QED
    BY <2>3 DEF Surjection
<1> QED
  BY <1>1, <1>8, <1>9, <1>10 DEF s, n

LEMMA MakersComplete ==
    ASSUME MakerList!TypeOK
    PROVE  MakerList!SectionsAreComplete
<1> DEFINE L == Register.limit
           named == MakerList!filtered([MakerList!NoFilter EXCEPT !.q = TRUE], None)
           base == MakerList!filtered(MakerList!NoFilter, None)
           told == {x \in base : makers[x].d}
           rest == told \ named
           A == MakerList!InOrder(named)
           B == MakerList!InOrder(rest)
           n == Cardinality(named)
           k == Cardinality(rest)
           both == A \o B
           found == SubSeq(both, 1, IF Len(both) > L THEN L + 1 ELSE Len(both))
           rows == SubSeq(found, 1, IF Len(found) > L THEN L ELSE Len(found))
<1>1. named \subseteq Register.manufacturers /\ rest \subseteq Register.manufacturers /\ L \in Nat
  BY MakerFacts DEF MakerList!filtered
<1> HIDE DEF named, told
<1>2. /\ n \in Nat /\ A \in [1 .. n -> named]
      /\ \A i, j \in 1 .. n : A[i] = A[j] => i = j
      /\ \A x \in named : \E i \in 1 .. n : A[i] = x
  BY <1>1, MakersListed
<1>3. /\ k \in Nat /\ B \in [1 .. k -> rest]
      /\ \A i, j \in 1 .. k : B[i] = B[j] => i = j
      /\ \A x \in rest : \E i \in 1 .. k : B[i] = x
  <2> HIDE DEF rest
  <2> QED
    BY <1>1, MakersListed
<1>4. MakerList!Range(A) = named
  BY <1>2 DEF MakerList!Range
<1>5. \A x : x \in rest => x \notin named
  OBVIOUS
<1>6. Cardinality(named \cup told) = n + k
  <2>1. IsFiniteSet(named) /\ IsFiniteSet(rest)
    BY <1>1, MakerFacts, FS_Subset
  <2>2. named \cup told = named \cup rest /\ named \cap rest = {}
    OBVIOUS
  <2> HIDE DEF rest
  <2>3. Cardinality(named \cup rest) = Cardinality(named) + Cardinality(rest) - Cardinality(named \cap rest)
    BY <2>1, FS_Union
  <2>4. Cardinality(named \cap rest) = 0
    BY <2>2, FS_EmptySet
  <2>5. Cardinality(named \cup told) = Cardinality(named) + Cardinality(rest) - 0
    BY <2>2, <2>3, <2>4
  <2> HIDE DEF k, n
  <2>6. n = Cardinality(named) /\ k = Cardinality(rest)
    BY DEF n, k, rest
  <2>7. Cardinality(named \cup told) = n + k - 0
    BY <2>5, <2>6
  <2> QED
    BY <1>2, <1>3, <2>7
<1>7. MakerList!tiered_search_rows = [rows |-> rows, has_more |-> Len(found) > L]
  <2>1. MakerList!Tiers(MakerList!ordered([MakerList!NoFilter EXCEPT !.q = TRUE]), base) = found
    BY <1>4 DEF MakerList!Tiers, MakerList!ordered, named, told
  <2> HIDE DEF base, found
  <2> QED
    BY <2>1 DEF MakerList!tiered_search_rows, base
<1> HIDE DEF A, B, n, k, rest, base
<1>8. /\ both \in Seq(named \cup rest) /\ Len(both) = n + k
      /\ \A i \in 1 .. n : both[i] = A[i]
      /\ \A i \in n + 1 .. n + k : both[i] = B[i - n]
  <2>1. A \in Seq(named \cup rest) /\ B \in Seq(named \cup rest) /\ Len(A) = n /\ Len(B) = k
    BY <1>2, <1>3
  <2>2. Len(both) = Len(A) + Len(B) /\ \A i \in 1 .. Len(A) + Len(B) :
           both[i] = IF i <= Len(A) THEN A[i] ELSE B[i - Len(A)]
    BY <2>1, ConcatProperties
  <2> HIDE DEF both
  <2>3. both \in Seq(named \cup rest)
    BY <2>1, ConcatProperties DEF both
  <2> QED
    BY <1>2, <1>3, <2>1, <2>2, <2>3
<1> HIDE DEF both
<1>9. /\ \A i \in 1 .. n : both[i] \in named
      /\ \A i \in n + 1 .. n + k : both[i] \in rest /\ i - n \in 1 .. k
  BY <1>2, <1>3, <1>8
<1>10. \A i, j \in 1 .. n + k : both[i] = both[j] => i = j
  <2> SUFFICES ASSUME NEW i \in 1 .. n + k, NEW j \in 1 .. n + k, both[i] = both[j] PROVE i = j
    OBVIOUS
  <2>1. (i \in 1 .. n \/ i \in n + 1 .. n + k) /\ (j \in 1 .. n \/ j \in n + 1 .. n + k)
    BY <1>2, <1>3
  <2>2. CASE i \in 1 .. n /\ j \in 1 .. n
    BY <1>2, <1>8, <2>2
  <2>3. CASE i \in n + 1 .. n + k /\ j \in n + 1 .. n + k
    <3>1. B[i - n] = B[j - n] /\ i - n \in 1 .. k /\ j - n \in 1 .. k
      BY <1>8, <1>9, <2>3
    <3>2. i - n = j - n
      BY <1>3, <3>1
    <3> QED
      BY <1>2, <2>3, <3>2
  <2>4. CASE (i \in 1 .. n /\ j \in n + 1 .. n + k) \/ (j \in 1 .. n /\ i \in n + 1 .. n + k)
    BY <1>5, <1>9, <2>4
  <2> QED
    BY <2>1, <2>2, <2>3, <2>4
<1> DEFINE a == IF n + k > L THEN L + 1 ELSE n + k
           c == IF n + k > L THEN L ELSE n + k
<1>11. /\ a \in Nat /\ a <= n + k /\ c \in Nat /\ c <= n + k /\ c <= a
       /\ (a > L <=> n + k > L) /\ c = IF a > L THEN L ELSE a
  BY <1>1, <1>2, <1>3
<1>12. Len(found) = a /\ \A i \in 1 .. a : found[i] = both[i]
  <2>1. found = SubSeq(both, 1, a)
    BY <1>8
  <2> HIDE DEF found, a
  <2>2. \A i \in 1 .. a : both[i] \in named \cup rest
    BY <1>8, <1>11
  <2>3. /\ Len(found) = (IF 1 <= a THEN a - 1 + 1 ELSE 0)
        /\ \A i \in 1 .. a - 1 + 1 : found[i] = both[1 + i - 1]
    BY <1>11, <2>1, <2>2, SubSeqProperties
  <2>4. (IF 1 <= a THEN a - 1 + 1 ELSE 0) = a
    BY <1>11
  <2>5. \A i \in 1 .. a : i \in 1 .. a - 1 + 1 /\ 1 + i - 1 = i
    BY <1>11
  <2> QED
    BY <2>3, <2>4, <2>5
<1> HIDE DEF found
<1>13. rows \in Seq(named \cup rest) /\ Len(rows) = c /\ \A i \in 1 .. c : rows[i] = both[i]
  <2>1. rows = SubSeq(found, 1, c)
    BY <1>11, <1>12
  <2> HIDE DEF rows, c, a
  <2>2. \A i \in 1 .. c : found[i] \in named \cup rest /\ found[i] = both[i]
    BY <1>8, <1>11, <1>12
  <2>3. /\ rows \in Seq(named \cup rest)
        /\ Len(rows) = (IF 1 <= c THEN c - 1 + 1 ELSE 0)
        /\ \A i \in 1 .. c - 1 + 1 : rows[i] = found[1 + i - 1]
    BY <1>11, <2>1, <2>2, SubSeqProperties
  <2>4. (IF 1 <= c THEN c - 1 + 1 ELSE 0) = c
    BY <1>11
  <2>5. \A i \in 1 .. c : i \in 1 .. c - 1 + 1 /\ 1 + i - 1 = i
    BY <1>11
  <2> QED
    BY <2>2, <2>3, <2>4, <2>5
<1> HIDE DEF rows, a
<1>14. Cardinality(MakerList!Range(rows)) = Len(rows)
  <2>1. DOMAIN rows = 1 .. c /\ IsFiniteSet(1 .. c) /\ Cardinality(1 .. c) = c
    <3>1. DOMAIN rows = 1 .. c
      BY <1>13
    <3> HIDE DEF c
    <3>2. c \in Nat /\ 1 \in Int /\ c \in Int
      BY <1>11
    <3>3. IsFiniteSet(1 .. c) /\ Cardinality(1 .. c) = c
      <4>1. IsFiniteSet(1 .. c) /\ Cardinality(1 .. c) = (IF 1 > c THEN 0 ELSE c - 1 + 1)
        BY <3>2, FS_Interval
      <4> QED
        BY <3>2, <4>1
    <3> QED
      BY <3>1, <3>3
  <2>2. MakerList!Range(rows) = {rows[i] : i \in 1 .. c}
    BY <2>1 DEF MakerList!Range
  <2>3. rows \in [1 .. c -> {rows[i] : i \in 1 .. c}]
    BY <1>13, <2>1
  <2>4. \A i, j \in 1 .. c : rows[i] = rows[j] => i = j
    <3> HIDE DEF c
    <3>1. \A i \in 1 .. c : i \in 1 .. n + k
      BY <1>2, <1>3, <1>11
    <3> QED
      BY <1>10, <1>13, <3>1
  <2> HIDE DEF c
  <2>5. rows \in Surjection(1 .. c, {rows[i] : i \in 1 .. c})
    BY <2>3 DEF Surjection
  <2>6. rows \in Injection(1 .. c, {rows[i] : i \in 1 .. c})
    BY <2>3, <2>4 DEF Injection, IsInjective
  <2>7. Cardinality({rows[i] : i \in 1 .. c}) = c
    BY <2>1, <2>5, <2>6, FS_Surjection
  <2> QED
    BY <1>13, <2>2, <2>7
<1>15. \A i, j \in DOMAIN rows : rows[j] \in named /\ rows[i] \notin named => j < i
  <2> SUFFICES ASSUME NEW i \in 1 .. c, NEW j \in 1 .. c, rows[j] \in named, rows[i] \notin named
               PROVE  j < i
    BY <1>13
  <2>1. both[j] \in named /\ both[i] \notin named /\ i \in 1 .. n + k /\ j \in 1 .. n + k
    <3> HIDE DEF c
    <3>1. \A h \in 1 .. c : h \in 1 .. n + k
      BY <1>2, <1>3, <1>11
    <3> QED
      BY <1>13, <3>1
  <2>2. i \notin 1 .. n /\ j \notin n + 1 .. n + k
    BY <1>5, <1>9, <2>1
  <2> QED
    BY <1>2, <1>3, <2>1, <2>2
<1>16. /\ (Len(found) > L <=> Cardinality(named \cup told) > L)
       /\ Len(rows) = IF Len(found) > L THEN L ELSE Cardinality(named \cup told)
  BY <1>6, <1>11, <1>12, <1>13
<1> QED
  BY <1>7, <1>14, <1>15, <1>16, MakerCounts
     DEF MakerList!SectionsAreComplete, named, told, base
(***************************************************************************)
(* For every register of places, manufacturers, entities and models.       *)
(***************************************************************************)
LEMMA MakersMatch == MakerList!TypeOK => MakersMatchTheSidebar
BY MakersCount, MakersReachTheEnds, MakersSpan, MakersFree, MakersComplete DEF MakersMatchTheSidebar

(* MakersAlwaysMatch: the count beside every place, person or generation of  *)
(* the manufacturers' sidebar is what a click on it shows, the ends of its   *)
(* years find something, and a search by name, place or description shows    *)
(* every match or says that there are more (facet_counts, bounds,            *)
(* _apply_q, tiered_search_rows).                                            *)
THEOREM MakersAlwaysMatch == SceneSpec => []MakersMatchTheSidebar
<1> DEFINE MInv == MakerList!TypeOK
           Step == [SceneNext]_<<scene, vars, gameVars, makerVars>>
<1>1. SceneInit => MInv
  BY MakerTypes DEF SceneInit
<1>2. MInv /\ Step => MInv'
  <2>1. Step => MakerList!Next \/ UNCHANGED makerVars
    BY DEF SceneNext, makerVars
  <2> QED
    BY <2>1, MakerStep, MakerTypes
<1>3. MInv => MakersMatchTheSidebar
  BY MakersMatch
<1> QED
  BY <1>1, <1>2, <1>3, PTL DEF SceneSpec
=============================================================================
