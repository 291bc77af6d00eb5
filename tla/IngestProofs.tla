---------------------------- MODULE IngestProofs ----------------------------
(* Proofs about patches.  PatchLedger: the ledger and the index make every  *)
(* patch's claims commit at most once, and no command gets past one that    *)
(* has not.  PatchPlan: what an accepted plan's entries say is what its     *)
(* source claims after it is applied.  PatchMembers: every member is a      *)
(* claim of its own.                                                        *)
EXTENDS MCPatches, FiniteSetTheorems, SequenceTheorems, TLAPS

Rows == [patch : Patches, content : Contents, status : Statuses]

\* Every directory names patches, and every set of patches has a first one.
Filing ==
    /\ \A d \in Shelves : d \in [DOMAIN d -> Contents] /\ DOMAIN d \subseteq Patches
    /\ \A S \in SUBSET Patches : S # {} => \E k \in S : \A j \in S : k <= j
    /\ Shelves # {}

Procedures == [pc : {"idle", "ledger", "plan", "run", "tx", "flipped", "rolledback",
                     "recheck", "done", "failed"},
               shelf : Shelves, todo : SUBSET Patches, run : Nat, why : {"other", "integrity"}]

Typed ==
    /\ runs \in Seq(Rows)
    /\ log \in Seq(Patches \X Contents)
    /\ procs \in [Procs -> Procedures]

\* A command at "plan", "run" or "recheck" has a current patch.
HasCurrent ==
    \A p \in Procs : procs[p].pc \in {"plan", "run", "tx", "flipped", "rolledback", "recheck"} =>
        procs[p].todo # {}

TodoOnShelf == \A p \in Procs : procs[p].todo \subseteq DOMAIN procs[p].shelf

InTx(p) == procs[p].pc \in {"tx", "flipped", "rolledback"}

\* The run of an open transaction is running and nobody else's.
OwnRun ==
    /\ \A p \in Procs : InTx(p) => procs[p].run \in DOMAIN runs /\ runs[procs[p].run].status = "running"
    /\ \A p, o \in Procs : InTx(p) /\ InTx(o) /\ procs[p].run = procs[o].run => p = o

\* A flipped, uncommitted run is the only one of its patch, and no success is.
FlipIsExclusive ==
    \A p \in Procs : procs[p].pc = "flipped" =>
        /\ Successes(runs[procs[p].run].patch) = {}
        /\ \A o \in Procs : procs[o].pc = "flipped"
              /\ runs[procs[o].run].patch = runs[procs[p].run].patch => o = p

\* A transaction applies the patch its command is at.
TxOnCurrent == \A p \in Procs : InTx(p) => runs[procs[p].run].patch = Current(p)

Batch(i) == <<runs[i].patch, runs[i].content>>

\* LedgerIsTruth, one inclusion at a time.
Backed == \A i \in DOMAIN log : \E j \in DOMAIN runs : runs[j].status = "success" /\ log[i] = Batch(j)

Landed == \A j \in DOMAIN runs : runs[j].status = "success" => \E i \in DOMAIN log : log[i] = Batch(j)

Inv == /\ Typed /\ TodoOnShelf /\ HasCurrent /\ OwnRun /\ FlipIsExclusive
       /\ AppliedOnce /\ Backed /\ Landed /\ TxOnCurrent /\ PassedIsApplied

LEMMA TruthParts == Backed /\ Landed /\ PassedIsApplied => LedgerIsTruth
BY DEF Backed, Landed, LedgerIsTruth, Batch

LEMMA RowFields ==
    ASSUME Typed, NEW i \in DOMAIN runs
    PROVE  runs[i] \in Rows
BY DEF Typed

LEMMA CurrentInTodo ==
    ASSUME Filing, Typed, NEW p \in Procs, procs[p].todo # {}
    PROVE  Current(p) \in procs[p].todo
<1>1. procs[p].todo \in SUBSET Patches
  BY DEF Typed, Procedures
<1> QED
  BY <1>1 DEF Filing, Current

LEMMA InitInv == Filing /\ Init => Inv
<1> SUFFICES ASSUME Filing, Init PROVE Inv
  OBVIOUS
<1>1. (CHOOSE d \in Shelves : TRUE) \in Shelves
  BY DEF Filing
<1>2. Idle \in Procedures
  BY <1>1 DEF Idle, Procedures
<1>3. Typed
  BY <1>2 DEF Init, Typed
<1>4. \A p \in Procs : procs[p].pc = "idle" /\ procs[p].todo = {}
  BY DEF Init, Idle
<1>5. TodoOnShelf /\ HasCurrent /\ OwnRun /\ FlipIsExclusive
  BY <1>4 DEF TodoOnShelf, HasCurrent, OwnRun, InTx, FlipIsExclusive
<1>6. AppliedOnce /\ Backed /\ Landed /\ TxOnCurrent /\ PassedIsApplied
  BY <1>4 DEF Init, AppliedOnce, Backed, Landed, TxOnCurrent, InTx, PassedIsApplied
<1> QED
  BY <1>3, <1>5, <1>6 DEF Inv

-----------------------------------------------------------------------------
\* A command that moves on without touching a table keeps the invariant,
\* unless it flips.
LEMMA Moves ==
    ASSUME Inv, NEW p \in Procs, NEW q \in Procedures, Becomes(p, q), UNCHANGED <<runs, log>>,
           q.todo \subseteq DOMAIN q.shelf,
           q.pc \in {"plan", "run", "tx", "flipped", "rolledback", "recheck"} => q.todo # {},
           q.pc \in {"tx", "rolledback"} =>
              InTx(p) /\ q.run = procs[p].run /\ q.todo = procs[p].todo,
           q.pc # "flipped",
           q.pc # "idle" => \A k \in DOMAIN q.shelf \ q.todo : Successes(k) # {}
    PROVE  Inv'
<1>1. Typed'
  BY DEF Inv, Typed, Becomes
<1>2. \A o \in Procs : procs'[o] = IF o = p THEN q ELSE procs[o]
  BY DEF Inv, Typed, Becomes
<1>3. TodoOnShelf' /\ HasCurrent'
  BY <1>2 DEF Inv, TodoOnShelf, HasCurrent
<1>4. OwnRun'
  BY <1>2 DEF Inv, OwnRun, InTx
<1>5. FlipIsExclusive'
  BY <1>2 DEF Inv, FlipIsExclusive, Successes
<1>6. AppliedOnce' /\ Backed' /\ Landed'
  BY DEF Inv, AppliedOnce, Backed, Landed, Batch
<1>7. TxOnCurrent'
  BY <1>2 DEF Inv, TxOnCurrent, InTx, Current
<1>8. PassedIsApplied'
  BY <1>2 DEF Inv, PassedIsApplied, Successes
<1> QED
  BY <1>1, <1>3, <1>4, <1>5, <1>6, <1>7, <1>8 DEF Inv

LEMMA StopKeeps ==
    ASSUME Inv, NEW p \in Procs, Stop(p), UNCHANGED <<runs, log>>, procs[p].pc # "idle"
    PROVE  Inv'
<1> DEFINE q == [procs[p] EXCEPT !.pc = "failed"]
<1>1. procs[p] \in Procedures
  BY DEF Inv, Typed
<1>2. q \in Procedures /\ q.pc = "failed" /\ q.todo = procs[p].todo /\ q.shelf = procs[p].shelf
  BY <1>1 DEF Procedures
<1>3. Becomes(p, q)
  BY DEF Stop
<1> HIDE DEF q
<1> QED
  BY <1>2, <1>3, Moves DEF Inv, TodoOnShelf, PassedIsApplied

LEMMA AdvanceKeeps ==
    ASSUME Inv, NEW p \in Procs, Advance(p), UNCHANGED <<runs, log>>, procs[p].pc # "idle",
           Successes(Current(p)) # {}
    PROVE  Inv'
<1> DEFINE q == [procs[p] EXCEPT !.pc = "ledger", !.todo = @ \ {Current(p)}]
<1>1. procs[p] \in Procedures
  BY DEF Inv, Typed
<1>2. q \in Procedures /\ q.pc = "ledger" /\ q.todo = procs[p].todo \ {Current(p)}
      /\ q.shelf = procs[p].shelf
  BY <1>1 DEF Procedures
<1>3. Becomes(p, q)
  BY DEF Advance
<1> HIDE DEF q
<1>4. \A k \in DOMAIN q.shelf \ q.todo : Successes(k) # {}
  BY <1>2 DEF Inv, PassedIsApplied
<1> QED
  BY <1>2, <1>3, <1>4, Moves DEF Inv, TodoOnShelf

\* A command that goes to a place outside a transaction, with all it had.
LEMMA GoesTo ==
    ASSUME Inv, NEW p \in Procs, NEW pc \in {"plan", "run", "done", "recheck"},
           Becomes(p, [procs[p] EXCEPT !.pc = pc]), UNCHANGED <<runs, log>>,
           pc # "done" => procs[p].todo # {}, procs[p].pc # "idle"
    PROVE  Inv'
<1> DEFINE q == [procs[p] EXCEPT !.pc = pc]
<1>1. procs[p] \in Procedures
  BY DEF Inv, Typed
<1>2. q \in Procedures /\ q.pc = pc /\ q.todo = procs[p].todo /\ q.shelf = procs[p].shelf
  BY <1>1 DEF Procedures
<1>3. Becomes(p, q)
  OBVIOUS
<1> HIDE DEF q
<1> QED
  BY <1>2, <1>3, Moves DEF Inv, TodoOnShelf, PassedIsApplied

LEMMA RollsBack ==
    ASSUME Inv, NEW p \in Procs, NEW why \in {"other", "integrity"}, procs[p].pc = "tx",
           Becomes(p, [procs[p] EXCEPT !.pc = "rolledback", !.why = why]), UNCHANGED <<runs, log>>
    PROVE  Inv'
<1> DEFINE q == [procs[p] EXCEPT !.pc = "rolledback", !.why = why]
<1>1. procs[p] \in Procedures
  BY DEF Inv, Typed
<1>2. /\ q \in Procedures /\ q.pc = "rolledback" /\ q.todo = procs[p].todo
      /\ q.shelf = procs[p].shelf /\ q.run = procs[p].run
  BY <1>1 DEF Procedures
<1>3. Becomes(p, q)
  OBVIOUS
<1>4. procs[p].todo # {} /\ InTx(p)
  BY DEF Inv, HasCurrent, InTx
<1> HIDE DEF q
<1> QED
  BY <1>2, <1>3, <1>4, Moves DEF Inv, TodoOnShelf, PassedIsApplied

LEMMA IdleKeeps ==
    ASSUME Filing, Inv, NEW p \in Procs, UNCHANGED <<runs, log>>, NEW d \in Shelves,
           \/ Becomes(p, Idle)
           \/ Becomes(p, [Idle EXCEPT !.pc = "ledger", !.shelf = d, !.todo = DOMAIN d])
    PROVE  Inv'
<1> DEFINE q == [Idle EXCEPT !.pc = "ledger", !.shelf = d, !.todo = DOMAIN d]
<1>1. Idle \in Procedures /\ Idle.todo = {} /\ Idle.pc = "idle"
  BY DEF Idle, Procedures, Filing
<1>2. q \in Procedures /\ q.todo = DOMAIN d /\ q.shelf = d /\ q.pc = "ledger"
  BY DEF Idle, Procedures, Filing
<1> HIDE DEF q
<1>3. CASE Becomes(p, Idle)
  BY <1>1, <1>3, Moves
<1>4. CASE Becomes(p, q)
  BY <1>2, <1>4, Moves
<1> QED
  BY <1>3, <1>4 DEF q

-----------------------------------------------------------------------------
\* The index lets a run flip only when nobody has flipped its patch.
LEMMA FlipStep ==
    ASSUME Inv, NEW p \in Procs, Flip(p)
    PROVE  Inv'
<1> DEFINE k == runs[procs[p].run].patch
           q == [procs[p] EXCEPT !.pc = "flipped"]
<1>1. CASE AlreadyFlipped(k)
  BY <1>1, RollsBack DEF Flip
<1>2. CASE ~AlreadyFlipped(k)
  <2>1. procs[p] \in Procedures /\ procs[p].pc = "tx"
    BY DEF Inv, Typed, Flip
  <2>2. /\ q \in Procedures /\ q.pc = "flipped" /\ q.todo = procs[p].todo
        /\ q.shelf = procs[p].shelf /\ q.run = procs[p].run
    BY <2>1 DEF Procedures
  <2>3. Becomes(p, q) /\ UNCHANGED <<runs, log>>
    BY <1>2 DEF Flip
  <2> HIDE DEF q
  <2>4. \A o \in Procs : procs'[o] = IF o = p THEN q ELSE procs[o]
    BY <2>3 DEF Inv, Typed, Becomes
  <2>5. Typed'
    BY <2>2, <2>3 DEF Inv, Typed, Becomes
  <2>6. TodoOnShelf' /\ HasCurrent'
    BY <2>1, <2>2, <2>4 DEF Inv, TodoOnShelf, HasCurrent
  <2>7. OwnRun'
    BY <2>1, <2>2, <2>3, <2>4 DEF Inv, OwnRun, InTx
  <2>8. \A o \in Procs \ {p} : procs[o].pc = "flipped" => runs[procs[o].run].patch # k
    BY DEF Flip, FlipPending
  <2>9. Successes(k) = {}
    BY <1>2 DEF AlreadyFlipped
  <2>10. FlipIsExclusive'
    BY <2>2, <2>3, <2>4, <2>8, <2>9 DEF Inv, FlipIsExclusive, Successes
  <2>11. AppliedOnce' /\ Backed' /\ Landed'
    BY <2>3 DEF Inv, AppliedOnce, Backed, Landed, Batch
  <2>12. TxOnCurrent'
    BY <2>1, <2>2, <2>3, <2>4 DEF Inv, TxOnCurrent, InTx, Current
  <2>13. PassedIsApplied'
    BY <2>1, <2>2, <2>3, <2>4 DEF Inv, PassedIsApplied, Successes
  <2> QED
    BY <2>5, <2>6, <2>7, <2>10, <2>11, <2>12, <2>13 DEF Inv
<1> QED
  BY <1>1, <1>2, SMTT(60)

\* A new run belongs to nobody else and is no success.
LEMMA CreateRunStep ==
    ASSUME Filing, Inv, NEW p \in Procs, CreateRun(p)
    PROVE  Inv'
<1> DEFINE k == Current(p)
           row == [patch |-> k, content |-> procs[p].shelf[k], status |-> "running"]
           n == Len(runs) + 1
           q == [procs[p] EXCEPT !.pc = "tx", !.run = n]
<1>1. procs[p] \in Procedures /\ procs[p].pc = "run"
  BY DEF Inv, Typed, CreateRun
<1>2. k \in procs[p].todo
  BY CurrentInTodo DEF Inv, HasCurrent, CreateRun
<1>3. row \in Rows
  BY <1>1, <1>2 DEF Inv, TodoOnShelf, Filing, Procedures, Rows, Statuses
<1>4. runs' = Append(runs, row) /\ runs \in Seq(Rows)
  BY DEF CreateRun, Inv, Typed
<1>5. Becomes(p, q) /\ UNCHANGED log
  BY DEF CreateRun
<1>6. /\ q \in Procedures /\ q.pc = "tx" /\ q.todo = procs[p].todo
      /\ q.shelf = procs[p].shelf /\ q.run = n
  <2>1. n \in Nat
    BY <1>4, LenProperties
  <2> HIDE DEF n
  <2> QED
    BY <1>1, <2>1 DEF Procedures
<1>7. row.status = "running" /\ row.patch = Current(p)
  OBVIOUS
<1> HIDE DEF q, row
<1>8. /\ runs' \in Seq(Rows) /\ DOMAIN runs' = DOMAIN runs \cup {n} /\ n \notin DOMAIN runs
      /\ runs'[n] = row /\ \A i \in DOMAIN runs : runs'[i] = runs[i]
  BY <1>3, <1>4
<1> HIDE DEF n
<1>9. \A o \in Procs : procs'[o] = IF o = p THEN q ELSE procs[o]
  BY <1>5 DEF Inv, Typed, Becomes
<1>10. Typed'
  BY <1>5, <1>6, <1>8 DEF Inv, Typed, Becomes
<1>11. TodoOnShelf' /\ HasCurrent'
  BY <1>1, <1>2, <1>6, <1>9 DEF Inv, TodoOnShelf, HasCurrent
<1>12. OwnRun'
  BY <1>6, <1>7, <1>8, <1>9 DEF Inv, OwnRun, InTx
<1>13. \A j : Successes(j)' = Successes(j)
  BY <1>7, <1>8 DEF Successes
<1>14. FlipIsExclusive'
  <2>1. \A o \in Procs : procs'[o].pc = "flipped" =>
           /\ procs[o].pc = "flipped"
           /\ runs'[procs'[o].run] = runs[procs[o].run]
    BY <1>6, <1>8, <1>9 DEF Inv, OwnRun, InTx
  <2>2. ASSUME NEW j, Successes(j) = {} PROVE Successes(j)' = {}
    BY <1>7, <1>8, <2>2 DEF Successes
  <2>3. \A o \in Procs : procs'[o].pc = "flipped" =>
           (Successes(runs[procs[o].run].patch) = {})'
    BY <2>1, <2>2 DEF Inv, FlipIsExclusive
  <2>4. \A o, a \in Procs :
           procs'[o].pc = "flipped" /\ procs'[a].pc = "flipped"
           /\ runs'[procs'[a].run].patch = runs'[procs'[o].run].patch => a = o
    BY <2>1 DEF Inv, FlipIsExclusive
  <2> QED
    BY <2>3, <2>4 DEF FlipIsExclusive
<1>15. AppliedOnce'
  BY <1>5 DEF Inv, AppliedOnce
<1>16. Backed' /\ Landed'
  BY <1>5, <1>7, <1>8 DEF Inv, Backed, Landed, Batch
<1>17. TxOnCurrent'
  <2> SUFFICES ASSUME NEW o \in Procs, InTx(o)' PROVE runs'[procs'[o].run].patch = Current(o)'
    BY DEF TxOnCurrent
  <2>1. Current(o)' = Current(o)
    BY <1>6, <1>9 DEF Current
  <2>2. CASE o = p
    BY <1>6, <1>7, <1>8, <1>9, <2>1, <2>2
  <2>3. CASE o # p
    BY <1>8, <1>9, <2>1, <2>3 DEF Inv, TxOnCurrent, OwnRun, InTx
  <2> QED
    BY <2>2, <2>3
<1>18. PassedIsApplied'
  <2> SUFFICES ASSUME NEW o \in Procs, procs'[o].pc # "idle",
                      NEW j \in DOMAIN procs'[o].shelf \ procs'[o].todo
               PROVE  Successes(j)' # {}
    BY DEF PassedIsApplied
  <2>1. Successes(j) # {}
    BY <1>1, <1>6, <1>9 DEF Inv, PassedIsApplied
  <2> QED
    BY <1>8, <2>1 DEF Successes
<1> QED
  BY <1>10, <1>11, <1>12, <1>14, <1>15, <1>16, <1>17, <1>18 DEF Inv

-----------------------------------------------------------------------------
\* A commit adds the one batch of its patch.
LEMMA CommitStep ==
    ASSUME Inv, NEW p \in Procs, Commit(p)
    PROVE  Inv'
<1> DEFINE r == procs[p].run
           row == [runs[r] EXCEPT !.status = "success"]
           q == [procs[p] EXCEPT !.pc = "ledger", !.todo = @ \ {Current(p)}]
           n == Len(log) + 1
<1>1. procs[p] \in Procedures /\ procs[p].pc = "flipped"
  BY DEF Inv, Typed, Commit
<1>2. r \in DOMAIN runs /\ runs[r] \in Rows /\ runs[r].status = "running"
  BY <1>1, RowFields DEF Inv, OwnRun, InTx
<1>3. row \in Rows /\ row.status = "success" /\ row.patch = runs[r].patch
                   /\ row.content = runs[r].content
  BY <1>2 DEF Rows, Statuses
<1>4. /\ q \in Procedures /\ q.pc = "ledger" /\ q.todo = procs[p].todo \ {Current(p)}
      /\ q.shelf = procs[p].shelf
  BY <1>1 DEF Procedures
<1>5. Becomes(p, q) /\ runs' = [runs EXCEPT ![r] = row] /\ log' = Append(log, Batch(r))
  BY <1>2 DEF Commit, Advance, Batch
<1>6. Batch(r) \in Patches \X Contents /\ Batch(r)[1] = runs[r].patch
  BY <1>2 DEF Batch, Rows
<1> HIDE DEF q, row
<1>7. /\ runs' \in Seq(Rows) /\ DOMAIN runs' = DOMAIN runs /\ runs'[r] = row
      /\ \A i \in DOMAIN runs \ {r} : runs'[i] = runs[i]
  BY <1>2, <1>3, <1>5 DEF Inv, Typed
<1>8. /\ log' \in Seq(Patches \X Contents) /\ DOMAIN log' = DOMAIN log \cup {n}
      /\ n \notin DOMAIN log /\ log'[n] = Batch(r) /\ \A i \in DOMAIN log : log'[i] = log[i]
  BY <1>5, <1>6 DEF Inv, Typed
<1> HIDE DEF n
<1>9. \A o \in Procs : procs'[o] = IF o = p THEN q ELSE procs[o]
  BY <1>5 DEF Inv, Typed, Becomes
<1>10. Typed'
  BY <1>4, <1>5, <1>7, <1>8 DEF Inv, Typed, Becomes
<1>11. TodoOnShelf' /\ HasCurrent'
  BY <1>4, <1>9 DEF Inv, TodoOnShelf, HasCurrent
<1>12. \A o \in Procs \ {p} : InTx(o) => procs[o].run # r
  BY <1>1 DEF Inv, OwnRun, InTx
<1>13. OwnRun'
  BY <1>4, <1>7, <1>9, <1>12 DEF Inv, OwnRun, InTx
<1>14. \A o \in Procs \ {p} : procs[o].pc = "flipped" =>
          procs[o].run \in DOMAIN runs /\ runs[procs[o].run].patch # runs[r].patch
  BY <1>1 DEF Inv, FlipIsExclusive, OwnRun, InTx
<1>15. \A j : j # runs[r].patch => Successes(j)' = Successes(j)
  BY <1>2, <1>3, <1>7 DEF Successes
<1>16. FlipIsExclusive'
  <2> SUFFICES ASSUME NEW o \in Procs, procs'[o].pc = "flipped"
               PROVE  /\ Successes(runs[procs[o].run].patch)' = {}
                      /\ \A x \in Procs : procs'[x].pc = "flipped"
                            /\ runs'[procs'[x].run].patch = runs'[procs'[o].run].patch => x = o
    BY DEF FlipIsExclusive
  <2>1. o # p /\ procs'[o] = procs[o] /\ procs[o].pc = "flipped"
    BY <1>4, <1>9
  <2>2. runs'[procs[o].run] = runs[procs[o].run]
    BY <1>7, <1>12, <1>14, <2>1 DEF InTx
  <2>3. Successes(runs[procs[o].run].patch) = {}
    BY <2>1 DEF Inv, FlipIsExclusive
  <2>4. Successes(runs[procs[o].run].patch)' = {}
    BY <1>14, <1>15, <2>1, <2>2, <2>3
  <2>5. ASSUME NEW x \in Procs, procs'[x].pc = "flipped",
               runs'[procs'[x].run].patch = runs'[procs'[o].run].patch
        PROVE  x = o
    <3>1. x # p /\ procs'[x] = procs[x] /\ procs[x].pc = "flipped"
      BY <1>4, <1>9, <2>5
    <3>2. runs'[procs[x].run] = runs[procs[x].run]
      BY <1>7, <1>12, <1>14, <3>1 DEF InTx
    <3> QED
      BY <2>1, <2>2, <2>5, <3>1, <3>2 DEF Inv, FlipIsExclusive
  <2> QED
    BY <2>4, <2>5
<1>17. \A i \in DOMAIN log : log[i][1] # runs[r].patch
  <2> SUFFICES ASSUME NEW i \in DOMAIN log, log[i][1] = runs[r].patch PROVE FALSE
    OBVIOUS
  <2>1. PICK j \in DOMAIN runs : runs[j].status = "success" /\ log[i] = Batch(j)
    BY DEF Inv, Backed
  <2>2. j \in Successes(runs[r].patch)
    BY <2>1 DEF Successes, Batch
  <2> QED
    BY <1>1, <2>2 DEF Inv, FlipIsExclusive
<1>18. AppliedOnce'
  BY <1>6, <1>8, <1>17 DEF Inv, AppliedOnce
<1>19. Backed'
  <2> SUFFICES ASSUME NEW i \in DOMAIN log'
               PROVE  \E j \in DOMAIN runs' : runs'[j].status = "success" /\ log'[i] = Batch(j)'
    BY DEF Backed
  <2>1. CASE i = n
    BY <1>2, <1>3, <1>7, <1>8, <2>1 DEF Batch
  <2>2. CASE i \in DOMAIN log
    <3>1. PICK j \in DOMAIN runs : runs[j].status = "success" /\ log[i] = Batch(j)
      BY <2>2 DEF Inv, Backed
    <3>2. j # r
      BY <1>2, <3>1
    <3> QED
      BY <1>7, <1>8, <2>2, <3>1, <3>2 DEF Batch
  <2> QED
    BY <1>8, <2>1, <2>2
<1>20. Landed'
  <2> SUFFICES ASSUME NEW j \in DOMAIN runs', runs'[j].status = "success"
               PROVE  \E i \in DOMAIN log' : log'[i] = Batch(j)'
    BY DEF Landed
  <2>1. CASE j = r
    BY <1>3, <1>7, <1>8, <2>1 DEF Batch
  <2>2. CASE j # r
    <3>1. PICK i \in DOMAIN log : log[i] = Batch(j)
      BY <1>7, <2>2 DEF Inv, Landed
    <3> QED
      BY <1>7, <1>8, <2>2, <3>1 DEF Batch
  <2> QED
    BY <2>1, <2>2
<1>21. TxOnCurrent'
  <2> SUFFICES ASSUME NEW o \in Procs, InTx(o)' PROVE runs'[procs'[o].run].patch = Current(o)'
    BY DEF TxOnCurrent
  <2>1. o # p /\ procs'[o] = procs[o] /\ InTx(o)
    BY <1>4, <1>9 DEF InTx
  <2>2. Current(o)' = Current(o)
    BY <2>1 DEF Current
  <2> QED
    BY <1>7, <1>12, <2>1, <2>2 DEF Inv, TxOnCurrent, OwnRun
<1>22. PassedIsApplied'
  <2> SUFFICES ASSUME NEW o \in Procs, procs'[o].pc # "idle",
                      NEW j \in DOMAIN procs'[o].shelf \ procs'[o].todo
               PROVE  Successes(j)' # {}
    BY DEF PassedIsApplied
  <2>1. runs[r].patch = Current(p)
    BY <1>1 DEF Inv, TxOnCurrent, InTx
  <2>2. CASE j = runs[r].patch
    BY <1>2, <1>3, <1>7, <2>2 DEF Successes
  <2>3. CASE j # runs[r].patch
    <3>1. Successes(j) # {}
      BY <1>1, <1>4, <1>9, <2>1, <2>3 DEF Inv, PassedIsApplied
    <3> QED
      BY <1>15, <2>3, <3>1
  <2> QED
    BY <2>2, <2>3
<1> QED
  BY <1>10, <1>11, <1>13, <1>16, <1>18, <1>19, <1>20, <1>21, <1>22 DEF Inv

\* A failed run was no success and is none.
LEMMA MarkFailedStep ==
    ASSUME Inv, NEW p \in Procs, MarkFailed(p)
    PROVE  Inv'
<1> DEFINE r == procs[p].run
           row == [runs[r] EXCEPT !.status = "failed"]
<1>1. procs[p] \in Procedures /\ procs[p].pc = "rolledback"
  BY DEF Inv, Typed, MarkFailed
<1>2. r \in DOMAIN runs /\ runs[r] \in Rows /\ runs[r].status = "running" /\ procs[p].todo # {}
  BY <1>1, RowFields DEF Inv, OwnRun, InTx, HasCurrent
<1>3. row \in Rows /\ row.status = "failed"
  BY <1>2 DEF Rows, Statuses
<1>4. PICK q \in Procedures :
         /\ Becomes(p, q) /\ q.pc \in {"recheck", "failed"}
         /\ q.todo = procs[p].todo /\ q.shelf = procs[p].shelf
  <2> DEFINE a == [procs[p] EXCEPT !.pc = "recheck"]
             b == [procs[p] EXCEPT !.pc = "failed"]
  <2>1. /\ a \in Procedures /\ a.pc = "recheck" /\ a.todo = procs[p].todo /\ a.shelf = procs[p].shelf
        /\ b \in Procedures /\ b.pc = "failed" /\ b.todo = procs[p].todo /\ b.shelf = procs[p].shelf
    BY <1>1 DEF Procedures
  <2>2. Becomes(p, a) \/ Becomes(p, b)
    BY DEF MarkFailed, Stop
  <2> HIDE DEF a, b
  <2> QED
    BY <2>1, <2>2
<1>5. runs' = [runs EXCEPT ![r] = row] /\ UNCHANGED log
  BY DEF MarkFailed
<1> HIDE DEF row
<1>6. /\ runs' \in Seq(Rows) /\ DOMAIN runs' = DOMAIN runs /\ runs'[r] = row
      /\ \A i \in DOMAIN runs \ {r} : runs'[i] = runs[i]
  BY <1>2, <1>3, <1>5 DEF Inv, Typed
<1>7. \A o \in Procs : procs'[o] = IF o = p THEN q ELSE procs[o]
  BY <1>4 DEF Inv, Typed, Becomes
<1>8. Typed'
  BY <1>4, <1>5, <1>6 DEF Inv, Typed, Becomes
<1>9. TodoOnShelf' /\ HasCurrent'
  BY <1>2, <1>4, <1>7 DEF Inv, TodoOnShelf, HasCurrent
<1>10. \A o \in Procs \ {p} : InTx(o) => procs[o].run # r
  BY <1>1 DEF Inv, OwnRun, InTx
<1>11. OwnRun'
  BY <1>4, <1>6, <1>7, <1>10 DEF Inv, OwnRun, InTx
<1>12. \A j : Successes(j)' = Successes(j)
  BY <1>2, <1>3, <1>6 DEF Successes
<1>13. \A o \in Procs : procs'[o].pc = "flipped" =>
          o # p /\ procs'[o] = procs[o] /\ procs[o].run # r /\ procs[o].run \in DOMAIN runs
  BY <1>4, <1>7, <1>10 DEF Inv, OwnRun, InTx
<1>14. FlipIsExclusive'
  BY <1>6, <1>12, <1>13 DEF Inv, FlipIsExclusive
<1>15. AppliedOnce' /\ Backed' /\ Landed'
  BY <1>2, <1>3, <1>5, <1>6 DEF Inv, AppliedOnce, Backed, Landed, Batch
<1>16. TxOnCurrent'
  <2> SUFFICES ASSUME NEW o \in Procs, InTx(o)' PROVE runs'[procs'[o].run].patch = Current(o)'
    BY DEF TxOnCurrent
  <2>1. o # p /\ procs'[o] = procs[o] /\ InTx(o)
    BY <1>4, <1>7 DEF InTx
  <2>2. Current(o)' = Current(o)
    BY <2>1 DEF Current
  <2> QED
    BY <1>6, <1>10, <2>1, <2>2 DEF Inv, TxOnCurrent, OwnRun
<1>17. PassedIsApplied'
  BY <1>1, <1>4, <1>7, <1>12 DEF Inv, PassedIsApplied
<1> QED
  BY <1>8, <1>9, <1>11, <1>14, <1>15, <1>16, <1>17 DEF Inv

-----------------------------------------------------------------------------
LEMMA StepInv == Filing /\ Inv /\ [Next]_vars => Inv'
<1> SUFFICES ASSUME Filing, Inv, [Next]_vars PROVE Inv'
  OBVIOUS
<1>1. ASSUME NEW p \in Procs, NEW d \in Shelves, Start(p, d) PROVE Inv'
  BY <1>1, IdleKeeps DEF Start
<1>2. ASSUME NEW p \in Procs, CheckLedger(p) PROVE Inv'
  <2>1. CASE Becomes(p, [procs[p] EXCEPT !.pc = "plan"])
    BY <1>2, <2>1, GoesTo DEF CheckLedger
  <2>2. CASE Successes(Current(p)) # {} /\ Advance(p)
    BY <1>2, <2>2, AdvanceKeeps DEF CheckLedger
  <2>3. CASE Stop(p)
    BY <1>2, <2>3, StopKeeps DEF CheckLedger
  <2> QED
    BY <1>2, <2>1, <2>2, <2>3 DEF CheckLedger
<1>3. ASSUME NEW p \in Procs, Done(p) PROVE Inv'
  BY <1>3, GoesTo DEF Done
<1>4. ASSUME NEW p \in Procs, Plan(p) PROVE Inv'
  <2>1. procs[p].todo # {}
    BY <1>4 DEF Inv, HasCurrent, Plan
  <2> QED
    BY <1>4, <2>1, GoesTo, StopKeeps DEF Plan
<1>5. ASSUME NEW p \in Procs, CreateRun(p) PROVE Inv'
  BY <1>5, CreateRunStep
<1>6. ASSUME NEW p \in Procs, Flip(p) PROVE Inv'
  BY <1>6, FlipStep
<1>7. ASSUME NEW p \in Procs, Commit(p) PROVE Inv'
  BY <1>7, CommitStep
<1>8. ASSUME NEW p \in Procs, MarkFailed(p) PROVE Inv'
  BY <1>8, MarkFailedStep
<1>9. ASSUME NEW p \in Procs, Recheck(p) PROVE Inv'
  BY <1>9, AdvanceKeeps, StopKeeps, SMTT(60) DEF Recheck
<1>10. ASSUME NEW p \in Procs, NEW why \in {"other", "integrity"}, Abort(p, why) PROVE Inv'
  BY <1>10, RollsBack DEF Abort
<1>11. ASSUME NEW p \in Procs, Restart(p) PROVE Inv'
  <2>1. PICK d : d \in Shelves
    BY DEF Filing
  <2> QED
    BY <1>11, <2>1, IdleKeeps DEF Restart
<1>12. ASSUME NEW p \in Procs, Kill(p) PROVE Inv'
  BY <1>12, StopKeeps DEF Kill
<1>13. CASE UNCHANGED vars
  <2>1. Typed' /\ TodoOnShelf' /\ HasCurrent' /\ OwnRun'
    BY <1>13 DEF vars, Inv, Typed, TodoOnShelf, HasCurrent, OwnRun, InTx
  <2>2. FlipIsExclusive' /\ AppliedOnce' /\ Backed' /\ Landed'
    BY <1>13 DEF vars, Inv, FlipIsExclusive, Successes, AppliedOnce, Backed, Landed, Batch
  <2>3. TxOnCurrent' /\ PassedIsApplied'
    BY <1>13 DEF vars, Inv, TxOnCurrent, InTx, Current, PassedIsApplied, Successes
  <2> QED
    BY <2>1, <2>2, <2>3 DEF Inv
<1> QED
  BY <1>1, <1>2, <1>3, <1>4, <1>5, <1>6, <1>7, <1>8, <1>9, <1>10, <1>11, <1>12, <1>13
     DEF Next, Step

LEMMA LedgerInvariance == Filing /\ Spec => []Inv
<1> SUFFICES ASSUME Filing PROVE Spec => []Inv
  OBVIOUS
<1>1. Init => Inv
  BY InitInv
<1>2. Inv /\ [Next]_vars => Inv'
  BY StepInv
<1> QED
  BY <1>1, <1>2, PTL DEF Spec

\* For any number of commands, patches and contents, however commands overlap,
\* fail and are killed, no patch's claims commit twice (the index of
\* provenance/models/ingest_run.py and the flip of claim_ingest/apply).
THEOREM PatchesApplyOnce == Filing /\ Spec => []AppliedOnce
<1>1. Inv => AppliedOnce
  BY DEF Inv
<1> QED
  BY <1>1, LedgerInvariance, PTL

\* And the success runs of the ledger are exactly the patches whose claims are
\* in the database, and cover what each command has got past.
THEOREM LedgerTellsTheTruth == Filing /\ Spec => []LedgerIsTruth
<1>1. Inv => LedgerIsTruth
  BY TruthParts DEF Inv
<1> QED
  BY <1>1, LedgerInvariance, PTL
-----------------------------------------------------------------------------
(***************************************************************************)
(* Plans.  The invariant follows an entry from the document to the claims: *)
(* a plan asserts a slot once and for one entry (the entries' intended     *)
(* slots are disjoint), so an application leaves each asserted slot with   *)
(* just what was asserted, retracted ones empty, and everyone else's       *)
(* claims as they were.  What an entry says is in the plan, or was so when *)
(* it was planned and still is, since the patch source alone writes its    *)
(* claims.  What a delete takes and who would block it stays what it was   *)
(* as long as nobody edits in between.                                     *)
(***************************************************************************)
Slot(w) == <<w.id, w.key>>

\* Each author has one active claim of a slot, and only about a record.
StoreOk(cl, rs) ==
    /\ \A c \in cl : c = Plans!Claim(c.who, c.id, c.key, c.val) /\ c.id \in rs
    /\ \A c, d \in cl : c.who = d.who /\ c.id = d.id /\ c.key = d.key => c = d

\* What a plan asserts of a slot it asserts once, and does not retract.
PlanSays(p) ==
    /\ p = [doc |-> p.doc, asserts |-> p.asserts, retracts |-> p.retracts,
            handles |-> p.handles, undisturbed |-> p.undisturbed]
    /\ \A a \in p.asserts :
          /\ a = Plans!Assertion(a.entry, a.id, a.key, a.val)
          /\ p.doc[a.entry].op # "delete" => a.id = p.doc[a.entry].id
    /\ \A a, b \in p.asserts : Slot(a) = Slot(b) => a = b
    /\ \A r \in p.retracts : r = [entry |-> r.entry, id |-> r.id, key |-> r.key]
    /\ \A a \in p.asserts : \A r \in p.retracts : Slot(a) # Slot(r)

Asserts(p, id, key, val) == \E a \in p.asserts : a.id = id /\ a.key = key /\ a.val = val
Silent(p, id, key) == \A a \in p.asserts : Slot(a) # <<id, key>>

\* What an entry says is in the plan, or was so when it was planned.
EntryIsPlanned(p, e, cl) ==
    /\ e.op = "name" => Asserts(p, e.id, Plans!Name, e.arg)
    /\ e.op = "ref" => Asserts(p, e.id, Plans!Ref, e.arg)
    /\ e.op = "add" => Asserts(p, e.id, Plans!Tag(e.arg), "yes")
    /\ e.op = "remove" =>
          \/ Asserts(p, e.id, Plans!Tag(e.arg), "no")
          \/ /\ Silent(p, e.id, Plans!Tag(e.arg))
             /\ "yes" \notin Plans!SaidIn(cl, "patch", e.id, Plans!Tag(e.arg))
    /\ e.op = "delete" => Asserts(p, e.id, Plans!Status, "deleted")
    /\ e.op = "retract" =>
          /\ Silent(p, e.id, e.arg)
          /\ \/ \E r \in p.retracts : r.id = e.id /\ r.key = e.arg
             \/ Plans!SaidIn(cl, "patch", e.id, e.arg) = {}

EntriesArePlanned(p, cl) == \A i \in DOMAIN p.doc : EntryIsPlanned(p, p.doc[i], cl)

\* While nobody else has written, the deletes are what they were planned to be.
DeletesStand(p) ==
    /\ \A a \in p.asserts : a.key = Plans!Status =>
          \/ a.val = "active" /\ a.id \in p.handles
          \/ a.val = "deleted" /\ \E i \in DOMAIN p.doc :
                p.doc[i].op = "delete" /\ a.id \in Plans!Footprint(p.doc[i].id)
    /\ \A i \in DOMAIN p.doc : p.doc[i].op = "delete" =>
          /\ ~Plans!Blocked(p.doc[i].id)
          /\ \A k \in Plans!Footprint(p.doc[i].id) : Asserts(p, k, Plans!Status, "deleted")
          /\ \A a \in p.asserts : a.key = Plans!Ref => a.val \notin Plans!Footprint(p.doc[i].id)

PlanOk ==
    plan # Nothing =>
       /\ PlanSays(plan) /\ EntriesArePlanned(plan, claims)
       /\ plan.undisturbed => DeletesStand(plan)

DocOk ==
    /\ doc \in Seq(Plans!Entries)
    /\ \A i \in DOMAIN doc : doc[i].op = "retract" => doc[i].arg \in {Plans!Name, Plans!Ref}

PlanInv == StoreOk(claims, records) /\ DocOk /\ PlanOk

LEMMA PlanKeysDiffer ==
    /\ Plans!Name # Plans!Ref /\ Plans!Name # Plans!Status /\ Plans!Ref # Plans!Status
    /\ \A x : Plans!Tag(x) \notin {Plans!Name, Plans!Ref, Plans!Status}
BY DEF Plans!Name, Plans!Ref, Plans!Status, Plans!Tag

-----------------------------------------------------------------------------
\* What one entry emits.
LEMMA EmittedFacts ==
    ASSUME NEW i \in DOMAIN doc
    PROVE  /\ \A a \in Plans!Emitted(i) :
                 /\ a = Plans!Assertion(i, a.id, a.key, a.val)
                 /\ Slot(a) \in Plans!Intended(i)
                 /\ doc[i].op # "delete" => a.id = doc[i].id
                 /\ a.key = Plans!Status =>
                       \/ a.val = "active" /\ doc[i].op = "create" /\ a.id = doc[i].id
                       \/ a.val = "deleted" /\ doc[i].op = "delete" /\ a.id \in Plans!Footprint(doc[i].id)
                 /\ a.key = Plans!Ref => doc[i].op \in {"create", "ref"} /\ a.val = doc[i].arg
           /\ \A a, b \in Plans!Emitted(i) : Slot(a) = Slot(b) => a = b
           /\ doc[i].op = "retract" => Plans!Emitted(i) = {}
<1> DEFINE e == doc[i]
           Say(id, key, val) == Plans!Assertion(i, id, key, val)
<1>1. CASE e.op = "create"
  <2>1. Plans!Emitted(i) = {Say(e.id, Plans!Status, "active")} \cup
                           {Say(e.id, Plans!Ref, x) : x \in {e.arg} \ {Plans!NoRef}}
    BY <1>1 DEF Plans!Emitted
  <2> QED
    BY <1>1, <2>1, PlanKeysDiffer DEF Plans!Assertion, Slot, Plans!Intended
<1>2. CASE e.op = "delete"
  <2>1. Plans!Emitted(i) = {Say(x, Plans!Status, "deleted") : x \in Plans!Footprint(e.id)}
    BY <1>2 DEF Plans!Emitted
  <2> QED
    BY <1>2, <2>1, PlanKeysDiffer DEF Plans!Assertion, Slot, Plans!Intended
<1>3. CASE e.op \in {"name", "ref", "add"}
  <2>1. \E key, val : /\ Plans!Emitted(i) = {Say(e.id, key, val)} /\ key # Plans!Status
                      /\ key = Plans!Ref => e.op = "ref" /\ val = e.arg
    BY <1>3, PlanKeysDiffer DEF Plans!Emitted
  <2> QED
    BY <1>3, <2>1 DEF Plans!Assertion, Slot, Plans!Intended
<1>4. CASE e.op = "remove"
  <2>1. Plans!Emitted(i) \subseteq {Say(e.id, Plans!Tag(e.arg), "no")}
    BY <1>4 DEF Plans!Emitted
  <2> QED
    BY <1>4, <2>1, PlanKeysDiffer DEF Plans!Assertion, Slot, Plans!Intended
<1>5. CASE e.op \notin {"create", "delete", "name", "ref", "add", "remove"}
  <2>1. Plans!Emitted(i) = {}
    BY <1>5 DEF Plans!Emitted
  <2> QED
    BY <2>1
<1> QED
  BY <1>1, <1>2, <1>3, <1>4, <1>5

\* An accepted document makes a plan that says what its entries say.
LEMMA BuildKeeps ==
    ASSUME PlanInv, Plans!Build
    PROVE  PlanSays(plan') /\ EntriesArePlanned(plan', claims) /\ DeletesStand(plan')
<1>1. Plans!Accepted /\ DocOk
  BY DEF Plans!Build, PlanInv
<1> DEFINE p == plan'
<1>2. /\ p.doc = doc
      /\ p.asserts = UNION {Plans!Emitted(i) : i \in DOMAIN doc}
      /\ p.retracts = UNION {Plans!Retracted(i) : i \in DOMAIN doc}
      /\ p.handles = {doc[i].id : i \in {j \in DOMAIN doc : doc[j].op = "create"}}
  BY DEF Plans!Build
<1> HIDE DEF p
<1>3. \A a \in p.asserts : \E i \in DOMAIN doc : a \in Plans!Emitted(i)
  BY <1>2
<1>4. \A i \in DOMAIN doc : \A a \in Plans!Emitted(i) : a \in p.asserts
  BY <1>2
<1>5. \A i, j \in DOMAIN doc : i # j => Plans!Intended(i) \cap Plans!Intended(j) = {}
  BY <1>1 DEF Plans!Accepted, Plans!DisjointClaims
<1>6. ASSUME NEW i \in DOMAIN doc, NEW r \in Plans!Retracted(i)
      PROVE  /\ r = [entry |-> i, id |-> doc[i].id, key |-> doc[i].arg]
             /\ doc[i].op = "retract" /\ Slot(r) \in Plans!Intended(i)
  BY DEF Plans!Retracted, Slot, Plans!Intended
<1>7. \A r \in p.retracts : \E i \in DOMAIN doc : r \in Plans!Retracted(i)
  BY <1>2
<1>8. PlanSays(p)
  <2>1. \A a \in p.asserts : /\ a = Plans!Assertion(a.entry, a.id, a.key, a.val)
                             /\ p.doc[a.entry].op # "delete" => a.id = p.doc[a.entry].id
    <3> SUFFICES ASSUME NEW a \in p.asserts
                 PROVE  /\ a = Plans!Assertion(a.entry, a.id, a.key, a.val)
                        /\ p.doc[a.entry].op # "delete" => a.id = p.doc[a.entry].id
      OBVIOUS
    <3>1. PICK i \in DOMAIN doc : a \in Plans!Emitted(i)
      BY <1>3
    <3>2. a = Plans!Assertion(i, a.id, a.key, a.val) /\ (doc[i].op # "delete" => a.id = doc[i].id)
      BY <3>1, EmittedFacts
    <3>3. a.entry = i
      BY <3>2 DEF Plans!Assertion
    <3> QED
      BY <1>2, <3>2, <3>3
  <2>2. \A a, b \in p.asserts : Slot(a) = Slot(b) => a = b
    <3> SUFFICES ASSUME NEW a \in p.asserts, NEW b \in p.asserts, Slot(a) = Slot(b) PROVE a = b
      OBVIOUS
    <3>1. PICK i \in DOMAIN doc : a \in Plans!Emitted(i)
      BY <1>3
    <3>2. PICK j \in DOMAIN doc : b \in Plans!Emitted(j)
      BY <1>3
    <3>3. Slot(a) \in Plans!Intended(i) /\ Slot(b) \in Plans!Intended(j)
      BY <3>1, <3>2, EmittedFacts
    <3>4. i = j
      BY <1>5, <3>3
    <3> QED
      BY <3>1, <3>2, <3>4, EmittedFacts
  <2>3. \A r \in p.retracts : r = [entry |-> r.entry, id |-> r.id, key |-> r.key]
    BY <1>6, <1>7
  <2>4. \A a \in p.asserts : \A r \in p.retracts : Slot(a) # Slot(r)
    <3> SUFFICES ASSUME NEW a \in p.asserts, NEW r \in p.retracts, Slot(a) = Slot(r) PROVE FALSE
      OBVIOUS
    <3>1. PICK i \in DOMAIN doc : a \in Plans!Emitted(i)
      BY <1>3
    <3>2. PICK j \in DOMAIN doc : r \in Plans!Retracted(j)
      BY <1>7
    <3>3. Slot(a) \in Plans!Intended(i) /\ Slot(r) \in Plans!Intended(j) /\ doc[j].op = "retract"
      BY <1>6, <3>1, <3>2, EmittedFacts
    <3>4. i = j
      BY <1>5, <3>3
    <3> QED
      BY <3>1, <3>3, <3>4, EmittedFacts
  <2>5. p = [doc |-> p.doc, asserts |-> p.asserts, retracts |-> p.retracts,
             handles |-> p.handles, undisturbed |-> p.undisturbed]
    BY DEF Plans!Build, p
  <2> QED
    BY <2>1, <2>2, <2>3, <2>4, <2>5 DEF PlanSays
<1>9. ASSUME NEW i \in DOMAIN doc, NEW s \in Plans!Intended(i), Plans!Emitted(i) = {}
      PROVE  \A a \in p.asserts : Slot(a) # s
  <2> SUFFICES ASSUME NEW a \in p.asserts, Slot(a) = s PROVE FALSE
    OBVIOUS
  <2>1. PICK j \in DOMAIN doc : a \in Plans!Emitted(j)
    BY <1>3
  <2>2. Slot(a) \in Plans!Intended(j)
    BY <2>1, EmittedFacts
  <2> QED
    BY <1>5, <1>9, <2>1, <2>2
<1>10. ASSUME NEW i \in DOMAIN doc PROVE EntryIsPlanned(p, doc[i], claims)
  <2> DEFINE e == doc[i]
  <2>1. ASSUME NEW id, NEW key, NEW val, Plans!Assertion(i, id, key, val) \in Plans!Emitted(i)
        PROVE  Asserts(p, id, key, val)
    <3>1. Plans!Assertion(i, id, key, val) \in p.asserts
      BY <1>4, <2>1
    <3> QED
      BY <3>1 DEF Asserts, Plans!Assertion
  <2>2. e.op = "name" => Asserts(p, e.id, Plans!Name, e.arg)
    BY <2>1 DEF Plans!Emitted
  <2>3. e.op = "ref" => Asserts(p, e.id, Plans!Ref, e.arg)
    BY <2>1 DEF Plans!Emitted
  <2>4. e.op = "add" => Asserts(p, e.id, Plans!Tag(e.arg), "yes")
    BY <2>1 DEF Plans!Emitted
  <2>5. e.op = "delete" => Asserts(p, e.id, Plans!Status, "deleted")
    BY <2>1 DEF Plans!Emitted, Plans!Footprint
  <2>6. ASSUME e.op = "remove"
        PROVE  \/ Asserts(p, e.id, Plans!Tag(e.arg), "no")
               \/ /\ Silent(p, e.id, Plans!Tag(e.arg))
                  /\ "yes" \notin Plans!SaidIn(claims, "patch", e.id, Plans!Tag(e.arg))
    <3>1. CASE ~Plans!NoOp(i)
      BY <2>1, <2>6, <3>1 DEF Plans!Emitted
    <3>2. CASE Plans!NoOp(i)
      <4>1. Plans!Emitted(i) = {} /\ <<e.id, Plans!Tag(e.arg)>> \in Plans!Intended(i)
        BY <2>6, <3>2 DEF Plans!Emitted, Plans!Intended
      <4>2. Silent(p, e.id, Plans!Tag(e.arg))
        BY <1>9, <4>1 DEF Silent
      <4> QED
        BY <2>6, <3>2, <4>2 DEF Plans!NoOp, Plans!Said
    <3> QED
      BY <3>1, <3>2
  <2>7. ASSUME e.op = "retract"
        PROVE  /\ Silent(p, e.id, e.arg)
               /\ \/ \E r \in p.retracts : r.id = e.id /\ r.key = e.arg
                  \/ Plans!SaidIn(claims, "patch", e.id, e.arg) = {}
    <3>1. Plans!Emitted(i) = {} /\ <<e.id, e.arg>> \in Plans!Intended(i)
      BY <2>7, EmittedFacts DEF Plans!Intended
    <3>2. Silent(p, e.id, e.arg)
      BY <1>9, <3>1 DEF Silent
    <3>3. CASE ~Plans!NoOp(i)
      <4>1. e.arg \in {Plans!Name, Plans!Ref}
        BY <1>1, <2>7 DEF DocOk
      <4>2. [entry |-> i, id |-> e.id, key |-> e.arg] \in Plans!Retracted(i)
        BY <2>7, <3>3, <4>1 DEF Plans!Retracted
      <4>3. [entry |-> i, id |-> e.id, key |-> e.arg] \in p.retracts
        BY <1>2, <4>2
      <4> QED
        BY <3>2, <4>3
    <3>4. CASE Plans!NoOp(i)
      BY <2>7, <3>2, <3>4 DEF Plans!NoOp, Plans!Said
    <3> QED
      BY <3>3, <3>4
  <2> HIDE DEF e
  <2>8. EntryIsPlanned(p, e, claims)
    BY <2>2, <2>3, <2>4, <2>5, <2>6, <2>7 DEF EntryIsPlanned
  <2> QED
    BY <2>8 DEF e
<1>11. EntriesArePlanned(p, claims)
  BY <1>2, <1>10 DEF EntriesArePlanned
<1>12. DeletesStand(p)
  <2>1. ASSUME NEW a \in p.asserts, a.key = Plans!Status
        PROVE  \/ a.val = "active" /\ a.id \in p.handles
               \/ a.val = "deleted" /\ \E i \in DOMAIN p.doc :
                     p.doc[i].op = "delete" /\ a.id \in Plans!Footprint(p.doc[i].id)
    <3>1. PICK i \in DOMAIN doc : a \in Plans!Emitted(i)
      BY <1>3
    <3>2. \/ a.val = "active" /\ doc[i].op = "create" /\ a.id = doc[i].id
          \/ a.val = "deleted" /\ doc[i].op = "delete" /\ a.id \in Plans!Footprint(doc[i].id)
      BY <2>1, <3>1, EmittedFacts
    <3> QED
      BY <1>2, <3>2
  <2>2. ASSUME NEW i \in DOMAIN doc, doc[i].op = "delete"
        PROVE  /\ ~Plans!Blocked(doc[i].id)
               /\ \A k \in Plans!Footprint(doc[i].id) : Asserts(p, k, Plans!Status, "deleted")
               /\ \A a \in p.asserts : a.key = Plans!Ref => a.val \notin Plans!Footprint(doc[i].id)
    <3>1. ~Plans!Blocked(doc[i].id) /\ doc[i].id \in records
      BY <1>1, <2>2 DEF Plans!Accepted, Plans!EntryAccepted, Plans!TargetFound
    <3>2. ASSUME NEW k \in Plans!Footprint(doc[i].id)
          PROVE  Asserts(p, k, Plans!Status, "deleted")
      <4>1. Plans!Assertion(i, k, Plans!Status, "deleted") \in Plans!Emitted(i)
        BY <2>2 DEF Plans!Emitted
      <4> QED
        BY <1>4, <4>1 DEF Asserts, Plans!Assertion
    <3>3. ASSUME NEW a \in p.asserts, a.key = Plans!Ref
          PROVE  a.val \notin Plans!Footprint(doc[i].id)
      <4>1. PICK j \in DOMAIN doc : a \in Plans!Emitted(j)
        BY <1>3
      <4>2. doc[j].op \in {"create", "ref"} /\ a.val = doc[j].arg
        BY <3>3, <4>1, EmittedFacts
      <4> QED
        BY <1>1, <2>2, <3>1, <4>2 DEF Plans!Accepted, Plans!NothingReassignedOntoDeleted
    <3> QED
      BY <3>1, <3>2, <3>3
  <2> QED
    BY <1>2, <2>1, <2>2 DEF DeletesStand
<1> QED
  BY <1>8, <1>11, <1>12 DEF p

-----------------------------------------------------------------------------
\* What the patch source and the others say of a slot after a patch is in.
PatchSays(cl, id, key) == Plans!SaidIn(cl, "patch", id, key)
OthersSay(cl, id, key) == Plans!SaidIn(cl, "other", id, key)

Spared(p, id, key) == \A r \in p.retracts : Slot(r) # <<id, key>>

AssertedIsSaid(p, cl) == \A a \in p.asserts : PatchSays(cl, a.id, a.key) = {a.val}
SilentGainsNothing(p, before, after) ==
    \A id, key : Silent(p, id, key) => PatchSays(after, id, key) \subseteq PatchSays(before, id, key)
UntouchedStays(p, before, after) ==
    \A id, key : Silent(p, id, key) /\ Spared(p, id, key) =>
        PatchSays(after, id, key) = PatchSays(before, id, key)
RetractedIsUnsaid(p, cl) == \A r \in p.retracts : PatchSays(cl, r.id, r.key) = {}
OthersStay(before, after) == \A id, key : OthersSay(after, id, key) = OthersSay(before, id, key)

LEMMA ApplyEffect ==
    ASSUME StoreOk(claims, records), PlanSays(plan), Plans!Apply
    PROVE  /\ StoreOk(claims', records')
           /\ AssertedIsSaid(plan, claims')
           /\ SilentGainsNothing(plan, claims, claims')
           /\ UntouchedStays(plan, claims, claims')
           /\ RetractedIsUnsaid(plan, claims')
           /\ OthersStay(claims, claims')
<1> DEFINE ch == Plans!Changes(plan)
           re == Plans!Retractions(plan)
           Touched(c) == \E w \in ch \cup re : <<c.id, c.key>> = <<w.id, w.key>>
           made == {Plans!Claim("patch", a.id, a.key, a.val) : a \in ch}
<1>1. claims' = {c \in claims : c.who = "patch" => ~Touched(c)} \cup made
  BY DEF Plans!Apply
<1>2. records' = records \cup plan.handles /\ Plans!WellFormed(plan)
  BY DEF Plans!Apply, Plans!Writable
<1>3. ch \subseteq plan.asserts /\ re \subseteq plan.retracts
  BY DEF Plans!Changes, Plans!Retractions
<1>4. ASSUME NEW a \in plan.asserts, a \notin ch
      PROVE  a.val \in PatchSays(claims, a.id, a.key)
  BY <1>4 DEF Plans!Changes, Plans!Said, PatchSays
<1>5. ASSUME NEW r \in plan.retracts, r \notin re
      PROVE  PatchSays(claims, r.id, r.key) = {}
  BY <1>5 DEF Plans!Retractions, Plans!Said, PatchSays
<1>6. \A a \in ch : a.id \in records'
  BY <1>2, <1>3 DEF Plans!WellFormed, Plans!TargetsStand
<1> HIDE DEF ch, re
<1>7. /\ \A a, b \in ch : a.id = b.id /\ a.key = b.key => a = b
      /\ \A a \in plan.asserts : \A w \in ch : a.id = w.id /\ a.key = w.key => a = w
      /\ \A a \in plan.asserts : \A w \in re : ~(a.id = w.id /\ a.key = w.key)
  BY <1>3 DEF PlanSays, Slot
<1>8. \A c \in made : \E a \in ch : c = Plans!Claim("patch", a.id, a.key, a.val)
  OBVIOUS
<1>9. \A a \in ch : Plans!Claim("patch", a.id, a.key, a.val) \in made
  OBVIOUS
<1>10. \A c \in made : \E a \in ch : c.who = "patch" /\ c.id = a.id /\ c.key = a.key /\ c.val = a.val
  BY <1>8 DEF Plans!Claim
<1>11. \A c \in made : Touched(c) /\ c.who = "patch"
  BY <1>10
<1> HIDE DEF made
<1>12. StoreOk(claims', records')
  <2>1. ASSUME NEW c \in claims'
        PROVE  c = Plans!Claim(c.who, c.id, c.key, c.val) /\ c.id \in records'
    <3>1. CASE c \in claims
      BY <1>2, <3>1 DEF StoreOk
    <3>2. CASE c \in made
      BY <1>6, <1>8, <1>10, <3>2 DEF Plans!Claim
    <3> QED
      BY <1>1, <3>1, <3>2
  <2>2. ASSUME NEW c \in claims', NEW d \in claims', c.who = d.who, c.id = d.id, c.key = d.key
        PROVE  c = d
    <3>1. CASE c \in made /\ d \in made
      <4>1. PICK a \in ch : c = Plans!Claim("patch", a.id, a.key, a.val)
        BY <1>8, <3>1
      <4>2. PICK b \in ch : d = Plans!Claim("patch", b.id, b.key, b.val)
        BY <1>8, <3>1
      <4> QED
        BY <1>7, <2>2, <4>1, <4>2 DEF Plans!Claim
    <3>2. CASE c \in claims /\ d \in claims
      BY <2>2, <3>2 DEF StoreOk
    <3>3. CASE c \in made /\ d \notin made
      <4>1. Touched(c) /\ c.who = "patch" /\ ~Touched(d)
        BY <1>1, <1>11, <2>2, <3>3
      <4> QED
        BY <2>2, <4>1
    <3>4. CASE d \in made /\ c \notin made
      <4>1. Touched(d) /\ d.who = "patch" /\ ~Touched(c)
        BY <1>1, <1>11, <2>2, <3>4
      <4> QED
        BY <2>2, <4>1
    <3> QED
      BY <1>1, <3>1, <3>2, <3>3, <3>4
  <2> QED
    BY <2>1, <2>2 DEF StoreOk
<1>13. ASSUME NEW id, NEW key, NEW w \in ch \cup re, id = w.id, key = w.key
       PROVE  \A c \in claims' : c.who = "patch" /\ c.id = id /\ c.key = key => c \in made
  BY <1>1, <1>13
<1>14. ASSUME NEW id, NEW key, \A w \in ch \cup re : ~(id = w.id /\ key = w.key)
       PROVE  PatchSays(claims', id, key) = PatchSays(claims, id, key)
  <2>1. \A c \in made : ~(c.id = id /\ c.key = key)
    BY <1>10, <1>14
  <2>2. \A c \in claims : c.id = id /\ c.key = key => ~Touched(c)
    BY <1>14
  <2>3. {d \in claims' : d.who = "patch" /\ d.id = id /\ d.key = key} =
            {d \in claims : d.who = "patch" /\ d.id = id /\ d.key = key}
    BY <1>1, <2>1, <2>2
  <2> QED
    BY <2>3 DEF PatchSays, Plans!SaidIn
<1>15. AssertedIsSaid(plan, claims')
  <2> SUFFICES ASSUME NEW a \in plan.asserts PROVE PatchSays(claims', a.id, a.key) = {a.val}
    BY DEF AssertedIsSaid
  <2>1. CASE a \in ch
    <3>1. Plans!Claim("patch", a.id, a.key, a.val) \in claims'
      BY <1>1, <1>9, <2>1
    <3>2. \A c \in claims' : c.who = "patch" /\ c.id = a.id /\ c.key = a.key => c.val = a.val
      <4>1. \A c \in made : c.id = a.id /\ c.key = a.key => c.val = a.val
        BY <1>7, <1>10, <2>1
      <4> QED
        BY <1>13, <2>1, <4>1
    <3> QED
      BY <3>1, <3>2 DEF PatchSays, Plans!SaidIn, Plans!Claim
  <2>2. CASE a \notin ch
    <3>1. \A w \in ch \cup re : ~(a.id = w.id /\ a.key = w.key)
      BY <1>7, <2>2
    <3>2. PatchSays(claims', a.id, a.key) = PatchSays(claims, a.id, a.key)
      BY <1>14, <3>1
    <3>3. a.val \in PatchSays(claims, a.id, a.key)
      BY <1>4, <2>2
    <3>4. \A u, v \in PatchSays(claims, a.id, a.key) : u = v
      BY DEF PatchSays, Plans!SaidIn, StoreOk
    <3> QED
      BY <3>2, <3>3, <3>4
  <2> QED
    BY <2>1, <2>2
<1>16. SilentGainsNothing(plan, claims, claims')
  <2> SUFFICES ASSUME NEW id, NEW key, Silent(plan, id, key)
               PROVE  PatchSays(claims', id, key) \subseteq PatchSays(claims, id, key)
    BY DEF SilentGainsNothing
  <2>1. \A c \in made : ~(c.id = id /\ c.key = key)
    BY <1>3, <1>10 DEF Silent, Slot
  <2> QED
    BY <1>1, <2>1 DEF PatchSays, Plans!SaidIn
<1>17. UntouchedStays(plan, claims, claims')
  <2> SUFFICES ASSUME NEW id, NEW key, Silent(plan, id, key), Spared(plan, id, key)
               PROVE  PatchSays(claims', id, key) = PatchSays(claims, id, key)
    BY DEF UntouchedStays
  <2>1. \A w \in ch \cup re : ~(id = w.id /\ key = w.key)
    BY <1>3 DEF Silent, Spared, Slot
  <2> QED
    BY <1>14, <2>1
<1>18. RetractedIsUnsaid(plan, claims')
  <2> SUFFICES ASSUME NEW r \in plan.retracts PROVE PatchSays(claims', r.id, r.key) = {}
    BY DEF RetractedIsUnsaid
  <2>1. Silent(plan, r.id, r.key)
    BY DEF PlanSays, Silent, Slot
  <2>2. CASE r \notin re
    BY <1>5, <1>16, <2>1, <2>2 DEF SilentGainsNothing
  <2>3. CASE r \in re
    <3>1. \A c \in made : ~(c.id = r.id /\ c.key = r.key)
      BY <1>3, <1>10, <2>1 DEF Silent, Slot
    <3>2. \A c \in claims' : ~(c.who = "patch" /\ c.id = r.id /\ c.key = r.key)
      BY <1>13, <2>3, <3>1
    <3> QED
      BY <3>2 DEF PatchSays, Plans!SaidIn
  <2> QED
    BY <2>2, <2>3
<1>19. OthersStay(claims, claims')
  <2> SUFFICES ASSUME NEW id, NEW key
               PROVE  OthersSay(claims', id, key) = OthersSay(claims, id, key)
    BY DEF OthersStay
  <2>1. {d \in claims' : d.who = "other" /\ d.id = id /\ d.key = key} =
            {d \in claims : d.who = "other" /\ d.id = id /\ d.key = key}
    BY <1>1, <1>11
  <2> QED
    BY <2>1 DEF OthersSay, Plans!SaidIn
<1> QED
  BY <1>12, <1>15, <1>16, <1>17, <1>18, <1>19

-----------------------------------------------------------------------------
\* What another editor does is nothing to what the patch source says.
LEMMA EditEffect ==
    ASSUME StoreOk(claims, records), Plans!Edit
    PROVE  /\ StoreOk(claims', records')
           /\ \A id, key : PatchSays(claims', id, key) = PatchSays(claims, id, key)
<1>0. \/ \E id \in records, x \in records \cup {Plans!NoRef} :
          /\ claims' = {c \in claims : c.who # "other" \/ c.id # id \/ c.key # Plans!Ref}
                       \cup {Plans!Claim("other", id, Plans!Ref, y) : y \in {x} \ {Plans!NoRef}}
          /\ UNCHANGED records
      \/ \E id \in Plans!New \ records :
          /\ records' = records \cup {id}
          /\ claims' = claims \cup {Plans!Claim("other", id, Plans!Status, "active")}
      \/ \E id \in records, x \in records, val \in {"yes", "no"} :
          /\ claims' = {c \in claims : c.who # "other" \/ c.id # id \/ c.key # Plans!Tag(x)}
                       \cup {Plans!Claim("other", id, Plans!Tag(x), val)}
          /\ UNCHANGED records
  BY DEF Plans!Edit
<1>1. \E i, k, new :
         /\ claims' = {c \in claims : c.who # "other" \/ ~(c.id = i /\ c.key = k)} \cup new
         /\ \A c \in new : c = Plans!Claim("other", i, k, c.val) /\ c.id \in records'
         /\ \A c, d \in new : c = d
         /\ records \subseteq records'
  <2>1. CASE \E id \in records, x \in records \cup {Plans!NoRef} :
                /\ claims' = {c \in claims : c.who # "other" \/ c.id # id \/ c.key # Plans!Ref}
                             \cup {Plans!Claim("other", id, Plans!Ref, y) : y \in {x} \ {Plans!NoRef}}
                /\ UNCHANGED records
    <3>1. PICK id \in records, x \in records \cup {Plans!NoRef} :
                /\ claims' = {c \in claims : c.who # "other" \/ c.id # id \/ c.key # Plans!Ref}
                             \cup {Plans!Claim("other", id, Plans!Ref, y) : y \in {x} \ {Plans!NoRef}}
                /\ UNCHANGED records
      BY <2>1
    <3> DEFINE new == {Plans!Claim("other", id, Plans!Ref, y) : y \in {x} \ {Plans!NoRef}}
           i == id
           k == Plans!Ref
    <3>2. claims' = {c \in claims : c.who # "other" \/ ~(c.id = i /\ c.key = k)} \cup new
      BY <3>1
    <3>3. /\ \A c \in new : c = Plans!Claim("other", i, k, c.val) /\ c.id \in records'
          /\ \A c, d \in new : c = d
      BY <3>1 DEF Plans!Claim
    <3> HIDE DEF new, i, k
    <3> QED
      BY <3>1, <3>2, <3>3
  <2>2. CASE \E id \in Plans!New \ records :
                /\ records' = records \cup {id}
                /\ claims' = claims \cup {Plans!Claim("other", id, Plans!Status, "active")}
    <3>1. PICK id \in Plans!New \ records :
                /\ records' = records \cup {id}
                /\ claims' = claims \cup {Plans!Claim("other", id, Plans!Status, "active")}
      BY <2>2
    <3> DEFINE new == {Plans!Claim("other", id, Plans!Status, "active")}
           i == id
           k == Plans!Status
    <3>2. claims' = {c \in claims : c.who # "other" \/ ~(c.id = i /\ c.key = k)} \cup new
      BY <3>1 DEF StoreOk
    <3>3. /\ \A c \in new : c = Plans!Claim("other", i, k, c.val) /\ c.id \in records'
          /\ \A c, d \in new : c = d
      BY <3>1 DEF Plans!Claim
    <3> HIDE DEF new, i, k
    <3> QED
      BY <3>1, <3>2, <3>3
  <2>3. CASE \E id \in records, x \in records, val \in {"yes", "no"} :
                /\ claims' = {c \in claims : c.who # "other" \/ c.id # id \/ c.key # Plans!Tag(x)}
                             \cup {Plans!Claim("other", id, Plans!Tag(x), val)}
                /\ UNCHANGED records
    <3>1. PICK id \in records, x \in records, val \in {"yes", "no"} :
                /\ claims' = {c \in claims : c.who # "other" \/ c.id # id \/ c.key # Plans!Tag(x)}
                             \cup {Plans!Claim("other", id, Plans!Tag(x), val)}
                /\ UNCHANGED records
      BY <2>3
    <3> DEFINE new == {Plans!Claim("other", id, Plans!Tag(x), val)}
           i == id
           k == Plans!Tag(x)
    <3>2. claims' = {c \in claims : c.who # "other" \/ ~(c.id = i /\ c.key = k)} \cup new
      BY <3>1
    <3>3. /\ \A c \in new : c = Plans!Claim("other", i, k, c.val) /\ c.id \in records'
          /\ \A c, d \in new : c = d
      BY <3>1 DEF Plans!Claim
    <3> HIDE DEF new, i, k
    <3> QED
      BY <3>1, <3>2, <3>3
  <2> QED
    BY <1>0, <2>1, <2>2, <2>3
<1>2. PICK i, k, new :
         /\ claims' = {c \in claims : c.who # "other" \/ ~(c.id = i /\ c.key = k)} \cup new
         /\ \A c \in new : c = Plans!Claim("other", i, k, c.val) /\ c.id \in records'
         /\ \A c, d \in new : c = d
         /\ records \subseteq records'
  BY <1>1
<1>3. \A c \in new : c.who = "other" /\ c.id = i /\ c.key = k
  BY <1>2 DEF Plans!Claim
<1>4. \A c \in claims' : c \in new \/ (c \in claims /\ (c.who # "other" \/ ~(c.id = i /\ c.key = k)))
  BY <1>2
<1>6. StoreOk(claims', records')
  <2>1. \A c \in claims' : c = Plans!Claim(c.who, c.id, c.key, c.val) /\ c.id \in records'
    BY <1>2, <1>3, <1>4 DEF StoreOk
  <2>2. ASSUME NEW c \in claims', NEW d \in claims', c.who = d.who, c.id = d.id, c.key = d.key
        PROVE  c = d
    <3>1. CASE c \in new /\ d \in new
      BY <1>2, <3>1
    <3>2. CASE c \notin new /\ d \notin new
      BY <1>4, <2>2, <3>2 DEF StoreOk
    <3>3. CASE c \in new /\ d \notin new
      BY <1>3, <1>4, <2>2, <3>3
    <3>4. CASE d \in new /\ c \notin new
      BY <1>3, <1>4, <2>2, <3>4
    <3> QED
      BY <3>1, <3>2, <3>3, <3>4
  <2> QED
    BY <2>1, <2>2 DEF StoreOk
<1>7. ASSUME NEW id, NEW key PROVE PatchSays(claims', id, key) = PatchSays(claims, id, key)
  <2>1. {d \in claims' : d.who = "patch" /\ d.id = id /\ d.key = key} =
            {d \in claims : d.who = "patch" /\ d.id = id /\ d.key = key}
    BY <1>2, <1>3, <1>4
  <2> QED
    BY <2>1 DEF PatchSays, Plans!SaidIn
<1> QED
  BY <1>6, <1>7

\* What a delete takes is computed from the records and the claims alone.
LEMMA SameDeletes ==
    ASSUME UNCHANGED <<world, records, claims>>
    PROVE  /\ DeletesStand(plan) /\ plan' = plan => DeletesStand(plan)'
           /\ DeletesStand(plan') => DeletesStand(plan)'
<1>1. \A x : Plans!Active(x)' = Plans!Active(x)
  BY DEF Plans!Active, Plans!Winner, Plans!Said, Plans!SaidIn
<1>2. \A x : Plans!Footprint(x)' = Plans!Footprint(x)
  BY <1>1 DEF Plans!Footprint, Plans!Kids
<1>3. \A x, y : Plans!RefersTo(x, y)' = Plans!RefersTo(x, y)
  BY DEF Plans!RefersTo, Plans!Winner, Plans!Said, Plans!SaidIn
<1>4. \A x : Plans!Blocked(x)' = Plans!Blocked(x)
  BY <1>1, <1>2, <1>3 DEF Plans!Blocked
<1> QED
  BY <1>2, <1>4 DEF DeletesStand, Asserts

LEMMA PlanStarts ==
    ASSUME Plans!Init
    PROVE  PlanInv
<1>1. StoreOk(claims, records)
  <2>1. PICK id \in Plans!Committed : \E x \in Plans!Committed \cup {Plans!NoRef} :
           claims = {Plans!Claim("other", id, Plans!Ref, y) : y \in {x} \ {Plans!NoRef, id}}
    BY DEF Plans!Init
  <2>2. PICK x : claims = {Plans!Claim("other", id, Plans!Ref, y) : y \in {x} \ {Plans!NoRef, id}}
    BY <2>1
  <2>3. records = Plans!Committed
    BY DEF Plans!Init
  <2> QED
    BY <2>2, <2>3 DEF StoreOk, Plans!Claim
<1>2. DocOk
  BY DEF Plans!Init, DocOk
<1> QED
  BY <1>1, <1>2 DEF Plans!Init, PlanInv, PlanOk

LEMMA PlanStep == PlanInv /\ [Plans!Next]_Plans!vars => PlanInv'
<1> SUFFICES ASSUME PlanInv, [Plans!Next]_Plans!vars PROVE PlanInv'
  OBVIOUS
<1>1. world' = world
  BY DEF Plans!Next, Plans!vars
<1>2. Plans!Entries' = Plans!Entries
  BY <1>1 DEF Plans!Entries, Plans!Ids, Plans!Committed, Plans!New, Plans!Names, Plans!Operations
<1>3. ASSUME UNCHANGED <<records, claims, plan>> PROVE StoreOk(claims, records)' /\ PlanOk'
  <2>1. StoreOk(claims, records)' /\ (plan' # Nothing => PlanSays(plan') /\ EntriesArePlanned(plan', claims'))
    BY <1>3 DEF PlanInv, PlanOk
  <2>2. ASSUME plan # Nothing, plan.undisturbed PROVE DeletesStand(plan)'
    <3>1. DeletesStand(plan)
      BY <2>2 DEF PlanInv, PlanOk
    <3> QED
      BY <1>1, <1>3, <3>1, SameDeletes
  <2> QED
    BY <1>3, <2>1, <2>2 DEF PlanOk
<1>4. CASE Plans!Write
  <2>1. PICK e \in Plans!Entries : doc' = Append(doc, e)
    BY <1>4 DEF Plans!Write
  <2>2. e.op = "retract" => e.arg \in {Plans!Name, Plans!Ref}
    BY <2>1 DEF Plans!Entries
  <2>3. DocOk'
    BY <1>2, <2>1, <2>2 DEF PlanInv, DocOk
  <2> QED
    BY <1>3, <1>4, <2>3 DEF Plans!Write, PlanInv
<1>5. CASE Plans!Build
  <2>1. PlanSays(plan') /\ EntriesArePlanned(plan', claims) /\ DeletesStand(plan')
    BY <1>5, BuildKeeps
  <2>2. UNCHANGED <<records, claims>> /\ doc' = <<>>
    BY <1>5 DEF Plans!Build
  <2>3. DocOk'
    BY <1>2, <2>2 DEF DocOk
  <2>4. PlanOk'
    BY <1>1, <2>1, <2>2, SameDeletes DEF PlanOk
  <2> QED
    BY <2>2, <2>3, <2>4 DEF PlanInv
<1>6. CASE Plans!Refuse
  <2>1. DocOk'
    BY <1>2, <1>6 DEF DocOk, Plans!Refuse
  <2> QED
    BY <1>3, <1>6, <2>1 DEF Plans!Refuse, PlanInv
<1>7. CASE Plans!Apply
  <2>1. StoreOk(claims', records')
    BY <1>7, ApplyEffect DEF PlanInv, PlanOk, Plans!Apply
  <2>2. DocOk'
    BY <1>2, <1>7 DEF DocOk, Plans!Apply, PlanInv
  <2>3. PlanOk'
    BY <1>7 DEF PlanOk, Plans!Apply
  <2> QED
    BY <2>1, <2>2, <2>3 DEF PlanInv
<1>8. CASE Plans!Fail
  <2>1. StoreOk(claims', records') /\ PlanOk'
    BY <1>8 DEF PlanInv, PlanOk, Plans!Fail
  <2>2. DocOk'
    BY <1>2, <1>8 DEF DocOk, Plans!Fail, PlanInv
  <2> QED
    BY <2>1, <2>2 DEF PlanInv
<1>9. CASE Plans!Edit
  <2>1. StoreOk(claims', records') /\ \A id, key : PatchSays(claims', id, key) = PatchSays(claims, id, key)
    BY <1>9, EditEffect DEF PlanInv
  <2>2. DocOk'
    BY <1>2, <1>9 DEF DocOk, Plans!Edit, PlanInv
  <2>3. ASSUME plan # Nothing
        PROVE  /\ PlanSays(plan') /\ EntriesArePlanned(plan', claims')
               /\ ~plan'.undisturbed
    <3>1. plan' = [plan EXCEPT !.undisturbed = FALSE]
      BY <1>9, <2>3 DEF Plans!Edit
    <3>2. PlanSays(plan) /\ EntriesArePlanned(plan, claims)
      BY <2>3 DEF PlanInv, PlanOk
    <3>3. plan' = [doc |-> plan.doc, asserts |-> plan.asserts, retracts |-> plan.retracts,
                   handles |-> plan.handles, undisturbed |-> FALSE]
      BY <3>1, <3>2 DEF PlanSays
    <3>4. /\ plan'.doc = plan.doc /\ plan'.asserts = plan.asserts /\ plan'.retracts = plan.retracts
          /\ ~plan'.undisturbed
      BY <3>3
    <3>5. PlanSays(plan')
      BY <3>2, <3>3, <3>4 DEF PlanSays
    <3>6. ASSUME NEW e, EntryIsPlanned(plan, e, claims) PROVE EntryIsPlanned(plan', e, claims')
      BY <2>1, <3>4, <3>6 DEF EntryIsPlanned, Asserts, Silent, PatchSays
    <3> QED
      BY <3>2, <3>4, <3>5, <3>6 DEF EntriesArePlanned
  <2>4. plan = Nothing => plan' = Nothing
    BY <1>9 DEF Plans!Edit
  <2>5. PlanOk'
    BY <2>3, <2>4 DEF PlanOk
  <2> QED
    BY <2>1, <2>2, <2>5 DEF PlanInv
<1>10. CASE UNCHANGED Plans!vars
  <2>1. DocOk'
    BY <1>2, <1>10 DEF DocOk, Plans!vars, PlanInv
  <2> QED
    BY <1>3, <1>10, <2>1 DEF Plans!vars, PlanInv
<1> QED
  BY <1>4, <1>5, <1>6, <1>7, <1>8, <1>9, <1>10 DEF Plans!Next

-----------------------------------------------------------------------------
\* Only an application that commits changes the change sets.
LEMMA OnlyApplyApplies ==
    ASSUME [Plans!Next]_Plans!vars, Plans!Applied
    PROVE  Plans!Apply
BY DEF Plans!Next, Plans!vars, Plans!Applied, Plans!Write, Plans!Build, Plans!Refuse, Plans!Fail,
       Plans!Edit

LEMMA EntriesGetTheirWay ==
    ASSUME PlanInv, Plans!Apply
    PROVE  Plans!EntriesTakeEffect
<1>1. PlanSays(plan) /\ EntriesArePlanned(plan, claims)
  BY DEF PlanInv, PlanOk, Plans!Apply
<1>2. /\ AssertedIsSaid(plan, claims')
      /\ SilentGainsNothing(plan, claims, claims')
      /\ RetractedIsUnsaid(plan, claims')
  BY <1>1, ApplyEffect DEF PlanInv
<1>3. ASSUME NEW id, NEW key, NEW val, Asserts(plan, id, key, val)
      PROVE  Plans!SaidIn(claims', "patch", id, key) = {val}
  BY <1>2, <1>3 DEF AssertedIsSaid, Asserts, PatchSays
<1>4. ASSUME NEW id, NEW key, Silent(plan, id, key)
      PROVE  Plans!SaidIn(claims', "patch", id, key) \subseteq Plans!SaidIn(claims, "patch", id, key)
  BY <1>2, <1>4 DEF SilentGainsNothing, PatchSays
<1>5. ASSUME NEW id, NEW key, \E r \in plan.retracts : r.id = id /\ r.key = key
      PROVE  Plans!SaidIn(claims', "patch", id, key) = {}
  BY <1>2, <1>5 DEF RetractedIsUnsaid, PatchSays
<1> SUFFICES ASSUME NEW i \in DOMAIN plan.doc
             PROVE  LET e == plan.doc[i] IN
                    /\ e.op = "name" => Plans!SaidIn(claims', "patch", e.id, Plans!Name) = {e.arg}
                    /\ e.op = "ref" => Plans!SaidIn(claims', "patch", e.id, Plans!Ref) = {e.arg}
                    /\ e.op = "add" => Plans!SaidIn(claims', "patch", e.id, Plans!Tag(e.arg)) = {"yes"}
                    /\ e.op = "remove" => "yes" \notin Plans!SaidIn(claims', "patch", e.id, Plans!Tag(e.arg))
                    /\ e.op = "delete" => Plans!SaidIn(claims', "patch", e.id, Plans!Status) = {"deleted"}
                    /\ e.op = "retract" => Plans!SaidIn(claims', "patch", e.id, e.arg) = {}
  BY DEF Plans!EntriesTakeEffect
<1> DEFINE e == plan.doc[i]
<1>6. EntryIsPlanned(plan, e, claims)
  BY <1>1 DEF EntriesArePlanned
<1> HIDE DEF e
<1>7. e.op = "name" => Plans!SaidIn(claims', "patch", e.id, Plans!Name) = {e.arg}
  BY <1>3, <1>6 DEF EntryIsPlanned
<1>8. e.op = "ref" => Plans!SaidIn(claims', "patch", e.id, Plans!Ref) = {e.arg}
  BY <1>3, <1>6 DEF EntryIsPlanned
<1>9. e.op = "add" => Plans!SaidIn(claims', "patch", e.id, Plans!Tag(e.arg)) = {"yes"}
  BY <1>3, <1>6 DEF EntryIsPlanned
<1>10. e.op = "remove" => "yes" \notin Plans!SaidIn(claims', "patch", e.id, Plans!Tag(e.arg))
  BY <1>3, <1>4, <1>6 DEF EntryIsPlanned
<1>11. e.op = "delete" => Plans!SaidIn(claims', "patch", e.id, Plans!Status) = {"deleted"}
  BY <1>3, <1>6 DEF EntryIsPlanned
<1>12. e.op = "retract" => Plans!SaidIn(claims', "patch", e.id, e.arg) = {}
  BY <1>4, <1>5, <1>6 DEF EntryIsPlanned
<1> QED
  BY <1>7, <1>8, <1>9, <1>10, <1>11, <1>12 DEF e

LEMMA NothingDanglesFromDeletes ==
    ASSUME PlanInv, Plans!Apply, plan.undisturbed, plan.retracts = {}
    PROVE  Plans!NoReferrerLeft
<1>1. PlanSays(plan) /\ DeletesStand(plan)
  BY DEF PlanInv, PlanOk, Plans!Apply
<1>2. /\ AssertedIsSaid(plan, claims')
      /\ UntouchedStays(plan, claims, claims')
      /\ OthersStay(claims, claims')
  BY <1>1, ApplyEffect DEF PlanInv
<1>3. ASSUME NEW a \in plan.asserts PROVE Plans!Winner(a.id, a.key)' = {a.val}
  BY <1>2 DEF AssertedIsSaid, PatchSays, Plans!Winner, Plans!Said
<1>4. ASSUME NEW id, NEW key, Silent(plan, id, key)
      PROVE  Plans!Winner(id, key)' = Plans!Winner(id, key)
  <2>1. Spared(plan, id, key)
    BY DEF Spared
  <2>2. PatchSays(claims', id, key) = PatchSays(claims, id, key)
    BY <1>2, <1>4, <2>1 DEF UntouchedStays
  <2>3. OthersSay(claims', id, key) = OthersSay(claims, id, key)
    BY <1>2 DEF OthersStay
  <2> QED
    BY <2>2, <2>3 DEF Plans!Winner, Plans!Said, PatchSays, OthersSay
<1>5. ASSUME NEW id, NEW key, ~Silent(plan, id, key)
      PROVE  \E a \in plan.asserts : a.id = id /\ a.key = key
  BY <1>5 DEF Silent, Slot
<1>6. ASSUME NEW id, NEW key, Plans!Winner(id, key) # {} PROVE id \in records
  BY <1>6 DEF PlanInv, StoreOk, Plans!Winner, Plans!Said, Plans!SaidIn
<1>7. records' = records \cup plan.handles /\ \A h \in plan.handles : h \notin records
  BY DEF Plans!Apply, Plans!Writable
<1> SUFFICES ASSUME NEW x \in records, NEW y \in records', Plans!Active(x), ~Plans!Active(x)',
                    Plans!Active(y)', Plans!RefersTo(y, x)'
             PROVE  FALSE
  BY DEF Plans!NoReferrerLeft
<1>8. /\ "deleted" \notin Plans!Winner(x, Plans!Status)
      /\ "deleted" \in Plans!Winner(x, Plans!Status)'
      /\ "deleted" \notin Plans!Winner(y, Plans!Status)'
      /\ x \in Plans!Winner(y, Plans!Ref)'
  BY <1>7 DEF Plans!Active, Plans!RefersTo
<1>9. PICK a \in plan.asserts : a.id = x /\ a.key = Plans!Status
  BY <1>4, <1>5, <1>8
<1>10. a.val = "deleted"
  BY <1>3, <1>8, <1>9
<1>11. PICK i \in DOMAIN plan.doc : plan.doc[i].op = "delete" /\ x \in Plans!Footprint(plan.doc[i].id)
  BY <1>1, <1>9, <1>10 DEF DeletesStand
<1>12. /\ ~Plans!Blocked(plan.doc[i].id)
       /\ \A k \in Plans!Footprint(plan.doc[i].id) : Asserts(plan, k, Plans!Status, "deleted")
       /\ \A b \in plan.asserts : b.key = Plans!Ref => b.val \notin Plans!Footprint(plan.doc[i].id)
  BY <1>1, <1>11 DEF DeletesStand
<1>13. Silent(plan, y, Plans!Ref)
  <2> SUFFICES ASSUME ~Silent(plan, y, Plans!Ref) PROVE FALSE
    OBVIOUS
  <2>1. PICK b \in plan.asserts : b.id = y /\ b.key = Plans!Ref
    BY <1>5
  <2>2. Plans!Winner(y, Plans!Ref)' = {b.val}
    BY <1>3, <2>1
  <2> QED
    BY <1>8, <1>11, <1>12, <2>1, <2>2
<1>14. x \in Plans!Winner(y, Plans!Ref) /\ y \in records
  BY <1>4, <1>6, <1>8, <1>13
<1>15. y \notin Plans!Footprint(plan.doc[i].id)
  <2> SUFFICES ASSUME y \in Plans!Footprint(plan.doc[i].id) PROVE FALSE
    OBVIOUS
  <2>1. PICK b \in plan.asserts : b.id = y /\ b.key = Plans!Status /\ b.val = "deleted"
    BY <1>12 DEF Asserts
  <2> QED
    BY <1>3, <1>8, <2>1
<1>16. Silent(plan, y, Plans!Status)
  <2> SUFFICES ASSUME ~Silent(plan, y, Plans!Status) PROVE FALSE
    OBVIOUS
  <2>1. PICK b \in plan.asserts : b.id = y /\ b.key = Plans!Status
    BY <1>5
  <2>2. b.val # "deleted"
    BY <1>3, <1>8, <2>1
  <2> QED
    BY <1>1, <1>7, <1>14, <2>1, <2>2 DEF DeletesStand
<1>17. Plans!Active(y)
  BY <1>4, <1>8, <1>14, <1>16 DEF Plans!Active
<1> QED
  BY <1>11, <1>12, <1>14, <1>15, <1>17 DEF Plans!Blocked, Plans!RefersTo

LEMMA NotesHaveTheirChange ==
    ASSUME PlanInv, Plans!Apply
    PROVE  Plans!NotesRide
<1>1. PlanSays(plan) /\ Plans!NotesCarried(plan)
  BY DEF PlanInv, PlanOk, Plans!Apply, Plans!Writable
<1>2. sets' = [i \in DOMAIN plan.doc |->
                 [claims |-> {a \in Plans!Changes(plan) : a.entry = i},
                  retractions |-> {r \in Plans!Retractions(plan) : r.entry = i}]]
  BY DEF Plans!Apply
<1> SUFFICES ASSUME NEW i \in DOMAIN plan.doc, plan.doc[i].note, plan.doc[i].op # "delete"
             PROVE  \/ sets'[i].retractions # {}
                    \/ \E a \in sets'[i].claims : a.id = plan.doc[i].id
  BY DEF Plans!NotesRide
<1>3. PICK c \in Plans!Changes(plan) \cup Plans!Retractions(plan) : c.entry = i
  BY <1>1 DEF Plans!NotesCarried
<1>4. /\ sets'[i].claims = {a \in Plans!Changes(plan) : a.entry = i}
      /\ sets'[i].retractions = {r \in Plans!Retractions(plan) : r.entry = i}
  BY <1>2
<1>5. CASE c \in Plans!Changes(plan)
  <2>1. c.id = plan.doc[i].id
    BY <1>1, <1>3, <1>5 DEF PlanSays, Plans!Changes
  <2> QED
    BY <1>3, <1>4, <1>5, <2>1
<1>6. CASE c \in Plans!Retractions(plan)
  BY <1>3, <1>4, <1>6
<1> QED
  BY <1>3, <1>5, <1>6

\* Whatever the records and the claims, and whoever edits between planning and
\* applying: each entry of an accepted patch says in the end what was written, a
\* delete of an undisturbed patch without retractions leaves no live referrer, and
\* a note rides a change (claim_ingest/patches, claim_ingest/apply).
THEOREM SpecPlansTakeEffect ==
    Plans!Spec => /\ Plans!EveryEntryTakesEffect
                  /\ Plans!DeletesLeaveNoReferrer
                  /\ Plans!NotesRideChanges
<1>1. Plans!Init => PlanInv
  BY PlanStarts
<1>2. PlanInv /\ [Plans!Next]_Plans!vars => PlanInv'
  BY PlanStep
<1>3. PlanInv /\ [Plans!Next]_Plans!vars => [Plans!Applied => Plans!EntriesTakeEffect]_Plans!vars
  BY OnlyApplyApplies, EntriesGetTheirWay
<1>4. PlanInv /\ [Plans!Next]_Plans!vars
        => [Plans!Applied /\ plan.undisturbed /\ plan.retracts = {} => Plans!NoReferrerLeft]_Plans!vars
  BY OnlyApplyApplies, NothingDanglesFromDeletes
<1>5. PlanInv /\ [Plans!Next]_Plans!vars => [Plans!Applied => Plans!NotesRide]_Plans!vars
  BY OnlyApplyApplies, NotesHaveTheirChange
<1> QED
  BY <1>1, <1>2, <1>3, <1>4, <1>5, PTL
     DEF Plans!Spec, Plans!EveryEntryTakesEffect, Plans!DeletesLeaveNoReferrer, Plans!NotesRideChanges

\* The same of the plans that the run checks (PlansTakeEffect).
THEOREM PlansAlwaysTakeEffect == SceneSpec => PlansTakeEffect
<1>1. SceneInit => Plans!Init
  BY DEF SceneInit
<1>2. [SceneNext]_<<scene, vars, planVars, memberVars>> => [Plans!Next]_planVars
  BY DEF SceneNext, planVars
<1>3. Plans!EveryEntryTakesEffect /\ Plans!DeletesLeaveNoReferrer /\ Plans!NotesRideChanges
        => PlansTakeEffect
  BY DEF PlansTakeEffect
<1> QED
  BY <1>1, <1>2, <1>3, SpecPlansTakeEffect, PTL DEF SceneSpec, Plans!Spec, Plans!vars, planVars

-----------------------------------------------------------------------------
(***************************************************************************)
(* Members.  Two members are one claim exactly when they say one thing,    *)
(* and then duplicates of them are found by one key, whichever entries     *)
(* they are in: what one entry waits for is no record another could have   *)
(* resolved.  For parents, what is above a node is the least closed set    *)
(* with it; a cycle through old edges would use a new one.                 *)
(***************************************************************************)
MemberEntry == [create : BOOLEAN, id : Membership!Subjects \cup Membership!New,
                adds : Seq(Membership!Members), drops : Seq(Membership!Members)]

\* What the schemas say of a member of each namespace.
SchemaTyped(m) ==
    /\ m.ns \in {"alias", "abbreviation", "feature", "parent", "credit", "edge", "market"}
    /\ m.ns \in {"alias", "abbreviation"} => m.a = Membership!NoRef
    /\ m.ns # "credit" => m.b = Membership!NoRef
    /\ m.ns \in {"feature", "parent", "credit"} => m.text = Membership!NoText
    /\ m.a.id = Nothing => m.a = Membership!NoRef
    /\ m.a.pad \in Membership!Pads \cup {FALSE}
    /\ m.text.upper \in BOOLEAN

LEMMA MembersAreTyped ==
    ASSUME family \in Families, NEW m \in Membership!Members
    PROVE  SchemaTyped(m)
<1>1. Nothing \notin Membership!Firsts
  BY PatchesAssumption DEF Membership!FamiliesAssumption, Membership!Firsts
<1>2. \A x \in Membership!Refs(Membership!Firsts) :
          x.id # Nothing /\ x.pad \in Membership!Pads
  BY <1>1 DEF Membership!Refs
<1>3. Membership!NoRef.pad = FALSE
  BY DEF Membership!NoRef
<1>11. \A t \in Membership!Texts \cup {Membership!NoText} : t.upper \in BOOLEAN
  <2>1. ASSUME NEW t \in Membership!Texts PROVE t.upper \in BOOLEAN
    BY <2>1, Zenon DEF Membership!Texts
  <2>2. Membership!NoText.upper \in BOOLEAN
    BY Zenon DEF Membership!NoText
  <2> QED
    BY <2>1, <2>2, Zenon
<1>4. CASE m \in Membership!Member("alias", {Membership!NoRef}, {Membership!NoRef}, Membership!Texts \cup {Membership!NoText}, {Membership!NoPay})
  BY <1>3, <1>11, <1>4 DEF Membership!Member, SchemaTyped
<1>5. CASE m \in Membership!Member("abbreviation", {Membership!NoRef}, {Membership!NoRef}, Membership!Texts \cup {Membership!NoText}, {Membership!NoPay})
  BY <1>3, <1>11, <1>5 DEF Membership!Member, SchemaTyped
<1>6. CASE m \in Membership!Member("feature", Membership!Refs(Membership!Firsts), {Membership!NoRef}, {Membership!NoText}, {Membership!NoPay, 0, 1, 2})
  BY <1>2, <1>11, <1>6 DEF Membership!Member, SchemaTyped
<1>7. CASE m \in Membership!Member("parent", Membership!Refs(Membership!Firsts), {Membership!NoRef}, {Membership!NoText}, {Membership!NoPay})
  BY <1>2, <1>11, <1>7 DEF Membership!Member, SchemaTyped
<1>8. CASE m \in Membership!Member("credit", Membership!Refs(Membership!Firsts), Membership!Refs(Membership!Seconds), {Membership!NoText}, {Membership!NoPay})
  BY <1>2, <1>11, <1>8 DEF Membership!Member, SchemaTyped
<1>9. CASE m \in Membership!Member("edge", Membership!Refs(Membership!Firsts) \cup {Membership!NoRef}, {Membership!NoRef},
                                   Membership!Texts \cup {Membership!NoText}, {Membership!NoPay, 1})
  BY <1>2, <1>3, <1>11, <1>9 DEF Membership!Member, SchemaTyped
<1>10. CASE m \in Membership!Member("market", Membership!Refs(Membership!Firsts) \cup {Membership!NoRef}, {Membership!NoRef},
                                   Membership!Texts \cup {Membership!NoText}, {Membership!NoPay})
  BY <1>2, <1>3, <1>10, <1>11 DEF Membership!Member, SchemaTyped
<1> QED
  BY <1>4, <1>5, <1>6, <1>7, <1>8, <1>9, <1>10 DEF Membership!Members

\* Two members are one claim exactly when they say one thing.
LEMMA IdentityIsFact ==
    ASSUME NEW m, NEW n, SchemaTyped(m), SchemaTyped(n)
    PROVE  /\ (Membership!Identity(m) = Membership!Identity(n)) <=> (Membership!Fact(m) = Membership!Fact(n))
           /\ Membership!Identity(m) = Membership!Identity(n) =>
                 m.ns = n.ns /\ m.a.id = n.a.id /\ m.b.id = n.b.id
           /\ Membership!Identity(m)[1] = m.ns
           /\ m.ns \notin {"alias", "abbreviation"} => Membership!Identity(m)[2] = m.a.id
<1> DEFINE Same == /\ m.ns = n.ns /\ m.a.id = n.a.id /\ m.b.id = n.b.id /\ m.text.word = n.text.word
                   /\ m.ns # "alias" => m.text.upper = n.text.upper
<1>1. \A x : x.ns = "alias" => Membership!Identity(x) = <<x.ns, x.text.word>>
  BY DEF Membership!Identity
<1>2. \A x : x.ns = "abbreviation" => Membership!Identity(x) = <<x.ns, x.text.word, x.text.upper>>
  BY DEF Membership!Identity
<1>3. \A x : x.ns \notin {"alias", "abbreviation"} =>
          Membership!Identity(x) = <<x.ns, x.a.id, x.b.id, x.text.word, x.text.upper>>
  BY DEF Membership!Identity
<1>4. Membership!Identity(m)[1] = m.ns /\ Membership!Identity(n)[1] = n.ns
  BY <1>1, <1>2, <1>3
<1>5. ASSUME m.ns = n.ns PROVE (Membership!Identity(m) = Membership!Identity(n)) <=> Same
  <2>1. CASE m.ns = "alias"
    <3>1. m.a.id = n.a.id /\ m.b.id = n.b.id
      BY <1>5, <2>1 DEF SchemaTyped
    <3>2. Membership!Identity(m) = <<m.ns, m.text.word>> /\ Membership!Identity(n) = <<n.ns, n.text.word>>
      BY <1>1, <1>5, <2>1
    <3>3. (<<m.ns, m.text.word>> = <<n.ns, n.text.word>>) <=> (m.ns = n.ns /\ m.text.word = n.text.word)
      OBVIOUS
    <3> QED
      BY <1>5, <2>1, <3>1, <3>2, <3>3
  <2>2. CASE m.ns = "abbreviation"
    <3>1. m.a.id = n.a.id /\ m.b.id = n.b.id
      BY <1>5, <2>2 DEF SchemaTyped
    <3>2. /\ Membership!Identity(m) = <<m.ns, m.text.word, m.text.upper>>
          /\ Membership!Identity(n) = <<n.ns, n.text.word, n.text.upper>>
      BY <1>2, <1>5, <2>2
    <3>3. (<<m.ns, m.text.word, m.text.upper>> = <<n.ns, n.text.word, n.text.upper>>) <=>
             (m.ns = n.ns /\ m.text.word = n.text.word /\ m.text.upper = n.text.upper)
      OBVIOUS
    <3> QED
      BY <1>5, <2>2, <3>1, <3>2, <3>3
  <2>3. CASE m.ns \notin {"alias", "abbreviation"}
    BY <1>3, <1>5, <2>3 DEF SchemaTyped
  <2> QED
    BY <2>1, <2>2, <2>3
<1>6. (Membership!Fact(m) = Membership!Fact(n)) <=> Same
  <2> DEFINE F == Membership!Fact(m)
             G == Membership!Fact(n)
             Up(x) == x.ns # "alias" /\ x.text.upper
  <2>1. (F = G) <=> (/\ m.ns = n.ns /\ m.a.id = n.a.id /\ m.b.id = n.b.id
                     /\ m.text.word = n.text.word /\ Up(m) = Up(n))
    <3>1. F = [ns |-> m.ns, a |-> m.a.id, b |-> m.b.id, word |-> m.text.word, upper |-> Up(m)]
      BY DEF Membership!Fact
    <3>2. G = [ns |-> n.ns, a |-> n.a.id, b |-> n.b.id, word |-> n.text.word, upper |-> Up(n)]
      BY DEF Membership!Fact
    <3> HIDE DEF F, G, Up
    <3> QED
      BY <3>1, <3>2
  <2>2. m.ns = n.ns => ((Up(m) = Up(n)) <=> (m.ns # "alias" => m.text.upper = n.text.upper))
    BY Zenon DEF SchemaTyped
  <2> HIDE DEF F, G, Up
  <2>3. QED
    BY <2>1, <2>2 DEF F, G
<1>7. (Membership!Identity(m) = Membership!Identity(n)) <=> Same
  BY <1>4, <1>5
<1> QED
  BY <1>1, <1>2, <1>3, <1>4, <1>6, <1>7

DocTyped(d) ==
    /\ DOMAIN d = 1 .. Len(d) /\ Len(d) \in Nat
    /\ \A i \in DOMAIN d : /\ \A j \in DOMAIN d[i].adds : SchemaTyped(d[i].adds[j])
                          /\ \A j \in DOMAIN d[i].drops : SchemaTyped(d[i].drops[j])

LEMMA DocsAreTyped ==
    ASSUME family \in Families, NEW d \in Seq(MemberEntry)
    PROVE  DocTyped(d)
<1>1. ASSUME NEW i \in DOMAIN d PROVE d[i] \in MemberEntry
  OBVIOUS
<1>2. ASSUME NEW ms \in Seq(Membership!Members), NEW j \in DOMAIN ms PROVE SchemaTyped(ms[j])
  BY <1>2, MembersAreTyped
<1> QED
  BY <1>1, <1>2 DEF DocTyped, MemberEntry

\* What a patch creates was no record before it.
LEMMA CreatedAreNew ==
    ASSUME NEW s, NEW d, DocTyped(d), \A i \in DOMAIN d : Membership!TargetFound(s, d, i),
           NEW i \in DOMAIN d
    PROVE  Membership!Registered(d, i) \cap s.rows = {}
<1>1. ASSUME NEW k \in 1 .. i, d[k].create PROVE d[k].id \notin s.rows
  <2>1. k \in DOMAIN d
    BY DEF DocTyped
  <2> QED
    BY <1>1, <2>1 DEF Membership!TargetFound
<1> QED
  BY <1>1 DEF Membership!Registered

\* Members that are one claim have one key to find duplicates by, whichever
\* entries they are in: what one entry waits for, no other can have resolved.
LEMMA OneClaimOneKey ==
    ASSUME NEW s, NEW d, DocTyped(d), \A i \in DOMAIN d : Membership!TargetFound(s, d, i),
           NEW i \in DOMAIN d, NEW j \in DOMAIN d, NEW m, NEW n, SchemaTyped(m), SchemaTyped(n),
           Membership!Resolves(s, d, i, m), Membership!Resolves(s, d, j, n),
           Membership!Identity(m) = Membership!Identity(n)
    PROVE  Membership!SeenKey(d, i, m) = Membership!SeenKey(d, j, n)
<1>1. m.ns = n.ns /\ m.a.id = n.a.id /\ m.b.id = n.b.id
  BY IdentityIsFact
<1>2. Membership!Slots(m) = Membership!Slots(n)
  BY <1>1 DEF Membership!Slots
<1>3. Membership!Registered(d, i) \cap s.rows = {} /\ Membership!Registered(d, j) \cap s.rows = {}
  BY CreatedAreNew
<1>4. \A x \in Membership!Slots(m) : x \in Membership!Registered(d, i) <=> x \in Membership!Registered(d, j)
  BY <1>2, <1>3 DEF Membership!Resolves
<1>5. Membership!Deferred(d, i, m) <=> Membership!Deferred(d, j, n)
  BY <1>2, <1>4 DEF Membership!Deferred
<1>6. [x \in Membership!Slots(m) |-> IF x \in Membership!Registered(d, i) THEN "handle" ELSE "pk"]
        = [x \in Membership!Slots(n) |-> IF x \in Membership!Registered(d, j) THEN "handle" ELSE "pk"]
  BY <1>2, <1>4
<1> QED
  BY <1>1, <1>5, <1>6 DEF Membership!SeenKey

-----------------------------------------------------------------------------
LEMMA EachItsOwnClaim ==
    ASSUME family \in Families, memberDoc \in Seq(MemberEntry)
    PROVE  Membership!EveryMemberItsOwnClaim
<1> DEFINE d == memberDoc
           s == Membership!Store
<1> SUFFICES ASSUME Membership!Planned(s, d) , NEW id \in Membership!Ids
             PROVE  /\ \A p, q \in Membership!AddedFacts(id) :
                          p # q => Membership!Fact(d[p[1]].adds[p[2]]) # Membership!Fact(d[q[1]].adds[q[2]])
                    /\ \A p \in Membership!AddedFacts(id) : \A i \in DOMAIN d :
                          d[i].id = id => \A j \in DOMAIN d[i].drops :
                              Membership!Fact(d[i].drops[j]) # Membership!Fact(d[p[1]].adds[p[2]])
  BY DEF Membership!EveryMemberItsOwnClaim
<1>1. DocTyped(d)
  BY DocsAreTyped
<1>2. \A p \in Membership!AddedFacts(id) : /\ p = <<p[1], p[2]>> /\ p[1] \in DOMAIN d
                                          /\ d[p[1]].id = id /\ p[2] \in DOMAIN d[p[1]].adds
  BY <1>1 DEF Membership!AddedFacts, DocTyped
<1>3. \A i \in DOMAIN d : Membership!TargetFound(s, d, i) /\ Membership!AddsOK(s, d, i)
  BY DEF Membership!Planned
<1>4. \A i \in DOMAIN d : \A j \in DOMAIN d[i].adds :
          Membership!Resolves(s, d, i, d[i].adds[j]) /\ SchemaTyped(d[i].adds[j])
  BY <1>1, <1>3 DEF Membership!AddsOK, DocTyped
<1>5. ASSUME NEW p \in Membership!AddedFacts(id), NEW q \in Membership!AddedFacts(id), p # q,
             Membership!Fact(d[p[1]].adds[p[2]]) = Membership!Fact(d[q[1]].adds[q[2]])
      PROVE  FALSE
  <2> DEFINE m == d[p[1]].adds[p[2]]
             n == d[q[1]].adds[q[2]]
  <2>1. SchemaTyped(m) /\ SchemaTyped(n)
    BY <1>2, <1>4
  <2>2. Membership!Identity(m) = Membership!Identity(n)
    BY <1>5, <2>1, IdentityIsFact
  <2>3. Membership!Resolves(s, d, p[1], m) /\ Membership!Resolves(s, d, q[1], n)
    BY <1>2, <1>4
  <2>4. Membership!SeenKey(d, p[1], m) = Membership!SeenKey(d, q[1], n)
    <3> HIDE DEF m, n, s
    <3> QED
      BY <1>1, <1>2, <1>3, <2>1, <2>2, <2>3, OneClaimOneKey
  <2>5. CASE p[1] = q[1]
    <3>1. p[2] # q[2]
      BY <1>2, <1>5, <2>5
    <3>2. Membership!Distinct(d, p[1], d[p[1]].adds)
      BY <1>2, <1>3 DEF Membership!AddsOK
    <3> QED
      BY <1>2, <2>4, <2>5, <3>1, <3>2 DEF Membership!Distinct
  <2>6. CASE p[1] # q[1]
    <3>1. {Membership!SeenKey(d, p[1], d[p[1]].adds[k]) : k \in DOMAIN d[p[1]].adds} \cap
          {Membership!SeenKey(d, q[1], d[q[1]].adds[k]) : k \in DOMAIN d[q[1]].adds} = {}
      BY <1>2, <2>6 DEF Membership!Planned, Membership!DisjointMembers
    <3> QED
      BY <1>2, <2>4, <3>1
  <2> QED
    BY <2>5, <2>6
<1>6. ASSUME NEW p \in Membership!AddedFacts(id), NEW i \in DOMAIN d, d[i].id = id,
             NEW j \in DOMAIN d[i].drops,
             Membership!Fact(d[i].drops[j]) = Membership!Fact(d[p[1]].adds[p[2]])
      PROVE  FALSE
  <2>1. SchemaTyped(d[i].drops[j]) /\ SchemaTyped(d[p[1]].adds[p[2]])
    BY <1>1, <1>2 DEF DocTyped
  <2>2. Membership!Identity(d[i].drops[j]) = Membership!Identity(d[p[1]].adds[p[2]])
    BY <1>6, <2>1, IdentityIsFact
  <2>3. Membership!Identity(d[i].drops[j]) \in Membership!DropsTo(d, id)
    BY <1>6 DEF Membership!DropsTo
  <2>4. Membership!Identity(d[p[1]].adds[p[2]]) \in Membership!AddsTo(d, id)
    BY <1>2 DEF Membership!AddsTo
  <2> QED
    BY <2>2, <2>3, <2>4 DEF Membership!Planned, Membership!DisjointMembers
<1> QED
  BY <1>5, <1>6

LEMMA DifferentPass ==
    ASSUME family \in Families, memberDoc \in Seq(MemberEntry)
    PROVE  Membership!DifferentMembersPass
<1> DEFINE d == memberDoc
<1> SUFFICES ASSUME NEW i \in DOMAIN d, NEW m, NEW n, SchemaTyped(m), SchemaTyped(n),
                    Membership!WellShaped(m), Membership!WellShaped(n),
                    Membership!SeenKey(d, i, m) = Membership!SeenKey(d, i, n)
             PROVE  Membership!Fact(m) = Membership!Fact(n)
  BY DocsAreTyped DEF Membership!DifferentMembersPass, DocTyped
<1>1. \A x : Membership!Deferred(d, i, x) => Membership!SeenKey(d, i, x)[1] = "deferred"
  BY DEF Membership!SeenKey
<1>2. \A x : ~Membership!Deferred(d, i, x) => Membership!SeenKey(d, i, x) = Membership!Identity(x)
  BY DEF Membership!SeenKey
<1>3. Membership!Identity(m)[1] # "deferred" /\ Membership!Identity(n)[1] # "deferred"
  BY IdentityIsFact DEF SchemaTyped
<1>4. Membership!Deferred(d, i, m) <=> Membership!Deferred(d, i, n)
  BY <1>1, <1>2, <1>3
<1>5. CASE ~Membership!Deferred(d, i, m)
  BY <1>2, <1>4, <1>5, IdentityIsFact
<1>6. CASE Membership!Deferred(d, i, m)
  <2>1. m.ns = n.ns /\ m.a.id = n.a.id /\ m.b.id = n.b.id
    BY <1>4, <1>6 DEF Membership!SeenKey
  <2>2. ASSUME NEW x, Membership!Deferred(d, i, x), SchemaTyped(x), Membership!WellShaped(x)
        PROVE  x.text = Membership!NoText
    <3>1. x.ns # "credit" => x.a.id # Nothing
      BY <2>2 DEF Membership!Deferred, Membership!Slots, SchemaTyped, Membership!NoRef
    <3>2. x.ns # "credit" => x.a # Membership!NoRef
      BY <3>1 DEF Membership!NoRef
    <3> QED
      BY <2>2, <3>2 DEF SchemaTyped, Membership!WellShaped
  <2>3. m.text = n.text
    BY <1>4, <1>6, <2>2
  <2> QED
    BY <2>1, <2>3 DEF Membership!Fact
<1> QED
  BY <1>5, <1>6

LEMMA ResolutionsAgree ==
    ASSUME family \in Families, memberDoc \in Seq(MemberEntry)
    PROVE  Membership!MarketsAtOneResolution
<1>1. DocTyped(memberDoc)
  BY DocsAreTyped
<1> SUFFICES ASSUME NEW i \in DOMAIN memberDoc, Membership!Planned(Membership!Store, memberDoc),
                    NEW j \in DOMAIN memberDoc[i].adds, NEW k \in DOMAIN memberDoc[i].adds,
                    memberDoc[i].adds[j].ns = "market", memberDoc[i].adds[k].ns = "market",
                    memberDoc[i].adds[j].a.id = Nothing
             PROVE  memberDoc[i].adds[k].a.id = Nothing
  BY DEF Membership!MarketsAtOneResolution
<1>2. memberDoc[i].adds[j].a = Membership!NoRef
  BY <1>1 DEF DocTyped, SchemaTyped
<1>3. memberDoc[i].adds[k].a = Membership!NoRef
  BY <1>2 DEF Membership!Planned, Membership!AddsOK, Membership!OneResolution
<1> QED
  BY <1>3 DEF Membership!NoRef

-----------------------------------------------------------------------------
Emptied(d) == [i \in DOMAIN d |-> [d[i] EXCEPT !.adds = <<>>, !.drops = <<>>]]
Afterwards(d) == [i \in DOMAIN d |-> [d[i] EXCEPT !.create = FALSE]]

LEMMA EmptiedLen ==
    ASSUME NEW d \in Seq(MemberEntry)
    PROVE  /\ Len(Emptied(d)) = Len(d) /\ Len(Afterwards(d)) = Len(d)
           /\ DOMAIN Emptied(d) = DOMAIN d /\ DOMAIN Afterwards(d) = DOMAIN d
<1>4. DOMAIN Emptied(d) = DOMAIN d /\ DOMAIN Afterwards(d) = DOMAIN d
  BY DEF Emptied, Afterwards
<1>5. Len(Emptied(d)) = Len(d) /\ Len(Afterwards(d)) = Len(d)
  <2>1. ASSUME NEW k \in DOMAIN d
        PROVE  /\ [d[k] EXCEPT !.adds = <<>>, !.drops = <<>>] \in MemberEntry
               /\ [d[k] EXCEPT !.create = FALSE] \in MemberEntry
    <3>1. d[k] \in MemberEntry /\ <<>> \in Seq(Membership!Members)
      OBVIOUS
    <3> QED
      BY <3>1 DEF MemberEntry
  <2>2. DOMAIN d = 1 .. Len(d) /\ Len(d) \in Nat
    OBVIOUS
  <2>3. Emptied(d) \in Seq(MemberEntry) /\ Afterwards(d) \in Seq(MemberEntry)
    <3>1. Emptied(d) = [k \in 1 .. Len(d) |-> [d[k] EXCEPT !.adds = <<>>, !.drops = <<>>]]
      BY <2>2 DEF Emptied
    <3>2. Afterwards(d) = [k \in 1 .. Len(d) |-> [d[k] EXCEPT !.create = FALSE]]
      BY <2>2 DEF Afterwards
    <3>3. Emptied(d) \in [1 .. Len(d) -> MemberEntry] /\ Afterwards(d) \in [1 .. Len(d) -> MemberEntry]
      <4> DEFINE E(k) == [d[k] EXCEPT !.adds = <<>>, !.drops = <<>>]
                 A(k) == [d[k] EXCEPT !.create = FALSE]
      <4>1. \A k \in 1 .. Len(d) : E(k) \in MemberEntry /\ A(k) \in MemberEntry
        BY <2>1, <2>2
      <4>2. Emptied(d) = [k \in 1 .. Len(d) |-> E(k)] /\ Afterwards(d) = [k \in 1 .. Len(d) |-> A(k)]
        BY <3>1, <3>2
      <4> HIDE DEF E, A
      <4> QED
        BY <4>1, <4>2
    <3> QED
      BY <2>2, <3>3, SeqDef
  <2> QED
    BY <1>4, <2>2, <2>3
<1> QED
  BY <1>4, <1>5

LEMMA EntryParts ==
    ASSUME NEW d \in Seq(MemberEntry), NEW i \in DOMAIN d
    PROVE  /\ DOMAIN Emptied(d) = DOMAIN d /\ DOMAIN Afterwards(d) = DOMAIN d
           /\ Len(Emptied(d)) = Len(d) /\ Len(Afterwards(d)) = Len(d)
           /\ Emptied(d)[i].create = d[i].create /\ Emptied(d)[i].id = d[i].id
           /\ Emptied(d)[i].adds = <<>> /\ Emptied(d)[i].drops = <<>>
           /\ ~Afterwards(d)[i].create /\ Afterwards(d)[i].id = d[i].id
           /\ Afterwards(d)[i].adds = d[i].adds /\ Afterwards(d)[i].drops = d[i].drops
<1>1. d[i] \in MemberEntry
  OBVIOUS
<1>2. /\ [d[i] EXCEPT !.adds = <<>>, !.drops = <<>>].create = d[i].create
      /\ [d[i] EXCEPT !.adds = <<>>, !.drops = <<>>].id = d[i].id
      /\ [d[i] EXCEPT !.adds = <<>>, !.drops = <<>>].adds = <<>>
      /\ [d[i] EXCEPT !.adds = <<>>, !.drops = <<>>].drops = <<>>
  BY <1>1 DEF MemberEntry
<1>3. /\ [d[i] EXCEPT !.create = FALSE].create = FALSE
      /\ [d[i] EXCEPT !.create = FALSE].id = d[i].id
      /\ [d[i] EXCEPT !.create = FALSE].adds = d[i].adds
      /\ [d[i] EXCEPT !.create = FALSE].drops = d[i].drops
  BY <1>1 DEF MemberEntry
<1>4. DOMAIN Emptied(d) = DOMAIN d /\ DOMAIN Afterwards(d) = DOMAIN d
  BY DEF Emptied, Afterwards
<1>5. Len(Emptied(d)) = Len(d) /\ Len(Afterwards(d)) = Len(d)
  BY EmptiedLen
<1> QED
  BY <1>2, <1>3, <1>4, <1>5 DEF Emptied, Afterwards

\* The first patch leaves the records there and no claim more.
LEMMA FirstOnlyCreates ==
    ASSUME NEW s, s = [rows |-> s.rows, claims |-> s.claims], NEW d \in Seq(MemberEntry)
    PROVE  Membership!Result(s, Emptied(d)) =
             [rows |-> s.rows \cup Membership!Registered(d, Len(d)), claims |-> s.claims]
<1> DEFINE e == Emptied(d)
<1>1. \A i \in DOMAIN d : /\ e[i].create = d[i].create /\ e[i].id = d[i].id
                          /\ e[i].adds = <<>> /\ e[i].drops = <<>>
  BY EntryParts
<1>2. DOMAIN e = DOMAIN d /\ Len(e) = Len(d)
  BY EmptiedLen
<1>3. Membership!Registered(e, Len(e)) = Membership!Registered(d, Len(d))
  <2>1. \A k \in 1 .. Len(d) : e[k].create = d[k].create /\ e[k].id = d[k].id
    BY <1>1
  <2> HIDE DEF e
  <2> QED
    BY <1>2, <2>1 DEF Membership!Registered
<1>4. Membership!Written(s, e) = {}
  <2>1. ASSUME NEW i \in DOMAIN e PROVE Membership!Assertions(e, i) = {} /\ Membership!Tombstones(s, e, i) = {}
    <3>1. DOMAIN e[i].adds = {} /\ DOMAIN e[i].drops = {}
      BY <1>1, <1>2
    <3> HIDE DEF e
    <3> QED
      BY <3>1 DEF Membership!Assertions, Membership!Tombstones
  <2> HIDE DEF e
  <2> QED
    BY <2>1 DEF Membership!Written
<1> HIDE DEF e
<1> SUFFICES Membership!Result(s, e) =
             [rows |-> s.rows \cup Membership!Registered(d, Len(d)), claims |-> s.claims]
  BY DEF e
<1>5. {c \in s.claims : \A w \in Membership!Written(s, e) : <<w.id, w.ident>> # <<c.id, c.ident>>} = s.claims
  BY <1>4
<1>6. Membership!Result(s, e) =
        [rows |-> s.rows \cup Membership!Registered(e, Len(e)), claims |-> s.claims \cup {}]
  BY <1>4, <1>5 DEF Membership!Result
<1> QED
  BY <1>3, <1>6

\* Afterwards nothing has to wait for a handle.
LEMMA NothingRegistered ==
    ASSUME NEW d \in Seq(MemberEntry), NEW i \in Nat, i <= Len(d)
    PROVE  Membership!Registered(Afterwards(d), i) = {}
<1>1. \A k \in 1 .. i : ~Afterwards(d)[k].create
  BY EntryParts
<1> QED
  BY <1>1 DEF Membership!Registered

LEMMA ApartIsTogether ==
    ASSUME family \in Families, memberDoc \in Seq(MemberEntry)
    PROVE  Membership!TogetherIsApart
<1> DEFINE d == memberDoc
           s == Membership!Store
           e == Afterwards(d)
           all == Membership!Registered(d, Len(d))
           f == [rows |-> s.rows \cup all, claims |-> s.claims]
<1> SUFFICES ASSUME Membership!Accepted(s, d)
             PROVE  Membership!Accepted(f, e) /\ Membership!Result(f, e) = Membership!Result(s, d)
  <2>1. s = [rows |-> s.rows, claims |-> s.claims]
    BY DEF Membership!Store
  <2>2. Membership!Result(s, Emptied(d)) = f
    BY <2>1, FirstOnlyCreates
  <2> HIDE DEF d, s, f
  <2> QED
    BY <2>2 DEF Membership!TogetherIsApart, Emptied, Afterwards, d, s
<1>1. DocTyped(d) /\ DOMAIN d = 1 .. Len(d) /\ Len(d) \in Nat
  BY DocsAreTyped DEF DocTyped
<1>2. /\ DOMAIN e = DOMAIN d /\ Len(e) = Len(d)
      /\ \A i \in DOMAIN d : /\ ~e[i].create /\ e[i].id = d[i].id
                             /\ e[i].adds = d[i].adds /\ e[i].drops = d[i].drops
  BY EntryParts, EmptiedLen
<1>3. \A i \in Nat : i <= Len(d) => Membership!Registered(e, i) = {}
  BY NothingRegistered
<1>4. \A i \in DOMAIN d : Membership!Registered(d, i) \subseteq all
  BY <1>1 DEF Membership!Registered
<1>5. f.rows = s.rows \cup all /\ f.claims = s.claims
  OBVIOUS
<1>6. /\ \A i \in DOMAIN d : /\ Membership!TargetFound(s, d, i)
                             /\ Membership!AddsOK(s, d, i) /\ Membership!DropsOK(s, d, i)
      /\ Membership!DisjointMembers(s, d) /\ Membership!AcyclicOver(s, d) /\ Membership!Valid(d)
  BY DEF Membership!Accepted, Membership!Planned
<1> HIDE DEF d, s, e, f, all
<1>7. ASSUME NEW i \in DOMAIN d PROVE Membership!TargetFound(f, e, i)
  <2>1. d[i].id \in s.rows \cup all
    <3>1. CASE d[i].create
      <4>1. d[i].id \in Membership!Registered(d, i)
        BY <1>1, <3>1 DEF Membership!Registered
      <4> QED
        BY <1>4, <4>1
    <3>2. CASE ~d[i].create
      BY <1>4, <1>6, <3>2 DEF Membership!TargetFound
    <3> QED
      BY <3>1, <3>2
  <2> QED
    BY <1>2, <1>5, <2>1 DEF Membership!TargetFound
<1>8. ASSUME NEW i \in DOMAIN d, NEW m, Membership!Resolves(s, d, i, m),
             m.ns = "market" => Membership!Slots(m) \subseteq Membership!Countries
      PROVE  Membership!Resolves(f, e, i, m)
  BY <1>4, <1>5, <1>8 DEF Membership!Resolves
<1>9. ASSUME NEW i \in DOMAIN d, NEW m PROVE Membership!SeenKey(e, i, m) = Membership!Identity(m)
  <2>1. ~Membership!Deferred(e, i, m)
    BY <1>1, <1>3 DEF Membership!Deferred
  <2> QED
    BY <2>1 DEF Membership!SeenKey
<1>10. ASSUME NEW i \in DOMAIN d, NEW j \in DOMAIN d,
              NEW k \in DOMAIN d[i].adds, NEW l \in DOMAIN d[j].adds,
              Membership!Identity(d[i].adds[k]) = Membership!Identity(d[j].adds[l])
       PROVE  Membership!SeenKey(d, i, d[i].adds[k]) = Membership!SeenKey(d, j, d[j].adds[l])
  <2> DEFINE m == d[i].adds[k]
             n == d[j].adds[l]
  <2>1. SchemaTyped(m) /\ SchemaTyped(n)
    BY <1>1 DEF DocTyped
  <2>2. Membership!Resolves(s, d, i, m) /\ Membership!Resolves(s, d, j, n)
    BY <1>6 DEF Membership!AddsOK
  <2>3. Membership!Identity(m) = Membership!Identity(n)
    BY <1>10
  <2> HIDE DEF m, n
  <2>4. Membership!SeenKey(d, i, m) = Membership!SeenKey(d, j, n)
    BY <1>1, <1>6, <2>1, <2>2, <2>3, OneClaimOneKey
  <2> QED
    BY <2>4 DEF m, n
<1>11. ASSUME NEW i \in DOMAIN d PROVE Membership!AddsOK(f, e, i)
  <2>1. \A j \in DOMAIN d[i].adds : Membership!Resolves(f, e, i, d[i].adds[j])
    BY <1>6, <1>8 DEF Membership!AddsOK, Membership!Valid
  <2>2. Membership!Distinct(e, i, d[i].adds)
    BY <1>6, <1>9, <1>10 DEF Membership!AddsOK, Membership!Distinct
  <2> QED
    BY <1>2, <1>6, <2>1, <2>2 DEF Membership!AddsOK
<1>12. ASSUME NEW i \in DOMAIN d PROVE Membership!DropsOK(f, e, i)
  <2>1. e[i].drops = d[i].drops
    BY <1>2
  <2>2. Membership!DropsOK(s, d, i)
    BY <1>6
  <2>3. \A m : Membership!Slots(m) \subseteq s.rows => Membership!Slots(m) \subseteq f.rows
    BY <1>5
  <2> QED
    BY <2>1, <2>2, <2>3 DEF Membership!DropsOK
<1>13. Membership!DisjointMembers(f, e)
  <2>1. \A id : Membership!AddsTo(e, id) = Membership!AddsTo(d, id) /\ Membership!DropsTo(e, id) = Membership!DropsTo(d, id)
    BY <1>2 DEF Membership!AddsTo, Membership!DropsTo
  <2>2. ASSUME NEW i \in DOMAIN d, NEW j \in DOMAIN d, i # j, d[i].id = d[j].id
        PROVE  {Membership!SeenKey(e, i, e[i].adds[k]) : k \in DOMAIN e[i].adds} \cap
               {Membership!SeenKey(e, j, e[j].adds[k]) : k \in DOMAIN e[j].adds} = {}
    <3>1. {Membership!SeenKey(d, i, d[i].adds[k]) : k \in DOMAIN d[i].adds} \cap
          {Membership!SeenKey(d, j, d[j].adds[k]) : k \in DOMAIN d[j].adds} = {}
      BY <1>6, <2>2 DEF Membership!DisjointMembers
    <3>2. \A k \in DOMAIN d[i].adds : \A l \in DOMAIN d[j].adds :
              Membership!Identity(d[i].adds[k]) # Membership!Identity(d[j].adds[l])
      BY <1>10, <3>1
    <3> QED
      BY <1>2, <1>9, <3>2
  <2>3. ASSUME NEW i \in DOMAIN d, NEW j \in DOMAIN d, i # j, d[i].id = d[j].id
        PROVE  {Membership!Identity(e[i].drops[k]) : k \in DOMAIN e[i].drops} \cap
               {Membership!Identity(e[j].drops[k]) : k \in DOMAIN e[j].drops} = {}
    <3>1. {Membership!Identity(d[i].drops[k]) : k \in DOMAIN d[i].drops} \cap
          {Membership!Identity(d[j].drops[k]) : k \in DOMAIN d[j].drops} = {}
      BY <1>6, <2>3 DEF Membership!DisjointMembers
    <3>2. e[i].drops = d[i].drops /\ e[j].drops = d[j].drops
      BY <1>2
    <3> QED
      BY <3>1, <3>2
  <2>4. \A id \in Membership!Ids : Membership!AddsTo(e, id) \cap Membership!DropsTo(e, id) = {}
    BY <1>6, <2>1 DEF Membership!DisjointMembers
  <2>5. \A i, j \in DOMAIN e : i # j /\ e[i].id = e[j].id => d[i].id = d[j].id /\ i \in DOMAIN d /\ j \in DOMAIN d
    BY <1>2
  <2> QED
    BY <2>2, <2>3, <2>4, <2>5 DEF Membership!DisjointMembers
<1>14. Membership!AcyclicOver(f, e)
  <2>1. Membership!Existing(f) = Membership!Existing(s)
    BY <1>5 DEF Membership!Existing
  <2>2. Membership!Authored(e) = Membership!Authored(d)
    <3> DEFINE From(x, i) == {<<<<x[i].id, FALSE>>, Membership!Node(x[i].adds[j].a)>> :
                                 j \in {k \in DOMAIN x[i].adds : x[i].adds[k].ns = "parent"}}
    <3>1. \A i \in DOMAIN d : From(e, i) = From(d, i)
      BY <1>2
    <3>2. Membership!Authored(e) = UNION {From(e, i) : i \in DOMAIN e}
      BY DEF Membership!Authored
    <3>3. Membership!Authored(d) = UNION {From(d, i) : i \in DOMAIN d}
      BY DEF Membership!Authored
    <3> HIDE DEF From
    <3> QED
      BY <1>2, <3>1, <3>2, <3>3
  <2> QED
    BY <1>6, <2>1, <2>2 DEF Membership!AcyclicOver
<1>15. Membership!Valid(e)
  BY <1>2, <1>6 DEF Membership!Valid
<1>16. Membership!Accepted(f, e)
  BY <1>2, <1>7, <1>11, <1>12, <1>13, <1>14, <1>15 DEF Membership!Accepted, Membership!Planned
<1>17. Membership!Written(f, e) = Membership!Written(s, d)
  <2>1. ASSUME NEW i \in DOMAIN d
        PROVE  /\ Membership!Assertions(e, i) = Membership!Assertions(d, i)
               /\ Membership!Tombstones(f, e, i) = Membership!Tombstones(s, d, i)
    BY <1>2, <1>5 DEF Membership!Assertions, Membership!Tombstones, Membership!Claimed
  <2> QED
    BY <1>2, <2>1 DEF Membership!Written
<1>18. f.rows \cup Membership!Registered(e, Len(e)) = s.rows \cup Membership!Registered(d, Len(d))
  BY <1>1, <1>2, <1>3, <1>5 DEF all
<1> QED
  BY <1>5, <1>16, <1>17, <1>18 DEF Membership!Result

-----------------------------------------------------------------------------
ClosedUnder(S, edges) == \A e \in edges : e[1] \in S => e[2] \in S

\* What is above a node is the least closed set with it.
LEMMA AboveIsLeast ==
    ASSUME NEW edges, NEW n
    PROVE  /\ n \in Membership!Above(edges, n)
           /\ ClosedUnder(Membership!Above(edges, n), edges)
           /\ \A S : n \in S /\ ClosedUnder(S, edges) => Membership!Above(edges, n) \subseteq S
<1> DEFINE within == {n} \cup {e[2] : e \in edges}
           up == Membership!Above(edges, n)
<1>1. \A m : m \in up <=> /\ m \in within
                          /\ \A S \in SUBSET within : n \in S /\ ClosedUnder(S, edges) => m \in S
  BY DEF Membership!Above, ClosedUnder
<1>2. n \in within /\ \A e \in edges : e[2] \in within
  OBVIOUS
<1> HIDE DEF within, up
<1>3. n \in up
  BY <1>1, <1>2
<1>4. ASSUME NEW e \in edges, e[1] \in up PROVE e[2] \in up
  BY <1>1, <1>2, <1>4 DEF ClosedUnder
<1>5. ASSUME NEW S, n \in S, ClosedUnder(S, edges), NEW m \in up PROVE m \in S
  <2>1. n \in S \cap within /\ ClosedUnder(S \cap within, edges)
    BY <1>2, <1>5 DEF ClosedUnder
  <2> QED
    BY <1>1, <2>1, <1>5
<1> QED
  BY <1>3, <1>4, <1>5 DEF up, ClosedUnder

Acyclic(edges) == \A e \in edges : e[1] \notin Membership!Above(edges, e[2])

\* Edges that close no cycle, over the old ones and each other, make none: a
\* way back from an old edge goes through a new one, whose end is then above
\* its own start.
LEMMA NoNewCycle ==
    ASSUME NEW old, NEW new, Acyclic(old),
           \A e \in new : e[1] \notin Membership!Above(old \cup new, e[2])
    PROVE  Acyclic(old \cup new)
<1> DEFINE all == old \cup new
<1> SUFFICES ASSUME NEW e \in old, e[1] \in Membership!Above(all, e[2]) PROVE FALSE
  BY DEF Acyclic
<1>1. PICK up : up = [x \in {f[2] : f \in all} |-> Membership!Above(all, x)]
  OBVIOUS
<1>2. \A f \in all : up[f[2]] = Membership!Above(all, f[2])
  BY <1>1
<1>3. \A f \in all : /\ f[2] \in up[f[2]] /\ ClosedUnder(up[f[2]], all)
                     /\ \A S : f[2] \in S /\ ClosedUnder(S, all) => up[f[2]] \subseteq S
  <2> SUFFICES ASSUME NEW f \in all
               PROVE  /\ f[2] \in up[f[2]] /\ ClosedUnder(up[f[2]], all)
                      /\ \A S : f[2] \in S /\ ClosedUnder(S, all) => up[f[2]] \subseteq S
    OBVIOUS
  <2>1. PICK x : x = f[2]
    OBVIOUS
  <2>2. up[x] = Membership!Above(all, x)
    BY <1>2, <2>1
  <2> HIDE DEF all
  <2>3. /\ x \in Membership!Above(all, x) /\ ClosedUnder(Membership!Above(all, x), all)
        /\ \A S : x \in S /\ ClosedUnder(S, all) => Membership!Above(all, x) \subseteq S
    BY AboveIsLeast
  <2> QED
    BY <2>1, <2>2, <2>3
<1>4. PICK low : low = Membership!Above(old, e[2])
  OBVIOUS
<1>5. e[2] \in low /\ ClosedUnder(low, old) /\ e[1] \notin low
  BY <1>4, AboveIsLeast DEF Acyclic
<1>6. low \subseteq up[e[2]]
  BY <1>3, <1>4, AboveIsLeast DEF ClosedUnder
<1> DEFINE beyond == UNION {up[f[2]] : f \in {g \in new : g[1] \in low}}
<1>7. e[2] \in low \cup beyond
  BY <1>5
<1>8. ClosedUnder(low \cup beyond, all)
  <2>1. ASSUME NEW f \in all, f[1] \in low PROVE f[2] \in low \cup beyond
    <3>1. CASE f \in old
      BY <1>5, <2>1, <3>1 DEF ClosedUnder
    <3>2. CASE f \in new
      BY <1>3, <2>1, <3>2
    <3> QED
      BY <3>1, <3>2
  <2>2. ASSUME NEW f \in all, f[1] \in beyond PROVE f[2] \in beyond
    <3>1. PICK g \in new : g[1] \in low /\ f[1] \in up[g[2]]
      BY <2>2
    <3>2. f[2] \in up[g[2]]
      BY <1>3, <3>1 DEF ClosedUnder
    <3> QED
      BY <3>1, <3>2
  <2> QED
    BY <2>1, <2>2 DEF ClosedUnder
<1>9. e[1] \in low \cup beyond
  BY <1>2, <1>3, <1>7, <1>8
<1>10. PICK g \in new : g[1] \in low /\ e[1] \in up[g[2]]
  BY <1>5, <1>9
<1>11. e[2] \in up[g[2]]
  BY <1>3, <1>10 DEF ClosedUnder
<1>12. g[1] \in up[g[2]]
  BY <1>3, <1>6, <1>10, <1>11
<1> QED
  BY <1>2, <1>10, <1>12

\* Fewer edges close no more cycles.
LEMMA FewerEdges ==
    ASSUME NEW edges, NEW less, less \subseteq edges, Acyclic(edges)
    PROVE  Acyclic(less)
<1> SUFFICES ASSUME NEW e \in less, e[1] \in Membership!Above(less, e[2]) PROVE FALSE
  BY DEF Acyclic
<1>1. PICK up : up = Membership!Above(edges, e[2])
  OBVIOUS
<1>2. e[2] \in up /\ ClosedUnder(up, less) /\ e[1] \notin up
  BY <1>1, AboveIsLeast DEF ClosedUnder, Acyclic
<1>3. PICK x : x = e[2]
  OBVIOUS
<1>4. Membership!Above(less, x) \subseteq up
  BY <1>2, <1>3, AboveIsLeast
<1> QED
  BY <1>2, <1>3, <1>4

ParentEdges(cl) == {<<c.id, c.ident[2]>> : c \in {x \in cl : x.ident[1] = "parent" /\ x.present}}
AuthoredEdges(d) ==
    UNION {{<<d[i].id, d[i].adds[j].a.id>> : j \in {k \in DOMAIN d[i].adds : d[i].adds[k].ns = "parent"}} : i \in DOMAIN d}

\* Nodes are pairs of an id and its padding; without padding, ids will do.
LEMMA PlainNodes ==
    ASSUME NEW edges, NEW nodes, NEW n,
           nodes = {<<<<e[1], FALSE>>, <<e[2], FALSE>>>> : e \in edges},
           NEW m, m \in Membership!Above(edges, n)
    PROVE  <<m, FALSE>> \in Membership!Above(nodes, <<n, FALSE>>)
<1>1. PICK up : up = Membership!Above(nodes, <<n, FALSE>>)
  OBVIOUS
<1>2. <<n, FALSE>> \in up /\ ClosedUnder(up, nodes)
  BY <1>1, AboveIsLeast
<1> DEFINE plain == {x \in {n} \cup {e[2] : e \in edges} : <<x, FALSE>> \in up}
<1>3. n \in plain
  BY <1>2
<1>4. ASSUME NEW e \in edges, e[1] \in plain PROVE e[2] \in plain
  <2>1. PICK f \in nodes : f = <<<<e[1], FALSE>>, <<e[2], FALSE>>>>
    OBVIOUS
  <2>2. f[1] = <<e[1], FALSE>> /\ f[2] = <<e[2], FALSE>>
    BY <2>1
  <2>3. f[1] \in up
    BY <1>4, <2>2
  <2> QED
    BY <1>2, <2>2, <2>3 DEF ClosedUnder
<1> HIDE DEF plain
<1>5. Membership!Above(edges, n) \subseteq plain
  BY <1>3, <1>4, AboveIsLeast DEF ClosedUnder
<1> QED
  BY <1>1, <1>5 DEF plain

MarketsOk(cl) ==
    \A c \in cl : c.ident[1] = "market" /\ c.present => c.ident[2] \in Membership!Countries \cup {Nothing}
ParentsOk(cl) == TRUE \notin Membership!Pads => Acyclic(ParentEdges(cl))

MembersInv ==
    /\ family \in Families /\ memberDoc \in Seq(MemberEntry)
    /\ MarketsOk(memberClaims) /\ ParentsOk(memberClaims)

\* What an accepted patch writes as present is what its entries add.
LEMMA WrittenIsAuthored ==
    ASSUME NEW s, NEW d, DocTyped(d), NEW w \in Membership!Written(s, d), w.present
    PROVE  \E i \in DOMAIN d : \E j \in DOMAIN d[i].adds :
              w.id = d[i].id /\ w.ident = Membership!Identity(d[i].adds[j])
<1>1. PICK i \in DOMAIN d : w \in Membership!Assertions(d, i) \cup Membership!Tombstones(s, d, i)
  BY DEF Membership!Written
<1>2. w \notin Membership!Tombstones(s, d, i)
  BY DEF Membership!Tombstones, Membership!Tombstone
<1>3. PICK j \in DOMAIN d[i].adds : w = Membership!Assertion(d[i].id, d[i].adds[j])
  BY <1>1, <1>2 DEF Membership!Assertions
<1> QED
  BY <1>3 DEF Membership!Assertion

LEMMA MarketsStay ==
    ASSUME NEW s, NEW d, DocTyped(d), MarketsOk(s.claims), Membership!Valid(d)
    PROVE  MarketsOk(Membership!Result(s, d).claims)
<1>1. ASSUME NEW w \in Membership!Written(s, d), w.present, w.ident[1] = "market"
      PROVE  w.ident[2] \in Membership!Countries \cup {Nothing}
  <2>1. PICK i \in DOMAIN d : \E j \in DOMAIN d[i].adds :
              w.id = d[i].id /\ w.ident = Membership!Identity(d[i].adds[j])
    BY <1>1, WrittenIsAuthored
  <2>2. PICK j \in DOMAIN d[i].adds : w.ident = Membership!Identity(d[i].adds[j])
    BY <2>1
  <2>3. PICK m : m = d[i].adds[j]
    OBVIOUS
  <2>4. SchemaTyped(m) /\ (m.ns = "market" => Membership!Slots(m) \subseteq Membership!Countries)
    BY <2>3 DEF DocTyped, Membership!Valid
  <2>5. m.ns = "market" /\ w.ident[2] = m.a.id
    BY <1>1, <2>2, <2>3, <2>4, IdentityIsFact
  <2> QED
    BY <2>4, <2>5 DEF Membership!Slots
<1>2. \A c \in Membership!Result(s, d).claims : c \in s.claims \/ c \in Membership!Written(s, d)
  BY DEF Membership!Result
<1> QED
  BY <1>1, <1>2 DEF MarketsOk

LEMMA ParentsStay ==
    ASSUME family \in Families, NEW s, NEW d, DocTyped(d), ParentsOk(s.claims), Membership!AcyclicOver(s, d)
    PROVE  ParentsOk(Membership!Result(s, d).claims)
<1> SUFFICES ASSUME TRUE \notin Membership!Pads
             PROVE  Acyclic(ParentEdges(Membership!Result(s, d).claims))
  BY DEF ParentsOk
<1> DEFINE old == ParentEdges(s.claims)
           new == AuthoredEdges(d)
           pair(e) == <<<<e[1], FALSE>>, <<e[2], FALSE>>>>
<1>1. Membership!Existing(s) = {pair(e) : e \in old}
  <2> DEFINE parents == {x \in s.claims : x.present /\ x.ident[1] = "parent"}
             edge(c) == <<c.id, c.ident[2]>>
  <2>1. \A c : pair(edge(c)) = <<<<c.id, FALSE>>, <<c.ident[2], FALSE>>>>
    OBVIOUS
  <2>2. Membership!Existing(s) = {<<<<c.id, FALSE>>, <<c.ident[2], FALSE>>>> : c \in parents}
    BY DEF Membership!Existing
  <2>3. {x \in s.claims : x.ident[1] = "parent" /\ x.present} = parents
    OBVIOUS
  <2>4. old = {edge(c) : c \in parents}
    BY <2>3 DEF ParentEdges
  <2> HIDE DEF parents, edge, pair, old
  <2> QED
    BY <2>1, <2>2, <2>4
<1>2. Membership!Authored(d) = {pair(e) : e \in new}
  <2> DEFINE Ps(i) == {k \in DOMAIN d[i].adds : d[i].adds[k].ns = "parent"}
             Plain(i) == {<<d[i].id, d[i].adds[j].a.id>> : j \in Ps(i)}
             Nodes(i) == {<<<<d[i].id, FALSE>>, Membership!Node(d[i].adds[j].a)>> : j \in Ps(i)}
  <2>1. ASSUME NEW i \in DOMAIN d, NEW j \in Ps(i)
        PROVE  Membership!Node(d[i].adds[j].a) = <<d[i].adds[j].a.id, FALSE>>
    <3>1. d[i].adds[j].a.pad \in Membership!Pads \cup {FALSE}
      BY DEF DocTyped, SchemaTyped
    <3>2. Membership!Pads \subseteq BOOLEAN
      BY PatchesAssumption DEF Membership!FamiliesAssumption, Membership!Pads
    <3>3. d[i].adds[j].a.pad = FALSE
      BY <3>1, <3>2
    <3> QED
      BY <3>3 DEF Membership!Node
  <2>2. ASSUME NEW i \in DOMAIN d PROVE Nodes(i) = {pair(e) : e \in Plain(i)}
    <3> DEFINE a(j) == d[i].adds[j].a.id
    <3>1. \A j \in Ps(i) : <<<<d[i].id, FALSE>>, Membership!Node(d[i].adds[j].a)>> = pair(<<d[i].id, a(j)>>)
      BY <2>1
    <3>2. Plain(i) = {<<d[i].id, a(j)>> : j \in Ps(i)}
      OBVIOUS
    <3>3. Nodes(i) = {<<<<d[i].id, FALSE>>, Membership!Node(d[i].adds[j].a)>> : j \in Ps(i)}
      OBVIOUS
    <3> HIDE DEF Ps, Plain, Nodes, a, pair
    <3>4. Nodes(i) = {pair(<<d[i].id, a(j)>>) : j \in Ps(i)}
      BY <3>1, <3>3
    <3> QED
      BY <3>2, <3>4
  <2>3. Membership!Authored(d) = UNION {Nodes(i) : i \in DOMAIN d}
    BY DEF Membership!Authored
  <2>4. new = UNION {Plain(i) : i \in DOMAIN d}
    BY DEF AuthoredEdges
  <2> HIDE DEF Nodes, Plain, new, pair
  <2> QED
    BY <2>2, <2>3, <2>4
<1>3. Membership!Existing(s) \cup Membership!Authored(d) = {pair(e) : e \in old \cup new}
  BY <1>1, <1>2
<1>4. ASSUME NEW e \in new, e[1] \in Membership!Above(old \cup new, e[2]) PROVE FALSE
  <2>1. PICK nodes : nodes = {pair(f) : f \in old \cup new}
    OBVIOUS
  <2>2. PICK x, y : x = e[1] /\ y = e[2]
    OBVIOUS
  <2> HIDE DEF old, new
  <2>3. <<x, FALSE>> \in Membership!Above(nodes, <<y, FALSE>>)
    BY <1>4, <2>1, <2>2, PlainNodes
  <2>4. <<<<x, FALSE>>, <<y, FALSE>>>> \in Membership!Authored(d)
    BY <1>2, <2>2
  <2>5. PICK f \in Membership!Authored(d) : f = <<<<x, FALSE>>, <<y, FALSE>>>>
    BY <2>4
  <2>6. f[1] = <<x, FALSE>> /\ f[2] = <<y, FALSE>>
    BY <2>5
  <2>7. f[1] \notin Membership!Above(Membership!Existing(s) \cup Membership!Authored(d), f[2])
    BY DEF Membership!AcyclicOver
  <2> QED
    BY <1>3, <2>1, <2>3, <2>6, <2>7
<1>5. Acyclic(old \cup new)
  <2>1. Acyclic(old)
    BY DEF ParentsOk
  <2> HIDE DEF old, new
  <2> QED
    BY <1>4, <2>1, NoNewCycle
<1>6. ParentEdges(Membership!Result(s, d).claims) \subseteq old \cup new
  <2> SUFFICES ASSUME NEW c \in Membership!Result(s, d).claims, c.ident[1] = "parent", c.present
               PROVE  <<c.id, c.ident[2]>> \in old \cup new
    BY DEF ParentEdges
  <2>1. CASE c \in s.claims
    BY <2>1 DEF ParentEdges
  <2>2. CASE c \in Membership!Written(s, d)
    <3>1. PICK i \in DOMAIN d : \E j \in DOMAIN d[i].adds :
              c.id = d[i].id /\ c.ident = Membership!Identity(d[i].adds[j])
      BY <2>2, WrittenIsAuthored
    <3>2. PICK j \in DOMAIN d[i].adds : c.id = d[i].id /\ c.ident = Membership!Identity(d[i].adds[j])
      BY <3>1
    <3>3. PICK m : m = d[i].adds[j]
      OBVIOUS
    <3>4. m.ns = "parent" /\ c.ident[2] = m.a.id
      BY <3>2, <3>3, IdentityIsFact DEF DocTyped
    <3> QED
      BY <3>2, <3>3, <3>4 DEF AuthoredEdges
  <2> QED
    BY <2>1, <2>2 DEF Membership!Result
<1> QED
  BY <1>5, <1>6, FewerEdges

-----------------------------------------------------------------------------
LEMMA MembersStart ==
    ASSUME Membership!Init
    PROVE  MembersInv
<1>1. memberDoc \in Seq(MemberEntry)
  BY DEF Membership!Init
<1>2. MarketsOk(memberClaims) /\ ParentsOk(memberClaims)
  BY DEF Membership!Init, MarketsOk, ParentsOk, ParentEdges, Acyclic
<1> QED
  BY <1>1, <1>2 DEF Membership!Init, MembersInv

LEMMA MembersStep ==
    ASSUME MembersInv, Membership!Next
    PROVE  MembersInv'
<1>1. family' = family
  BY DEF Membership!Next, Membership!Begin, Membership!Add, Membership!Remove, Membership!Apply, Membership!Refuse
<1>2. /\ Membership!Countries' = Membership!Countries /\ Membership!Pads' = Membership!Pads
      /\ Membership!Subjects' = Membership!Subjects /\ Membership!New' = Membership!New
      /\ Membership!Firsts' = Membership!Firsts /\ Membership!Seconds' = Membership!Seconds
      /\ Membership!Words' = Membership!Words /\ Membership!Kinds' = Membership!Kinds
  BY <1>1 DEF Membership!Countries, Membership!Pads, Membership!Subjects, Membership!New,
              Membership!Firsts, Membership!Seconds, Membership!Words, Membership!Kinds
<1>3. Membership!Members' = Membership!Members
  BY <1>2 DEF Membership!Members, Membership!Member, Membership!Refs, Membership!Texts
<1>4. MemberEntry' = MemberEntry
  BY <1>2, <1>3 DEF MemberEntry
<1>5. DocTyped(memberDoc)
  BY DocsAreTyped DEF MembersInv
<1>6. memberDoc' \in Seq(MemberEntry)
  <2>1. CASE Membership!Begin
    <3>1. \A create \in BOOLEAN : \A id \in Membership!Subjects \cup Membership!New :
              [create |-> create, id |-> id, adds |-> <<>>, drops |-> <<>>] \in MemberEntry
      BY DEF MemberEntry
    <3> QED
      BY <2>1, <3>1 DEF Membership!Begin, MembersInv
  <2>2. CASE Membership!Add
    <3>1. PICK m \in Membership!Members :
              memberDoc' = [memberDoc EXCEPT ![Len(memberDoc)].adds = Append(@, m)]
      BY <2>2 DEF Membership!Add
    <3>2. Len(memberDoc) \in DOMAIN memberDoc /\ memberDoc[Len(memberDoc)] \in MemberEntry
      BY <2>2 DEF Membership!Add, MembersInv
    <3>3. [memberDoc[Len(memberDoc)] EXCEPT !.adds = Append(@, m)] \in MemberEntry
      <4>1. memberDoc[Len(memberDoc)].adds \in Seq(Membership!Members)
        BY <3>2 DEF MemberEntry
      <4>2. Append(memberDoc[Len(memberDoc)].adds, m) \in Seq(Membership!Members)
        BY <4>1
      <4> QED
        BY <3>2, <4>2 DEF MemberEntry
    <3> QED
      BY <3>1, <3>2, <3>3 DEF MembersInv
  <2>3. CASE Membership!Remove
    <3>1. PICK m \in Membership!Members :
              memberDoc' = [memberDoc EXCEPT ![Len(memberDoc)].drops = Append(@, m)]
      BY <2>3 DEF Membership!Remove
    <3>2. Len(memberDoc) \in DOMAIN memberDoc /\ memberDoc[Len(memberDoc)] \in MemberEntry
      BY <2>3 DEF Membership!Remove, MembersInv
    <3>3. [memberDoc[Len(memberDoc)] EXCEPT !.drops = Append(@, m)] \in MemberEntry
      <4>1. memberDoc[Len(memberDoc)].drops \in Seq(Membership!Members)
        BY <3>2 DEF MemberEntry
      <4>2. Append(memberDoc[Len(memberDoc)].drops, m) \in Seq(Membership!Members)
        BY <4>1
      <4> QED
        BY <3>2, <4>2 DEF MemberEntry
    <3> QED
      BY <3>1, <3>2, <3>3 DEF MembersInv
  <2>4. CASE Membership!Apply \/ Membership!Refuse
    <3>1. <<>> \in Seq(MemberEntry)
      OBVIOUS
    <3> QED
      BY <2>4, <3>1 DEF Membership!Apply, Membership!Refuse
  <2> QED
    BY <2>1, <2>2, <2>3, <2>4 DEF Membership!Next
<1>7. MarketsOk(memberClaims') /\ ParentsOk(memberClaims')
  <2>1. CASE Membership!Apply
    <3>1. memberClaims' = Membership!Result(Membership!Store, memberDoc).claims
      BY <2>1 DEF Membership!Apply
    <3>2. Membership!Store.claims = memberClaims
      BY DEF Membership!Store
    <3>3. Membership!Valid(memberDoc) /\ Membership!AcyclicOver(Membership!Store, memberDoc)
      BY <2>1 DEF Membership!Apply, Membership!Accepted, Membership!Planned
    <3> QED
      BY <1>5, <3>1, <3>2, <3>3, MarketsStay, ParentsStay DEF MembersInv
  <2>2. CASE ~Membership!Apply
    <3>1. memberClaims' = memberClaims
      BY <2>2 DEF Membership!Next, Membership!Begin, Membership!Add, Membership!Remove, Membership!Refuse
    <3> QED
      BY <3>1 DEF MembersInv
  <2> QED
    BY <2>1, <2>2
<1>8. MarketsOk(memberClaims)' /\ ParentsOk(memberClaims)'
  BY <1>2, <1>7 DEF MarketsOk, ParentsOk, Acyclic, ParentEdges, Membership!Above
<1> QED
  BY <1>1, <1>4, <1>6, <1>8 DEF MembersInv

LEMMA MembersRest ==
    ASSUME MembersInv, UNCHANGED memberVars
    PROVE  MembersInv'
BY DEF MembersInv, memberVars, MemberEntry, MarketsOk, ParentsOk, Acyclic, ParentEdges, Membership!Above,
       Membership!Countries, Membership!Pads, Membership!Subjects, Membership!New,
       Membership!Firsts, Membership!Seconds, Membership!Words, Membership!Kinds,
       Membership!Members, Membership!Member, Membership!Refs, Membership!Texts

\* The tombstone of what the source claimed supersedes it, and no entry says
\* of one record what another takes back, in whatever spelling.
LEMMA RemovalTakes ==
    ASSUME MembersInv, Membership!Apply, NEW i \in DOMAIN memberDoc, NEW j \in DOMAIN memberDoc[i].drops,
           NEW c \in memberClaims', c.id = memberDoc[i].id, c.present
    PROVE  c.ident # Membership!Identity(memberDoc[i].drops[j])
<1> DEFINE d == memberDoc
           s == Membership!Store
           removed == Membership!Identity(d[i].drops[j])
<1> SUFFICES ASSUME c.ident = removed PROVE FALSE
  OBVIOUS
<1>1. DocTyped(d) /\ Membership!DisjointMembers(s, d)
  BY DocsAreTyped DEF MembersInv, Membership!Apply, Membership!Accepted, Membership!Planned
<1>2. c \in Membership!Result(s, d).claims
  BY DEF Membership!Apply
<1>3. CASE c \in Membership!Written(s, d)
  <2>1. PICK k \in DOMAIN d : \E l \in DOMAIN d[k].adds :
              c.id = d[k].id /\ c.ident = Membership!Identity(d[k].adds[l])
    BY <1>1, <1>3, WrittenIsAuthored
  <2>2. c.ident \in Membership!AddsTo(d, c.id)
    BY <2>1 DEF Membership!AddsTo
  <2>3. c.ident \in Membership!DropsTo(d, c.id)
    BY DEF Membership!DropsTo
  <2>4. c.id \in Membership!Ids
    <3>1. d[i] \in MemberEntry
      BY DEF MembersInv
    <3>2. Membership!New \subseteq Membership!Ids
      BY PatchesAssumption DEF MembersInv, Membership!FamiliesAssumption, Membership!New, Membership!Ids,
         Membership!Firsts, Membership!Seconds, Membership!Subjects
    <3> QED
      BY <3>1, <3>2 DEF MemberEntry, Membership!Ids
  <2> QED
    BY <1>1, <2>2, <2>3, <2>4 DEF Membership!DisjointMembers
<1>4. CASE c \notin Membership!Written(s, d)
  <2>1. c \in s.claims /\ \A w \in Membership!Written(s, d) : <<w.id, w.ident>> # <<c.id, c.ident>>
    BY <1>2, <1>4 DEF Membership!Result
  <2>2. Membership!Claimed(s, d[i].id, removed)
    BY <2>1 DEF Membership!Claimed
  <2>3. Membership!Tombstone(d[i].id, d[i].drops[j]) \in Membership!Tombstones(s, d, i)
    BY <2>2 DEF Membership!Tombstones
  <2>4. Membership!Tombstone(d[i].id, d[i].drops[j]) \in Membership!Written(s, d)
    BY <2>3 DEF Membership!Written
  <2> QED
    BY <2>1, <2>4 DEF Membership!Tombstone
<1> QED
  BY <1>3, <1>4

LEMMA MembersHold ==
    ASSUME MembersInv
    PROVE  MembersStandAlone
<1>1. Membership!MarketsAreCountries
  BY DEF MembersInv, MarketsOk, Membership!MarketsAreCountries
<1>2. Membership!ParentsAcyclic
  BY DEF MembersInv, ParentsOk, ParentEdges, Acyclic, Membership!ParentsAcyclic
<1> QED
  BY <1>1, <1>2, EachItsOwnClaim, DifferentPass, ApartIsTogether, ResolutionsAgree DEF MembersInv, MembersStandAlone

\* Whatever the families: no member of a patch is said twice nor both ways,
\* none is taken for another, creating and using in one patch is creating
\* first, and no accepted patch mixes resolutions of a market or closes a cycle
\* of parents (claim_ingest/patches/emit.py, planning.py).
THEOREM MembersAlwaysStandAlone == SceneSpec => []MembersStandAlone
<1>1. SceneInit => MembersInv
  BY MembersStart DEF SceneInit
<1>2. MembersInv /\ [SceneNext]_<<scene, vars, planVars, memberVars>> => MembersInv'
  BY MembersStep, MembersRest DEF SceneNext
<1>3. MembersInv => MembersStandAlone
  BY MembersHold
<1> QED
  BY <1>1, <1>2, <1>3, PTL DEF SceneSpec

\* And a member that an applied patch removes is claimed no more, in whatever
\* spelling it was added (_add_removals in claim_ingest/patches/emit.py).
THEOREM RemovedStaysGone == SceneSpec => Membership!RemovedIsGone
<1> DEFINE Gone == \A i \in DOMAIN memberDoc : \A j \in DOMAIN memberDoc[i].drops : \A c \in memberClaims' :
                       c.id = memberDoc[i].id /\ c.present => c.ident # Membership!Identity(memberDoc[i].drops[j])
<1>1. SceneInit => MembersInv
  BY MembersStart DEF SceneInit
<1>2. MembersInv /\ [SceneNext]_<<scene, vars, planVars, memberVars>> => MembersInv'
  BY MembersStep, MembersRest DEF SceneNext
<1>3. ASSUME MembersInv, [SceneNext]_<<scene, vars, planVars, memberVars>>, memberPatches' # memberPatches
      PROVE  Gone
  <2>1. Membership!Apply
    BY <1>3 DEF SceneNext, memberVars, Membership!Next, Membership!Begin, Membership!Add, Membership!Remove, Membership!Refuse
  <2> QED
    BY <1>3, <2>1, RemovalTakes
<1>4. MembersInv /\ [SceneNext]_<<scene, vars, planVars, memberVars>>
        => [memberPatches' # memberPatches => Gone]_<<Membership!vars, memberPatches>>
  BY <1>3
<1> QED
  BY <1>1, <1>2, <1>4, PTL DEF SceneSpec, Membership!RemovedIsGone
=============================================================================
