--------------------------- MODULE ResponseCache ---------------------------
(***************************************************************************)
(* The catalog's read-through response cache (catalog/cache.py) between    *)
(* the requests that fill it and the writes that flush it: interactive     *)
(* saves, the patch ingest and display-policy changes.  The cache is       *)
(* shared by every process, its entries never expire, and a flush deletes  *)
(* one slot at a time.                                                     *)
(*                                                                         *)
(* Catalog rows and the display policy are each abstracted to the number   *)
(* of times they changed; a cached payload is what its builder read.       *)
(***************************************************************************)
EXTENDS Naturals

CONSTANTS
    Slots,          \* cache keys, one per payload and audience
    KioskSlots,     \* the slots of the kiosk audience
    Readers,
    Writers,
    Patches,        \* data patches on disk, 1 .. n
    Mortal,         \* kinds of writer that may die half-way: "edit", "ingest"
    MaxChanges      \* bound: commits and policy changes, each

VARIABLES
    catalog,        \* committed catalog rows
    policy,         \* CONTENT_DISPLAY_POLICY
    ledger,         \* patches with a SUCCESS run
    slots,          \* slot -> payload or Empty
    readers,
    writers,
    lost            \* auxiliary: slots whose flush died with the process that owed it

vars == <<catalog, policy, ledger, slots, readers, writers, lost>>

Empty == [built |-> FALSE]

Changes == 0 .. MaxChanges

\* overlapped: something the payload shows changed while it was being built
Payload == [built : {TRUE}, rows : Changes, rank : Changes, overlapped : BOOLEAN]

TypeOK ==
    /\ catalog \in Changes /\ policy \in Changes
    /\ ledger \subseteq Patches
    /\ lost \subseteq Slots
    /\ slots \in [Slots -> Payload \cup {Empty}]
    /\ \A s \in KioskSlots : slots[s] # Empty => slots[s].rank = 0
    /\ readers \in [Readers -> [pc : {"idle", "rank", "rows", "fill"}, slot : Slots,
                                payload : Payload]]
    /\ writers \in [Writers -> [pc : {"idle", "claims", "saved", "ingest"},
                                kind : {"edit", "ingest", "policy"},
                                todo : SUBSET Slots, applied : BOOLEAN]]

Blank == [built |-> TRUE, rows |-> 0, rank |-> 0, overlapped |-> FALSE]

IdleWriter == [pc |-> "idle", kind |-> "edit", todo |-> {}, applied |-> FALSE]

Init ==
    /\ catalog = 0 /\ policy = 0
    /\ ledger = {}
    /\ lost = {}
    /\ slots = [s \in Slots |-> Empty]
    /\ readers = [r \in Readers |-> [pc |-> "idle", slot |-> CHOOSE s \in Slots : TRUE,
                                     payload |-> Blank]]
    /\ writers = [w \in Writers |-> IdleWriter]

-----------------------------------------------------------------------------
\* get_minimum_display_rank: the kiosk sees everything under any policy
Rank(s) == IF s \in KioskSlots THEN 0 ELSE policy

At(pc, s, payload) == [pc |-> pc, slot |-> s, payload |-> payload]

Miss(r, s) ==
    /\ readers[r].pc = "idle"
    /\ slots[s] = Empty
    /\ readers' = [readers EXCEPT ![r] = At("rank", s, Blank)]
    /\ UNCHANGED <<catalog, policy, ledger, slots, writers, lost>>

ReadRank(r) ==
    /\ readers[r].pc = "rank"
    /\ LET b == readers[r]
       IN  readers' = [readers EXCEPT
              ![r] = At("rows", b.slot, [b.payload EXCEPT !.rank = Rank(b.slot)])]
    /\ UNCHANGED <<catalog, policy, ledger, slots, writers, lost>>

ReadRows(r) ==
    /\ readers[r].pc = "rows"
    /\ LET b == readers[r]
       IN  readers' = [readers EXCEPT
              ![r] = At("fill", b.slot, [b.payload EXCEPT !.rows = catalog])]
    /\ UNCHANGED <<catalog, policy, ledger, slots, writers, lost>>

\* set_cached_response: with no timeout, and whatever happened since the miss
Fill(r) ==
    /\ readers[r].pc = "fill"
    /\ slots' = [slots EXCEPT ![readers[r].slot] = readers[r].payload]
    /\ readers' = [readers EXCEPT ![r] = At("idle", readers[r].slot, Blank)]
    /\ UNCHANGED <<catalog, policy, ledger, writers, lost>>

\* Everyone building a payload is overtaken by the change
Overtake ==
    readers' = [r \in Readers |->
        LET b == readers[r]
        IN  IF b.pc = "idle" THEN b
            ELSE At(b.pc, b.slot, [b.payload EXCEPT !.overlapped = TRUE])]

-----------------------------------------------------------------------------
\* The keys invalidate_response_cache deletes
Flushed == Slots

Turns(w, t) == writers' = [writers EXCEPT ![w] = t]

Flush(w, s) ==
    /\ s \in writers[w].todo
    /\ slots' = [slots EXCEPT ![s] = Empty]
    /\ Turns(w, [writers[w] EXCEPT !.todo = @ \ {s}])
    /\ lost' = lost \ {s}
    /\ UNCHANGED <<catalog, policy, ledger, readers>>

Idle(w) == writers[w].pc = "idle" /\ writers[w].todo = {}

BeginEdit(w) ==
    /\ Idle(w)
    /\ Turns(w, [writers[w] EXCEPT !.pc = "claims", !.kind = "edit"])
    /\ UNCHANGED <<catalog, policy, ledger, slots, readers, lost>>

\* resolve_entity saves the row: post_save flushes inside the transaction
SaveRow(w) ==
    /\ writers[w].pc = "claims"
    /\ Turns(w, [writers[w] EXCEPT !.pc = "saved", !.todo = Flushed])
    /\ UNCHANGED <<catalog, policy, ledger, slots, readers, lost>>

\* Mutant: only post_save flushes
NothingOnCommit == {}

\* What _per_entity_handler registers to flush on commit
OnCommit == Flushed

CommitEdit(w) ==
    /\ writers[w].pc = "saved"
    /\ writers[w].todo = {}
    /\ catalog < MaxChanges
    /\ catalog' = catalog + 1
    /\ Turns(w, [writers[w] EXCEPT !.pc = "idle", !.todo = OnCommit])
    /\ Overtake
    /\ UNCHANGED <<policy, ledger, slots, lost>>

AbortEdit(w) ==
    /\ writers[w].pc \in {"claims", "saved"}
    /\ writers[w].todo = {}
    /\ Turns(w, IdleWriter)
    /\ UNCHANGED <<catalog, policy, ledger, slots, readers, lost>>

BeginIngest(w) ==
    /\ Idle(w)
    /\ Turns(w, [IdleWriter EXCEPT !.pc = "ingest", !.kind = "ingest"])
    /\ UNCHANGED <<catalog, policy, ledger, slots, readers, lost>>

\* apply_plan commits the next patch; applied ones are skipped
ApplyPatch(w, p) ==
    /\ writers[w].pc = "ingest"
    /\ p \notin ledger
    /\ \A q \in Patches : q < p => q \in ledger
    /\ catalog < MaxChanges
    /\ catalog' = catalog + 1
    /\ ledger' = ledger \cup {p}
    /\ Turns(w, [writers[w] EXCEPT !.applied = TRUE])
    /\ Overtake
    /\ UNCHANGED <<policy, slots, lost>>

\* End of the command, or of its loop when a patch fails: one flush, if this
\* command applied anything
FinishIngest(w) ==
    /\ writers[w].pc = "ingest"
    /\ Turns(w, [IdleWriter EXCEPT !.kind = "ingest",
                   !.todo = IF writers[w].applied THEN Flushed ELSE {}])
    /\ UNCHANGED <<catalog, policy, ledger, slots, readers, lost>>

\* The setting is stored, then config_updated flushes
ChangePolicy(w) ==
    /\ Idle(w)
    /\ policy < MaxChanges
    /\ policy' = policy + 1
    /\ Turns(w, [writers[w] EXCEPT !.kind = "policy", !.todo = Flushed])
    /\ Overtake
    /\ UNCHANGED <<catalog, ledger, slots, lost>>

\* The flush of slot s that a change writer w committed is still to come
Owes(w, s) ==
    \/ writers[w].pc = "idle" /\ s \in writers[w].todo
    \/ writers[w].pc = "ingest" /\ writers[w].applied

\* A deploy, a lost connection or an uncaught exception ends the process
Die(w) ==
    /\ ~Idle(w)
    /\ writers[w].kind \in Mortal
    /\ lost' = lost \cup {s \in Slots : Owes(w, s)}
    /\ Turns(w, IdleWriter)
    /\ UNCHANGED <<catalog, policy, ledger, slots, readers>>

Next ==
    \/ \E r \in Readers :
          \/ \E s \in Slots : Miss(r, s)
          \/ ReadRank(r) \/ ReadRows(r) \/ Fill(r)
    \/ \E w \in Writers :
          \/ \E s \in Slots : Flush(w, s)
          \/ BeginEdit(w) \/ SaveRow(w) \/ CommitEdit(w) \/ AbortEdit(w)
          \/ BeginIngest(w) \/ FinishIngest(w)
          \/ \E p \in Patches : ApplyPatch(w, p)
          \/ ChangePolicy(w)
          \/ Die(w)

Spec == Init /\ [][Next]_vars

-----------------------------------------------------------------------------
FlushPending(s) == \E w \in Writers : Owes(w, s)

ShowsCatalog(s) == slots[s].rows = catalog /\ slots[s].rank = Rank(s)

\* A payload that no change overtook while it was built shows the committed
\* catalog under the current policy, or a flush of its slot is on its way, or
\* that flush died with a process and no other flush has reached the slot since.
UnovertakenIsFresh ==
    \A s \in Slots :
        slots[s] # Empty /\ ~slots[s].overlapped
        => ShowsCatalog(s) \/ FlushPending(s) \/ s \in lost

\* Nobody is reading or writing
Quiet ==
    /\ \A r \in Readers : readers[r].pc = "idle"
    /\ \A w \in Writers : Idle(w)

\* "the cache never changes what a user sees, only how fast" (catalog/cache.py):
\* once every request has ended, a cached payload shows the committed catalog.
QuietCacheIsNeutral == Quiet => \A s \in Slots : slots[s] # Empty => ShowsCatalog(s)
=============================================================================
