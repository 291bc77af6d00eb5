---------------------------- MODULE PatchLedger ----------------------------
(***************************************************************************)
(* ingest_patches: commands that apply numbered data patches in order,     *)
(* each patch in one transaction that also flips its IngestRun to success. *)
(* Commands may overlap, fail and be killed; the partial unique index on   *)
(* success runs is all they share.  A patch's claims are abstracted to one *)
(* entry in the log of what was committed, its fingerprint to a content.   *)
(***************************************************************************)
EXTENDS Naturals, Sequences, FiniteSets

CONSTANTS
    Patches,        \* patch numbers
    Contents,       \* fingerprints a patch file may have
    Procs,          \* running commands
    Shelves,        \* patch directories, each a function from patches to contents
    MaxCommands     \* bound: commands started

VARIABLES
    runs,           \* IngestRun rows: [patch, content, status]
    log,            \* committed claim batches, as <<patch, content>>
    procs,
    started         \* commands started so far

vars == <<runs, log, procs, started>>

Statuses == {"running", "success", "failed"}

Idle == [pc |-> "idle", shelf |-> CHOOSE d \in Shelves : TRUE, todo |-> {}, run |-> 0,
         why |-> "other"]

TypeOK ==
    /\ started \in 0 .. MaxCommands
    /\ \A i \in DOMAIN runs :
          runs[i].patch \in Patches /\ runs[i].content \in Contents /\ runs[i].status \in Statuses
    /\ \A i \in DOMAIN log : log[i] \in Patches \X Contents
    /\ \A p \in Procs :
          LET q == procs[p]
          IN  /\ q.pc \in {"idle", "ledger", "plan", "run", "tx", "flipped", "rolledback",
                           "recheck", "done", "failed"}
              /\ q.todo \subseteq DOMAIN q.shelf
              /\ q.pc \in {"tx", "flipped", "rolledback"} =>
                    q.run \in DOMAIN runs /\ runs[q.run].status = "running"
              /\ q.why \in {"other", "integrity"}

Init ==
    /\ runs = << >>
    /\ log = << >>
    /\ procs = [p \in Procs |-> Idle]
    /\ started = 0

-----------------------------------------------------------------------------
Becomes(p, q) == procs' = [procs EXCEPT ![p] = q]

\* The patch the loop is at
Current(p) == CHOOSE k \in procs[p].todo : \A j \in procs[p].todo : k <= j

Successes(k) == {i \in DOMAIN runs : runs[i].patch = k /\ runs[i].status = "success"}

\* handle: the files found, in numeric order
Start(p, d) ==
    /\ procs[p].pc = "idle"
    /\ started < MaxCommands
    /\ started' = started + 1
    /\ Becomes(p, [Idle EXCEPT !.pc = "ledger", !.shelf = d, !.todo = DOMAIN d])
    /\ UNCHANGED <<runs, log>>

\* Mutant: the skipped patch stays next
StayAtCurrent(p) == Becomes(p, [procs[p] EXCEPT !.pc = "ledger"])

\* The loop goes on to the next file
Advance(p) == Becomes(p, [procs[p] EXCEPT !.pc = "ledger", !.todo = @ \ {Current(p)}])

\* The first failure ends the loop
Stop(p) == Becomes(p, [procs[p] EXCEPT !.pc = "failed"])

\* _apply_one looks the patch up: skip it, refuse it, or go on to plan it
CheckLedger(p) ==
    LET q == procs[p]
        k == Current(p)
        prior == CHOOSE i \in Successes(k) : TRUE
    IN  /\ q.pc = "ledger"
        /\ q.todo # {}
        /\ CASE Successes(k) = {} -> Becomes(p, [q EXCEPT !.pc = "plan"])
             [] Successes(k) # {} /\ runs[prior].content = q.shelf[k] -> Advance(p)
             [] OTHER -> Stop(p)
        /\ UNCHANGED <<runs, log, started>>

Done(p) ==
    /\ procs[p].pc = "ledger"
    /\ procs[p].todo = {}
    /\ Becomes(p, [procs[p] EXCEPT !.pc = "done"])
    /\ UNCHANGED <<runs, log, started>>

\* build_plan compiles the patch against the rows of the moment, or refuses it
Plan(p) ==
    /\ procs[p].pc = "plan"
    /\ \/ Becomes(p, [procs[p] EXCEPT !.pc = "run"])
       \/ Stop(p)
    /\ UNCHANGED <<runs, log, started>>

\* The IngestRun is committed on its own, so that it survives a rollback
CreateRun(p) ==
    LET q == procs[p]
        k == Current(p)
    IN  /\ q.pc = "run"
        /\ runs' = Append(runs, [patch |-> k, content |-> q.shelf[k], status |-> "running"])
        /\ Becomes(p, [q EXCEPT !.pc = "tx", !.run = Len(runs) + 1])
        /\ UNCHANGED <<log, started>>

\* Another transaction has flipped the same patch and not ended
FlipPending(p, k) ==
    \E o \in Procs \ {p} : procs[o].pc = "flipped" /\ runs[procs[o].run].patch = k

\* Mutant: the index on success runs is missing
NoIndex(k) == FALSE

\* The partial unique index rejects a second success
AlreadyFlipped(k) == Successes(k) # {}

\* The claims are written and the run is flipped, not yet committed
Flip(p) ==
    LET k == runs[procs[p].run].patch
    IN  /\ procs[p].pc = "tx"
        /\ ~FlipPending(p, k)
        /\ IF AlreadyFlipped(k)
           THEN Becomes(p, [procs[p] EXCEPT !.pc = "rolledback", !.why = "integrity"])
           ELSE Becomes(p, [procs[p] EXCEPT !.pc = "flipped"])
        /\ UNCHANGED <<runs, log, started>>

\* An invalid claim or a constraint fails the transaction before the flip
Abort(p, why) ==
    /\ procs[p].pc = "tx"
    /\ Becomes(p, [procs[p] EXCEPT !.pc = "rolledback", !.why = why])
    /\ UNCHANGED <<runs, log, started>>

\* Mutant: the claims commit before the flip does
CommitClaimsFirst(p) ==
    LET q == procs[p]
    IN  /\ q.pc = "flipped"
        /\ log' = Append(log, <<runs[q.run].patch, runs[q.run].content>>)
        /\ \/ runs' = [runs EXCEPT ![q.run].status = "success"] /\ Advance(p)
           \/ UNCHANGED runs /\ Stop(p)
        /\ UNCHANGED started

\* Claims and flip commit together, and the loop goes on
Commit(p) ==
    LET q == procs[p]
    IN  /\ q.pc = "flipped"
        /\ log' = Append(log, <<runs[q.run].patch, runs[q.run].content>>)
        /\ runs' = [runs EXCEPT ![q.run].status = "success"]
        /\ Advance(p)
        /\ UNCHANGED started

\* After the rollback the run is marked failed, in a statement of its own; an
\* IntegrityError goes on to look whether another command was faster
MarkFailed(p) ==
    LET q == procs[p]
    IN  /\ q.pc = "rolledback"
        /\ runs' = [runs EXCEPT ![q.run].status = "failed"]
        /\ IF q.why = "integrity" THEN Becomes(p, [q EXCEPT !.pc = "recheck"]) ELSE Stop(p)
        /\ UNCHANGED <<log, started>>

\* _is_applied
Recheck(p) ==
    /\ procs[p].pc = "recheck"
    /\ IF Successes(Current(p)) # {} THEN Advance(p) ELSE Stop(p)
    /\ UNCHANGED <<runs, log, started>>

\* The operator runs the command again
Restart(p) ==
    /\ procs[p].pc \in {"done", "failed"}
    /\ Becomes(p, Idle)
    /\ UNCHANGED <<runs, log, started>>

\* The command is killed; its open transaction is rolled back
Kill(p) ==
    /\ procs[p].pc \notin {"idle", "done", "failed"}
    /\ Stop(p)
    /\ UNCHANGED <<runs, log, started>>

\* What a running command does next
Step(p) ==
    \/ CheckLedger(p) \/ Done(p) \/ Plan(p) \/ CreateRun(p)
    \/ Flip(p) \/ Commit(p) \/ MarkFailed(p) \/ Recheck(p)
    \/ \E why \in {"other", "integrity"} : Abort(p, why)

Next ==
    \E p \in Procs :
        \/ \E d \in Shelves : Start(p, d)
        \/ Step(p)
        \/ Restart(p)
        \/ Kill(p)

\* A command that runs executes its statements; nobody has to start or kill one
Fairness == \A p \in Procs : WF_vars(Step(p))

Spec == Init /\ [][Next]_vars /\ Fairness

-----------------------------------------------------------------------------
\* "applied once": however commands overlap, fail and are killed, no patch's
\* claims are committed twice.
AppliedOnce == \A i, j \in DOMAIN log : log[i][1] = log[j][1] => i = j

\* What a command has got past, whether it goes on, is done or failed, is
\* applied; patches apply in order, so this is all below the one it is at.
PassedIsApplied ==
    \A p \in Procs : procs[p].pc # "idle" =>
        \A k \in DOMAIN procs[p].shelf \ procs[p].todo : Successes(k) # {}

\* A patch's claims are in the database iff a run says success, with that
\* content: a failed, killed or racing run leaves nothing behind, and no
\* command goes on to the next patch without it.
LedgerIsTruth ==
    /\ {log[i] : i \in DOMAIN log} =
           {<<runs[i].patch, runs[i].content>> : i \in {j \in DOMAIN runs : runs[j].status = "success"}}
    /\ PassedIsApplied

\* A command that was started ends.
CommandsEnd ==
    \A p \in Procs : procs[p].pc = "ledger" ~> procs[p].pc \in {"done", "failed"}
=============================================================================
