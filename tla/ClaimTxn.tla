------------------------------ MODULE ClaimTxn ------------------------------
(***************************************************************************)
(* Edits and reverts of one entity as interleaved READ COMMITTED           *)
(* transactions, one statement at a time: what ClaimStore does in a single *)
(* step.  Each statement sees the committed rows and its own writes; an    *)
(* update of a row another transaction wrote waits for it to end and then  *)
(* looks at the row again; the partial unique index makes a second active  *)
(* claim of a slot wait for, and fail on, the first.                       *)
(*                                                                         *)
(* All actors are users of equal priority, so the newest active claim of a *)
(* key wins; a claim's id is its place in (created_at, pk) order and       *)
(* stands for its value, so a row maps each key to the claim it shows.     *)
(***************************************************************************)
EXTENDS Naturals, Sequences, FiniteSets

CONSTANTS
    Users,
    Keys,       \* the entity's columns
    Workers,    \* concurrent request handlers
    History,    \* sequence of <<user, key>>: edits committed beforehand
    MaxTxns     \* bound: requests in a behaviour

ASSUME TxnAssumption ==
    /\ Users # {} /\ Keys # {}
    /\ History \in Seq(Users \X Keys)
    /\ MaxTxns \in Nat

VARIABLES
    claims,     \* committed claims: id -> [user, key, active, retractedBy]
    row,        \* committed entity row: key -> id of the claim it shows, 0 if blank
    nextId,     \* the claim table's pk sequence
    begun,      \* requests begun; numbers their changesets
    tx          \* the request each worker is handling

vars == <<claims, row, nextId, begun, tx>>

ClaimRow == [user : Users, key : Keys, active : BOOLEAN, retractedBy : 0 .. MaxTxns]

Ids == 1 .. (Len(History) + MaxTxns)

SetMax(S) == CHOOSE i \in S : \A j \in S : j <= i

\* pc: the statement a transaction is at; solo: no other request overlapped it
Idle == [pc |-> "idle", no |-> 0, user |-> CHOOSE u \in Users : TRUE,
         key |-> CHOOSE k \in Keys : TRUE, target |-> 0, todo |-> {},
         writes |-> [i \in {} |-> 0], view |-> [k \in Keys |-> 0], solo |-> FALSE]

TypeOK ==
    /\ DOMAIN claims \subseteq Ids
    /\ \A i \in DOMAIN claims : claims[i] \in ClaimRow /\ i < nextId
    /\ row \in [Keys -> Ids \cup {0}]
    /\ nextId \in 1 .. (Len(History) + MaxTxns + 1)
    /\ begun \in 0 .. MaxTxns
    /\ \A w \in Workers :
          /\ tx[w].pc \in {"idle", "lock", "insert", "stamp", "predecessor", "reactivate",
                           "resolve", "save", "commit"}
          /\ \A i \in DOMAIN tx[w].writes : i \in Ids /\ tx[w].writes[i] \in ClaimRow

Overlay(f, g) ==
    [i \in DOMAIN f \cup DOMAIN g |-> IF i \in DOMAIN g THEN g[i] ELSE f[i]]

\* The claims a statement of w sees
Visible(w) == Overlay(claims, tx[w].writes)

InSlot(c, u, k) == c.user = u /\ c.key = k

\* The row the resolver materialises from the claims C
Resolution(C) ==
    [k \in Keys |->
        LET A == {i \in DOMAIN C : C[i].key = k /\ C[i].active}
        IN  IF A = {} THEN 0 ELSE SetMax(A)]

Init ==
    LET Later(i) == {j \in DOMAIN History : j > i /\ History[j] = History[i]}
    IN  /\ claims = [i \in DOMAIN History |->
                       [user |-> History[i][1], key |-> History[i][2],
                        active |-> Later(i) = {}, retractedBy |-> 0]]
        /\ row = Resolution(claims)
        /\ nextId = Len(History) + 1
        /\ begun = 0
        /\ tx = [w \in Workers |-> Idle]

-----------------------------------------------------------------------------
\* Another transaction has written claim i and not ended
Locked(w, i) == \E v \in Workers \ {w} : i \in DOMAIN tx[v].writes

\* Another transaction has changed which claim of the slot is active
SlotBusy(w, u, k) ==
    \E v \in Workers \ {w} : \E i \in DOMAIN tx[v].writes :
        /\ InSlot(tx[v].writes[i], u, k)
        /\ tx[v].writes[i].active \/ (i \in DOMAIN claims /\ claims[i].active)

\* Mutant: the index does not exist
SlotFree(w, u, k, i) == FALSE

\* An active claim other than i holds the slot: the index rejects i
SlotTaken(w, u, k, i) ==
    \E j \in DOMAIN Visible(w) \ {i} :
        InSlot(Visible(w)[j], u, k) /\ Visible(w)[j].active

\* Start a request: t holds what it read so far
Begin(w, t) ==
    LET alone == \A v \in Workers \ {w} : tx[v].pc = "idle"
    IN  /\ tx[w].pc = "idle"
        /\ begun < MaxTxns
        /\ begun' = begun + 1
        /\ tx' = [v \in Workers |->
                     IF v = w THEN [t EXCEPT !.no = begun + 1, !.solo = alone]
                     ELSE [tx[v] EXCEPT !.solo = FALSE]]
        /\ UNCHANGED <<claims, row, nextId>>

Goto(w, t) == tx' = [tx EXCEPT ![w] = t]

\* The transaction rolls back: IntegrityError, deadlock victim, lost worker
Rollback(w) ==
    /\ Goto(w, Idle)
    /\ UNCHANGED <<claims, row, nextId, begun>>

\* execute_claims: record_changeset, then _assert_claim's UPDATE ... WHERE
\* is_active takes its snapshot
BeginEdit(w, u, k) ==
    Begin(w, [Idle EXCEPT !.pc = "lock", !.user = u, !.key = k,
                !.todo = {i \in DOMAIN claims : InSlot(claims[i], u, k) /\ claims[i].active}])

\* The pk sequence after a draw; a rollback gives nothing back
AfterNextval == nextId + 1

\* The UPDATE gets its rows, skips those no longer active, and the INSERT is sent
Deactivate(w) ==
    LET t == tx[w]
        hit == {i \in t.todo : claims[i].active}
    IN  /\ t.pc = "lock"
        /\ \A i \in t.todo : ~Locked(w, i)
        /\ nextId' = AfterNextval
        /\ Goto(w, [t EXCEPT !.pc = "insert", !.target = nextId,
                       !.writes = [i \in hit |-> [claims[i] EXCEPT !.active = FALSE]]])
        /\ UNCHANGED <<claims, row, begun>>

Insert(w) ==
    LET t == tx[w]
        new == [user |-> t.user, key |-> t.key, active |-> TRUE, retractedBy |-> 0]
    IN  /\ t.pc = "insert"
        /\ ~SlotBusy(w, t.user, t.key)
        /\ ~SlotTaken(w, t.user, t.key, t.target)
        /\ Goto(w, [t EXCEPT !.pc = "resolve",
                       !.writes = Overlay(t.writes, [i \in {t.target} |-> new])])
        /\ UNCHANGED <<claims, row, nextId, begun>>

\* execute_revert reads its target and checks it is active before the transaction
BeginRevert(w, c) ==
    /\ c \in DOMAIN claims
    /\ claims[c].active
    /\ Begin(w, [Idle EXCEPT !.pc = "stamp", !.user = claims[c].user,
                   !.key = claims[c].key, !.target = c])

\* The target is deactivated and stamped whatever became of it meanwhile
Stamp(w) ==
    LET t == tx[w]
    IN  /\ t.pc = "stamp"
        /\ ~Locked(w, t.target)
        /\ Goto(w, [t EXCEPT !.pc = "predecessor",
                       !.writes = [i \in {t.target} |->
                          [claims[i] EXCEPT !.active = FALSE, !.retractedBy = t.no]]])
        /\ UNCHANGED <<claims, row, nextId, begun>>

\* What the reverted claim may fall back to
Superseded(w) ==
    LET t == tx[w]
        C == Visible(w)
    IN  {i \in DOMAIN C \ {t.target} :
            InSlot(C[i], t.user, t.key) /\ ~C[i].active /\ C[i].retractedBy = 0}

FindPredecessor(w) ==
    LET S == Superseded(w)
    IN  /\ tx[w].pc = "predecessor"
        /\ IF S = {}
           THEN Goto(w, [tx[w] EXCEPT !.pc = "resolve"])
           ELSE Goto(w, [tx[w] EXCEPT !.pc = "reactivate", !.todo = {SetMax(S)}])
        /\ UNCHANGED <<claims, row, nextId, begun>>

\* The check constraint provenance_claim_retracted_requires_inactive
RejectsActive(i) == claims[i].retractedBy # 0

\* The predecessor is set active on its current row version
Reactivate(w) ==
    LET t == tx[w]
        p == CHOOSE i \in t.todo : TRUE
    IN  /\ t.pc = "reactivate"
        /\ ~Locked(w, p)
        /\ ~SlotBusy(w, t.user, t.key)
        /\ ~SlotTaken(w, t.user, t.key, p)
        /\ ~RejectsActive(p)
        /\ Goto(w, [t EXCEPT !.pc = "resolve",
                       !.writes = Overlay(t.writes,
                          [i \in {p} |-> [claims[i] EXCEPT !.active = TRUE]])])
        /\ UNCHANGED <<claims, row, nextId, begun>>

\* Mutant: only the written column is resolved, on the row read before
ViewTouchedOnly(w) ==
    [row EXCEPT ![tx[w].key] = Resolution(Visible(w))[tx[w].key]]

\* resolve_entity: the columns, all of them, from the claims visible now
View(w) == Resolution(Visible(w))

Resolve(w) ==
    /\ tx[w].pc = "resolve"
    /\ Goto(w, [tx[w] EXCEPT !.pc = "save", !.view = View(w)])
    /\ UNCHANGED <<claims, row, nextId, begun>>

\* obj.save(): the whole row, once no other transaction holds it
Save(w) ==
    /\ tx[w].pc = "save"
    /\ \A v \in Workers \ {w} : tx[v].pc # "commit"
    /\ Goto(w, [tx[w] EXCEPT !.pc = "commit"])
    /\ UNCHANGED <<claims, row, nextId, begun>>

Commit(w) ==
    /\ tx[w].pc = "commit"
    /\ claims' = Visible(w)
    /\ row' = tx[w].view
    /\ Goto(w, Idle)
    /\ UNCHANGED <<nextId, begun>>

Fail(w) ==
    /\ tx[w].pc # "idle"
    /\ Rollback(w)

Next ==
    \E w \in Workers :
        \/ \E u \in Users, k \in Keys : BeginEdit(w, u, k)
        \/ \E c \in DOMAIN claims : BeginRevert(w, c)
        \/ Deactivate(w) \/ Insert(w)
        \/ Stamp(w) \/ FindPredecessor(w) \/ Reactivate(w)
        \/ Resolve(w) \/ Save(w) \/ Commit(w) \/ Fail(w)

Spec == Init /\ [][Next]_vars

-----------------------------------------------------------------------------
SameSlot(i, j) == InSlot(claims[i], claims[j].user, claims[j].key)

\* A user has at most one active claim per key, it is the newest unretracted
\* one, and a slot with an unretracted claim has one.
NewestIsActive ==
    \A i \in DOMAIN claims :
        claims[i].retractedBy = 0 =>
            \E a \in DOMAIN claims :
                /\ SameSlot(i, a) /\ claims[a].active /\ i <= a
                /\ \A j \in DOMAIN claims : SameSlot(j, a) /\ claims[j].active => j = a

\* A claim that two requests raced on never ends both active and retracted.
RetractedIsInactive ==
    \A i \in DOMAIN claims : claims[i].retractedBy # 0 => ~claims[i].active

\* However requests interleave, a slot's newest unretracted claim is its one
\* active claim, and none is both active and retracted.
SlotsStayStacks == NewestIsActive /\ RetractedIsInactive

\* A write that no other request overlapped leaves every column what its claims
\* resolve to, whatever earlier races did to the row.
UndisturbedWriteRepairs ==
    [][claims' # claims /\ (\A w \in Workers : tx[w] # tx'[w] => tx[w].solo)
          => row' = Resolution(claims')]_vars

\* "The materialized catalog rows are a view over the claim log"
\* (docs/DataArchitecture.md): once every request has ended the row shows what
\* its claims resolve to.
QuiescentRowIsView ==
    (\A w \in Workers : tx[w].pc = "idle") => row = Resolution(claims)
=============================================================================
