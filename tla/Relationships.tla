--------------------------- MODULE Relationships ---------------------------
(***************************************************************************)
(* The relationship editors and the reconcile loop.                        *)
(*                                                                         *)
(* A PATCH that carries a list (themes, credits, aliases, parents, export  *)
(* markets, ...) reads the rows the record has, diffs the list against     *)
(* them into asserts and tombstones (plan_*_claims), writes those claims   *)
(* and reconciles the namespace: the winning claims are folded into the    *)
(* rows wanted, the rows standing are read, the difference is written.     *)
(* Under READ COMMITTED each read sees what had committed when it ran, and *)
(* the request's own writes; nothing locks a subject or a namespace, so    *)
(* other requests commit between any two of the steps.                     *)
(*                                                                         *)
(* The requests are about one namespace, of any kind: whole-type (full:    *)
(* aliases, parent hierarchies) or scoped to the edited subject; in a      *)
(* shared one (aliases) a member may have one row in the whole table and a *)
(* second create is ignored, in the others a second row of one (subject,   *)
(* member) is an integrity error.                                          *)
(* Users' claims rank by recency, so the last claim of a member wins.      *)
(***************************************************************************)
EXTENDS Naturals, FiniteSets

CONSTANTS Kinds,          \* [full, shared, subjects, members, valid, payloads]
          Workers,
          Absent,         \* a tombstone, or no claim at all
          MaxRequests     \* bound: requests ever begun

VARIABLES
    kind,     \* the namespace's, for good
    claims,   \* committed winners: [Subjects -> [Members -> [value, at]]]
    rows,     \* set of [pk, subject, member, payload]
    nextPk,
    begun,    \* requests begun (bound)
    clock,    \* when claims were made: users' claims rank by recency
    work      \* what each worker is doing

vars == <<kind, claims, rows, nextPk, begun, clock, work>>

KindsAssumption ==
    \A k \in Kinds :
        /\ k.full \in BOOLEAN /\ k.shared \in BOOLEAN
        /\ IsFiniteSet(k.subjects) /\ IsFiniteSet(k.members)
        /\ Absent \notin k.payloads

FullType == kind.full
Shared == kind.shared
Subjects == kind.subjects
Members == kind.members
Valid == kind.valid     \* those a claim may materialise: their target rows exist
Payloads == kind.payloads
Values == Payloads \cup {Absent}
Form == [Members -> Values]
Edit == [subject : Subjects, shown : Form, form : Form]

(* What a record shows: its rows as member -> payload.                      *)
Shown(rs, s) ==
    [m \in Members |->
        IF \E r \in rs : r.subject = s /\ r.member = m
        THEN (CHOOSE r \in rs : r.subject = s /\ r.member = m).payload
        ELSE Absent]

(* The members a plan writes a claim for: an assert for each new member or *)
(* changed payload, a tombstone for each that left the list.               *)
Edited(e) == {m \in Members : e.form[m] # e.shown[m]}

(* What has committed, with an edit's own claims made at a given time.     *)
WithOwn(e, at) ==
    [claims EXCEPT ![e.subject] =
        [m \in Members |-> IF m \in Edited(e) /\ claims[e.subject][m].at < at
                           THEN [value |-> e.form[m], at |-> at] ELSE @[m]]]

(* The subjects one reconcile covers.                                      *)
Scope(s) == IF FullType THEN Subjects ELSE {s}

(* extract: the members a winning claim materialises; one whose target is  *)
(* not (or no longer) an eligible row of its table is dropped.             *)
Extracted(m) == m \in Valid

(* The rows wanted: the present winners that extract keeps.                *)
Desired(c, scope) ==
    {d \in scope \X Members : c[d[1]][d[2]].value # Absent /\ Extracted(d[2])}

(* The rows of one (subject, member): one at most.                         *)
At(rs, d) == {r \in rs : r.subject = d[1] /\ r.member = d[2]}

(* Mutant: the diff visits only the subjects that have claims left.        *)
DeletedWanted(w) ==
    {r \in w.have : /\ <<r.subject, r.member>> \notin Desired(w.want, Scope(w.subject))
                    /\ \E m \in Members : w.want[r.subject][m].value # Absent}

(* The rows of a request's read that its claims no longer want.            *)
Deleted(w) == {r \in w.have : <<r.subject, r.member>> \notin Desired(w.want, Scope(w.subject))}

Updated(w) ==
    {r \in w.have \ Deleted(w) : w.want[r.subject][r.member].value # r.payload}

(* The members wanted that the read did not have.                          *)
Created(w) == {d \in Desired(w.want, Scope(w.subject)) : At(w.have \ Deleted(w), d) = {}}

(* A create meets a row of the same key, after the deletes.                *)
Clash(rs, d) == \E r \in rs : r.member = d[2] /\ (Shared \/ r.subject = d[1])

(* Which creates are inserted: in a shared namespace the first of several  *)
(* subjects' creates of one member, in the order the delta lists them.     *)
Inserts(rs, cs) ==
    LET free == {d \in cs : ~Clash(rs, d)} IN
    {pick \in SUBSET free :
        \A d \in free : Cardinality({p \in pick : p[2] = d[2] /\ (Shared \/ p[1] = d[1])}) = 1}

(* Updates whose row another request has deleted.                          *)
Gone(rs, w) == {r \in Updated(w) : \A q \in rs : q.pk # r.pk}

Numberings(set) ==
    {f \in [set -> nextPk .. nextPk + Cardinality(set) - 1] :
        \A d, e \in set : d # e => f[d] # f[e]}

(* The table after the deletes.                                            *)
Left(w) == {r \in rows : \A q \in Deleted(w) : q.pk # r.pk}

(* An update whose row is gone (a KeyError on in_bulk) or a duplicate key. *)
Breaks(w) ==
    /\ ~Shared
    /\ Gone(Left(w), w) # {} \/ \E d \in Created(w) : Clash(Left(w), d)

(* A row that is created, and a row once the updates are through.          *)
Row(w, num, d) ==
    [pk |-> num[d], subject |-> d[1], member |-> d[2], payload |-> w.want[d[1]][d[2]].value]

Put(w, r) ==
    IF \E q \in Updated(w) : q.pk = r.pk
    THEN [r EXCEPT !.payload = w.want[r.subject][r.member].value] ELSE r

-----------------------------------------------------------------------------
Idle == [pc |-> "idle"]
Others(w) == [v \in Workers |->
    IF v # w /\ work[v].pc \in {"claims", "rows"} THEN [work[v] EXCEPT !.alone = FALSE]
    ELSE work[v]]

Number == CHOOSE f \in [Subjects \X Members -> 1 .. Cardinality(Subjects \X Members)] :
              \A d, e \in Subjects \X Members : d # e => f[d] # f[e]

(* Claims as patches and earlier edits left them, with their rows.         *)
Init ==
    /\ kind \in Kinds
    /\ claims \in [Subjects -> [Members -> [value : Values, at : {0}]]]
    /\ Shared => \A m \in Members :
                    Cardinality({s \in Subjects : claims[s][m].value # Absent}) <= 1
    /\ rows = {[pk |-> Number[d], subject |-> d[1], member |-> d[2],
                payload |-> claims[d[1]][d[2]].value] : d \in Desired(claims, Subjects)}
    /\ nextPk = Cardinality(Subjects \X Members) + 1
    /\ begun = 0
    /\ clock = 1
    /\ work = [w \in Workers |-> Idle]

(* The endpoint loads the record with its rows and plans the claims;       *)
(* an unknown target is a 422.                                             *)
Plan(w) ==
    /\ work[w].pc = "idle"
    /\ begun < MaxRequests
    /\ \E s \in Subjects, f \in Form :
          LET e == [subject |-> s, shown |-> Shown(rows, s), form |-> f] IN
          /\ Edited(e) # {}
          /\ \A m \in Edited(e) : f[m] # Absent => Extracted(m)
          /\ work' = [work EXCEPT ![w] = [pc |-> "claims", edit |-> e, alone |-> TRUE]]
    /\ begun' = begun + 1
    /\ UNCHANGED <<kind, claims, rows, nextPk, clock>>

(* execute_claims writes the claims and reconcile reads the winners.       *)
PickWinners(w) ==
    /\ work[w].pc = "claims"
    /\ work' = [work EXCEPT ![w] =
          [pc |-> "rows", edit |-> work[w].edit, alone |-> TRUE,
           subject |-> work[w].edit.subject, at |-> clock,
           want |-> WithOwn(work[w].edit, clock)]]
    /\ clock' = clock + 1
    /\ UNCHANGED <<kind, claims, rows, nextPk, begun>>

ReadRows(w) ==
    /\ work[w].pc = "rows"
    /\ "have" \notin DOMAIN work[w]
    /\ work' = [work EXCEPT ![w] =
          [pc |-> "rows", edit |-> work[w].edit, alone |-> work[w].alone,
           subject |-> work[w].subject, at |-> work[w].at, want |-> work[w].want,
           have |-> {r \in rows : r.subject \in Scope(work[w].subject)}]]
    /\ UNCHANGED <<kind, claims, rows, nextPk, begun, clock>>

Ready(w) == work[w].pc = "rows" /\ "have" \in DOMAIN work[w]

(* Nothing to write: the claims commit with the rows as they are.          *)
Finish(w) ==
    /\ claims' = WithOwn(work[w].edit, work[w].at)
    /\ work' = [Others(w) EXCEPT ![w] = Idle]
    /\ UNCHANGED <<kind, begun, clock>>

(* The delta is written and the transaction commits.                       *)
Write(w) ==
    LET k == work[w] IN
    /\ Ready(w)
    /\ ~Breaks(k)
    /\ \E ins \in Inserts(Left(k), Created(k)) : \E num \in Numberings(ins) :
          /\ rows' = {Put(k, r) : r \in Left(k) \cup {Row(k, num, d) : d \in ins}}
          /\ nextPk' = nextPk + Cardinality(ins)
    /\ Finish(w)

(* The whole request fails and leaves nothing.                             *)
Fail(w) ==
    /\ Ready(w)
    /\ Breaks(work[w])
    /\ work' = [work EXCEPT ![w] = Idle]
    /\ UNCHANGED <<kind, claims, rows, nextPk, begun, clock>>

Next == \E w \in Workers :
    Plan(w) \/ PickWinners(w) \/ ReadRows(w) \/ Write(w) \/ Fail(w)

Spec == Init /\ [][Next]_vars

-----------------------------------------------------------------------------
TypeOK ==
    /\ claims \in [Subjects -> [Members -> [value : Values, at : Nat]]]
    /\ \A r \in rows : /\ r.pk \in 1 .. nextPk - 1 /\ r.subject \in Subjects
                       /\ r.member \in Members /\ r.payload \in Payloads
    /\ \A r, q \in rows : r.pk = q.pk => r = q
    /\ \A r, q \in rows : r.member = q.member /\ (Shared \/ r.subject = q.subject) => r = q

Committed(w) == Ready(w) /\ work'[w] = Idle /\ claims' # claims

(* A request that nobody committed beside leaves, for every subject it     *)
(* covers, the rows its claims ask for and no others; a shared member that *)
(* several subjects claim is on one of them, also when the subject that    *)
(* had it was the one to give it up.                                       *)
SoloConverges == [][
    \A w \in Workers : Committed(w) /\ work[w].alone =>
        \A s \in Scope(work[w].subject) :
            /\ \A r \in rows' : r.subject = s =>
                  /\ <<s, r.member>> \in Desired(claims', {s})
                  /\ r.payload = claims'[s][r.member].value
            /\ \A m \in Members : <<s, m>> \in Desired(claims', {s}) =>
                  \E r \in rows' : r.member = m /\ (Shared \/ r.subject = s)
    ]_vars

(* A member that stays keeps its row: a payload that changes, or an edit   *)
(* of another member, updates in place, so what hangs off the row's pk     *)
(* (its citations) stays.                                                  *)
KeptMembersKeepTheirRow == [][
    \A w \in Workers : Committed(w) /\ work[w].alone =>
        \A r \in rows : <<r.subject, r.member>> \in Desired(claims', Subjects) =>
            \E q \in rows' : q.pk = r.pk /\ q.subject = r.subject /\ q.member = r.member
    ]_vars

(* What the form did not change stands: a member another request edited    *)
(* after the page was loaded keeps that request's claim.                   *)
EditsOfOtherMembersStand == [][
    \A w \in Workers : Committed(w) =>
        \A m \in Members :
            work[w].edit.form[m] = work[w].edit.shown[m] =>
                claims'[work[w].subject][m] = claims[work[w].subject][m]
    ]_vars

(* What the resolution promises: when no request runs, the rows are what   *)
(* the claims ask for.  The claims and the rows are two reads of one       *)
(* request, so what another commits between them is undone in the rows.    *)
AtRestRowsFollowClaims ==
    (\A w \in Workers : work[w].pc = "idle") =>
        \A r \in Subjects \X Members :
            (r \in Desired(claims, Subjects)) <=> (At(rows, r) # {})
=============================================================================
