------------------------- MODULE LifecycleRequests -------------------------
(***************************************************************************)
(* The create, rename, delete and restore requests on titles and their     *)
(* models as the statements they run.  Every check (is the name free, is   *)
(* the slug free, what does the delete cascade to, who blocks it) is a     *)
(* query of its own before the write's transaction opens, so requests may  *)
(* overtake each other between a check and the write that relies on it.    *)
(*                                                                         *)
(* A slug is unique in the database, deleted rows included, and names its  *)
(* row.  A name stands for its normalised form.  Claims, actors and limits *)
(* are left to ClaimStore, Lifecycle and RateLimit; models of one title    *)
(* have distinct names, which are checked as title names are.              *)
(***************************************************************************)
EXTENDS Naturals

CONSTANTS
    Titles, Models,     \* slugs
    Names,
    Procs,              \* requests served at the same time
    Ops,                \* kinds of request sent
    MaxRequests         \* bound: requests served in a behaviour

VARIABLES
    titles,             \* slug -> [name, live, checked], of the titles created
    models,             \* slug -> [title, live], of the models created
    reqs,
    served

vars == <<titles, models, reqs, served>>

Kinds == {"createTitle", "renameTitle", "deleteTitle", "restoreTitle",
          "createModel", "deleteModel", "restoreModel"}

Namers == {"createTitle", "renameTitle"}

\* checked (auxiliary): the name was found free, and no request that gives a
\* title a name came in between
Title == [name : Names, live : BOOLEAN, checked : BOOLEAN]

Model == [title : Titles, live : BOOLEAN]

\* overtaken (auxiliary): another request has committed what this one's check
\* was about
Request == [pc : {"idle", "scan", "slug", "walk", "blockers", "write"}, op : Kinds,
            title : Titles, model : Models, name : Names, plan : SUBSET Models,
            overtaken : BOOLEAN]

TypeOK ==
    /\ DOMAIN titles \subseteq Titles /\ titles \in [DOMAIN titles -> Title]
    /\ DOMAIN models \subseteq Models /\ models \in [DOMAIN models -> Model]
    /\ \A m \in DOMAIN models : models[m].title \in DOMAIN titles
    /\ reqs \in [Procs -> Request]
    /\ served \in 0 .. MaxRequests

Idle == [pc |-> "idle", op |-> "createTitle", title |-> CHOOSE t \in Titles : TRUE,
         model |-> CHOOSE m \in Models : TRUE, name |-> CHOOSE n \in Names : TRUE,
         plan |-> {}, overtaken |-> FALSE]

Init ==
    /\ titles = [t \in {} |-> 0]
    /\ models = [m \in {} |-> 0]
    /\ reqs = [p \in Procs |-> Idle]
    /\ served = 0

-----------------------------------------------------------------------------
LiveTitles == {t \in DOMAIN titles : titles[t].live}

LiveModels == {m \in DOMAIN models : models[m].live}

Children(t) == {m \in LiveModels : models[m].title = t}

Becomes(p, q) == reqs' = [reqs EXCEPT ![p] = q]

Refuse(p) == Becomes(p, Idle) /\ UNCHANGED <<titles, models, served>>

\* Request p arrives and does its first step
Begin(p, q) ==
    /\ reqs[p].pc = "idle"
    /\ served < MaxRequests
    /\ q.op \in Ops
    /\ served' = served + 1
    /\ Becomes(p, q)
    /\ UNCHANGED <<titles, models>>

BeginCreateTitle(p, t, n) ==
    Begin(p, [Idle EXCEPT !.pc = "scan", !.op = "createTitle", !.title = t, !.name = n])

BeginRename(p, t, n) ==
    /\ t \in LiveTitles
    /\ Begin(p, [Idle EXCEPT !.pc = "scan", !.op = "renameTitle", !.title = t, !.name = n])

BeginCreateModel(p, m, t) ==
    /\ t \in LiveTitles
    /\ Begin(p, [Idle EXCEPT !.pc = "slug", !.op = "createModel", !.title = t, !.model = m])

BeginDeleteTitle(p, t) ==
    /\ t \in LiveTitles
    /\ Begin(p, [Idle EXCEPT !.pc = "walk", !.op = "deleteTitle", !.title = t])

BeginDeleteModel(p, m) ==
    /\ m \in LiveModels
    /\ Begin(p, [Idle EXCEPT !.pc = "write", !.op = "deleteModel", !.model = m])

BeginRestoreTitle(p, t) ==
    /\ t \in DOMAIN titles \ LiveTitles
    /\ Begin(p, [Idle EXCEPT !.pc = "write", !.op = "restoreTitle", !.title = t])

BeginRestoreModel(p, m) ==
    /\ m \in DOMAIN models \ LiveModels
    /\ Begin(p, [Idle EXCEPT !.pc = "write", !.op = "restoreModel", !.model = m])

-----------------------------------------------------------------------------
\* Mutant: a rename is not checked
TakenOnCreate(p) ==
    reqs[p].op = "createTitle" /\ \E t \in LiveTitles : titles[t].name = reqs[p].name

\* A live title other than the one being renamed has the name
Taken(p) ==
    LET q == reqs[p]
        own == IF q.op = "renameTitle" THEN {q.title} ELSE {}
    IN  \E t \in LiveTitles \ own : titles[t].name = q.name

\* assert_name_available
ScanNames(p) ==
    LET q == reqs[p]
    IN  /\ q.pc = "scan"
        /\ \/ Taken(p) /\ Refuse(p)
           \/ /\ ~Taken(p)
              /\ Becomes(p, [q EXCEPT !.pc = IF q.op = "createTitle" THEN "slug" ELSE "write"])
              /\ UNCHANGED <<titles, models, served>>

SlugExists(p) ==
    \/ reqs[p].op = "createTitle" /\ reqs[p].title \in DOMAIN titles
    \/ reqs[p].op = "createModel" /\ reqs[p].model \in DOMAIN models

\* assert_public_id_available
CheckSlug(p) ==
    /\ reqs[p].pc = "slug"
    /\ \/ SlugExists(p) /\ Refuse(p)
       \/ /\ ~SlugExists(p)
          /\ Becomes(p, [reqs[p] EXCEPT !.pc = "write"])
          /\ UNCHANGED <<titles, models, served>>

\* cascade_targets
Walk(p) ==
    /\ reqs[p].pc = "walk"
    /\ Becomes(p, [reqs[p] EXCEPT !.pc = "blockers", !.plan = Children(reqs[p].title)])
    /\ UNCHANGED <<titles, models, served>>

\* Mutant: the cascade is not checked for referrers it missed
TrustWalk(p) ==
    /\ reqs[p].pc = "blockers"
    /\ Becomes(p, [reqs[p] EXCEPT !.pc = "write"])
    /\ UNCHANGED <<titles, models, served>>

\* _iter_protect_referrers: live models of the title that the walk missed
FindBlockers(p) ==
    LET q == reqs[p]
        missed == Children(q.title) \ q.plan
    IN  /\ q.pc = "blockers"
        /\ \/ missed # {} /\ Refuse(p)
           \/ /\ missed = {}
              /\ Becomes(p, [q EXCEPT !.pc = "write"])
              /\ UNCHANGED <<titles, models, served>>

\* p is done, and has overtaken the requests of the given kinds that still
\* have to write what they checked
Commits(p, kinds) ==
    /\ reqs' = [o \in Procs |->
                  IF o = p THEN Idle
                  ELSE IF reqs[o].op \in kinds /\ reqs[o].pc \in {"slug", "write"}
                       THEN [reqs[o] EXCEPT !.overtaken = TRUE]
                       ELSE reqs[o]]
    /\ UNCHANGED served

\* create_entity_with_claims: the unique slug turns a lost race into a 422
InsertTitle(p) ==
    LET q == reqs[p]
        new == [name |-> q.name, live |-> TRUE, checked |-> ~q.overtaken]
    IN  /\ q.pc = "write" /\ q.op = "createTitle"
        /\ IF q.title \in DOMAIN titles THEN Refuse(p)
           ELSE /\ titles' = [t \in DOMAIN titles \cup {q.title} |->
                                IF t = q.title THEN new ELSE titles[t]]
                /\ Commits(p, Namers)
                /\ UNCHANGED models

InsertModel(p) ==
    LET q == reqs[p]
    IN  /\ q.pc = "write" /\ q.op = "createModel"
        /\ IF q.model \in DOMAIN models THEN Refuse(p)
           ELSE /\ models' = [m \in DOMAIN models \cup {q.model} |->
                                IF m = q.model THEN [title |-> q.title, live |-> TRUE]
                                ELSE models[m]]
                /\ Commits(p, {"deleteTitle"})
                /\ UNCHANGED titles

\* A title that was deleted in the meantime is renamed all the same
WriteName(p) ==
    LET q == reqs[p]
        old == titles[q.title]
    IN  /\ q.pc = "write" /\ q.op = "renameTitle"
        /\ titles' = [titles EXCEPT ![q.title] =
                        [name |-> q.name, live |-> old.live, checked |-> ~q.overtaken]]
        /\ Commits(p, Namers)
        /\ UNCHANGED models

\* execute_soft_delete: the plan made before, in one transaction
DeleteTitle(p) ==
    LET q == reqs[p]
        old == titles[q.title]
    IN  /\ q.pc = "write" /\ q.op = "deleteTitle"
        /\ titles' = [titles EXCEPT ![q.title] =
                        [name |-> old.name, live |-> FALSE, checked |-> old.checked]]
        /\ models' = [m \in DOMAIN models |->
                        [title |-> models[m].title, live |-> models[m].live /\ m \notin q.plan]]
        /\ Commits(p, {"createModel"})

DeleteModel(p) ==
    LET q == reqs[p]
        old == models[q.model]
    IN  /\ q.pc = "write" /\ q.op = "deleteModel"
        /\ models' = [models EXCEPT ![q.model] = [title |-> old.title, live |-> FALSE]]
        /\ Commits(p, {})
        /\ UNCHANGED titles

\* restore_title looks at no other title's name
RestoreTitle(p) ==
    LET q == reqs[p]
        old == titles[q.title]
    IN  /\ q.pc = "write" /\ q.op = "restoreTitle"
        /\ titles' = [titles EXCEPT ![q.title] =
                        [name |-> old.name, live |-> TRUE, checked |-> FALSE]]
        /\ Commits(p, Namers)
        /\ UNCHANGED models

RestoreModel(p) ==
    LET q == reqs[p]
        old == models[q.model]
    IN  /\ q.pc = "write" /\ q.op = "restoreModel"
        /\ models' = [models EXCEPT ![q.model] = [title |-> old.title, live |-> TRUE]]
        /\ Commits(p, {"deleteTitle"})
        /\ UNCHANGED titles

Next ==
    \E p \in Procs :
        \/ \E t \in Titles, n \in Names : BeginCreateTitle(p, t, n) \/ BeginRename(p, t, n)
        \/ \E t \in Titles : BeginDeleteTitle(p, t) \/ BeginRestoreTitle(p, t)
        \/ \E m \in Models, t \in Titles : BeginCreateModel(p, m, t)
        \/ \E m \in Models : BeginDeleteModel(p, m) \/ BeginRestoreModel(p, m)
        \/ ScanNames(p) \/ CheckSlug(p) \/ Walk(p) \/ FindBlockers(p)
        \/ InsertTitle(p) \/ InsertModel(p) \/ WriteName(p)
        \/ DeleteTitle(p) \/ DeleteModel(p) \/ RestoreTitle(p) \/ RestoreModel(p)

Spec == Init /\ [][Next]_vars

-----------------------------------------------------------------------------
\* Two live titles share a name only if one of them was restored, or was named
\* while another title was being named: the check alone lets no duplicate in
\* (assert_name_available, in create_title and patch_title_claims).
CheckedNamesAreDistinct ==
    \A s, t \in LiveTitles :
        s # t /\ titles[s].name = titles[t].name => ~titles[s].checked \/ ~titles[t].checked

Deletes(p, t) ==
    /\ reqs[p].op = "deleteTitle" /\ reqs[p].title = t
    /\ reqs[p].pc = "write" /\ reqs'[p].pc = "idle"

\* A delete that no new or restored model overtook takes all of its title's
\* live models with it, whatever else was deleted meanwhile.
DeleteTakesTree ==
    [][\A p \in Procs, t \in Titles :
          Deletes(p, t) /\ ~reqs[p].overtaken => Children(t)' = {}]_vars

\* A model is created under a live title, unless a delete of the title came in
\* between the look-up and the insert.
ModelsAreBornUnderLiveTitles ==
    [][\A p \in Procs :
          \A m \in DOMAIN models' \ DOMAIN models :
              reqs[p].op = "createModel" /\ reqs[p].pc = "write" /\ reqs'[p].pc = "idle"
                 /\ reqs[p].model = m /\ ~reqs[p].overtaken
              => models'[m].title \in LiveTitles]_vars

\* A delete takes a title's models with it, and no model is born under a title
\* that is gone, whatever other requests commit in between.
TreesStayWhole == DeleteTakesTree /\ ModelsAreBornUnderLiveTitles

\* "create endpoints must reject collisions even when a request bypasses the UI
\* or races another writer" (docs/RecordLifecycle.md): no two live titles share
\* a name.
NamesAreDistinct ==
    \A s, t \in LiveTitles : titles[s].name = titles[t].name => s = t

\* "CASCADE to an independent lifecycle entity: write status = deleted claims
\* for active children in the same ChangeSet" (docs/RecordLifecycle.md): no
\* delete leaves a live model under the title.
DeleteLeavesNoModel ==
    [][\A t \in LiveTitles : t \notin LiveTitles' => Children(t)' = {}]_vars
=============================================================================
