---------------------------- MODULE RequestsProofs ----------------------------
(***************************************************************************)
(* Proofs about requests that overlap (LifecycleRequests, CiteSlugs and    *)
(* RateLimit), then about citations: no source is forked, by whoever cites *)
(* it at once or by a lookup that missed it (CitationSources, Extraction), *)
(* what a patch cites is one instance, behind all that it says             *)
(* (PatchCites), and its sources are only added (SourceSeeding).           *)
(***************************************************************************)
EXTENDS MCRequests, MCCiting, FiniteSetTheorems, SequenceTheorems, NaturalsInduction,
        WellFoundedInduction, TLAPS

\* Idle requests have fields to carry, and the bound is a number.
Bounds == Titles # {} /\ Models # {} /\ Names # {} /\ MaxRequests \in Nat

\* A request keeps looking at rows that exist: none is ever removed.
RowsStay ==
    \A p \in Procs : reqs[p].pc # "idle" =>
        /\ reqs[p].op \in {"renameTitle", "deleteTitle", "restoreTitle", "createModel"}
           => reqs[p].title \in DOMAIN titles
        /\ reqs[p].op \in {"deleteModel", "restoreModel"} => reqs[p].model \in DOMAIN models

\* A live title with the name of request r, which is not the title it renames
Clash(r, t) ==
    /\ t \in LiveTitles
    /\ titles[t].name = r.name
    /\ ~(r.op = "renameTitle" /\ r.title = t)

\* What a naming request that nothing overtook found free is still free.
NamesStayFree ==
    \A p \in Procs :
        reqs[p].pc \in {"slug", "write"} /\ reqs[p].op \in Namers /\ ~reqs[p].overtaken
        => \A t \in Titles : ~Clash(reqs[p], t)

\* Only namings scan names, only creates look for a slug, only deletes walk.
Fits(r) ==
    /\ r.pc = "scan" => r.op \in Namers
    /\ r.pc = "slug" => r.op \in {"createTitle", "createModel"}
    /\ r.pc \in {"walk", "blockers"} => r.op = "deleteTitle"

StagesFit == \A p \in Procs : Fits(reqs[p])

Inv == TypeOK /\ RowsStay /\ StagesFit /\ NamesStayFree /\ CheckedNamesAreDistinct

LEMMA IdleIsRequest == Bounds => Idle \in Request
<1> SUFFICES ASSUME Bounds PROVE Idle \in Request
  OBVIOUS
<1>1. /\ (CHOOSE t \in Titles : TRUE) \in Titles
      /\ (CHOOSE m \in Models : TRUE) \in Models
      /\ (CHOOSE n \in Names : TRUE) \in Names
  BY DEF Bounds
<1> QED
  BY <1>1 DEF Idle, Request, Kinds

LEMMA InitInv == Bounds /\ Init => Inv
<1> SUFFICES ASSUME Bounds, Init PROVE Inv
  OBVIOUS
<1>1. DOMAIN titles = {} /\ DOMAIN models = {}
  BY DEF Init
<1>2. TypeOK
  BY <1>1, IdleIsRequest DEF Init, TypeOK, Bounds
<1>3. RowsStay /\ StagesFit /\ NamesStayFree
  BY DEF Init, Idle, RowsStay, StagesFit, Fits, NamesStayFree
<1>4. CheckedNamesAreDistinct
  BY <1>1 DEF CheckedNamesAreDistinct, LiveTitles
<1> QED
  BY <1>2, <1>3, <1>4 DEF Inv

-----------------------------------------------------------------------------
\* A step that moves one request and changes no row keeps the invariant,
\* provided the request's rows exist and its name, once checked, is free.
LEMMA RequestMoves ==
    ASSUME Inv, NEW p \in Procs, NEW q \in Request, Becomes(p, q),
           UNCHANGED <<titles, models>>, served' \in 0 .. MaxRequests,
           q.pc # "idle" =>
              /\ q.op \in {"renameTitle", "deleteTitle", "restoreTitle", "createModel"}
                 => q.title \in DOMAIN titles
              /\ q.op \in {"deleteModel", "restoreModel"} => q.model \in DOMAIN models,
           Fits(q),
           q.pc \in {"slug", "write"} /\ q.op \in Namers /\ ~q.overtaken
              => \A t \in Titles : ~Clash(q, t)
    PROVE  Inv'
<1>1. \A o \in Procs : reqs'[o] = IF o = p THEN q ELSE reqs[o]
  BY DEF Inv, TypeOK, Becomes
<1>2. TypeOK'
  BY DEF Inv, TypeOK, Becomes
<1>3. RowsStay' /\ StagesFit'
  BY <1>1 DEF Inv, RowsStay, StagesFit, Fits
<1>4. NamesStayFree'
  BY <1>1 DEF Inv, NamesStayFree, Clash, LiveTitles
<1>5. CheckedNamesAreDistinct'
  BY DEF Inv, CheckedNamesAreDistinct, LiveTitles
<1> QED
  BY <1>2, <1>3, <1>4, <1>5 DEF Inv

LEMMA RefuseStep ==
    ASSUME Bounds, Inv, NEW p \in Procs, Refuse(p)
    PROVE  Inv'
<1>1. Idle.pc = "idle"
  BY DEF Idle
<1>2. served' \in 0 .. MaxRequests
  BY DEF Inv, TypeOK, Refuse
<1> QED
  BY <1>1, <1>2, IdleIsRequest, RequestMoves DEF Fits, Refuse

LEMMA BeginSteps ==
    ASSUME Bounds, Inv, NEW p \in Procs,
           \/ \E t \in Titles, n \in Names : BeginCreateTitle(p, t, n) \/ BeginRename(p, t, n)
           \/ \E t \in Titles : BeginDeleteTitle(p, t) \/ BeginRestoreTitle(p, t)
           \/ \E m \in Models, t \in Titles : BeginCreateModel(p, m, t)
           \/ \E m \in Models : BeginDeleteModel(p, m) \/ BeginRestoreModel(p, m)
    PROVE  Inv'
<1>1. Idle \in Request /\ ~Idle.overtaken
  BY IdleIsRequest DEF Idle
<1>2. ASSUME NEW q \in Request, Begin(p, q) PROVE served' \in 0 .. MaxRequests
  BY <1>2 DEF Inv, TypeOK, Begin, Bounds
<1>3. ASSUME NEW t \in Titles, NEW n \in Names, BeginCreateTitle(p, t, n) PROVE Inv'
  <2> DEFINE q == [Idle EXCEPT !.pc = "scan", !.op = "createTitle", !.title = t, !.name = n]
  <2>1. q \in Request /\ q.pc = "scan" /\ q.op = "createTitle"
    BY <1>1 DEF Request, Kinds
  <2>2. Begin(p, q)
    BY <1>3 DEF BeginCreateTitle
  <2> HIDE DEF q
  <2> QED
    BY <1>2, <2>1, <2>2, RequestMoves DEF Fits, Namers, Begin
<1>4. ASSUME NEW t \in Titles, NEW n \in Names, BeginRename(p, t, n) PROVE Inv'
  <2> DEFINE q == [Idle EXCEPT !.pc = "scan", !.op = "renameTitle", !.title = t, !.name = n]
  <2>1. q \in Request /\ q.pc = "scan" /\ q.op = "renameTitle" /\ q.title = t
    BY <1>1 DEF Request, Kinds
  <2>2. Begin(p, q) /\ t \in DOMAIN titles
    BY <1>4 DEF BeginRename, LiveTitles
  <2> HIDE DEF q
  <2> QED
    BY <1>2, <2>1, <2>2, RequestMoves DEF Fits, Namers, Begin
<1>5. ASSUME NEW t \in Titles, BeginDeleteTitle(p, t) PROVE Inv'
  <2> DEFINE q == [Idle EXCEPT !.pc = "walk", !.op = "deleteTitle", !.title = t]
  <2>1. q \in Request /\ q.pc = "walk" /\ q.op = "deleteTitle" /\ q.title = t
    BY <1>1 DEF Request, Kinds
  <2>2. Begin(p, q) /\ t \in DOMAIN titles
    BY <1>5 DEF BeginDeleteTitle, LiveTitles
  <2> HIDE DEF q
  <2> QED
    BY <1>2, <2>1, <2>2, RequestMoves DEF Fits, Namers, Begin
<1>6. ASSUME NEW t \in Titles, BeginRestoreTitle(p, t) PROVE Inv'
  <2> DEFINE q == [Idle EXCEPT !.pc = "write", !.op = "restoreTitle", !.title = t]
  <2>1. q \in Request /\ q.pc = "write" /\ q.op = "restoreTitle" /\ q.title = t
    BY <1>1 DEF Request, Kinds
  <2>2. Begin(p, q) /\ t \in DOMAIN titles
    BY <1>6 DEF BeginRestoreTitle
  <2> HIDE DEF q
  <2> QED
    BY <1>2, <2>1, <2>2, RequestMoves DEF Fits, Begin, Namers
<1>7. ASSUME NEW m \in Models, NEW t \in Titles, BeginCreateModel(p, m, t) PROVE Inv'
  <2> DEFINE q == [Idle EXCEPT !.pc = "slug", !.op = "createModel", !.title = t, !.model = m]
  <2>1. q \in Request /\ q.pc = "slug" /\ q.op = "createModel" /\ q.title = t
    BY <1>1 DEF Request, Kinds
  <2>2. Begin(p, q) /\ t \in DOMAIN titles
    BY <1>7 DEF BeginCreateModel, LiveTitles
  <2> HIDE DEF q
  <2> QED
    BY <1>2, <2>1, <2>2, RequestMoves DEF Fits, Begin, Namers
<1>8. ASSUME NEW m \in Models, BeginDeleteModel(p, m) PROVE Inv'
  <2> DEFINE q == [Idle EXCEPT !.pc = "write", !.op = "deleteModel", !.model = m]
  <2>1. q \in Request /\ q.pc = "write" /\ q.op = "deleteModel" /\ q.model = m
    BY <1>1 DEF Request, Kinds
  <2>2. Begin(p, q) /\ m \in DOMAIN models
    BY <1>8 DEF BeginDeleteModel, LiveModels
  <2> HIDE DEF q
  <2> QED
    BY <1>2, <2>1, <2>2, RequestMoves DEF Fits, Begin, Namers
<1>9. ASSUME NEW m \in Models, BeginRestoreModel(p, m) PROVE Inv'
  <2> DEFINE q == [Idle EXCEPT !.pc = "write", !.op = "restoreModel", !.model = m]
  <2>1. q \in Request /\ q.pc = "write" /\ q.op = "restoreModel" /\ q.model = m
    BY <1>1 DEF Request, Kinds
  <2>2. Begin(p, q) /\ m \in DOMAIN models
    BY <1>9 DEF BeginRestoreModel
  <2> HIDE DEF q
  <2> QED
    BY <1>2, <2>1, <2>2, RequestMoves DEF Fits, Begin, Namers
<1> QED
  BY <1>3, <1>4, <1>5, <1>6, <1>7, <1>8, <1>9

\* The checks between arrival and write: only the scan of the names tells a
\* request something the invariant keeps.
LEMMA CheckSteps ==
    ASSUME Bounds, Inv, NEW p \in Procs,
           ScanNames(p) \/ CheckSlug(p) \/ Walk(p) \/ FindBlockers(p)
    PROVE  Inv'
<1> DEFINE r == reqs[p]
<1>1. r \in Request
  BY DEF Inv, TypeOK
<1>2. served \in 0 .. MaxRequests
  BY DEF Inv, TypeOK
<1>3. CASE ScanNames(p)
  <2> DEFINE q == [r EXCEPT !.pc = IF r.op = "createTitle" THEN "slug" ELSE "write"]
  <2>1. CASE Refuse(p)
    BY <2>1, RefuseStep
  <2>2. CASE ~Taken(p) /\ Becomes(p, q) /\ UNCHANGED <<titles, models, served>>
    <3>1. q \in Request /\ q.op = r.op /\ q.title = r.title /\ q.model = r.model
                        /\ q.name = r.name /\ q.pc \in {"slug", "write"}
                        /\ (q.pc = "slug" => q.op = "createTitle")
      BY <1>1 DEF Request
    <3>2. \A t \in Titles : ~Clash(r, t)
      BY <2>2 DEF Taken, Clash
    <3>3. \A t \in Titles : ~Clash(q, t)
      BY <3>1, <3>2 DEF Clash
    <3>4. r.pc # "idle"
      BY <1>3 DEF ScanNames
    <3> HIDE DEF q
    <3> QED
      BY <1>2, <2>2, <3>1, <3>3, <3>4, RequestMoves DEF Fits, Inv, RowsStay
  <2> QED
    BY <1>3, <2>1, <2>2 DEF ScanNames
<1>4. CASE CheckSlug(p)
  <2> DEFINE q == [r EXCEPT !.pc = "write"]
  <2>1. CASE Refuse(p)
    BY <2>1, RefuseStep
  <2>2. CASE Becomes(p, q) /\ UNCHANGED <<titles, models, served>>
    <3>1. q \in Request /\ q.op = r.op /\ q.title = r.title /\ q.model = r.model
                        /\ q.name = r.name /\ q.overtaken = r.overtaken /\ q.pc = "write"
      BY <1>1 DEF Request
    <3>2. r.pc = "slug"
      BY <1>4 DEF CheckSlug
    <3>3. r.op \in Namers /\ ~r.overtaken => \A t \in Titles : ~Clash(q, t)
      BY <3>1, <3>2 DEF Inv, NamesStayFree, Clash
    <3> HIDE DEF q
    <3> QED
      BY <1>2, <2>2, <3>1, <3>2, <3>3, RequestMoves DEF Fits, Inv, RowsStay
  <2> QED
    BY <1>4, <2>1, <2>2 DEF CheckSlug
<1>5. CASE Walk(p)
  <2> DEFINE q == [r EXCEPT !.pc = "blockers", !.plan = Children(r.title)]
  <2>1. Children(r.title) \subseteq Models
    BY DEF Inv, TypeOK, Children, LiveModels
  <2>2. q \in Request /\ q.pc = "blockers" /\ q.op = r.op /\ q.title = r.title
                      /\ q.model = r.model
    BY <1>1, <2>1 DEF Request
  <2>3. r.pc = "walk" /\ Becomes(p, q) /\ UNCHANGED <<titles, models, served>>
    BY <1>5 DEF Walk
  <2> HIDE DEF q
  <2> QED
    BY <1>2, <2>2, <2>3, RequestMoves DEF Fits, Inv, RowsStay, StagesFit
<1>6. CASE FindBlockers(p)
  <2> DEFINE q == [r EXCEPT !.pc = "write"]
  <2>1. CASE Refuse(p)
    BY <2>1, RefuseStep
  <2>2. CASE Becomes(p, q) /\ UNCHANGED <<titles, models, served>>
    <3>1. q \in Request /\ q.op = r.op /\ q.title = r.title /\ q.model = r.model
                        /\ q.pc = "write"
      BY <1>1 DEF Request
    <3>2. r.pc = "blockers"
      BY <1>6 DEF FindBlockers
    <3>3. r.op \notin Namers
      BY <3>2 DEF Inv, StagesFit, Fits, Namers
    <3> HIDE DEF q
    <3> QED
      BY <1>2, <2>2, <3>1, <3>2, <3>3, RequestMoves DEF Fits, Inv, RowsStay
  <2> QED
    BY <1>6, <2>1, <2>2 DEF FindBlockers
<1> QED
  BY <1>3, <1>4, <1>5, <1>6

-----------------------------------------------------------------------------
\* What a commit by p leaves of the other requests.
LEMMA CommitFacts ==
    ASSUME Bounds, Inv, NEW p \in Procs, NEW kinds, Commits(p, kinds)
    PROVE  /\ reqs' \in [Procs -> Request] /\ served' = served /\ reqs'[p].pc = "idle"
           /\ \A o \in Procs : o # p =>
                 /\ reqs'[o].pc = reqs[o].pc /\ reqs'[o].op = reqs[o].op
                 /\ reqs'[o].title = reqs[o].title /\ reqs'[o].model = reqs[o].model
                 /\ reqs'[o].name = reqs[o].name /\ reqs'[o].plan = reqs[o].plan
                 /\ reqs[o].overtaken => reqs'[o].overtaken
                 /\ reqs[o].op \in kinds /\ reqs[o].pc \in {"slug", "write"} => reqs'[o].overtaken
<1>1. Idle \in Request /\ Idle.pc = "idle"
  BY IdleIsRequest DEF Idle
<1>2. ASSUME NEW o \in Procs, o # p
      PROVE  /\ reqs'[o] \in Request
             /\ reqs'[o].pc = reqs[o].pc /\ reqs'[o].op = reqs[o].op
             /\ reqs'[o].title = reqs[o].title /\ reqs'[o].model = reqs[o].model
             /\ reqs'[o].name = reqs[o].name /\ reqs'[o].plan = reqs[o].plan
             /\ reqs[o].overtaken => reqs'[o].overtaken
             /\ reqs[o].op \in kinds /\ reqs[o].pc \in {"slug", "write"} => reqs'[o].overtaken
  <2> DEFINE q == [reqs[o] EXCEPT !.overtaken = TRUE]
  <2>1. reqs[o] \in Request
    BY DEF Inv, TypeOK
  <2>2. /\ q \in Request /\ q.pc = reqs[o].pc /\ q.op = reqs[o].op /\ q.title = reqs[o].title
        /\ q.model = reqs[o].model /\ q.name = reqs[o].name /\ q.plan = reqs[o].plan /\ q.overtaken
    BY <2>1 DEF Request
  <2>3. reqs'[o] = IF reqs[o].op \in kinds /\ reqs[o].pc \in {"slug", "write"} THEN q ELSE reqs[o]
    BY <1>2 DEF Commits
  <2> HIDE DEF q
  <2> QED
    BY <2>1, <2>2, <2>3
<1>3. reqs' = [o \in Procs |-> reqs'[o]] /\ reqs'[p] = Idle /\ served' = served
  BY DEF Commits
<1>4. reqs' \in [Procs -> Request]
  BY <1>1, <1>2, <1>3
<1> QED
  BY <1>1, <1>2, <1>3, <1>4

\* A commit that removes no row keeps what is said of the requests' rows.
LEMMA CommitKeepsRows ==
    ASSUME Bounds, Inv, NEW p \in Procs, NEW kinds, Commits(p, kinds),
           DOMAIN titles \subseteq DOMAIN titles', DOMAIN models \subseteq DOMAIN models'
    PROVE  RowsStay' /\ StagesFit'
<1>1. RowsStay'
  BY CommitFacts DEF Inv, RowsStay
<1>2. StagesFit'
  BY CommitFacts DEF Inv, StagesFit, Fits
<1> QED
  BY <1>1, <1>2

\* A step that writes row t as new, whose name if checked clashes with no other
\* live title, keeps the checked names distinct.
LEMMA NamingKeepsDistinct ==
    ASSUME Inv, NEW t \in Titles, NEW new \in Title, DOMAIN titles' = DOMAIN titles \cup {t},
           \A s \in DOMAIN titles' : titles'[s] = IF s = t THEN new ELSE titles[s],
           new.checked => \A s \in LiveTitles : s # t => titles[s].name # new.name
    PROVE  CheckedNamesAreDistinct'
<1> SUFFICES ASSUME NEW s \in LiveTitles', NEW u \in LiveTitles', s # u,
                    titles'[s].name = titles'[u].name, titles'[s].checked, titles'[u].checked
             PROVE  FALSE
  BY DEF CheckedNamesAreDistinct
<1>1. CASE s # t /\ u # t
  BY <1>1 DEF Inv, CheckedNamesAreDistinct, LiveTitles
<1>2. CASE s = t
  BY <1>2 DEF LiveTitles
<1>3. CASE u = t
  BY <1>3 DEF LiveTitles
<1> QED
  BY <1>1, <1>2, <1>3

\* A commit that overtakes every naming request leaves none to worry about.
LEMMA NamingOvertakesAll ==
    ASSUME Bounds, Inv, NEW p \in Procs, Commits(p, Namers)
    PROVE  NamesStayFree'
BY CommitFacts DEF NamesStayFree

\* A commit that names no title and brings none to life keeps the rest.
LEMMA OtherCommits ==
    ASSUME Bounds, Inv, NEW p \in Procs, NEW kinds, Commits(p, kinds),
           LiveTitles' \subseteq LiveTitles,
           \A t \in LiveTitles' : titles'[t].name = titles[t].name
                                 /\ titles'[t].checked = titles[t].checked
    PROVE  NamesStayFree' /\ CheckedNamesAreDistinct'
<1>1. NamesStayFree'
  BY CommitFacts DEF Inv, NamesStayFree, Clash
<1>2. CheckedNamesAreDistinct'
  BY DEF Inv, CheckedNamesAreDistinct
<1> QED
  BY <1>1, <1>2

LEMMA InsertTitleStep ==
    ASSUME Bounds, Inv, NEW p \in Procs, InsertTitle(p)
    PROVE  Inv'
<1> DEFINE q == reqs[p]
           t == q.title
           new == [name |-> q.name, live |-> TRUE, checked |-> ~q.overtaken]
<1>1. q \in Request /\ q.pc = "write" /\ q.op = "createTitle"
  BY DEF Inv, TypeOK, InsertTitle
<1>2. CASE Refuse(p)
  BY <1>2, RefuseStep
<1>3. CASE ~Refuse(p)
  <2>1. t \notin DOMAIN titles /\ Commits(p, Namers) /\ UNCHANGED models
    BY <1>3 DEF InsertTitle
  <2>2. titles' = [s \in DOMAIN titles \cup {t} |-> IF s = t THEN new ELSE titles[s]]
    BY <1>3 DEF InsertTitle
  <2>3. t \in Titles /\ new \in Title /\ new.name = q.name /\ new.checked = ~q.overtaken
    BY <1>1 DEF Request, Title
  <2> HIDE DEF new, t
  <2>4. TypeOK'
    BY <2>1, <2>2, <2>3, CommitFacts DEF Inv, TypeOK
  <2>5. RowsStay' /\ StagesFit'
    BY <2>1, <2>2, CommitKeepsRows
  <2>6. NamesStayFree'
    BY <2>1, NamingOvertakesAll
  <2>7. new.checked => \A s \in LiveTitles : s # t => titles[s].name # new.name
    BY <1>1, <2>3 DEF Inv, TypeOK, NamesStayFree, Namers, Clash, LiveTitles
  <2>8. CheckedNamesAreDistinct'
    BY <2>2, <2>3, <2>7, NamingKeepsDistinct
  <2> QED
    BY <2>4, <2>5, <2>6, <2>8 DEF Inv
<1> QED
  BY <1>2, <1>3

\* Renaming and restoring write one existing row.
LEMMA RewriteSteps ==
    ASSUME Bounds, Inv, NEW p \in Procs, WriteName(p) \/ RestoreTitle(p)
    PROVE  Inv'
<1> DEFINE q == reqs[p]
           t == q.title
           old == titles[t]
           named == [name |-> q.name, live |-> old.live, checked |-> ~q.overtaken]
           back == [name |-> old.name, live |-> TRUE, checked |-> FALSE]
           new == IF q.op = "renameTitle" THEN named ELSE back
<1>1. q \in Request /\ q.pc = "write" /\ q.op \in {"renameTitle", "restoreTitle"}
  BY DEF Inv, TypeOK, WriteName, RestoreTitle
<1>2. t \in DOMAIN titles /\ t \in Titles /\ old \in Title
  BY <1>1 DEF Inv, TypeOK, RowsStay
<1>3. named \in Title /\ back \in Title
  BY <1>1, <1>2 DEF Request, Title
<1>4. /\ Commits(p, Namers) /\ UNCHANGED models
      /\ titles' = [titles EXCEPT ![t] = new]
  BY DEF WriteName, RestoreTitle
<1>5. new.checked => q.op = "renameTitle" /\ ~q.overtaken /\ new.name = q.name
  BY DEF WriteName
<1>6. new \in Title
  BY <1>3
<1> HIDE DEF new, t
<1>7. TypeOK'
  BY <1>2, <1>4, <1>6, CommitFacts DEF Inv, TypeOK
<1>8. RowsStay' /\ StagesFit'
  BY <1>4, CommitKeepsRows
<1>9. NamesStayFree'
  BY <1>4, NamingOvertakesAll
<1>10. new.checked => \A s \in LiveTitles : s # t => titles[s].name # new.name
  BY <1>1, <1>5 DEF Inv, TypeOK, NamesStayFree, Namers, Clash, LiveTitles, t
<1>11. CheckedNamesAreDistinct'
  BY <1>2, <1>4, <1>6, <1>10, NamingKeepsDistinct
<1> QED
  BY <1>7, <1>8, <1>9, <1>11 DEF Inv

LEMMA DeleteTitleStep ==
    ASSUME Bounds, Inv, NEW p \in Procs, DeleteTitle(p)
    PROVE  Inv'
<1> DEFINE q == reqs[p]
           t == q.title
           new == [name |-> titles[t].name, live |-> FALSE, checked |-> titles[t].checked]
<1>1. q \in Request /\ q.pc = "write" /\ q.op = "deleteTitle"
  BY DEF Inv, TypeOK, DeleteTitle
<1>2. t \in DOMAIN titles /\ titles[t] \in Title
  BY <1>1 DEF Inv, TypeOK, RowsStay
<1>3. new \in Title /\ ~new.live
  BY <1>2 DEF Title
<1>4. titles' = [titles EXCEPT ![t] = new] /\ Commits(p, {"createModel"})
  BY DEF DeleteTitle
<1>5. models' = [m \in DOMAIN models |->
                    [title |-> models[m].title, live |-> models[m].live /\ m \notin q.plan]]
  BY DEF DeleteTitle
<1> HIDE DEF new, t
<1>6. \A m \in DOMAIN models : models'[m] \in Model /\ models'[m].title = models[m].title
  BY <1>5 DEF Inv, TypeOK, Model
<1>7. DOMAIN models' = DOMAIN models /\ models' \in [DOMAIN models -> Model]
  BY <1>5, <1>6
<1>8. TypeOK'
  BY <1>3, <1>4, <1>6, <1>7, CommitFacts DEF Inv, TypeOK
<1>9. RowsStay' /\ StagesFit'
  BY <1>4, <1>7, CommitKeepsRows
<1>10. \A s \in DOMAIN titles : s # t => titles'[s] = titles[s]
  BY <1>4 DEF Inv, TypeOK
<1>11. t \notin LiveTitles' /\ DOMAIN titles' = DOMAIN titles
  BY <1>2, <1>3, <1>4 DEF LiveTitles
<1>12. NamesStayFree' /\ CheckedNamesAreDistinct'
  BY <1>4, <1>10, <1>11, OtherCommits DEF LiveTitles
<1> QED
  BY <1>8, <1>9, <1>12 DEF Inv

LEMMA ModelSteps ==
    ASSUME Bounds, Inv, NEW p \in Procs, InsertModel(p) \/ DeleteModel(p) \/ RestoreModel(p)
    PROVE  Inv'
<1> DEFINE q == reqs[p]
<1>1. q \in Request /\ q.pc = "write"
  BY DEF Inv, TypeOK, InsertModel, DeleteModel, RestoreModel
<1>2. ASSUME NEW kinds, Commits(p, kinds), UNCHANGED titles, DOMAIN models' \subseteq Models,
             DOMAIN models \subseteq DOMAIN models', models' \in [DOMAIN models' -> Model],
             \A m \in DOMAIN models' : models'[m].title \in DOMAIN titles
      PROVE  Inv'
  <2>1. TypeOK'
    BY <1>2, CommitFacts DEF Inv, TypeOK
  <2>2. RowsStay' /\ StagesFit'
    BY <1>2, CommitKeepsRows
  <2>3. NamesStayFree' /\ CheckedNamesAreDistinct'
    BY <1>2, OtherCommits DEF LiveTitles
  <2> QED
    BY <2>1, <2>2, <2>3 DEF Inv
<1>3. CASE InsertModel(p) /\ Refuse(p)
  BY <1>3, RefuseStep
<1>4. CASE InsertModel(p) /\ ~Refuse(p)
  <2> DEFINE new == [title |-> q.title, live |-> TRUE]
  <2>1. /\ q.title \in DOMAIN titles /\ q.model \in Models
        /\ new \in Model /\ new.title = q.title
    BY <1>1, <1>4 DEF Inv, RowsStay, Request, InsertModel, Model
  <2>2. models' = [m \in DOMAIN models \cup {q.model} |-> IF m = q.model THEN new ELSE models[m]]
    BY <1>4 DEF InsertModel
  <2>3. Commits(p, {"deleteTitle"}) /\ UNCHANGED titles
    BY <1>4 DEF InsertModel
  <2> HIDE DEF new
  <2> QED
    BY <1>2, <2>1, <2>2, <2>3 DEF Inv, TypeOK
<1>5. CASE DeleteModel(p) \/ RestoreModel(p)
  <2> DEFINE old == models[q.model]
             back == q.op = "restoreModel"
             new == [title |-> old.title, live |-> back]
             kinds == IF back THEN {"deleteTitle"} ELSE {}
  <2>1. q.model \in DOMAIN models /\ old \in Model /\ old.title \in DOMAIN titles
    BY <1>1, <1>5 DEF Inv, TypeOK, RowsStay, DeleteModel, RestoreModel
  <2>2. new \in Model /\ new.title \in DOMAIN titles
    BY <2>1 DEF Model
  <2>3. (DeleteModel(p) => ~back) /\ (RestoreModel(p) => back)
    BY DEF DeleteModel, RestoreModel
  <2>4. models' = [models EXCEPT ![q.model] = new]
    BY <1>5, <2>3 DEF DeleteModel, RestoreModel
  <2>5. Commits(p, kinds) /\ UNCHANGED titles
    BY <1>5, <2>3 DEF DeleteModel, RestoreModel
  <2> HIDE DEF new, kinds
  <2> QED
    BY <1>2, <2>1, <2>2, <2>4, <2>5 DEF Inv, TypeOK
<1> QED
  BY <1>3, <1>4, <1>5

-----------------------------------------------------------------------------
LEMMA StepInv == Bounds /\ Inv /\ [Next]_vars => Inv'
<1> SUFFICES ASSUME Bounds, Inv, [Next]_vars PROVE Inv'
  OBVIOUS
<1>1. ASSUME NEW p \in Procs,
           \/ \E t \in Titles, n \in Names : BeginCreateTitle(p, t, n) \/ BeginRename(p, t, n)
           \/ \E t \in Titles : BeginDeleteTitle(p, t) \/ BeginRestoreTitle(p, t)
           \/ \E m \in Models, t \in Titles : BeginCreateModel(p, m, t)
           \/ \E m \in Models : BeginDeleteModel(p, m) \/ BeginRestoreModel(p, m)
      PROVE  Inv'
  BY <1>1, BeginSteps
<1>2. ASSUME NEW p \in Procs, ScanNames(p) \/ CheckSlug(p) \/ Walk(p) \/ FindBlockers(p)
      PROVE  Inv'
  BY <1>2, CheckSteps
<1>3. ASSUME NEW p \in Procs,
             \/ InsertTitle(p) \/ WriteName(p) \/ RestoreTitle(p) \/ DeleteTitle(p)
             \/ InsertModel(p) \/ DeleteModel(p) \/ RestoreModel(p)
      PROVE  Inv'
  BY <1>3, InsertTitleStep, RewriteSteps, DeleteTitleStep, ModelSteps
<1>4. CASE UNCHANGED vars
  BY <1>4 DEF vars, Inv, TypeOK, RowsStay, StagesFit, Fits, NamesStayFree, Clash,
              CheckedNamesAreDistinct, LiveTitles
<1> QED
  BY <1>1, <1>2, <1>3, <1>4 DEF Next

\* Whatever requests run at once, rows and requests keep their shape, and no
\* model or request refers to a row that is not there.
THEOREM RequestsTypeOK == Bounds /\ Spec => []TypeOK
<1> SUFFICES ASSUME Bounds PROVE Spec => []TypeOK
  OBVIOUS
<1>1. Inv => TypeOK
  BY DEF Inv
<1> QED
  BY InitInv, StepInv, <1>1, PTL DEF Spec

\* For any number of titles, names and requests at once: two live titles with
\* one name need a restore, or two namings that overlap (assert_name_available
\* in create_title and patch_title_claims).
THEOREM NamesNeedARace == Bounds /\ Spec => []CheckedNamesAreDistinct
<1> SUFFICES ASSUME Bounds PROVE Spec => []CheckedNamesAreDistinct
  OBVIOUS
<1>1. Inv => CheckedNamesAreDistinct
  BY DEF Inv
<1> QED
  BY InitInv, StepInv, <1>1, PTL DEF Spec
-----------------------------------------------------------------------------
(* Trees: what a delete walked is all there is to delete, and a create's    *)
(* title is there, until another request commits what overtakes them.       *)

\* The plan of a delete about to write has all of its title's live models.
PlanIsWhole(r) ==
    r.op = "deleteTitle" /\ r.pc = "write" /\ ~r.overtaken => Children(r.title) \subseteq r.plan

\* The title of a model about to be created is live.
ParentLives(r) ==
    r.op = "createModel" /\ r.pc \in {"slug", "write"} /\ ~r.overtaken => r.title \in LiveTitles

TreeInv == \A p \in Procs : PlanIsWhole(reqs[p]) /\ ParentLives(reqs[p])

\* A step that moves one request and changes no row.
LEMMA MoveKeepsTrees ==
    ASSUME Inv, TreeInv, NEW p \in Procs, NEW q, Becomes(p, q), UNCHANGED <<titles, models>>,
           PlanIsWhole(q), ParentLives(q)
    PROVE  TreeInv'
<1>1. \A o \in Procs : reqs'[o] = IF o = p THEN q ELSE reqs[o]
  BY DEF Inv, TypeOK, Becomes
<1> QED
  BY <1>1 DEF TreeInv, PlanIsWhole, ParentLives, Children, LiveModels, LiveTitles

\* A commit overtakes the creates unless no title dies, and the deletes unless
\* no model comes to life.
LEMMA CommitKeepsTrees ==
    ASSUME Bounds, Inv, TreeInv, NEW p \in Procs, NEW kinds, Commits(p, kinds),
           "createModel" \in kinds \/ LiveTitles \subseteq LiveTitles',
           \/ "deleteTitle" \in kinds
           \/ \A m \in LiveModels' : m \in LiveModels /\ models'[m].title = models[m].title
    PROVE  TreeInv'
<1> SUFFICES ASSUME NEW o \in Procs PROVE PlanIsWhole(reqs[o])' /\ ParentLives(reqs[o])'
  BY DEF TreeInv
<1>1. CASE o = p
  BY <1>1, CommitFacts DEF PlanIsWhole, ParentLives
<1>2. CASE o # p
  <2>1. /\ reqs'[o].pc = reqs[o].pc /\ reqs'[o].op = reqs[o].op
        /\ reqs'[o].title = reqs[o].title /\ reqs'[o].plan = reqs[o].plan
        /\ reqs[o].overtaken => reqs'[o].overtaken
        /\ reqs[o].op \in kinds /\ reqs[o].pc \in {"slug", "write"} => reqs'[o].overtaken
    BY <1>2, CommitFacts
  <2>2. ParentLives(reqs[o])'
    BY <2>1 DEF TreeInv, ParentLives
  <2>3. PlanIsWhole(reqs[o])'
    BY <2>1 DEF TreeInv, PlanIsWhole, Children
  <2> QED
    BY <2>2, <2>3
<1> QED
  BY <1>1, <1>2

\* An arriving request has planned nothing; a create looked its title up.
LEMMA BeginKeepsTrees ==
    ASSUME Bounds, Inv, TreeInv, NEW p \in Procs,
           \/ \E t \in Titles, n \in Names : BeginCreateTitle(p, t, n) \/ BeginRename(p, t, n)
           \/ \E t \in Titles : BeginDeleteTitle(p, t) \/ BeginRestoreTitle(p, t)
           \/ \E m \in Models, t \in Titles : BeginCreateModel(p, m, t)
           \/ \E m \in Models : BeginDeleteModel(p, m) \/ BeginRestoreModel(p, m)
    PROVE  TreeInv'
<1>1. ASSUME NEW q, Begin(p, q), q.op \notin {"deleteTitle", "createModel"}
      PROVE  TreeInv'
  BY <1>1, MoveKeepsTrees DEF Begin, PlanIsWhole, ParentLives
<1>2. ASSUME NEW t \in Titles, BeginDeleteTitle(p, t) PROVE TreeInv'
  <2> DEFINE q == [Idle EXCEPT !.pc = "walk", !.op = "deleteTitle", !.title = t]
  <2>1. q.op = "deleteTitle" /\ q.pc = "walk"
    BY DEF Idle
  <2>2. Begin(p, q)
    BY <1>2 DEF BeginDeleteTitle
  <2> HIDE DEF q
  <2> QED
    BY <2>1, <2>2, MoveKeepsTrees DEF Begin, PlanIsWhole, ParentLives
<1>3. ASSUME NEW m \in Models, NEW t \in Titles, BeginCreateModel(p, m, t) PROVE TreeInv'
  <2> DEFINE q == [Idle EXCEPT !.pc = "slug", !.op = "createModel", !.title = t, !.model = m]
  <2>1. q.op = "createModel" /\ q.title = t
    BY DEF Idle
  <2>2. Begin(p, q) /\ t \in LiveTitles
    BY <1>3 DEF BeginCreateModel
  <2> HIDE DEF q
  <2> QED
    BY <2>1, <2>2, MoveKeepsTrees DEF Begin, PlanIsWhole, ParentLives
<1>4. ASSUME NEW t \in Titles, NEW n \in Names, BeginCreateTitle(p, t, n) PROVE TreeInv'
  <2> DEFINE q == [Idle EXCEPT !.pc = "scan", !.op = "createTitle", !.title = t, !.name = n]
  <2>1. q.op = "createTitle"
    BY DEF Idle
  <2>2. Begin(p, q)
    BY <1>4 DEF BeginCreateTitle
  <2> HIDE DEF q
  <2> QED
    BY <1>1, <2>1, <2>2
<1>5. ASSUME NEW t \in Titles, NEW n \in Names, BeginRename(p, t, n) PROVE TreeInv'
  <2> DEFINE q == [Idle EXCEPT !.pc = "scan", !.op = "renameTitle", !.title = t, !.name = n]
  <2>1. q.op = "renameTitle"
    BY DEF Idle
  <2>2. Begin(p, q)
    BY <1>5 DEF BeginRename
  <2> HIDE DEF q
  <2> QED
    BY <1>1, <2>1, <2>2
<1>6. ASSUME NEW t \in Titles, BeginRestoreTitle(p, t) PROVE TreeInv'
  <2> DEFINE q == [Idle EXCEPT !.pc = "write", !.op = "restoreTitle", !.title = t]
  <2>1. q.op = "restoreTitle"
    BY DEF Idle
  <2>2. Begin(p, q)
    BY <1>6 DEF BeginRestoreTitle
  <2> HIDE DEF q
  <2> QED
    BY <1>1, <2>1, <2>2
<1>7. ASSUME NEW m \in Models, BeginDeleteModel(p, m) PROVE TreeInv'
  <2> DEFINE q == [Idle EXCEPT !.pc = "write", !.op = "deleteModel", !.model = m]
  <2>1. q.op = "deleteModel"
    BY DEF Idle
  <2>2. Begin(p, q)
    BY <1>7 DEF BeginDeleteModel
  <2> HIDE DEF q
  <2> QED
    BY <1>1, <2>1, <2>2
<1>8. ASSUME NEW m \in Models, BeginRestoreModel(p, m) PROVE TreeInv'
  <2> DEFINE q == [Idle EXCEPT !.pc = "write", !.op = "restoreModel", !.model = m]
  <2>1. q.op = "restoreModel"
    BY DEF Idle
  <2>2. Begin(p, q)
    BY <1>8 DEF BeginRestoreModel
  <2> HIDE DEF q
  <2> QED
    BY <1>1, <2>1, <2>2
<1> QED
  BY <1>2, <1>3, <1>4, <1>5, <1>6, <1>7, <1>8

\* The checks: a delete goes on to write only when the walk missed nothing.
LEMMA ChecksKeepTrees ==
    ASSUME Bounds, Inv, TreeInv, NEW p \in Procs,
           Refuse(p) \/ ScanNames(p) \/ CheckSlug(p) \/ Walk(p) \/ FindBlockers(p)
    PROVE  TreeInv'
<1> DEFINE r == reqs[p]
<1>1. r \in Request /\ PlanIsWhole(r) /\ ParentLives(r)
  BY DEF Inv, TypeOK, TreeInv
<1>2. CASE Refuse(p)
  <2>1. Idle.pc = "idle"
    BY DEF Idle
  <2> QED
    BY <1>2, <2>1, MoveKeepsTrees DEF Refuse, PlanIsWhole, ParentLives
<1>3. CASE ScanNames(p) /\ ~Refuse(p)
  <2> DEFINE q == [r EXCEPT !.pc = IF r.op = "createTitle" THEN "slug" ELSE "write"]
  <2>1. r.pc = "scan" /\ Becomes(p, q) /\ UNCHANGED <<titles, models, served>>
    BY <1>3 DEF ScanNames
  <2>2. q.op = r.op
    BY <1>1 DEF Request
  <2>3. r.op \in Namers
    BY <2>1 DEF Inv, StagesFit, Fits
  <2> HIDE DEF q
  <2> QED
    BY <2>1, <2>2, <2>3, MoveKeepsTrees DEF PlanIsWhole, ParentLives, Namers
<1>4. CASE CheckSlug(p) /\ ~Refuse(p)
  <2> DEFINE q == [r EXCEPT !.pc = "write"]
  <2>1. r.pc = "slug" /\ Becomes(p, q) /\ UNCHANGED <<titles, models, served>>
    BY <1>4 DEF CheckSlug
  <2>2. q.op = r.op /\ q.title = r.title /\ q.overtaken = r.overtaken
    BY <1>1 DEF Request
  <2>3. r.op # "deleteTitle"
    BY <2>1 DEF Inv, StagesFit, Fits
  <2> HIDE DEF q
  <2> QED
    BY <1>1, <2>1, <2>2, <2>3, MoveKeepsTrees DEF PlanIsWhole, ParentLives
<1>5. CASE Walk(p)
  <2> DEFINE q == [r EXCEPT !.pc = "blockers", !.plan = Children(r.title)]
  <2>1. Becomes(p, q) /\ UNCHANGED <<titles, models, served>>
    BY <1>5 DEF Walk
  <2>2. q.pc = "blockers"
    BY <1>1 DEF Request
  <2> HIDE DEF q
  <2> QED
    BY <2>1, <2>2, MoveKeepsTrees DEF PlanIsWhole, ParentLives
<1>6. CASE FindBlockers(p) /\ ~Refuse(p)
  <2> DEFINE q == [r EXCEPT !.pc = "write"]
  <2>1. /\ r.pc = "blockers" /\ Children(r.title) \ r.plan = {}
        /\ Becomes(p, q) /\ UNCHANGED <<titles, models, served>>
    BY <1>6 DEF FindBlockers
  <2>2. q.op = r.op /\ q.title = r.title /\ q.plan = r.plan
    BY <1>1 DEF Request
  <2>3. r.op = "deleteTitle"
    BY <2>1 DEF Inv, StagesFit, Fits
  <2> HIDE DEF q
  <2> QED
    BY <2>1, <2>2, <2>3, MoveKeepsTrees DEF PlanIsWhole, ParentLives
<1> QED
  BY <1>2, <1>3, <1>4, <1>5, <1>6

\* The writes: a model that comes to life overtakes the deletes of titles, a
\* title that dies the creates of models, and a delete leaves nothing it planned.
LEMMA WritesKeepTrees ==
    ASSUME Bounds, Inv, TreeInv, NEW p \in Procs,
           \/ InsertTitle(p) \/ InsertModel(p) \/ WriteName(p)
           \/ DeleteTitle(p) \/ DeleteModel(p) \/ RestoreTitle(p) \/ RestoreModel(p)
    PROVE  TreeInv'
<1> DEFINE q == reqs[p]
<1>1. /\ q.pc = "write" /\ q.op \in {"renameTitle", "deleteTitle", "restoreTitle"}
         => q.title \in DOMAIN titles
      /\ q.pc = "write" /\ q.op \in {"deleteModel", "restoreModel"} => q.model \in DOMAIN models
  BY DEF Inv, RowsStay
<1>2. CASE Refuse(p)
  BY <1>2, ChecksKeepTrees
<1>3. CASE InsertTitle(p) /\ ~Refuse(p)
  <2>1. Commits(p, Namers) /\ UNCHANGED models /\ LiveTitles \subseteq LiveTitles'
    BY <1>3 DEF InsertTitle, LiveTitles
  <2> QED
    BY <2>1, CommitKeepsTrees DEF LiveModels
<1>4. CASE InsertModel(p) /\ ~Refuse(p)
  <2>1. Commits(p, {"deleteTitle"}) /\ UNCHANGED titles
    BY <1>4 DEF InsertModel
  <2> QED
    BY <2>1, CommitKeepsTrees DEF LiveTitles
<1>5. CASE WriteName(p)
  <2>1. Commits(p, Namers) /\ UNCHANGED models /\ LiveTitles \subseteq LiveTitles'
    BY <1>1, <1>5 DEF WriteName, LiveTitles
  <2> QED
    BY <2>1, CommitKeepsTrees DEF LiveModels
<1>6. CASE DeleteTitle(p)
  <2>1. Commits(p, {"createModel"})
    BY <1>6 DEF DeleteTitle
  <2>2. models' = [m \in DOMAIN models |->
                      [title |-> models[m].title, live |-> models[m].live /\ m \notin q.plan]]
    BY <1>6 DEF DeleteTitle
  <2>3. \A m \in LiveModels' : m \in LiveModels /\ models'[m].title = models[m].title
    BY <2>2 DEF LiveModels
  <2> QED
    BY <2>1, <2>3, CommitKeepsTrees
<1>7. CASE DeleteModel(p)
  <2>1. Commits(p, {}) /\ UNCHANGED titles
    BY <1>7 DEF DeleteModel
  <2>2. \A m \in LiveModels' : m \in LiveModels /\ models'[m].title = models[m].title
    BY <1>1, <1>7 DEF DeleteModel, LiveModels
  <2> QED
    BY <2>1, <2>2, CommitKeepsTrees DEF LiveTitles
<1>8. CASE RestoreTitle(p)
  <2>1. Commits(p, Namers) /\ UNCHANGED models /\ LiveTitles \subseteq LiveTitles'
    BY <1>1, <1>8 DEF RestoreTitle, LiveTitles
  <2> QED
    BY <2>1, CommitKeepsTrees DEF LiveModels
<1>9. CASE RestoreModel(p)
  <2>1. Commits(p, {"deleteTitle"}) /\ UNCHANGED titles
    BY <1>9 DEF RestoreModel
  <2> QED
    BY <2>1, CommitKeepsTrees DEF LiveTitles
<1> QED
  BY <1>2, <1>3, <1>4, <1>5, <1>6, <1>7, <1>8, <1>9

LEMMA StepTrees == Bounds /\ Inv /\ TreeInv /\ [Next]_vars => TreeInv'
<1> SUFFICES ASSUME Bounds, Inv, TreeInv, [Next]_vars PROVE TreeInv'
  OBVIOUS
<1>1. CASE UNCHANGED vars
  BY <1>1 DEF vars, TreeInv, PlanIsWhole, ParentLives, Children, LiveModels, LiveTitles
<1> QED
  BY <1>1, BeginKeepsTrees, ChecksKeepTrees, WritesKeepTrees DEF Next

\* Of the requests at their write, only p's own write ends request p.
LEMMA WhoWrites ==
    ASSUME Bounds, Inv, Next, NEW p \in Procs, reqs[p].pc = "write", reqs'[p].pc = "idle"
    PROVE  \/ InsertTitle(p) \/ InsertModel(p) \/ WriteName(p)
           \/ DeleteTitle(p) \/ DeleteModel(p) \/ RestoreTitle(p) \/ RestoreModel(p)
<1>1. ASSUME NEW o \in Procs, o # p, NEW q, Becomes(o, q) PROVE FALSE
  BY <1>1 DEF Inv, TypeOK, Becomes
<1>2. ASSUME NEW o \in Procs, o # p, NEW kinds, Commits(o, kinds) PROVE FALSE
  BY <1>2, CommitFacts, SMTT(60)
<1>3. ASSUME NEW o \in Procs,
             \/ \E t \in Titles, n \in Names : BeginCreateTitle(o, t, n) \/ BeginRename(o, t, n)
             \/ \E t \in Titles : BeginDeleteTitle(o, t) \/ BeginRestoreTitle(o, t)
             \/ \E m \in Models, t \in Titles : BeginCreateModel(o, m, t)
             \/ \E m \in Models : BeginDeleteModel(o, m) \/ BeginRestoreModel(o, m)
      PROVE  reqs[o].pc = "idle" /\ \E q : Becomes(o, q)
  BY <1>3 DEF Begin, BeginCreateTitle, BeginRename, BeginDeleteTitle, BeginRestoreTitle,
              BeginCreateModel, BeginDeleteModel, BeginRestoreModel
<1>4. ASSUME NEW o \in Procs, ScanNames(o) \/ CheckSlug(o) \/ Walk(o) \/ FindBlockers(o)
      PROVE  reqs[o].pc # "write" /\ \E q : Becomes(o, q)
  BY <1>4 DEF ScanNames, CheckSlug, Walk, FindBlockers, Refuse
<1>5. ASSUME NEW o \in Procs, o # p,
             \/ InsertTitle(o) \/ InsertModel(o) \/ WriteName(o)
             \/ DeleteTitle(o) \/ DeleteModel(o) \/ RestoreTitle(o) \/ RestoreModel(o)
      PROVE  FALSE
  BY <1>1, <1>2, <1>5 DEF InsertTitle, InsertModel, WriteName, DeleteTitle, DeleteModel,
                          RestoreTitle, RestoreModel, Refuse
<1> QED
  BY <1>1, <1>3, <1>4, <1>5 DEF Next

\* One step's part of DeleteTakesTree, and of ModelsAreBornUnderLiveTitles
TreeTaken ==
    \A p \in Procs, t \in Titles : Deletes(p, t) /\ ~reqs[p].overtaken => Children(t)' = {}

BornUnderLive ==
    \A p \in Procs : \A m \in DOMAIN models' \ DOMAIN models :
        reqs[p].op = "createModel" /\ reqs[p].pc = "write" /\ reqs'[p].pc = "idle"
           /\ reqs[p].model = m /\ ~reqs[p].overtaken
        => models'[m].title \in LiveTitles

\* Whatever other requests commit in between: a delete that nothing overtook
\* leaves no live model under its title, and a model whose create no delete
\* overtook is born under a live title.
THEOREM TreesAreWhole == Bounds /\ Spec => TreesStayWhole
<1> SUFFICES ASSUME Bounds PROVE Spec => TreesStayWhole
  OBVIOUS
<1>1. Init => TreeInv
  <2>1. Idle.pc = "idle"
    BY DEF Idle
  <2> QED
    BY <2>1 DEF Init, TreeInv, PlanIsWhole, ParentLives
<1>2. Inv /\ TreeInv /\ [Next]_vars => [TreeTaken]_vars
  <2> SUFFICES ASSUME Inv, TreeInv, Next, NEW p \in Procs, NEW t \in Titles,
                      Deletes(p, t), ~reqs[p].overtaken
               PROVE  Children(t)' = {}
    BY DEF TreeTaken
  <2>1. DeleteTitle(p)
    BY WhoWrites DEF Deletes, InsertTitle, InsertModel, WriteName, DeleteModel, RestoreTitle,
                     RestoreModel
  <2>2. models' = [m \in DOMAIN models |->
                      [title |-> models[m].title,
                       live |-> models[m].live /\ m \notin reqs[p].plan]]
    BY <2>1 DEF DeleteTitle
  <2>3. Children(t) \subseteq reqs[p].plan
    BY DEF Deletes, TreeInv, PlanIsWhole
  <2> QED
    BY <2>2, <2>3 DEF Children, LiveModels
<1>3. Inv /\ TreeInv /\ [Next]_vars => [BornUnderLive]_vars
  <2> SUFFICES ASSUME Inv, TreeInv, Next, NEW p \in Procs,
                      NEW m \in DOMAIN models' \ DOMAIN models,
                      reqs[p].op = "createModel", reqs[p].pc = "write", reqs'[p].pc = "idle",
                      reqs[p].model = m, ~reqs[p].overtaken
               PROVE  models'[m].title \in LiveTitles
    BY DEF BornUnderLive
  <2>1. InsertModel(p) /\ ~Refuse(p)
    BY WhoWrites DEF InsertTitle, WriteName, DeleteTitle, DeleteModel, RestoreTitle,
                     RestoreModel, Refuse
  <2>2. models'[m] = [title |-> reqs[p].title, live |-> TRUE]
    BY <2>1 DEF InsertModel
  <2> QED
    BY <2>2 DEF TreeInv, ParentLives
<1>4. Inv /\ TreeInv /\ [Next]_vars => TreeInv'
  BY StepTrees
<1> QED
  BY InitInv, StepInv, <1>1, <1>2, <1>3, <1>4, PTL
     DEF Spec, TreesStayWhole, DeleteTakesTree, ModelsAreBornUnderLiveTitles, TreeTaken, BornUnderLive

-----------------------------------------------------------------------------
(***************************************************************************)
(* The slugs of citations, for every set of slugs, users and workers and   *)
(* every number of requests, through an instance of CiteSlugs whose        *)
(* variables this module declares.                                         *)
(*                                                                         *)
(* CiteInv is inductive.  Three things carry it: the row locks on the      *)
(* reservations a save consumes (CitesApart), the unique index an          *)
(* uncommitted insert already holds (fresh slugs are nobody else's), and,  *)
(* for a request that nothing overlapped, that what it looked up in the    *)
(* other table is still so when it writes (SoloLooks).                     *)
(***************************************************************************)
\* The save r has locked its reservations
Consumes(r) == r.pc \in {"mint", "evidence", "attach"} \/ (r.pc = "commit" /\ r.user # Loader)

\* What a request r knows of the reservations R and the instances I, none of
\* which others can change while it holds its locks
CiteOk(R, I, r) ==
    /\ r.pc # "idle" => r.no # 0
    /\ r.fresh \cap DOMAIN I = {}
    /\ r.fresh # {} => r.pc \in {"evidence", "attach", "commit"}
    /\ r.specs # {} => r.pc \in {"plan", "lock"} \/ Consumes(r)
    /\ r.pc \in {"lock", "mint", "evidence", "attach", "commit"} =>
          r.stored \subseteq DOMAIN I /\ r.text \subseteq r.stored \cup r.specs
    /\ Consumes(r) => r.user \in Users /\ \A s \in r.specs : s \in DOMAIN R /\ R[s] = r.user
    /\ Consumes(r) /\ r.pc # "mint" => r.specs \subseteq r.text /\ r.specs \subseteq r.fresh
    /\ r.pc \in {"draw", "insert", "plan", "lock"} => r.user \in Users
    /\ r.pc \in {"draw", "insert", "draw all", "insert all"} =>
          r.specs = {} /\ r.text = {} /\ r.stored = {}
    /\ r.pc \in {"draw all", "insert all"} => r.user = Loader

\* Two requests neither consume one reservation nor insert under one slug
CitesApart(r, q) ==
    /\ r.fresh \cap q.fresh = {}
    /\ Consumes(r) /\ Consumes(q) => r.specs \cap q.specs = {}

\* A request nothing overlapped has looked at the other table, and its look is
\* still true
SoloLooks(R, I, r) ==
    /\ r.pc = "insert" => r.slug \notin DOMAIN I
    /\ r.pc = "attach" => r.slug \notin DOMAIN R \ r.specs
    /\ r.pc = "insert all" => r.slug \notin DOMAIN R
    /\ r.pc = "mint" => r.fresh = {}
    /\ r.pc \in {"evidence", "attach"} => r.fresh = r.specs
    /\ r.pc = "commit" => (r.fresh \ r.specs) \cap DOMAIN R = {}

CiteInv ==
    /\ Cite!TypeOK
    /\ \A w \in Procs : CiteOk(reserved, instances, work[w])
    /\ \A v, w \in Procs : v # w => CitesApart(work[v], work[w])
    /\ \A v, w \in Procs : v # w /\ work[w].solo => work[v].pc = "idle"
    /\ \A w \in Procs : work[w].solo => SoloLooks(reserved, instances, work[w])
    /\ Cite!TextAndInstancesAgree
    /\ Cite!ConsumedOnce

\* The invariant after a step, part by part.
LEMMA CiteInvNext ==
    ASSUME Cite!TypeOK',
           \A v \in Procs : CiteOk(reserved', instances', work'[v]),
           \A u, v \in Procs : u # v => CitesApart(work'[u], work'[v]),
           \A u, v \in Procs : u # v /\ work'[v].solo => work'[u].pc = "idle",
           \A v \in Procs : work'[v].solo => SoloLooks(reserved', instances', work'[v]),
           Cite!TextAndInstancesAgree', Cite!ConsumedOnce'
    PROVE  CiteInv'
BY DEF CiteInv

\* What is left to show of one worker's step: a request that nothing overlapped
\* is the only one, so no other worker's step can change what it has looked at.
LEMMA CiteStepKeeps ==
    ASSUME CiteInv, NEW w \in Procs, work[w].pc # "idle", NEW r \in Cite!Request,
           work' = [work EXCEPT ![w] = r], begun' = begun,
           DOMAIN reserved' \subseteq Slugs, \A s \in DOMAIN reserved' : reserved'[s] \in Users,
           DOMAIN instances' \subseteq Slugs,
           \A s \in DOMAIN instances' : instances'[s] \in Users \cup {Loader},
           log' \subseteq [no : 1 .. MaxMints, user : Users, specs : SUBSET Slugs, cites : SUBSET Slugs],
           CiteOk(reserved', instances', r),
           \A v \in Procs \ {w} : CiteOk(reserved', instances', work[v]),
           \A v \in Procs \ {w} : CitesApart(r, work[v]),
           r.solo => work[w].solo /\ SoloLooks(reserved', instances', r),
           Cite!TextAndInstancesAgree', Cite!ConsumedOnce'
    PROVE  CiteInv'
<1>1. /\ work' \in [Procs -> Cite!Request] /\ work'[w] = r
      /\ \A v \in Procs \ {w} : work'[v] = work[v]
  BY DEF CiteInv, Cite!TypeOK
<1>2. Cite!TypeOK'
  BY <1>1 DEF CiteInv, Cite!TypeOK
<1>3. \A v \in Procs : CiteOk(reserved', instances', work'[v])
  BY <1>1
<1>4. \A u, v \in Procs : u # v => CitesApart(work'[u], work'[v])
  <2>1. \A x, y : CitesApart(x, y) => CitesApart(y, x)
    BY DEF CitesApart
  <2>2. \A u, v \in Procs : u # v => CitesApart(work[u], work[v])
    BY DEF CiteInv
  <2> QED
    BY <1>1, <2>1, <2>2
<1>5. \A v \in Procs \ {w} : ~work[v].solo
  BY DEF CiteInv
<1>6. \A u, v \in Procs : u # v /\ work'[v].solo => work'[u].pc = "idle"
  BY <1>1, <1>5 DEF CiteInv
<1>7. \A v \in Procs : work'[v].solo => SoloLooks(reserved', instances', work'[v])
  BY <1>1, <1>5
<1> QED
  BY <1>2, <1>3, <1>4, <1>6, <1>7, CiteInvNext

\* A step that changes nothing but the worker's own request.
LEMMA OwnStep ==
    ASSUME CiteInv, NEW w \in Procs, work[w].pc # "idle", NEW r \in Cite!Request,
           work' = [work EXCEPT ![w] = r], UNCHANGED <<reserved, instances, log, begun>>,
           CiteOk(reserved, instances, r), r.solo => work[w].solo,
           r.solo => SoloLooks(reserved, instances, r),
           \A v \in Procs \ {w} : CitesApart(r, work[v])
    PROVE  CiteInv'
<1>1. Cite!TextAndInstancesAgree' /\ Cite!ConsumedOnce'
  BY DEF CiteInv, Cite!TextAndInstancesAgree, Cite!ConsumedOnce
<1>2. /\ DOMAIN reserved' \subseteq Slugs /\ \A s \in DOMAIN reserved' : reserved'[s] \in Users
      /\ DOMAIN instances' \subseteq Slugs
      /\ \A s \in DOMAIN instances' : instances'[s] \in Users \cup {Loader}
      /\ log' \subseteq [no : 1 .. MaxMints, user : Users, specs : SUBSET Slugs, cites : SUBSET Slugs]
  BY DEF CiteInv, Cite!TypeOK
<1>3. \A v \in Procs : CiteOk(reserved, instances, work[v])
  BY DEF CiteInv
<1>4. reserved' = reserved /\ instances' = instances /\ begun' = begun
  OBVIOUS
<1>5. /\ CiteOk(reserved', instances', r)
      /\ \A v \in Procs \ {w} : CiteOk(reserved', instances', work[v])
      /\ r.solo => work[w].solo /\ SoloLooks(reserved', instances', r)
  BY <1>3, <1>4
<1> QED
  BY <1>1, <1>2, <1>4, <1>5, CiteStepKeeps

LEMMA NextInRange ==
    ASSUME NEW m \in Nat, NEW n \in 0 .. m, n < m
    PROVE  n + 1 \in 0 .. m /\ n + 1 # 0
OBVIOUS

LEMMA NextTry ==
    ASSUME NEW m \in Nat \ {0}, NEW n \in 0 .. m - 1, n + 1 # m
    PROVE  n + 1 \in 0 .. m - 1
OBVIOUS

LEMMA CiteIdle == Cite!CiteAssumption => Cite!Idle \in Cite!Request
BY DEF Cite!CiteAssumption, Cite!Idle, Cite!Request, Cite!Pcs

LEMMA FailStep ==
    ASSUME Cite!CiteAssumption, CiteInv, NEW w \in Procs, Cite!Fail(w)
    PROVE  CiteInv'
<1>1. CiteOk(reserved, instances, Cite!Idle) /\ ~Cite!Idle.solo
  BY DEF CiteOk, Consumes, Cite!Idle
<1>2. \A v \in Procs \ {w} : CitesApart(Cite!Idle, work[v])
  BY DEF CitesApart, Consumes, Cite!Idle
<1> QED
  BY <1>1, <1>2, CiteIdle, OwnStep DEF Cite!Fail, Cite!Goto

\* A draw is tried again in the request's own place.
LEMMA RetryStep ==
    ASSUME Cite!CiteAssumption, CiteInv, NEW w \in Procs, NEW pc, Cite!Retry(w, pc),
           \/ work[w].pc \in {"draw", "insert"} /\ pc = "draw"
           \/ work[w].pc = "evidence" /\ pc = "evidence"
           \/ work[w].pc \in {"draw all", "insert all"} /\ pc = "draw all"
    PROVE  CiteInv'
<1>1. CASE Cite!Fail(w)
  BY <1>1, FailStep
<1>2. CASE ~Cite!Fail(w)
  <2> DEFINE q == work[w]
             r == [q EXCEPT !.pc = pc, !.tries = q.tries + 1]
  <2>1. /\ q \in Cite!Request /\ q.tries + 1 # MaxAttempts
        /\ work' = [work EXCEPT ![w] = r] /\ UNCHANGED <<reserved, instances, log, begun>>
    BY <1>2 DEF Cite!Retry, Cite!Goto, CiteInv, Cite!TypeOK
  <2>2. r \in Cite!Request /\ q.pc # "idle"
    <3>1. q.tries + 1 \in 0 .. MaxAttempts - 1
      <4>1. q.tries \in 0 .. MaxAttempts - 1 /\ MaxAttempts \in Nat \ {0}
        BY <2>1 DEF Cite!Request, Cite!CiteAssumption
      <4> QED
        BY <2>1, <4>1, NextTry
    <3>2. pc \in Cite!Pcs /\ q.pc # "idle"
      BY DEF Cite!Pcs
    <3> QED
      BY <2>1, <3>1, <3>2 DEF Cite!Request
  <2>3. /\ r.pc = pc /\ r.fresh = q.fresh /\ r.specs = q.specs /\ r.text = q.text
        /\ r.stored = q.stored /\ r.user = q.user /\ r.solo = q.solo /\ r.no = q.no
    BY <2>1 DEF Cite!Request
  <2> HIDE DEF r
  <2>4. CiteOk(reserved, instances, q) /\ (q.solo => SoloLooks(reserved, instances, q))
    BY DEF CiteInv
  <2>5. CiteOk(reserved, instances, r) /\ (r.solo => SoloLooks(reserved, instances, r))
    BY <2>3, <2>4 DEF CiteOk, Consumes, SoloLooks
  <2>6. \A v \in Procs \ {w} : CitesApart(r, work[v])
    BY <2>3 DEF CiteInv, CitesApart, Consumes
  <2> QED
    BY <2>1, <2>2, <2>3, <2>5, <2>6, OwnStep
<1> QED
  BY <1>1, <1>2

-----------------------------------------------------------------------------
LEMMA BeginStep ==
    ASSUME Cite!CiteAssumption, CiteInv, NEW w \in Procs, NEW r \in Cite!Request,
           r.pc \in {"draw", "plan", "draw all"}, r.fresh = {}, r.stored = {},
           r.pc # "draw all" => r.user \in Users,
           r.pc # "plan" => r.specs = {} /\ r.text = {},
           r.pc = "draw all" => r.user = Loader,
           Cite!Begin(w, r)
    PROVE  CiteInv'
<1> DEFINE alone == \A v \in Procs \ {w} : work[v].pc = "idle"
           q == [r EXCEPT !.no = begun + 1, !.solo = alone]
<1>1. /\ work[w].pc = "idle" /\ begun < MaxMints /\ begun' = begun + 1
      /\ work' = [v \in Procs |-> IF v = w THEN q ELSE [work[v] EXCEPT !.solo = FALSE]]
      /\ UNCHANGED <<reserved, instances, log>>
  BY DEF Cite!Begin
<1>2. begun \in 0 .. MaxMints /\ MaxMints \in Nat /\ work \in [Procs -> Cite!Request]
  BY DEF CiteInv, Cite!TypeOK, Cite!CiteAssumption
<1>3. begun' \in 0 .. MaxMints
  <2>1. begun < MaxMints /\ begun' = begun + 1
    BY <1>1
  <2> QED
    BY <1>2, <2>1, NextInRange
<1>4. alone \in BOOLEAN
  OBVIOUS
<1>5. /\ q \in Cite!Request /\ q.pc = r.pc /\ q.fresh = {} /\ q.specs = r.specs
      /\ q.text = r.text /\ q.stored = {} /\ q.user = r.user /\ q.solo = alone
      /\ q.no = begun + 1
  <2>1. begun + 1 \in 0 .. MaxMints
    BY <1>1, <1>3
  <2> HIDE DEF alone
  <2> QED
    BY <1>4, <2>1 DEF Cite!Request
<1>6. \A v \in Procs \ {w} :
         /\ work'[v] \in Cite!Request /\ ~work'[v].solo
         /\ work'[v].pc = work[v].pc /\ work'[v].fresh = work[v].fresh
         /\ work'[v].specs = work[v].specs /\ work'[v].text = work[v].text
         /\ work'[v].stored = work[v].stored /\ work'[v].user = work[v].user
         /\ work'[v].no = work[v].no
  <2> SUFFICES ASSUME NEW v \in Procs \ {w}
               PROVE  LET x == [work[v] EXCEPT !.solo = FALSE]
                      IN  /\ x \in Cite!Request /\ ~x.solo
                          /\ x.pc = work[v].pc /\ x.fresh = work[v].fresh
                          /\ x.specs = work[v].specs /\ x.text = work[v].text
                          /\ x.stored = work[v].stored /\ x.user = work[v].user
                          /\ x.no = work[v].no
    BY <1>1
  <2> QED
    BY <1>2 DEF Cite!Request
<1>7. work'[w] = q
  BY <1>1
<1> HIDE DEF q
<1>8. Cite!TypeOK'
  <2>1. \A v \in Procs : work'[v] \in Cite!Request
    BY <1>5, <1>6, <1>7
  <2>2. work' \in [Procs -> Cite!Request]
    BY <1>1, <2>1
  <2> QED
    BY <1>1, <1>3, <2>2 DEF CiteInv, Cite!TypeOK
<1>9. \A v \in Procs : CiteOk(reserved, instances, work'[v])
  <2>1. CiteOk(reserved, instances, q)
    <3>1. begun + 1 # 0
      BY <1>1, <1>2, NextInRange
    <3> QED
      BY <1>5, <3>1 DEF CiteOk, Consumes
  <2>2. ASSUME NEW v \in Procs \ {w} PROVE CiteOk(reserved, instances, work'[v])
    <3>1. CiteOk(reserved, instances, work[v])
      BY DEF CiteInv
    <3> QED
      BY <1>6, <3>1 DEF CiteOk, Consumes
  <2> QED
    BY <1>7, <2>1, <2>2
<1>10. \A u, v \in Procs : u # v => CitesApart(work'[u], work'[v])
  <2>1. \A u, v \in Procs \ {w} : u # v => CitesApart(work'[u], work'[v])
    <3> SUFFICES ASSUME NEW u \in Procs \ {w}, NEW v \in Procs \ {w}, u # v
                 PROVE  CitesApart(work'[u], work'[v])
      OBVIOUS
    <3>1. CitesApart(work[u], work[v])
      BY DEF CiteInv
    <3> QED
      BY <1>6, <3>1 DEF CitesApart, Consumes
  <2>2. \A x : CitesApart(q, x) /\ CitesApart(x, q)
    BY <1>5 DEF CitesApart, Consumes
  <2> QED
    BY <1>7, <2>1, <2>2
<1>11. \A u, v \in Procs : u # v /\ work'[v].solo => work'[u].pc = "idle"
  BY <1>5, <1>6, <1>7, ZenonT(60)
<1>12. \A v \in Procs : work'[v].solo => SoloLooks(reserved, instances, work'[v])
  BY <1>5, <1>6, <1>7 DEF SoloLooks
<1>13. Cite!TextAndInstancesAgree' /\ Cite!ConsumedOnce'
  BY <1>1 DEF CiteInv, Cite!TextAndInstancesAgree, Cite!ConsumedOnce
<1> QED
  BY <1>1, <1>8, <1>9, <1>10, <1>11, <1>12, <1>13, CiteInvNext

-----------------------------------------------------------------------------
\* What CiteInv says of one worker
LEMMA WorkerFacts ==
    ASSUME CiteInv, NEW w \in Procs
    PROVE  /\ work[w] \in Cite!Request /\ CiteOk(reserved, instances, work[w])
           /\ work[w].solo => SoloLooks(reserved, instances, work[w])
           /\ \A v \in Procs \ {w} : CitesApart(work[w], work[v])
BY DEF CiteInv, Cite!TypeOK

\* A step of a reserving request, or of a batch, that takes nothing of others'.
LEMMA DrawStep ==
    ASSUME Cite!CiteAssumption, CiteInv, NEW w \in Procs, Cite!Draw(w)
    PROVE  CiteInv'
<1>1. work[w].pc = "draw"
  BY DEF Cite!Draw
<1>2. CASE Cite!Retry(w, "draw")
  BY <1>1, <1>2, RetryStep
<1>3. CASE ~Cite!Retry(w, "draw")
  <2> DEFINE q == work[w]
  <2>1. PICK s \in Slugs :
           /\ s \notin DOMAIN instances
           /\ work' = [work EXCEPT ![w] = [q EXCEPT !.pc = "insert", !.slug = s]]
           /\ UNCHANGED <<reserved, instances, log, begun>>
    BY <1>3 DEF Cite!Draw, Cite!Goto
  <2> DEFINE r == [q EXCEPT !.pc = "insert", !.slug = s]
  <2>2. /\ r \in Cite!Request /\ r.pc = "insert" /\ r.slug = s /\ r.fresh = q.fresh
        /\ r.specs = q.specs /\ r.text = q.text /\ r.stored = q.stored /\ r.user = q.user
        /\ r.solo = q.solo /\ r.no = q.no
    BY WorkerFacts DEF Cite!Request, Cite!Pcs
  <2>3. work' = [work EXCEPT ![w] = r]
    BY <2>1
  <2> HIDE DEF r
  <2>4. CiteOk(reserved, instances, r)
    BY <1>1, <2>2, WorkerFacts DEF CiteOk, Consumes
  <2>5. \A v \in Procs \ {w} : CitesApart(r, work[v])
    BY <1>1, <2>2, WorkerFacts DEF CitesApart, Consumes
  <2>6. r.solo => SoloLooks(reserved, instances, r)
    BY <2>1, <2>2 DEF SoloLooks
  <2> QED
    BY <1>1, <2>1, <2>2, <2>3, <2>4, <2>5, <2>6, OwnStep
<1> QED
  BY <1>2, <1>3

LEMMA DrawBatchStep ==
    ASSUME Cite!CiteAssumption, CiteInv, NEW w \in Procs, Cite!DrawBatch(w)
    PROVE  CiteInv'
<1>1. work[w].pc = "draw all"
  BY DEF Cite!DrawBatch
<1>2. CASE Cite!Retry(w, "draw all")
  BY <1>1, <1>2, RetryStep
<1>3. CASE ~Cite!Retry(w, "draw all")
  <2> DEFINE q == work[w]
  <2>1. PICK s \in Slugs :
           /\ s \notin DOMAIN reserved
           /\ work' = [work EXCEPT ![w] = [q EXCEPT !.pc = "insert all", !.slug = s]]
           /\ UNCHANGED <<reserved, instances, log, begun>>
    BY <1>3 DEF Cite!DrawBatch, Cite!Goto
  <2> DEFINE r == [q EXCEPT !.pc = "insert all", !.slug = s]
  <2>2. /\ r \in Cite!Request /\ r.pc = "insert all" /\ r.slug = s /\ r.fresh = q.fresh
        /\ r.specs = q.specs /\ r.text = q.text /\ r.stored = q.stored /\ r.user = q.user
        /\ r.solo = q.solo /\ r.no = q.no
    BY WorkerFacts DEF Cite!Request, Cite!Pcs
  <2>3. work' = [work EXCEPT ![w] = r]
    BY <2>1
  <2> HIDE DEF r
  <2>4. CiteOk(reserved, instances, r)
    BY <1>1, <2>2, WorkerFacts DEF CiteOk, Consumes
  <2>5. \A v \in Procs \ {w} : CitesApart(r, work[v])
    BY <1>1, <2>2, WorkerFacts DEF CitesApart, Consumes
  <2>6. r.solo => SoloLooks(reserved, instances, r)
    BY <2>1, <2>2 DEF SoloLooks
  <2> QED
    BY <1>1, <2>1, <2>2, <2>3, <2>4, <2>5, <2>6, OwnStep
<1> QED
  BY <1>2, <1>3

\* The batch is inserted under a slug that no uncommitted insert holds.
LEMMA InsertBatchStep ==
    ASSUME Cite!CiteAssumption, CiteInv, NEW w \in Procs, Cite!InsertBatch(w)
    PROVE  CiteInv'
<1>1. work[w].pc = "insert all"
  BY DEF Cite!InsertBatch
<1>2. CASE Cite!Retry(w, "draw all")
  BY <1>1, <1>2, RetryStep
<1>3. CASE ~Cite!Retry(w, "draw all")
  <2> DEFINE q == work[w]
             r == [q EXCEPT !.pc = "commit", !.fresh = {q.slug}]
  <2>1. /\ q.slug \notin DOMAIN instances /\ work' = [work EXCEPT ![w] = r]
        /\ \A v \in Procs \ {w} : q.slug \notin work[v].fresh
        /\ UNCHANGED <<reserved, instances, log, begun>>
    BY <1>3 DEF Cite!InsertBatch, Cite!Goto, Cite!Minting
  <2>2. /\ r \in Cite!Request /\ r.pc = "commit" /\ r.fresh = {q.slug}
        /\ r.specs = q.specs /\ r.text = q.text /\ r.stored = q.stored /\ r.user = q.user
        /\ r.solo = q.solo /\ r.no = q.no
    <3>1. q \in Cite!Request /\ q.slug \in Slugs /\ {q.slug} \in SUBSET Slugs
      BY WorkerFacts DEF Cite!Request
    <3>2. "commit" \in Cite!Pcs
      BY DEF Cite!Pcs
    <3> QED
      BY <3>1, <3>2 DEF Cite!Request
  <2> HIDE DEF r
  <2>3. q.specs = {} /\ q.text = {} /\ q.stored = {} /\ q.user = Loader /\ Loader \notin Users
        /\ q.no # 0
    BY <1>1, WorkerFacts DEF CiteOk, Cite!CiteAssumption
  <2>4. CiteOk(reserved, instances, r)
    BY <2>1, <2>2, <2>3 DEF CiteOk, Consumes
  <2>5. \A v \in Procs \ {w} : CitesApart(r, work[v])
    BY <2>1, <2>2, <2>3 DEF CitesApart, Consumes
  <2>6. r.solo => SoloLooks(reserved, instances, r)
    BY <1>1, <2>2, WorkerFacts DEF SoloLooks
  <2> QED
    BY <1>1, <2>1, <2>2, <2>4, <2>5, <2>6, OwnStep
<1> QED
  BY <1>2, <1>3

-----------------------------------------------------------------------------
LEMMA PlanStep ==
    ASSUME Cite!CiteAssumption, CiteInv, NEW w \in Procs, Cite!Plan(w)
    PROVE  CiteInv'
<1>1. work[w].pc = "plan"
  BY DEF Cite!Plan
<1>2. CASE Cite!Fail(w)
  BY <1>2, FailStep
<1>3. CASE ~Cite!Fail(w)
  <2> DEFINE q == work[w]
             stored == q.text \cap DOMAIN instances
             r == [q EXCEPT !.pc = "lock", !.stored = stored]
  <2>1. /\ q.text \subseteq stored \cup q.specs /\ work' = [work EXCEPT ![w] = r]
        /\ UNCHANGED <<reserved, instances, log, begun>>
    BY <1>3 DEF Cite!Plan, Cite!Goto
  <2>2. /\ r \in Cite!Request /\ r.pc = "lock" /\ r.fresh = q.fresh
        /\ r.specs = q.specs /\ r.text = q.text /\ r.stored = stored /\ r.user = q.user
        /\ r.solo = q.solo /\ r.no = q.no
    BY WorkerFacts DEF Cite!Request, Cite!Pcs
  <2> HIDE DEF r
  <2>4. CiteOk(reserved, instances, r)
    BY <1>1, <2>1, <2>2, WorkerFacts DEF CiteOk, Consumes
  <2>5. \A v \in Procs \ {w} : CitesApart(r, work[v])
    BY <1>1, <2>2, WorkerFacts DEF CitesApart, Consumes
  <2>6. r.solo => SoloLooks(reserved, instances, r)
    BY <2>2 DEF SoloLooks
  <2> QED
    BY <1>1, <2>1, <2>2, <2>4, <2>5, <2>6, OwnStep
<1> QED
  BY <1>2, <1>3

\* The row locks keep two saves from consuming one reservation.
LEMMA LockStep ==
    ASSUME Cite!CiteAssumption, CiteInv, NEW w \in Procs, Cite!Lock(w)
    PROVE  CiteInv'
<1>1. work[w].pc = "lock"
  BY DEF Cite!Lock
<1>2. CASE Cite!Fail(w)
  BY <1>2, FailStep
<1>3. CASE ~Cite!Fail(w)
  <2> DEFINE q == work[w]
             r == [q EXCEPT !.pc = "mint"]
  <2>1. /\ \A s \in q.specs : s \in DOMAIN reserved /\ reserved[s] = q.user
        /\ work' = [work EXCEPT ![w] = r]
        /\ UNCHANGED <<reserved, instances, log, begun>>
    BY <1>3 DEF Cite!Lock, Cite!Goto, Cite!Holds
  <2>2. \A s \in q.specs : \A v \in Procs \ {w} :
           ~(s \in work[v].specs /\ work[v].pc \in {"mint", "evidence", "attach", "commit"})
    BY DEF Cite!Lock, Cite!Consuming
  <2>3. /\ r \in Cite!Request /\ r.pc = "mint" /\ r.fresh = q.fresh
        /\ r.specs = q.specs /\ r.text = q.text /\ r.stored = q.stored /\ r.user = q.user
        /\ r.solo = q.solo /\ r.no = q.no
    BY WorkerFacts DEF Cite!Request, Cite!Pcs
  <2> HIDE DEF r
  <2>4. CiteOk(reserved, instances, r)
    BY <1>1, <2>1, <2>3, WorkerFacts DEF CiteOk, Consumes
  <2>5. \A v \in Procs \ {w} : CitesApart(r, work[v])
    BY <1>1, <2>2, <2>3, WorkerFacts DEF CitesApart, Consumes
  <2>6. r.solo => SoloLooks(reserved, instances, r)
    BY <1>1, <2>3, WorkerFacts DEF SoloLooks, CiteOk
  <2> QED
    BY <1>1, <2>1, <2>3, <2>4, <2>5, <2>6, OwnStep
<1> QED
  BY <1>2, <1>3

LEMMA MintStep ==
    ASSUME Cite!CiteAssumption, CiteInv, NEW w \in Procs, Cite!Mint(w)
    PROVE  CiteInv'
<1>1. work[w].pc = "mint"
  BY DEF Cite!Mint
<1>2. CASE Cite!Fail(w)
  BY <1>2, FailStep
<1>3. CASE ~Cite!Fail(w)
  <2> DEFINE q == work[w]
             pc == IF q.evidence THEN "evidence" ELSE "commit"
             r == [q EXCEPT !.pc = pc, !.fresh = q.specs]
  <2>1. /\ q.specs \cap DOMAIN instances = {} /\ q.specs \subseteq q.text
        /\ work' = [work EXCEPT ![w] = r]
        /\ UNCHANGED <<reserved, instances, log, begun>>
    BY <1>3 DEF Cite!Mint, Cite!Goto, Cite!Unreferenced
  <2>2. \A v \in Procs \ {w} : q.specs \cap work[v].fresh = {}
    BY DEF Cite!Mint, Cite!Minting
  <2>3. pc \in {"evidence", "commit"}
    OBVIOUS
  <2> HIDE DEF pc
  <2>4. /\ r \in Cite!Request /\ r.pc \in {"evidence", "commit"} /\ r.fresh = q.specs
        /\ r.specs = q.specs /\ r.text = q.text /\ r.stored = q.stored /\ r.user = q.user
        /\ r.solo = q.solo /\ r.no = q.no
    BY <2>3, WorkerFacts DEF Cite!Request, Cite!Pcs
  <2> HIDE DEF r
  <2>5. CiteOk(reserved, instances, r)
    <3>1. /\ q.stored \subseteq DOMAIN instances /\ q.text \subseteq q.stored \cup q.specs
          /\ q.user \in Users /\ q.user # Loader /\ q.no # 0
          /\ \A s \in q.specs : s \in DOMAIN reserved /\ reserved[s] = q.user
      BY <1>1, WorkerFacts DEF CiteOk, Consumes, Cite!CiteAssumption
    <3> QED
      BY <2>1, <2>4, <3>1 DEF CiteOk, Consumes
  <2>6. \A v \in Procs \ {w} : CitesApart(r, work[v])
    BY <1>1, <2>2, <2>4, WorkerFacts DEF CitesApart, Consumes
  <2>7. r.solo => SoloLooks(reserved, instances, r)
    BY <2>4 DEF SoloLooks
  <2> QED
    BY <1>1, <2>1, <2>4, <2>5, <2>6, <2>7, OwnStep
<1> QED
  BY <1>2, <1>3

LEMMA DrawEvidenceStep ==
    ASSUME Cite!CiteAssumption, CiteInv, NEW w \in Procs, Cite!DrawEvidence(w)
    PROVE  CiteInv'
<1>1. work[w].pc = "evidence"
  BY DEF Cite!DrawEvidence
<1>2. CASE Cite!Retry(w, "evidence")
  BY <1>1, <1>2, RetryStep
<1>3. CASE ~Cite!Retry(w, "evidence")
  <2> DEFINE q == work[w]
  <2>1. PICK s \in Slugs :
           /\ s \notin DOMAIN reserved \ q.specs
           /\ work' = [work EXCEPT ![w] = [q EXCEPT !.pc = "attach", !.slug = s]]
           /\ UNCHANGED <<reserved, instances, log, begun>>
    BY <1>3 DEF Cite!DrawEvidence, Cite!Goto
  <2> DEFINE r == [q EXCEPT !.pc = "attach", !.slug = s]
  <2>2. /\ r \in Cite!Request /\ r.pc = "attach" /\ r.slug = s /\ r.fresh = q.fresh
        /\ r.specs = q.specs /\ r.text = q.text /\ r.stored = q.stored /\ r.user = q.user
        /\ r.solo = q.solo /\ r.no = q.no
    BY WorkerFacts DEF Cite!Request, Cite!Pcs
  <2>3. work' = [work EXCEPT ![w] = r]
    BY <2>1
  <2> HIDE DEF r
  <2>4. CiteOk(reserved, instances, r)
    BY <1>1, <2>2, WorkerFacts DEF CiteOk, Consumes
  <2>5. \A v \in Procs \ {w} : CitesApart(r, work[v])
    BY <1>1, <2>2, WorkerFacts DEF CitesApart, Consumes
  <2>6. r.solo => SoloLooks(reserved, instances, r)
    BY <1>1, <2>1, <2>2, WorkerFacts DEF SoloLooks
  <2> QED
    BY <1>1, <2>1, <2>2, <2>3, <2>4, <2>5, <2>6, OwnStep
<1> QED
  BY <1>2, <1>3

LEMMA AttachStep ==
    ASSUME Cite!CiteAssumption, CiteInv, NEW w \in Procs, Cite!Attach(w)
    PROVE  CiteInv'
<1>1. work[w].pc = "attach"
  BY DEF Cite!Attach
<1>2. CASE Cite!Fail(w)
  BY <1>2, FailStep
<1>3. CASE ~Cite!Fail(w)
  <2> DEFINE q == work[w]
             r == [q EXCEPT !.pc = "commit", !.fresh = q.fresh \cup {q.slug}]
  <2>1. /\ q.slug \notin DOMAIN instances \cup q.fresh
        /\ work' = [work EXCEPT ![w] = r]
        /\ \A v \in Procs \ {w} : q.slug \notin work[v].fresh
        /\ UNCHANGED <<reserved, instances, log, begun>>
    BY <1>3 DEF Cite!Attach, Cite!Goto, Cite!Minting
  <2>2. /\ r \in Cite!Request /\ r.pc = "commit" /\ r.fresh = q.fresh \cup {q.slug}
        /\ r.specs = q.specs /\ r.text = q.text /\ r.stored = q.stored /\ r.user = q.user
        /\ r.solo = q.solo /\ r.no = q.no
    <3>1. q \in Cite!Request /\ q.slug \in Slugs /\ q.fresh \cup {q.slug} \in SUBSET Slugs
      BY WorkerFacts DEF Cite!Request
    <3>2. "commit" \in Cite!Pcs
      BY DEF Cite!Pcs
    <3> QED
      BY <3>1, <3>2 DEF Cite!Request
  <2> HIDE DEF r
  <2>3. CiteOk(reserved, instances, r)
    <3>1. /\ q.fresh \cap DOMAIN instances = {} /\ q.stored \subseteq DOMAIN instances
          /\ q.text \subseteq q.stored \cup q.specs /\ q.user \in Users /\ q.user # Loader
          /\ \A s \in q.specs : s \in DOMAIN reserved /\ reserved[s] = q.user
          /\ q.specs \subseteq q.text /\ q.specs \subseteq q.fresh /\ q.no # 0
      BY <1>1, WorkerFacts DEF CiteOk, Consumes, Cite!CiteAssumption
    <3>2. r.fresh \cap DOMAIN instances = {}
      BY <2>1, <2>2, <3>1
    <3> QED
      BY <2>2, <3>1, <3>2 DEF CiteOk, Consumes
  <2>4. \A v \in Procs \ {w} : CitesApart(r, work[v])
    BY <1>1, <2>1, <2>2, WorkerFacts DEF CitesApart, Consumes
  <2>5. r.solo => SoloLooks(reserved, instances, r)
    BY <1>1, <2>2, WorkerFacts DEF SoloLooks
  <2> QED
    BY <1>1, <2>1, <2>2, <2>3, <2>4, <2>5, OwnStep
<1> QED
  BY <1>2, <1>3

-----------------------------------------------------------------------------
\* A reservation is made for a slug that no save is consuming.
LEMMA ReserveStep ==
    ASSUME Cite!CiteAssumption, CiteInv, NEW w \in Procs, Cite!Reserve(w)
    PROVE  CiteInv'
<1>1. work[w].pc = "insert"
  BY DEF Cite!Reserve
<1>2. CASE Cite!Retry(w, "draw")
  BY <1>1, <1>2, RetryStep
<1>3. CASE ~Cite!Retry(w, "draw")
  <2> DEFINE q == work[w]
             R == [s \in DOMAIN reserved \cup {q.slug} |->
                     IF s = q.slug THEN q.user ELSE reserved[s]]
  <2>1. /\ q.slug \notin DOMAIN reserved /\ reserved' = R
        /\ work' = [work EXCEPT ![w] = Cite!Idle]
        /\ UNCHANGED <<instances, log, begun>>
    BY <1>3 DEF Cite!Reserve, Cite!Goto
  <2>2. /\ DOMAIN reserved' = DOMAIN reserved \cup {q.slug}
        /\ reserved'[q.slug] = q.user
        /\ \A s \in DOMAIN reserved : reserved'[s] = reserved[s]
    BY <2>1
  <2> HIDE DEF R
  <2>3. q.slug \in Slugs /\ q.user \in Users
    BY <1>1, WorkerFacts DEF Cite!Request, CiteOk
  <2>4. /\ DOMAIN reserved' \subseteq Slugs /\ \A s \in DOMAIN reserved' : reserved'[s] \in Users
        /\ DOMAIN instances' \subseteq Slugs
        /\ \A s \in DOMAIN instances' : instances'[s] \in Users \cup {Loader}
        /\ log' \subseteq [no : 1 .. MaxMints, user : Users, specs : SUBSET Slugs, cites : SUBSET Slugs]
    BY <2>1, <2>2, <2>3 DEF CiteInv, Cite!TypeOK
  <2>5. /\ CiteOk(reserved', instances', Cite!Idle) /\ ~Cite!Idle.solo
        /\ \A v \in Procs \ {w} : CitesApart(Cite!Idle, work[v])
    BY DEF CiteOk, Consumes, CitesApart, Cite!Idle
  <2>6. ASSUME NEW v \in Procs \ {w} PROVE CiteOk(reserved', instances', work[v])
    <3>1. CiteOk(reserved, instances, work[v]) /\ instances' = instances
      BY <2>1, WorkerFacts
    <3> QED
      BY <2>2, <3>1 DEF CiteOk
  <2>7. Cite!TextAndInstancesAgree' /\ Cite!ConsumedOnce'
    BY <2>1 DEF CiteInv, Cite!TextAndInstancesAgree, Cite!ConsumedOnce
  <2> QED
    BY <1>1, <2>1, <2>4, <2>5, <2>6, <2>7, CiteIdle, CiteStepKeeps
<1> QED
  BY <1>2, <1>3

\* The new instances are nobody else's, and what the save consumes is neither.
LEMMA CommitSaveStep ==
    ASSUME Cite!CiteAssumption, CiteInv, NEW w \in Procs, Cite!CommitSave(w)
    PROVE  /\ CiteInv'
           /\ \A s \in DOMAIN reserved \ DOMAIN reserved' :
                 /\ s \in DOMAIN instances' \ DOMAIN instances
                 /\ \E e \in log' \ log : e.user = reserved[s] /\ s \in e.specs
           /\ work[w].solo => DOMAIN reserved' \cap DOMAIN instances' \subseteq Cite!Doomed
<1> DEFINE q == work[w]
           R == [s \in DOMAIN reserved \ q.specs |-> reserved[s]]
           I == [s \in DOMAIN instances \cup q.fresh |->
                   IF s \in q.fresh THEN q.user ELSE instances[s]]
           e == [no |-> q.no, user |-> q.user, specs |-> q.specs, cites |-> q.text]
<1>1. /\ q.pc = "commit" /\ q.user \in Users /\ reserved' = R /\ instances' = I
      /\ log' = log \cup {e} /\ work' = [work EXCEPT ![w] = Cite!Idle] /\ begun' = begun
  BY DEF Cite!CommitSave, Cite!MintedBy, Cite!Goto
<1>2. /\ q \in Cite!Request /\ q.user # Loader /\ q.fresh \subseteq Slugs
      /\ q.no \in 1 .. MaxMints /\ q.specs \in SUBSET Slugs /\ q.text \in SUBSET Slugs
  <2>1. q \in Cite!Request /\ q.no # 0 /\ MaxMints \in Nat
    BY <1>1, WorkerFacts DEF CiteOk, Cite!CiteAssumption
  <2> QED
    BY <1>1, <2>1 DEF Cite!Request, Cite!CiteAssumption
<1>3. /\ q.fresh \cap DOMAIN instances = {} /\ q.stored \subseteq DOMAIN instances
      /\ q.text \subseteq q.stored \cup q.specs
      /\ \A s \in q.specs : s \in DOMAIN reserved /\ reserved[s] = q.user
      /\ q.specs \subseteq q.text /\ q.specs \subseteq q.fresh
  BY <1>1, <1>2, WorkerFacts DEF CiteOk, Consumes
<1>4. /\ DOMAIN reserved' = DOMAIN reserved \ q.specs
      /\ \A s \in DOMAIN reserved' : reserved'[s] = reserved[s]
      /\ DOMAIN instances' = DOMAIN instances \cup q.fresh
      /\ \A s \in DOMAIN instances' : instances'[s] = IF s \in q.fresh THEN q.user ELSE instances[s]
  BY <1>1
<1> HIDE DEF R, I
<1>5. DOMAIN reserved' \subseteq Slugs /\ \A s \in DOMAIN reserved' : reserved'[s] \in Users
  BY <1>4 DEF CiteInv, Cite!TypeOK
<1>6. /\ DOMAIN instances' \subseteq Slugs
      /\ \A s \in DOMAIN instances' : instances'[s] \in Users \cup {Loader}
  BY <1>1, <1>2, <1>4 DEF CiteInv, Cite!TypeOK
<1>7. e \in [no : 1 .. MaxMints, user : Users, specs : SUBSET Slugs, cites : SUBSET Slugs]
  BY <1>1, <1>2
<1>8. e.user = q.user /\ e.specs = q.specs /\ e.cites = q.text /\ log' = log \cup {e}
  BY <1>1
<1> HIDE DEF e
<1>9. log' \subseteq [no : 1 .. MaxMints, user : Users, specs : SUBSET Slugs, cites : SUBSET Slugs]
  BY <1>7, <1>8 DEF CiteInv, Cite!TypeOK
<1>10. /\ CiteOk(reserved', instances', Cite!Idle) /\ ~Cite!Idle.solo
       /\ \A v \in Procs \ {w} : CitesApart(Cite!Idle, work[v])
  BY DEF CiteOk, Consumes, CitesApart, Cite!Idle
<1>11. ASSUME NEW v \in Procs \ {w} PROVE CiteOk(reserved', instances', work[v])
  <2>1. CiteOk(reserved, instances, work[v]) /\ CitesApart(q, work[v]) /\ Consumes(q)
    BY <1>1, <1>2, WorkerFacts DEF Consumes
  <2>2. work[v].fresh \cap DOMAIN instances' = {}
    BY <1>4, <2>1 DEF CiteOk, CitesApart
  <2>3. Consumes(work[v]) => \A s \in work[v].specs :
                                s \in DOMAIN reserved' /\ reserved'[s] = work[v].user
    BY <1>4, <2>1 DEF CiteOk, CitesApart
  <2> QED
    BY <1>4, <2>1, <2>2, <2>3 DEF CiteOk
<1>12. \A f \in log : f.specs \subseteq f.cites /\ f.cites \subseteq DOMAIN instances
  BY DEF CiteInv, Cite!TextAndInstancesAgree
<1>13. Cite!TextAndInstancesAgree'
  BY <1>3, <1>4, <1>8, <1>12 DEF Cite!TextAndInstancesAgree
<1>14. \A f \in log : f.specs \cap e.specs = {}
  BY <1>3, <1>8, <1>12
<1>15. Cite!ConsumedOnce'
  BY <1>8, <1>14 DEF CiteInv, Cite!ConsumedOnce
<1>16. CiteInv'
  BY <1>1, <1>5, <1>6, <1>9, <1>10, <1>11, <1>13, <1>15, CiteIdle, CiteStepKeeps
<1>17. ASSUME NEW s \in DOMAIN reserved \ DOMAIN reserved'
       PROVE  /\ s \in DOMAIN instances' \ DOMAIN instances
              /\ \E f \in log' \ log : f.user = reserved[s] /\ s \in f.specs
  <2>1. s \in q.specs /\ s \in q.fresh
    BY <1>3, <1>4, <1>17
  <2>2. s \in DOMAIN instances' \ DOMAIN instances
    BY <1>3, <1>4, <2>1
  <2>3. e \notin log
    BY <1>8, <1>14, <2>1
  <2> QED
    BY <1>3, <1>8, <2>1, <2>2, <2>3
<1>18. ASSUME q.solo PROVE DOMAIN reserved' \cap DOMAIN instances' \subseteq Cite!Doomed
  <2>1. (q.fresh \ q.specs) \cap DOMAIN reserved = {}
    BY <1>1, <1>18, WorkerFacts DEF SoloLooks
  <2> QED
    BY <1>4, <2>1 DEF Cite!Doomed
<1> QED
  BY <1>16, <1>17, <1>18

LEMMA CommitPatchStep ==
    ASSUME Cite!CiteAssumption, CiteInv, NEW w \in Procs, Cite!CommitPatch(w)
    PROVE  /\ CiteInv'
           /\ work[w].solo => DOMAIN reserved' \cap DOMAIN instances' \subseteq Cite!Doomed
<1> DEFINE q == work[w]
           I == [s \in DOMAIN instances \cup q.fresh |->
                   IF s \in q.fresh THEN q.user ELSE instances[s]]
<1>1. /\ q.pc = "commit" /\ q.user = Loader /\ instances' = I
      /\ work' = [work EXCEPT ![w] = Cite!Idle] /\ UNCHANGED <<reserved, log, begun>>
  BY DEF Cite!CommitPatch, Cite!MintedBy, Cite!Goto
<1>2. q.fresh \subseteq Slugs /\ q.specs = {}
  BY <1>1, WorkerFacts DEF Cite!Request, CiteOk, Consumes
<1>3. /\ DOMAIN instances' = DOMAIN instances \cup q.fresh
      /\ \A s \in DOMAIN instances' : instances'[s] = IF s \in q.fresh THEN q.user ELSE instances[s]
  BY <1>1
<1> HIDE DEF I
<1>4. /\ DOMAIN instances' \subseteq Slugs
      /\ \A s \in DOMAIN instances' : instances'[s] \in Users \cup {Loader}
  BY <1>1, <1>2, <1>3 DEF CiteInv, Cite!TypeOK
<1>5. /\ DOMAIN reserved' \subseteq Slugs /\ \A s \in DOMAIN reserved' : reserved'[s] \in Users
      /\ log' \subseteq [no : 1 .. MaxMints, user : Users, specs : SUBSET Slugs, cites : SUBSET Slugs]
  BY <1>1 DEF CiteInv, Cite!TypeOK
<1>6. /\ CiteOk(reserved', instances', Cite!Idle) /\ ~Cite!Idle.solo
      /\ \A v \in Procs \ {w} : CitesApart(Cite!Idle, work[v])
  BY DEF CiteOk, Consumes, CitesApart, Cite!Idle
<1>7. ASSUME NEW v \in Procs \ {w} PROVE CiteOk(reserved', instances', work[v])
  <2>1. CiteOk(reserved, instances, work[v]) /\ CitesApart(q, work[v]) /\ reserved' = reserved
    BY <1>1, WorkerFacts
  <2>2. work[v].fresh \cap DOMAIN instances' = {}
    BY <1>3, <2>1 DEF CiteOk, CitesApart
  <2> QED
    BY <1>3, <2>1, <2>2 DEF CiteOk
<1>8. Cite!TextAndInstancesAgree' /\ Cite!ConsumedOnce'
  BY <1>1, <1>3 DEF CiteInv, Cite!TextAndInstancesAgree, Cite!ConsumedOnce
<1>9. CiteInv'
  BY <1>1, <1>4, <1>5, <1>6, <1>7, <1>8, CiteIdle, CiteStepKeeps
<1>10. ASSUME q.solo PROVE DOMAIN reserved' \cap DOMAIN instances' \subseteq Cite!Doomed
  <2>1. (q.fresh \ q.specs) \cap DOMAIN reserved = {}
    BY <1>1, <1>10, WorkerFacts DEF SoloLooks
  <2> QED
    BY <1>1, <1>2, <1>3, <2>1 DEF Cite!Doomed
<1> QED
  BY <1>9, <1>10

-----------------------------------------------------------------------------
\* A request begins beside requests that are then no longer alone.
LEMMA BeginsKeep ==
    ASSUME Cite!CiteAssumption, CiteInv, NEW w \in Procs,
           \/ \E u \in Users :
                 \/ Cite!BeginReserve(w, u)
                 \/ \E specs, text \in SUBSET Slugs, e \in BOOLEAN :
                       Cite!BeginSave(w, u, specs, text, e)
           \/ Cite!BeginPatch(w)
    PROVE  CiteInv' /\ UNCHANGED <<reserved, instances>> /\ work[w].pc = "idle"
<1>1. /\ Cite!Idle \in Cite!Request /\ Cite!Idle.fresh = {} /\ Cite!Idle.stored = {}
      /\ Cite!Idle.specs = {} /\ Cite!Idle.text = {} /\ Cite!Idle.user = Loader
  BY CiteIdle DEF Cite!Idle
<1>2. ASSUME NEW u \in Users, Cite!BeginReserve(w, u)
      PROVE  CiteInv' /\ UNCHANGED <<reserved, instances>> /\ work[w].pc = "idle"
  <2> DEFINE r == [Cite!Idle EXCEPT !.pc = "draw", !.user = u]
  <2>1. /\ r \in Cite!Request /\ r.pc = "draw" /\ r.fresh = {} /\ r.stored = {}
        /\ r.specs = {} /\ r.text = {} /\ r.user \in Users
    BY <1>1 DEF Cite!Request, Cite!Pcs
  <2>2. Cite!Begin(w, r)
    BY <1>2 DEF Cite!BeginReserve
  <2> HIDE DEF r
  <2>3. UNCHANGED <<reserved, instances>> /\ work[w].pc = "idle"
    BY <2>2 DEF Cite!Begin
  <2> QED
    BY <2>1, <2>2, <2>3, BeginStep
<1>3. ASSUME NEW u \in Users, NEW specs \in SUBSET Slugs, NEW text \in SUBSET Slugs,
             NEW e \in BOOLEAN, Cite!BeginSave(w, u, specs, text, e)
      PROVE  CiteInv' /\ UNCHANGED <<reserved, instances>> /\ work[w].pc = "idle"
  <2> DEFINE r == [Cite!Idle EXCEPT !.pc = "plan", !.user = u, !.specs = specs, !.text = text,
                     !.evidence = e]
  <2>1. /\ r \in Cite!Request /\ r.pc = "plan" /\ r.fresh = {} /\ r.stored = {}
        /\ r.user \in Users
    BY <1>1 DEF Cite!Request, Cite!Pcs
  <2>2. Cite!Begin(w, r)
    BY <1>3 DEF Cite!BeginSave
  <2> HIDE DEF r
  <2>3. UNCHANGED <<reserved, instances>> /\ work[w].pc = "idle"
    BY <2>2 DEF Cite!Begin
  <2> QED
    BY <2>1, <2>2, <2>3, BeginStep
<1>4. ASSUME Cite!BeginPatch(w)
      PROVE  CiteInv' /\ UNCHANGED <<reserved, instances>> /\ work[w].pc = "idle"
  <2> DEFINE r == [Cite!Idle EXCEPT !.pc = "draw all"]
  <2>1. /\ r \in Cite!Request /\ r.pc = "draw all" /\ r.fresh = {} /\ r.stored = {}
        /\ r.specs = {} /\ r.text = {} /\ r.user = Loader
    BY <1>1 DEF Cite!Request, Cite!Pcs
  <2>2. Cite!Begin(w, r)
    BY <1>4 DEF Cite!BeginPatch
  <2> HIDE DEF r
  <2>3. UNCHANGED <<reserved, instances>> /\ work[w].pc = "idle"
    BY <2>2 DEF Cite!Begin
  <2> QED
    BY <2>1, <2>2, <2>3, BeginStep
<1> QED
  BY <1>2, <1>3, <1>4

\* What a step of worker w keeps, and what it does to the two tables.
CiteStepsWell(w) ==
    /\ CiteInv'
    /\ \A s \in DOMAIN reserved \ DOMAIN reserved' :
          /\ s \in DOMAIN instances' \ DOMAIN instances
          /\ \E e \in log' \ log : e.user = reserved[s] /\ s \in e.specs
    /\ DOMAIN reserved' \cap DOMAIN instances' # Cite!Doomed =>
          /\ work[w].pc # "idle"
          /\ work[w].solo => DOMAIN reserved' \cap DOMAIN instances' \subseteq Cite!Doomed

LEMMA CiteNext ==
    ASSUME Cite!CiteAssumption, CiteInv, Cite!Next
    PROVE  \E w \in Procs : CiteStepsWell(w)
<1>1. PICK w \in Procs :
         \/ \E u \in Users :
               \/ Cite!BeginReserve(w, u)
               \/ \E specs, text \in SUBSET Slugs, e \in BOOLEAN :
                     text # {} /\ Cite!BeginSave(w, u, specs, text, e)
         \/ Cite!BeginPatch(w)
         \/ Cite!Draw(w) \/ Cite!Reserve(w)
         \/ Cite!Plan(w) \/ Cite!Lock(w) \/ Cite!Mint(w) \/ Cite!DrawEvidence(w) \/ Cite!Attach(w)
         \/ Cite!CommitSave(w)
         \/ Cite!DrawBatch(w) \/ Cite!InsertBatch(w) \/ Cite!CommitPatch(w)
         \/ Cite!Fail(w)
  BY DEF Cite!Next
<1>2. ASSUME CiteInv', UNCHANGED <<reserved, instances>> PROVE CiteStepsWell(w)
  BY <1>2 DEF CiteStepsWell, Cite!Doomed
<1>3. CASE \/ \E u \in Users :
                 \/ Cite!BeginReserve(w, u)
                 \/ \E specs, text \in SUBSET Slugs, e \in BOOLEAN : Cite!BeginSave(w, u, specs, text, e)
           \/ Cite!BeginPatch(w)
  BY <1>2, <1>3, BeginsKeep
<1>4. CASE Cite!Draw(w)
  <2>1. UNCHANGED <<reserved, instances>>
    BY <1>4 DEF Cite!Draw, Cite!Retry, Cite!Fail
  <2> QED
    BY <1>2, <1>4, <2>1, DrawStep
<1>5. CASE Cite!Reserve(w)
  <2>1. CiteInv' /\ work[w].pc = "insert"
    BY <1>5, ReserveStep DEF Cite!Reserve
  <2>2. CASE UNCHANGED <<reserved, instances>>
    BY <1>2, <2>1, <2>2
  <2>3. CASE ~UNCHANGED <<reserved, instances>>
    <3>1. /\ reserved' = [s \in DOMAIN reserved \cup {work[w].slug} |->
                            IF s = work[w].slug THEN work[w].user ELSE reserved[s]]
          /\ instances' = instances
      BY <1>5, <2>3 DEF Cite!Reserve, Cite!Retry, Cite!Fail
    <3>2. DOMAIN reserved' = DOMAIN reserved \cup {work[w].slug}
      BY <3>1
    <3>3. work[w].solo => work[w].slug \notin DOMAIN instances
      BY <2>1, WorkerFacts DEF SoloLooks
    <3>4. work[w].solo => DOMAIN reserved' \cap DOMAIN instances' \subseteq Cite!Doomed
      BY <3>1, <3>2, <3>3 DEF Cite!Doomed
    <3> QED
      BY <2>1, <3>2, <3>4 DEF CiteStepsWell
  <2> QED
    BY <2>2, <2>3
<1>6. CASE Cite!Plan(w)
  <2>1. UNCHANGED <<reserved, instances>>
    BY <1>6 DEF Cite!Plan, Cite!Fail
  <2> QED
    BY <1>2, <1>6, <2>1, PlanStep
<1>7. CASE Cite!Lock(w)
  <2>1. UNCHANGED <<reserved, instances>>
    BY <1>7 DEF Cite!Lock, Cite!Fail
  <2> QED
    BY <1>2, <1>7, <2>1, LockStep
<1>8. CASE Cite!Mint(w)
  <2>1. UNCHANGED <<reserved, instances>>
    BY <1>8 DEF Cite!Mint, Cite!Fail
  <2> QED
    BY <1>2, <1>8, <2>1, MintStep
<1>9. CASE Cite!DrawEvidence(w)
  <2>1. UNCHANGED <<reserved, instances>>
    BY <1>9 DEF Cite!DrawEvidence, Cite!Retry, Cite!Fail
  <2> QED
    BY <1>2, <1>9, <2>1, DrawEvidenceStep
<1>10. CASE Cite!Attach(w)
  <2>1. UNCHANGED <<reserved, instances>>
    BY <1>10 DEF Cite!Attach, Cite!Fail
  <2> QED
    BY <1>2, <1>10, <2>1, AttachStep
<1>11. CASE Cite!CommitSave(w)
  <2>1. work[w].pc = "commit"
    BY <1>11 DEF Cite!CommitSave
  <2> QED
    BY <1>11, <2>1, CommitSaveStep DEF CiteStepsWell
<1>12. CASE Cite!DrawBatch(w)
  <2>1. UNCHANGED <<reserved, instances>>
    BY <1>12 DEF Cite!DrawBatch, Cite!Retry, Cite!Fail
  <2> QED
    BY <1>2, <1>12, <2>1, DrawBatchStep
<1>13. CASE Cite!InsertBatch(w)
  <2>1. UNCHANGED <<reserved, instances>>
    BY <1>13 DEF Cite!InsertBatch, Cite!Retry, Cite!Fail
  <2> QED
    BY <1>2, <1>13, <2>1, InsertBatchStep
<1>14. CASE Cite!CommitPatch(w)
  <2>1. work[w].pc = "commit" /\ reserved' = reserved
    BY <1>14 DEF Cite!CommitPatch
  <2> QED
    BY <1>14, <2>1, CommitPatchStep DEF CiteStepsWell
<1>15. CASE Cite!Fail(w)
  <2>1. UNCHANGED <<reserved, instances>>
    BY <1>15 DEF Cite!Fail
  <2> QED
    BY <1>2, <1>15, <2>1, FailStep
<1> QED
  BY <1>1, <1>3, <1>4, <1>5, <1>6, <1>7, <1>8, <1>9, <1>10, <1>11, <1>12, <1>13, <1>14, <1>15

LEMMA CiteInit == Cite!CiteAssumption /\ Cite!Init => CiteInv
<1> SUFFICES ASSUME Cite!CiteAssumption, Cite!Init PROVE CiteInv
  OBVIOUS
<1>1. /\ DOMAIN reserved = {} /\ DOMAIN instances = {} /\ log = {} /\ begun = 0
      /\ work = [w \in Procs |-> Cite!Idle]
  BY DEF Cite!Init
<1>2. Cite!TypeOK
  BY <1>1, CiteIdle DEF Cite!TypeOK, Cite!CiteAssumption
<1>3. \A x, y \in Procs : /\ CiteOk(reserved, instances, work[x]) /\ ~work[x].solo
                           /\ CitesApart(work[x], work[y])
  BY <1>1 DEF CiteOk, Consumes, CitesApart, Cite!Idle
<1>4. Cite!TextAndInstancesAgree /\ Cite!ConsumedOnce
  BY <1>1 DEF Cite!TextAndInstancesAgree, Cite!ConsumedOnce
<1> QED
  BY <1>2, <1>3, <1>4 DEF CiteInv

LEMMA CitesAreInductive == Cite!CiteAssumption /\ Cite!Spec => []CiteInv
<1>1. Cite!CiteAssumption /\ CiteInv /\ [Cite!Next]_citeVars => CiteInv'
  <2>1. CiteInv /\ UNCHANGED citeVars => CiteInv'
    BY CiteInvNext DEF citeVars, CiteInv, Cite!TypeOK, Cite!TextAndInstancesAgree, Cite!ConsumedOnce
  <2> QED
    BY <2>1, CiteNext DEF CiteStepsWell
<1>2. CASE Cite!CiteAssumption
  BY <1>1, <1>2, CiteInit, PTL DEF Cite!Spec, Cite!vars, citeVars
<1>3. CASE ~Cite!CiteAssumption
  BY <1>3
<1> QED
  BY <1>2, <1>3

\* Whatever saves, evidence and patches overlap: a saved text's citations exist,
\* its minted ones are cited, and a reservation is consumed by one save
\* (_mint_inline_citations, execute_claims).
THEOREM CitationsResolve ==
    Cite!CiteAssumption /\ Cite!Spec => []Cite!SavedCitesResolve
<1>1. CiteInv => Cite!SavedCitesResolve
  BY DEF CiteInv, Cite!SavedCitesResolve
<1> QED
  BY <1>1, CitesAreInductive, PTL

\* A reservation ends in its holder's save alone, and a request that nothing
\* overlaps dooms no draft, whichever way its look and its write fall.
THEOREM ReservationsAreKept ==
    Cite!CiteAssumption /\ Cite!Spec => Cite!DraftsKeepTheirSlugs
<1>1. Cite!CiteAssumption /\ CiteInv /\ [Cite!Next]_citeVars
        => /\ [\A s \in DOMAIN reserved \ DOMAIN reserved' :
                 /\ s \in DOMAIN instances' \ DOMAIN instances
                 /\ \E e \in log' \ log : e.user = reserved[s] /\ s \in e.specs]_citeVars
           /\ [\A w \in Procs : work[w].solo /\ work[w].pc # "idle" /\ work'[w] # work[w]
                 => Cite!Doomed' \subseteq Cite!Doomed]_citeVars
  <2> SUFFICES ASSUME Cite!CiteAssumption, CiteInv, Cite!Next
               PROVE  /\ \A s \in DOMAIN reserved \ DOMAIN reserved' :
                            /\ s \in DOMAIN instances' \ DOMAIN instances
                            /\ \E e \in log' \ log : e.user = reserved[s] /\ s \in e.specs
                      /\ \A w \in Procs : work[w].solo /\ work[w].pc # "idle"
                            => Cite!Doomed' \subseteq Cite!Doomed
    OBVIOUS
  <2>1. PICK v \in Procs : CiteStepsWell(v)
    BY CiteNext
  <2>2. ASSUME NEW w \in Procs, work[w].solo, work[w].pc # "idle"
        PROVE  Cite!Doomed' \subseteq Cite!Doomed
    <3>1. Cite!Doomed' = DOMAIN reserved' \cap DOMAIN instances'
      BY DEF Cite!Doomed
    <3>2. v # w => work[v].pc = "idle"
      BY <2>2 DEF CiteInv
    <3> QED
      BY <2>1, <2>2, <3>1, <3>2 DEF CiteStepsWell
  <2> QED
    BY <2>1, <2>2 DEF CiteStepsWell
<1>2. CASE Cite!CiteAssumption
  BY <1>1, <1>2, CitesAreInductive, PTL
  DEF Cite!Spec, Cite!vars, citeVars, Cite!DraftsKeepTheirSlugs, Cite!ReservationsEndInTheirSave,
      Cite!SoloRequestsDoomNoDraft
<1>3. CASE ~Cite!CiteAssumption
  BY <1>3
<1> QED
  BY <1>2, <1>3

-----------------------------------------------------------------------------
\* Whatever the requests of the other components do, the citations' are a
\* behaviour of their own.
LEMMA ScenesCite == SceneSpec => Cite!CiteAssumption /\ Cite!Spec
<1>1. Cite!CiteAssumption
  BY RequestsAssumption
<1>2. SceneInit => Cite!Init
  BY DEF SceneInit
<1>3. [SceneNext]_<<scene, vars, citeVars, limitVars>> => [Cite!Next]_citeVars
  BY DEF SceneNext, citeVars
<1> QED
  BY <1>1, <1>2, <1>3, PTL DEF SceneSpec, Cite!Spec, Cite!vars, citeVars

\* Whatever saves, evidence and patches overlap: a saved text's citations exist,
\* its minted ones are cited, and a reservation is consumed by one save
\* (_mint_inline_citations, execute_claims).
THEOREM SavedTextsResolve == SceneSpec => []SavedCitesResolve
<1>1. Cite!SavedCitesResolve => SavedCitesResolve
  BY DEF SavedCitesResolve
<1> QED
  BY <1>1, ScenesCite, CitationsResolve, PTL

-----------------------------------------------------------------------------
(***************************************************************************)
(* The limiter.  LimitInv is inductive.  A grant that nothing overlapped   *)
(* and no culling dropped stays in the cached list for as long as it may   *)
(* count, since whoever writes the list back has read it there; a request  *)
(* that nothing overlaps therefore counts all of them.  For Retry-After,   *)
(* Promised says that until somebody is let through, nothing is on the     *)
(* list but what the refused request saw, and its oldest has left by then. *)
(***************************************************************************)
\* Grant i of g counts for a request of time t
Counts(g, i, t) == g[i].kept /\ g[i].at + Window > t

\* Entry e holds grant i for as long as it may count
Held(g, e, i) == i \in e.times /\ g[i].at + Window + Fudge <= e.expires

\* What request r will find or has read, when the clock is at n
ReqOk(n, e, g, r) ==
    /\ r.pc # "idle" => n <= r.at + Fudge
    /\ r.pc = "get" /\ r.alone => \A i \in DOMAIN g : Counts(g, i, r.at) => Held(g, e, i)
    /\ r.pc = "set" => \A i \in DOMAIN g : Counts(g, i, n) => i \in r.seen
    /\ r.pc = "set" /\ r.alone => \A i \in DOMAIN g : Counts(g, i, r.at) => i \in r.seen

KeptAt(g, t) == {i \in DOMAIN g : g[i].kept /\ g[i].at <= t /\ g[i].at + Window > t}

\* All that can be read from here on is in P
Within(e, W, P) ==
    e.times \subseteq P /\ \A w \in Procs : W[w].pc = "set" => W[w].seen \subseteq P

\* While nobody is let through, the refused request's list is all there is, and
\* its oldest leaves it when the promise says
Promised(e, W, g, p) ==
    p.grants = Len(g) /\ p.at <= MaxTime =>
        \E P \in SUBSET DOMAIN g : \E o \in P :
            Cardinality(P) <= Limit /\ g[o].at + Window <= p.at /\ Within(e, W, P)

LimitTypes(n, e, W, g, p) ==
    /\ n \in Nat /\ n <= MaxTime
    /\ g \in Seq([at : Nat, kept : BOOLEAN])
    /\ \A i \in DOMAIN g : g[i].at <= n
    /\ e \in [times : SUBSET DOMAIN g, expires : Nat]
    /\ Cardinality(e.times) <= Limit
    /\ W \in [Procs -> [pc : {"idle", "get", "set"}, at : Nat, seen : SUBSET DOMAIN g,
                        alone : BOOLEAN]]
    /\ \A w \in Procs : W[w].at <= n /\ Cardinality(W[w].seen) <= Limit
    /\ p \in [at : Nat, grants : Nat] /\ p.grants <= Len(g)

LimitOk(n, e, W, g, p) ==
    /\ LimitTypes(n, e, W, g, p)
    /\ \A w \in Procs : ReqOk(n, e, g, W[w])
    /\ \A v, w \in Procs : v # w /\ W[w].alone => W[v].pc = "idle"
    /\ \A i \in DOMAIN g : Counts(g, i, n) => Held(g, e, i)
    /\ \A t \in Nat : Cardinality(KeptAt(g, t)) <= Limit
    /\ Promised(e, W, g, p)

LimitInv == LimitOk(now, entry, workers, granted, promise)

-----------------------------------------------------------------------------
LEMMA SameCardinality == \A S : Limiter!Cardinality(S) = Cardinality(S)
  BY DEF Limiter!Cardinality, Cardinality

LEMMA LeastNumber ==
    ASSUME NEW S \in SUBSET Nat, S # {}
    PROVE  \E n \in S : \A m \in S : n <= m
<1> DEFINE Less == OpToRel(<, Nat)
<1>1. PICK n \in S : \A m \in S : <<m, n>> \notin Less
  BY NatLessThanWellFounded, WFMin
<1>2. \A m \in S : ~(m < n)
  BY <1>1 DEF OpToRel
<1> QED
  BY <1>2

\* Sets of grants are finite.
LEMMA GrantsAreFinite ==
    ASSUME NEW R, NEW g \in Seq(R), NEW S \in SUBSET DOMAIN g
    PROVE  /\ DOMAIN g = 1 .. Len(g) /\ Len(g) \in Nat
           /\ IsFiniteSet(S) /\ Cardinality(S) \in Nat
           /\ \A T \in SUBSET S : Cardinality(T) <= Cardinality(S)
<1>1. DOMAIN g = 1 .. Len(g) /\ Len(g) \in Nat
  OBVIOUS
<1>2. IsFiniteSet(1 .. Len(g))
  BY <1>1, FS_Interval
<1>3. IsFiniteSet(S)
  BY <1>1, <1>2, FS_Subset
<1>4. Cardinality(S) \in Nat
  BY <1>3, FS_CardinalityType
<1>5. \A T \in SUBSET S : Cardinality(T) <= Cardinality(S)
  BY <1>3, FS_Subset
<1> QED
  BY <1>1, <1>3, <1>4, <1>5

LEMMA ElementsTyped ==
    ASSUME NEW R, NEW g \in Seq(R), NEW i \in DOMAIN g
    PROVE  g[i] \in R
  OBVIOUS

LEMMA FunctionsAreLists ==
    ASSUME NEW R, NEW n \in Nat, NEW f \in [1 .. n -> R]
    PROVE  f \in Seq(R) /\ Len(f) = n
  OBVIOUS

LEMMA TypedFields ==
    ASSUME NEW n, NEW e, NEW W, NEW g, NEW p, LimitTypes(n, e, W, g, p)
    PROVE  /\ \A i \in DOMAIN g : g[i].at \in Nat /\ g[i].kept \in BOOLEAN
           /\ \A w \in Procs : W[w].at \in Nat /\ W[w].seen \in SUBSET DOMAIN g
           /\ e.times \in SUBSET DOMAIN g /\ e.expires \in Nat
           /\ p.at \in Nat /\ p.grants \in Nat
<1>1. g \in Seq([at : Nat, kept : BOOLEAN])
  BY DEF LimitTypes
<1>2. \A i \in DOMAIN g : g[i] \in [at : Nat, kept : BOOLEAN]
  BY <1>1, ElementsTyped
<1> QED
  BY <1>2 DEF LimitTypes

LEMMA TimePasses ==
    ASSUME Limiter!LimitAssumption, LimitInv, Limiter!Tick
    PROVE  LimitInv'
<1> USE DEF Limiter!LimitAssumption
<1>1. /\ now < MaxTime /\ now' = now + 1
      /\ \A w \in Procs : workers[w].pc # "idle" => now - workers[w].at < Fudge
      /\ UNCHANGED <<entry, workers, granted, promise>>
  BY DEF Limiter!Tick
<1>2. LimitTypes(now, entry, workers, granted, promise)
  BY DEF LimitInv, LimitOk
<1>4. /\ \A i \in DOMAIN granted : granted[i].at \in Nat
      /\ \A w \in Procs : workers[w].at \in Nat
  BY <1>2, TypedFields
<1>3. LimitTypes(now', entry, workers, granted, promise)
  <2>1. now' \in Nat /\ now' <= MaxTime /\ \A t \in Nat : t <= now => t <= now'
    BY <1>1, <1>2 DEF LimitTypes
  <2> QED
    BY <1>2, <1>4, <2>1 DEF LimitTypes
<1>5. \A i \in DOMAIN granted : Counts(granted, i, now') => Counts(granted, i, now)
  BY <1>1, <1>2, <1>4 DEF Counts, LimitTypes
<1>6. \A w \in Procs : ReqOk(now', entry, granted, workers[w])
  <2> TAKE w \in Procs
  <2>1. ReqOk(now, entry, granted, workers[w])
    BY DEF LimitInv, LimitOk
  <2>2. workers[w].at \in Nat /\ now \in Nat
    BY <1>2 DEF LimitTypes
  <2>3. workers[w].pc # "idle" => now' <= workers[w].at + Fudge
    BY <1>1, <2>2
  <2> QED
    BY <1>5, <2>1, <2>3 DEF ReqOk
<1>7. LimitOk(now', entry, workers, granted, promise)
  BY <1>3, <1>5, <1>6 DEF LimitInv, LimitOk
<1> QED
  BY <1>1, <1>7 DEF LimitInv

LEMMA LimitArrives ==
    ASSUME Limiter!LimitAssumption, LimitInv, NEW p \in Procs, Limiter!Arrive(p)
    PROVE  LimitInv'
<1> USE DEF Limiter!LimitAssumption
<1> DEFINE r == [pc |-> "get", at |-> now, seen |-> {},
                 alone |-> \A v \in Procs : workers[v].pc = "idle"]
<1>1. /\ workers[p].pc = "idle"
      /\ workers' = [w \in Procs |-> IF w = p THEN r ELSE [workers[w] EXCEPT !.alone = FALSE]]
      /\ UNCHANGED <<now, entry, granted, promise>>
  BY DEF Limiter!Arrive
<1>2. LimitTypes(now, entry, workers, granted, promise)
  BY DEF LimitInv, LimitOk
<1>3. r \in [pc : {"idle", "get", "set"}, at : Nat, seen : SUBSET DOMAIN granted, alone : BOOLEAN]
  BY <1>2 DEF LimitTypes
<1>4. \A w \in Procs \ {p} : /\ workers'[w].pc = workers[w].pc /\ workers'[w].at = workers[w].at
                            /\ workers'[w].seen = workers[w].seen /\ ~workers'[w].alone
                            /\ workers'[w] \in [pc : {"idle", "get", "set"}, at : Nat,
                                                seen : SUBSET DOMAIN granted, alone : BOOLEAN]
  BY <1>1, <1>2 DEF LimitTypes
<1>5. workers'[p] = r
  BY <1>1
<1>6. LimitTypes(now, entry, workers', granted, promise)
  <2>1. workers' \in [Procs -> [pc : {"idle", "get", "set"}, at : Nat, seen : SUBSET DOMAIN granted,
                               alone : BOOLEAN]]
    BY <1>1, <1>3, <1>4, <1>5
  <2>2. Cardinality(r.seen) <= Limit
    BY FS_EmptySet
  <2>3. \A w \in Procs : workers'[w].at <= now /\ Cardinality(workers'[w].seen) <= Limit
    <3>1. r.at <= now
      BY <1>2 DEF LimitTypes
    <3> QED
      BY <1>2, <1>4, <1>5, <2>2, <3>1 DEF LimitTypes
  <2> HIDE DEF r
  <2> QED
    BY <1>2, <2>1, <2>3 DEF LimitTypes
<1>7. \A w \in Procs : ReqOk(now, entry, granted, workers'[w])
  <2>1. ReqOk(now, entry, granted, r)
    BY <1>2 DEF ReqOk, LimitInv, LimitOk, LimitTypes
  <2>2. \A w \in Procs \ {p} : ReqOk(now, entry, granted, workers'[w])
    BY <1>4 DEF ReqOk, LimitInv, LimitOk
  <2> QED
    BY <1>5, <2>1, <2>2
<1>8. \A v, w \in Procs : v # w /\ workers'[w].alone => workers'[v].pc = "idle"
  BY <1>4, <1>5
<1>9. Promised(entry, workers', granted, promise)
  BY <1>4, <1>5 DEF Promised, Within, LimitInv, LimitOk
<1> QED
  BY <1>1, <1>6, <1>7, <1>8, <1>9 DEF LimitInv, LimitOk

LEMMA LimitReads ==
    ASSUME Limiter!LimitAssumption, LimitInv, NEW p \in Procs, Limiter!Get(p)
    PROVE  LimitInv'
<1> USE DEF Limiter!LimitAssumption
<1> DEFINE s == IF now < entry.expires THEN entry.times ELSE {}
           r == [workers[p] EXCEPT !.pc = "set", !.seen = s]
<1>1. /\ workers[p].pc = "get" /\ workers' = [workers EXCEPT ![p] = r]
      /\ UNCHANGED <<now, entry, granted, promise>>
  BY DEF Limiter!Get
<1>2. LimitTypes(now, entry, workers, granted, promise)
  BY DEF LimitInv, LimitOk
<1>3. /\ s \in SUBSET DOMAIN granted /\ s \subseteq entry.times /\ Cardinality(s) <= Limit
  BY <1>2, FS_EmptySet DEF LimitTypes
<1>4. /\ r.pc = "set" /\ r.at = workers[p].at /\ r.alone = workers[p].alone /\ r.seen = s
      /\ r \in [pc : {"idle", "get", "set"}, at : Nat, seen : SUBSET DOMAIN granted, alone : BOOLEAN]
  BY <1>2, <1>3 DEF LimitTypes
<1>5. workers'[p] = r /\ \A w \in Procs \ {p} : workers'[w] = workers[w]
  BY <1>1, <1>2 DEF LimitTypes
<1>6. LimitTypes(now, entry, workers', granted, promise)
  <2>1. workers' \in [Procs -> [pc : {"idle", "get", "set"}, at : Nat, seen : SUBSET DOMAIN granted,
                               alone : BOOLEAN]]
    BY <1>1, <1>2, <1>4 DEF LimitTypes
  <2> QED
    BY <1>2, <1>3, <1>4, <1>5, <2>1, ZenonT(60) DEF LimitTypes
<1>7. \A w \in Procs : ReqOk(now, entry, granted, workers'[w])
  <2>1. \A i \in DOMAIN granted : Held(granted, entry, i) /\ Counts(granted, i, workers[p].at) => i \in s
    <3> TAKE i \in DOMAIN granted
    <3> HAVE Held(granted, entry, i) /\ Counts(granted, i, workers[p].at)
    <3>1. now <= workers[p].at + Fudge
      BY <1>1 DEF LimitInv, LimitOk, ReqOk
    <3>2. granted[i].at \in Nat /\ workers[p].at \in Nat /\ now \in Nat /\ entry.expires \in Nat
      BY <1>2, TypedFields DEF LimitTypes
    <3>3. now < entry.expires
      BY <3>1, <3>2 DEF Held, Counts
    <3> QED
      BY <3>3 DEF Held
  <2>2. \A i \in DOMAIN granted : Counts(granted, i, now) => Counts(granted, i, workers[p].at)
    <3>1. workers[p].at \in Nat /\ now \in Nat /\ workers[p].at <= now
      BY <1>2 DEF LimitTypes
    <3>2. \A i \in DOMAIN granted : granted[i].at \in Nat
      BY <1>2, TypedFields
    <3> QED
      BY <3>1, <3>2 DEF Counts
  <2>3. ReqOk(now, entry, granted, r)
    BY <1>1, <1>4, <2>1, <2>2 DEF ReqOk, LimitInv, LimitOk
  <2> QED
    BY <1>5, <2>3 DEF LimitInv, LimitOk
<1>8. \A v, w \in Procs : v # w /\ workers'[w].alone => workers'[v].pc = "idle"
  BY <1>1, <1>4, <1>5 DEF LimitInv, LimitOk
<1>9. Promised(entry, workers', granted, promise)
  <2>1. \A P : Within(entry, workers, P) => Within(entry, workers', P)
    BY <1>3, <1>4, <1>5 DEF Within
  <2>2. Promised(entry, workers, granted, promise)
    BY DEF LimitInv, LimitOk
  <2> QED
    BY <2>1, <2>2 DEF Promised
<1> QED
  BY <1>1, <1>6, <1>7, <1>8, <1>9 DEF LimitInv, LimitOk

LEMMA LimitCulls ==
    ASSUME Limiter!LimitAssumption, LimitInv, Limiter!Cull
    PROVE  LimitInv'
<1> USE DEF Limiter!LimitAssumption
<1>1. /\ entry' = [times |-> {}, expires |-> 0]
      /\ granted' = [i \in DOMAIN granted |-> [granted[i] EXCEPT !.kept = FALSE]]
      /\ UNCHANGED <<now, workers, promise>>
  BY DEF Limiter!Cull, Limiter!Absent
<1>2. LimitTypes(now, entry, workers, granted, promise)
  BY DEF LimitInv, LimitOk
<1>3. /\ granted \in Seq([at : Nat, kept : BOOLEAN])
      /\ \A i \in DOMAIN granted : granted[i] \in [at : Nat, kept : BOOLEAN]
  BY <1>2, ElementsTyped DEF LimitTypes
<1>4. /\ DOMAIN granted' = DOMAIN granted
      /\ \A i \in DOMAIN granted : /\ granted'[i].at = granted[i].at /\ ~granted'[i].kept
                                  /\ granted'[i] \in [at : Nat, kept : BOOLEAN]
  BY <1>1, <1>3
<1>5. DOMAIN granted = 1 .. Len(granted) /\ Len(granted) \in Nat
  BY <1>3, GrantsAreFinite
<1>6. granted' \in Seq([at : Nat, kept : BOOLEAN]) /\ Len(granted') = Len(granted)
  <2>1. granted' \in [1 .. Len(granted) -> [at : Nat, kept : BOOLEAN]]
    BY <1>1, <1>4, <1>5
  <2> QED
    BY <1>5, <2>1, FunctionsAreLists
<1>7. LimitTypes(now, entry', workers, granted', promise)
  <2>1. /\ entry' \in [times : SUBSET DOMAIN granted', expires : Nat]
        /\ Cardinality(entry'.times) <= Limit
    BY <1>1, FS_EmptySet
  <2>2. \A i \in DOMAIN granted' : granted'[i].at <= now
    BY <1>2, <1>4 DEF LimitTypes
  <2> QED
    BY <1>2, <1>4, <1>6, <2>1, <2>2 DEF LimitTypes
<1>8. \A t : \A i \in DOMAIN granted' : ~Counts(granted', i, t)
  BY <1>4 DEF Counts
<1>9. \A t \in Nat : KeptAt(granted', t) = {}
  BY <1>4 DEF KeptAt
<1>10. Promised(entry', workers, granted', promise)
  <2>1. \A P : Within(entry, workers, P) => Within(entry', workers, P)
    BY <1>1 DEF Within
  <2>2. Promised(entry, workers, granted, promise)
    BY DEF LimitInv, LimitOk
  <2> QED
    BY <1>4, <1>6, <2>1, <2>2 DEF Promised
<1>11. \A w \in Procs : ReqOk(now, entry', granted', workers[w])
  BY <1>8 DEF ReqOk, LimitInv, LimitOk
<1>12. LimitOk(now, entry', workers, granted', promise)
  BY <1>7, <1>8, <1>9, <1>10, <1>11, FS_EmptySet DEF LimitInv, LimitOk
<1> QED
  BY <1>1, <1>12 DEF LimitInv

\* What a request that is about to write back keeps of the list.
LEMMA PrunedFacts ==
    ASSUME Limiter!LimitAssumption, LimitInv, NEW p \in Procs, workers[p].pc = "set"
    PROVE  /\ Limiter!Pruned(p) \in SUBSET workers[p].seen
           /\ Limiter!Pruned(p) \in SUBSET DOMAIN granted
           /\ IsFiniteSet(Limiter!Pruned(p)) /\ Cardinality(Limiter!Pruned(p)) \in Nat
           /\ Cardinality(Limiter!Pruned(p)) <= Limit
           /\ \A i \in DOMAIN granted : Counts(granted, i, now) => i \in Limiter!Pruned(p)
           /\ workers[p].alone =>
                 /\ \A i \in DOMAIN granted : Counts(granted, i, workers[p].at) => i \in Limiter!Pruned(p)
                 /\ \A w \in Procs \ {p} : workers[w].pc = "idle"
<1> DEFINE P == Limiter!Pruned(p)
<1>1. LimitTypes(now, entry, workers, granted, promise)
  BY DEF LimitInv, LimitOk
<1>2. P = {i \in workers[p].seen : granted[i].at + Window > workers[p].at}
  BY DEF Limiter!Pruned
<1>3. /\ workers[p].seen \in SUBSET DOMAIN granted /\ workers[p].at \in Nat /\ now \in Nat
      /\ workers[p].at <= now /\ Cardinality(workers[p].seen) <= Limit
      /\ granted \in Seq([at : Nat, kept : BOOLEAN])
      /\ \A i \in DOMAIN granted : granted[i].at \in Nat
  BY <1>1, TypedFields DEF LimitTypes
<1>4. P \in SUBSET workers[p].seen
  BY <1>2
<1>5. /\ IsFiniteSet(P) /\ Cardinality(P) \in Nat /\ Cardinality(workers[p].seen) \in Nat
      /\ Cardinality(P) <= Cardinality(workers[p].seen)
  BY <1>3, <1>4, GrantsAreFinite
<1>6. Cardinality(P) <= Limit
  BY <1>3, <1>5 DEF Limiter!LimitAssumption
<1>7. ReqOk(now, entry, granted, workers[p])
  BY DEF LimitInv, LimitOk
<1>8. \A i \in DOMAIN granted : Counts(granted, i, now) => Counts(granted, i, workers[p].at)
  BY <1>3 DEF Counts, Limiter!LimitAssumption
<1>9. \A i \in DOMAIN granted : Counts(granted, i, workers[p].at) /\ i \in workers[p].seen => i \in P
  BY <1>2 DEF Counts
<1>10. workers[p].alone => \A w \in Procs \ {p} : workers[w].pc = "idle"
  BY DEF LimitInv, LimitOk
<1> QED
  BY <1>3, <1>4, <1>5, <1>6, <1>7, <1>8, <1>9, <1>10 DEF ReqOk

\* A request goes home.
LEMMA LimitLeaves ==
    ASSUME LimitInv, NEW p \in Procs, workers' = [workers EXCEPT ![p] = Limiter!Asleep]
    PROVE  /\ workers'[p].pc = "idle" /\ ~workers'[p].alone
           /\ workers'[p].seen = {} /\ workers'[p].at = 0
           /\ \A w \in Procs \ {p} : workers'[w] = workers[w]
           /\ workers' \in [Procs -> [pc : {"idle", "get", "set"}, at : Nat,
                                      seen : SUBSET DOMAIN granted, alone : BOOLEAN]]
<1>1. workers \in [Procs -> [pc : {"idle", "get", "set"}, at : Nat,
                            seen : SUBSET DOMAIN granted, alone : BOOLEAN]]
  BY DEF LimitInv, LimitOk, LimitTypes
<1>2. Limiter!Asleep \in [pc : {"idle", "get", "set"}, at : Nat,
                          seen : SUBSET DOMAIN granted, alone : BOOLEAN]
  BY DEF Limiter!Asleep
<1> QED
  BY <1>1, <1>2 DEF Limiter!Asleep

LEMMA LimitGrants ==
    ASSUME Limiter!LimitAssumption, LimitInv, NEW p \in Procs, Limiter!Grant(p)
    PROVE  LimitInv'
<1> USE DEF Limiter!LimitAssumption
<1> DEFINE P == Limiter!Pruned(p)
           k == Len(granted) + 1
           q == workers[p]
           grant == [at |-> q.at, kept |-> q.alone]
<1>1. /\ q.pc = "set" /\ ~(Cardinality(P) >= Limit)
      /\ entry' = [times |-> P \cup {k}, expires |-> now + Window + Fudge]
      /\ granted' = Append(granted, grant)
      /\ workers' = [workers EXCEPT ![p] = Limiter!Asleep]
      /\ UNCHANGED <<now, promise>>
  BY SameCardinality DEF Limiter!Grant, Limiter!Full, Limiter!Stored
<1>2. LimitTypes(now, entry, workers, granted, promise)
  BY DEF LimitInv, LimitOk
<1>3. /\ P \in SUBSET DOMAIN granted /\ IsFiniteSet(P) /\ Cardinality(P) \in Nat
      /\ \A i \in DOMAIN granted : Counts(granted, i, now) => i \in P
      /\ q.alone => /\ \A i \in DOMAIN granted : Counts(granted, i, q.at) => i \in P
                    /\ \A w \in Procs \ {p} : workers[w].pc = "idle"
  BY <1>1, PrunedFacts
<1>4. /\ granted \in Seq([at : Nat, kept : BOOLEAN]) /\ DOMAIN granted = 1 .. Len(granted)
      /\ Len(granted) \in Nat /\ grant \in [at : Nat, kept : BOOLEAN]
      /\ now \in Nat /\ q.at \in Nat /\ q.at <= now
      /\ \A i \in DOMAIN granted : granted[i].at \in Nat /\ granted[i].at <= now
  BY <1>2, TypedFields, GrantsAreFinite DEF LimitTypes
<1>5. /\ granted' \in Seq([at : Nat, kept : BOOLEAN]) /\ Len(granted') = k
      /\ DOMAIN granted' = DOMAIN granted \cup {k} /\ k \notin DOMAIN granted
      /\ granted'[k] = grant /\ \A i \in DOMAIN granted : granted'[i] = granted[i]
  BY <1>1, <1>4
<1>6. /\ workers'[p].pc = "idle" /\ ~workers'[p].alone /\ workers'[p].seen = {} /\ workers'[p].at = 0
      /\ \A w \in Procs \ {p} : workers'[w] = workers[w]
      /\ workers' \in [Procs -> [pc : {"idle", "get", "set"}, at : Nat,
                                 seen : SUBSET DOMAIN granted, alone : BOOLEAN]]
  BY <1>1, LimitLeaves
<1>7. IsFiniteSet(P \cup {k}) /\ Cardinality(P \cup {k}) = Cardinality(P) + 1
  BY <1>3, <1>5, FS_AddElement
<1>8. Cardinality(P \cup {k}) \in Nat /\ Cardinality(P \cup {k}) <= Limit
  BY <1>1, <1>3, <1>7
<1> HIDE DEF P, k
<1>9. LimitTypes(now, entry', workers', granted', promise)
  <2>1. workers' \in [Procs -> [pc : {"idle", "get", "set"}, at : Nat,
                               seen : SUBSET DOMAIN granted', alone : BOOLEAN]]
    BY <1>5, <1>6
  <2>2. \A w \in Procs : workers'[w].at <= now /\ Cardinality(workers'[w].seen) <= Limit
    <3>1. Cardinality(workers'[p].seen) <= Limit /\ workers'[p].at <= now
      BY <1>4, <1>6, FS_EmptySet
    <3>2. \A w \in Procs \ {p} : workers'[w].at <= now /\ Cardinality(workers'[w].seen) <= Limit
      BY <1>2, <1>6 DEF LimitTypes
    <3> QED
      BY <3>1, <3>2
  <2>3. \A i \in DOMAIN granted' : granted'[i].at <= now
    BY <1>4, <1>5
  <2>4. entry' \in [times : SUBSET DOMAIN granted', expires : Nat] /\ Cardinality(entry'.times) <= Limit
    BY <1>1, <1>3, <1>4, <1>5, <1>8, SMTT(60)
  <2>5. promise.grants <= Len(granted')
    BY <1>2, <1>4, <1>5 DEF LimitTypes, k
  <2> QED
    BY <1>2, <1>5, <2>1, <2>2, <2>3, <2>4, <2>5 DEF LimitTypes
<1>10. \A t : \A i \in DOMAIN granted : Counts(granted', i, t) = Counts(granted, i, t)
  BY <1>5 DEF Counts
<1>11. \A w \in Procs : ReqOk(now, entry', granted', workers'[w])
  <2>1. ReqOk(now, entry', granted', workers'[p])
    BY <1>6 DEF ReqOk
  <2>2. ASSUME NEW w \in Procs \ {p}
        PROVE  ReqOk(now, entry', granted', workers[w])
    <3>1. ReqOk(now, entry, granted, workers[w]) /\ ~workers[w].alone
      BY <1>1, <2>2 DEF LimitInv, LimitOk
    <3>2. workers[w].pc # "idle" => ~Counts(granted', k, now)
      BY <1>3, <1>5, <2>2 DEF Counts
    <3> QED
      BY <1>5, <1>10, <3>1, <3>2 DEF ReqOk
  <2> QED
    BY <1>6, <2>1, <2>2
<1>12. \A v, w \in Procs : v # w /\ workers'[w].alone => workers'[v].pc = "idle"
  BY <1>6 DEF LimitInv, LimitOk
<1>13. \A i \in DOMAIN granted' : Counts(granted', i, now) => Held(granted', entry', i)
  <2>1. \A i \in DOMAIN granted' : granted'[i].at + Window + Fudge <= now + Window + Fudge
    <3>1. \A i \in DOMAIN granted : granted'[i].at \in Nat /\ granted'[i].at <= now
      BY <1>4, <1>5
    <3>2. granted'[k].at \in Nat /\ granted'[k].at <= now
      BY <1>4, <1>5
    <3>3. \A n \in Nat : n <= now => n + Window + Fudge <= now + Window + Fudge
      BY <1>4
    <3> QED
      BY <1>5, <3>1, <3>2, <3>3
  <2>2. \A i \in DOMAIN granted' : Counts(granted', i, now) => i \in P \cup {k}
    BY <1>3, <1>5, <1>10
  <2> QED
    BY <1>1, <2>1, <2>2 DEF Held
<1>14. ASSUME NEW t \in Nat PROVE Cardinality(KeptAt(granted', t)) <= Limit
  <2>1. CASE q.alone /\ q.at <= t
    <3>1. KeptAt(granted', t) \subseteq P \cup {k}
      <4>1. \A i \in DOMAIN granted : granted[i].kept /\ granted[i].at + Window > t => Counts(granted, i, q.at)
        BY <1>4, <2>1 DEF Counts
      <4> QED
        BY <1>3, <1>5, <2>1, <4>1 DEF KeptAt
    <3>2. Cardinality(KeptAt(granted', t)) <= Cardinality(P \cup {k})
      BY <1>7, <3>1, FS_Subset
    <3>3. Cardinality(KeptAt(granted', t)) \in Nat
      BY <1>7, <3>1, FS_Subset, FS_CardinalityType
    <3> QED
      BY <1>8, <3>2, <3>3
  <2>2. CASE ~(q.alone /\ q.at <= t)
    <3>1. KeptAt(granted', t) = KeptAt(granted, t)
      BY <1>5, <2>2 DEF KeptAt
    <3> QED
      BY <3>1 DEF LimitInv, LimitOk
  <2> QED
    BY <2>1, <2>2
<1>15. Promised(entry', workers', granted', promise)
  <2>1. promise.grants # Len(granted')
    BY <1>2, <1>4, <1>5, TypedFields DEF LimitTypes, k
  <2> QED
    BY <2>1 DEF Promised
<1> QED
  BY <1>1, <1>9, <1>11, <1>12, <1>13, <1>14, <1>15 DEF LimitInv, LimitOk

\* The oldest of a full list is one of its grants.
LEMMA OldestFacts ==
    ASSUME Limiter!LimitAssumption, LimitInv, NEW P \in SUBSET DOMAIN granted, P # {}
    PROVE  \E o \in P : Limiter!Oldest(P) = granted[o].at
<1> DEFINE ats == {granted[i].at : i \in P}
<1>1. \A i \in P : granted[i].at \in Nat
  BY TypedFields DEF LimitInv, LimitOk
<1>2. ats \in SUBSET Nat /\ ats # {}
  BY <1>1
<1>3. \E t \in ats : \A u \in ats : t <= u
  <2> HIDE DEF ats
  <2> QED
    BY <1>2, LeastNumber
<1>4. Limiter!Oldest(P) \in ats
  BY <1>3 DEF Limiter!Oldest
<1> QED
  BY <1>4

LEMMA LimitRefuses ==
    ASSUME Limiter!LimitAssumption, LimitInv, NEW p \in Procs, Limiter!Refuse(p)
    PROVE  LimitInv'
<1> USE DEF Limiter!LimitAssumption
<1> DEFINE P == Limiter!Pruned(p)
           q == workers[p]
<1>1. /\ q.pc = "set" /\ Cardinality(P) >= Limit
      /\ entry' = [times |-> P, expires |-> now + Window + Fudge]
      /\ promise' = IF q.alone THEN [at |-> Limiter!Oldest(P) + Window, grants |-> Len(granted)]
                    ELSE promise
      /\ workers' = [workers EXCEPT ![p] = Limiter!Asleep]
      /\ UNCHANGED <<now, granted>>
  BY SameCardinality DEF Limiter!Refuse, Limiter!Full, Limiter!Stored, Limiter!PromiseAfter
<1>2. LimitTypes(now, entry, workers, granted, promise)
  BY DEF LimitInv, LimitOk
<1>3. /\ P \in SUBSET DOMAIN granted /\ P \in SUBSET q.seen
      /\ Cardinality(P) \in Nat /\ Cardinality(P) <= Limit
      /\ \A i \in DOMAIN granted : Counts(granted, i, now) => i \in P
      /\ q.alone => \A w \in Procs \ {p} : workers[w].pc = "idle"
  BY <1>1, PrunedFacts
<1>4. /\ now \in Nat /\ Len(granted) \in Nat
      /\ \A i \in DOMAIN granted : granted[i].at \in Nat /\ granted[i].at <= now
  BY <1>2, TypedFields, GrantsAreFinite DEF LimitTypes
<1>5. /\ workers'[p].pc = "idle" /\ ~workers'[p].alone /\ workers'[p].seen = {} /\ workers'[p].at = 0
      /\ \A w \in Procs \ {p} : workers'[w] = workers[w]
      /\ workers' \in [Procs -> [pc : {"idle", "get", "set"}, at : Nat,
                                 seen : SUBSET DOMAIN granted, alone : BOOLEAN]]
  BY <1>1, LimitLeaves
<1>6. PICK o \in P : Limiter!Oldest(P) = granted[o].at
  <2>1. P # {}
    <3>1. Cardinality({}) = 0
      BY FS_EmptySet
    <3>2. Cardinality(P) >= Limit /\ Limit \in Nat \ {0}
      BY <1>1
    <3>3. Cardinality({}) # Cardinality(P)
      BY <1>3, <3>1, <3>2
    <3> QED
      BY <3>3
  <2> QED
    BY <1>3, <2>1, OldestFacts
<1>7. granted[o].at \in Nat /\ granted[o].at + Window \in Nat
  BY <1>3, <1>4, <1>6
<1> HIDE DEF P
<1>8. promise' \in [at : Nat, grants : Nat] /\ promise'.grants <= Len(granted)
  BY <1>1, <1>2, <1>4, <1>6, <1>7 DEF LimitTypes
<1>9. LimitTypes(now, entry', workers', granted, promise')
  <2>1. \A w \in Procs : workers'[w].at <= now /\ Cardinality(workers'[w].seen) <= Limit
    <3>1. Cardinality(workers'[p].seen) <= Limit /\ workers'[p].at <= now
      BY <1>4, <1>5, FS_EmptySet
    <3>2. \A w \in Procs \ {p} : workers'[w].at <= now /\ Cardinality(workers'[w].seen) <= Limit
      BY <1>2, <1>5 DEF LimitTypes
    <3> QED
      BY <3>1, <3>2
  <2>2. entry' \in [times : SUBSET DOMAIN granted, expires : Nat] /\ Cardinality(entry'.times) <= Limit
    BY <1>1, <1>3, <1>4
  <2> QED
    BY <1>2, <1>5, <1>8, <2>1, <2>2 DEF LimitTypes
<1>10. \A w \in Procs : ReqOk(now, entry', granted, workers'[w])
  <2>1. ReqOk(now, entry', granted, workers'[p])
    BY <1>5 DEF ReqOk
  <2>2. ASSUME NEW w \in Procs \ {p}
        PROVE  ReqOk(now, entry', granted, workers[w])
    <3>1. ReqOk(now, entry, granted, workers[w]) /\ ~workers[w].alone
      BY <1>1, <2>2 DEF LimitInv, LimitOk
    <3> QED
      BY <3>1 DEF ReqOk
  <2> QED
    BY <1>5, <2>1, <2>2
<1>11. \A v, w \in Procs : v # w /\ workers'[w].alone => workers'[v].pc = "idle"
  BY <1>5 DEF LimitInv, LimitOk
<1>12. \A i \in DOMAIN granted : Counts(granted, i, now) => Held(granted, entry', i)
  <2>1. \A n \in Nat : n <= now => n + Window + Fudge <= now + Window + Fudge
    BY <1>4
  <2> QED
    BY <1>1, <1>3, <1>4, <2>1 DEF Held
<1>13. Promised(entry', workers', granted, promise')
  <2>1. CASE q.alone
    <3>1. Within(entry', workers', P)
      BY <1>1, <1>3, <1>5, <2>1 DEF Within
    <3>2. granted[o].at + Window <= promise'.at
      BY <1>1, <1>6, <1>7, <2>1
    <3> QED
      BY <1>3, <1>6, <3>1, <3>2 DEF Promised
  <2>2. CASE ~q.alone
    <3>1. ASSUME NEW S, Within(entry, workers, S) PROVE Within(entry', workers', S)
      BY <1>1, <1>3, <1>5, <3>1 DEF Within
    <3>2. promise' = promise /\ Promised(entry, workers, granted, promise)
      BY <1>1, <2>2 DEF LimitInv, LimitOk
    <3> QED
      BY <3>1, <3>2 DEF Promised
  <2> QED
    BY <2>1, <2>2
<1> QED
  BY <1>1, <1>9, <1>10, <1>11, <1>12, <1>13 DEF LimitInv, LimitOk

LEMMA LimitInit == Limiter!LimitAssumption /\ Limiter!Init => LimitInv
<1> SUFFICES ASSUME Limiter!LimitAssumption, Limiter!Init PROVE LimitInv
  OBVIOUS
<1> USE DEF Limiter!LimitAssumption
<1>1. /\ now = 0 /\ entry = [times |-> {}, expires |-> 0] /\ granted = << >>
      /\ workers = [w \in Procs |-> Limiter!Asleep]
      /\ promise = [at |-> MaxTime + 1, grants |-> 0]
  BY DEF Limiter!Init, Limiter!Absent, Limiter!NoPromise
<1>2. DOMAIN granted = {} /\ Len(granted) = 0 /\ granted \in Seq([at : Nat, kept : BOOLEAN])
  BY <1>1
<1>3. \A w \in Procs : /\ workers[w] = Limiter!Asleep /\ workers[w].pc = "idle" /\ ~workers[w].alone
                      /\ workers[w].seen = {} /\ workers[w].at = 0
                      /\ workers[w] \in [pc : {"idle", "get", "set"}, at : Nat,
                                         seen : SUBSET DOMAIN granted, alone : BOOLEAN]
  BY <1>1 DEF Limiter!Asleep
<1>4. LimitTypes(now, entry, workers, granted, promise)
  <2>1. workers \in [Procs -> [pc : {"idle", "get", "set"}, at : Nat,
                              seen : SUBSET DOMAIN granted, alone : BOOLEAN]]
    BY <1>1, <1>3
  <2>2. \A w \in Procs : workers[w].at <= now /\ Cardinality(workers[w].seen) <= Limit
    <3>1. Cardinality({}) <= Limit /\ 0 <= now
      BY <1>1, FS_EmptySet
    <3> QED
      BY <1>3, <3>1
  <2>3. entry \in [times : SUBSET DOMAIN granted, expires : Nat] /\ Cardinality(entry.times) <= Limit
    BY <1>1, FS_EmptySet
  <2>4. promise \in [at : Nat, grants : Nat] /\ promise.grants <= Len(granted)
    BY <1>1, <1>2
  <2> QED
    BY <1>1, <1>2, <2>1, <2>2, <2>3, <2>4 DEF LimitTypes
<1>5. \A w \in Procs : ReqOk(now, entry, granted, workers[w])
  BY <1>3 DEF ReqOk
<1>6. \A t \in Nat : Cardinality(KeptAt(granted, t)) <= Limit
  BY <1>2, FS_EmptySet DEF KeptAt
<1>7. Promised(entry, workers, granted, promise)
  BY <1>1 DEF Promised
<1> QED
  BY <1>2, <1>3, <1>4, <1>5, <1>6, <1>7 DEF LimitInv, LimitOk

LEMMA LimitNext ==
    Limiter!LimitAssumption /\ LimitInv /\ [Limiter!Next]_limitVars => LimitInv'
<1>1. LimitInv /\ UNCHANGED limitVars => LimitInv'
  BY DEF LimitInv, limitVars
<1> QED
  BY <1>1, TimePasses, LimitArrives, LimitReads, LimitGrants, LimitRefuses, LimitCulls
  DEF Limiter!Next

LEMMA LimitIsInductive == Limiter!LimitAssumption /\ Limiter!Spec => []LimitInv
<1>1. CASE Limiter!LimitAssumption
  BY <1>1, LimitInit, LimitNext, PTL DEF Limiter!Spec, Limiter!vars, limitVars
<1>2. CASE ~Limiter!LimitAssumption
  BY <1>2
<1> QED
  BY <1>1, <1>2

LEMMA ScenesLimit == SceneSpec => Limiter!LimitAssumption /\ Limiter!Spec
<1>1. Limiter!LimitAssumption
  BY RequestsAssumption
<1>2. SceneInit => Limiter!Init
  BY DEF SceneInit
<1>3. [SceneNext]_<<scene, vars, citeVars, limitVars>> => [Limiter!Next]_limitVars
  BY DEF SceneNext, limitVars
<1> QED
  BY <1>1, <1>2, <1>3, PTL DEF SceneSpec, Limiter!Spec, Limiter!vars, limitVars

\* No window holds more than Limit grants that nothing overlapped and the cache
\* did not drop, whatever overlapping requests write back in between
\* (check_and_record, _consume).
THEOREM WindowsStayLimited == SceneSpec => []AtMostLimit
<1>1. Limiter!LimitAssumption /\ LimitInv => Limiter!AtMostLimit
  <2> SUFFICES ASSUME Limiter!LimitAssumption, LimitInv, NEW t \in 0 .. MaxTime
               PROVE  Limiter!Cardinality(Limiter!KeptIn(t)) <= Limit
    BY DEF Limiter!AtMostLimit
  <2>1. Limiter!KeptIn(t) = KeptAt(granted, t)
    BY DEF Limiter!KeptIn, KeptAt
  <2>2. t \in Nat
    BY DEF Limiter!LimitAssumption
  <2> QED
    BY <2>1, <2>2, SameCardinality DEF LimitInv, LimitOk
<1>2. Limiter!AtMostLimit => AtMostLimit
  BY DEF AtMostLimit
<1>3. Limiter!LimitAssumption
  BY RequestsAssumption
<1> QED
  BY <1>1, <1>2, <1>3, ScenesLimit, LimitIsInductive, PTL

\* Who is refused finds Limit requests in his window, and who waits as long as a
\* refusal said gets in, if nobody was let through since.
LEMMA RefusalFacts ==
    ASSUME Limiter!LimitAssumption, LimitInv, NEW p \in Procs, Limiter!Refuse(p)
    PROVE  /\ Limiter!Cardinality({i \in DOMAIN granted : granted[i].at + Window > workers[p].at}) >= Limit
           /\ workers[p].at < promise.at \/ promise.grants # Len(granted)
<1> USE DEF Limiter!LimitAssumption
<1> DEFINE P == Limiter!Pruned(p)
           C == {i \in DOMAIN granted : granted[i].at + Window > workers[p].at}
<1>1. workers[p].pc = "set" /\ Cardinality(P) >= Limit
  BY SameCardinality DEF Limiter!Refuse, Limiter!Full
<1>2. LimitTypes(now, entry, workers, granted, promise)
  BY DEF LimitInv, LimitOk
<1>3. /\ P \in SUBSET DOMAIN granted /\ P \in SUBSET workers[p].seen /\ Cardinality(P) \in Nat
  BY <1>1, PrunedFacts
<1>4. /\ granted \in Seq([at : Nat, kept : BOOLEAN]) /\ workers[p].at \in Nat /\ promise.at \in Nat
      /\ workers[p].at <= MaxTime /\ \A i \in DOMAIN granted : granted[i].at \in Nat
  <2>1. now \in Nat /\ workers[p].at <= now /\ now <= MaxTime
    BY <1>2 DEF LimitTypes
  <2>2. /\ granted \in Seq([at : Nat, kept : BOOLEAN]) /\ workers[p].at \in Nat /\ promise.at \in Nat
        /\ \A i \in DOMAIN granted : granted[i].at \in Nat
    BY <1>2, TypedFields DEF LimitTypes
  <2> QED
    BY <2>1, <2>2
<1>5. P \subseteq C
  BY <1>3 DEF Limiter!Pruned
<1>6. Cardinality(C) >= Limit
  <2>1. C \in SUBSET DOMAIN granted
    OBVIOUS
  <2> HIDE DEF C, P
  <2>2. Cardinality(P) <= Cardinality(C) /\ Cardinality(C) \in Nat
    BY <1>4, <1>5, <2>1, GrantsAreFinite
  <2> QED
    BY <1>1, <1>3, <2>2
<1>7. ASSUME ~(workers[p].at < promise.at), promise.grants = Len(granted)
      PROVE  FALSE
  <2>1. promise.at <= workers[p].at /\ promise.at <= MaxTime
    BY <1>4, <1>7
  <2>0. PICK S \in SUBSET DOMAIN granted : \E o \in S :
           Cardinality(S) <= Limit /\ granted[o].at + Window <= promise.at /\ Within(entry, workers, S)
    BY <1>7, <2>1 DEF LimitInv, LimitOk, Promised
  <2>2. PICK o \in S :
           Cardinality(S) <= Limit /\ granted[o].at + Window <= promise.at /\ Within(entry, workers, S)
    BY <2>0
  <2>3. o \notin P
    <3>1. granted[o].at + Window <= workers[p].at
      BY <1>4, <2>1, <2>2
    <3> QED
      BY <1>4, <3>1, <2>2 DEF Limiter!Pruned
  <2>4. P \subseteq S \ {o}
    BY <1>1, <1>3, <2>2, <2>3 DEF Within
  <2> HIDE DEF P
  <2>5. IsFiniteSet(S) /\ Cardinality(S) \in Nat
    BY <1>4, GrantsAreFinite
  <2>6. Cardinality(S \ {o}) = Cardinality(S) - 1 /\ IsFiniteSet(S \ {o})
    BY <2>2, <2>5, FS_RemoveElement
  <2>7. Cardinality(P) <= Cardinality(S \ {o})
    BY <2>4, <2>6, FS_Subset
  <2> QED
    BY <1>1, <1>3, <2>2, <2>5, <2>6, <2>7
<1> QED
  BY <1>6, <1>7, SameCardinality

\* A refusal was earned, and Retry-After is a promise that is kept: no refusal
\* takes a slot (check_and_record; _consume's Retry-After).
THEOREM WaitersGetIn == SceneSpec => RetryAfterIsHonoured
<1>1. Limiter!LimitAssumption /\ LimitInv /\ [Limiter!Next]_limitVars =>
        /\ [\A w \in Procs : Limiter!Refuse(w) =>
              Limiter!Cardinality({i \in DOMAIN granted : granted[i].at + Window > workers[w].at}) >= Limit]_limitVars
        /\ [\A w \in Procs : Limiter!Refuse(w) =>
              workers[w].at < promise.at \/ promise.grants # Len(granted)]_limitVars
  BY RefusalFacts
<1>2. Limiter!LimitAssumption
  BY RequestsAssumption
<1> QED
  BY <1>1, <1>2, ScenesLimit, LimitIsInductive, PTL
  DEF RetryAfterIsHonoured, Limiter!RefusalsAreEarned, Limiter!RetryAfterIsHonoured, Limiter!Spec,
      Limiter!vars, limitVars

-----------------------------------------------------------------------------
(* Looking a citation up (Extraction).                                     *)

(* Two answers are the same only if they are of one kind and of one thing. *)
LEMMA AnswersDiffer ==
    ASSUME NEW a, NEW b
    PROVE  /\ Lookups!Draft(a) = Lookups!Draft(b) => a = b
           /\ Lookups!Match(a) = Lookups!Match(b) => a = b
           /\ Lookups!Draft(a) # Lookups!Match(b)
           /\ Lookups!Failure(a) # Lookups!Draft(b) /\ Lookups!Failure(a) # Lookups!Match(b)
           /\ Lookups!Notice # Lookups!Draft(b) /\ Lookups!Notice # Lookups!Match(b)
           /\ Lookups!Crash # Lookups!Draft(b) /\ Lookups!Crash # Lookups!Match(b)
           /\ <<"none">> # Lookups!Draft(b) /\ <<"none">> # Lookups!Match(b)
BY DEF Lookups!Draft, Lookups!Match, Lookups!Failure, Lookups!Notice, Lookups!Crash

(* What the pieces of a body may take, and a hop that sets out in time.    *)
LookupTime == MaxReads * Timeout

LEMMA Multiples ==
    ASSUME NEW a \in Nat, NEW b \in Nat
    PROVE  /\ a * b \in Nat
           /\ a > 0 => (a - 1) * b + b = a * b
           /\ a > 0 => b <= a * b
BY Z3

LEMMA HopFits ==
    ASSUME Lookups!LookupAssumption, NEW s \in Nat, s < Timeout
    PROVE  /\ LookupTime \in Nat
           /\ s + MaxReads * (Timeout - s) <= LookupTime
<1>1. MaxReads \in Nat /\ MaxReads > 0 /\ Timeout \in Nat
  BY DEF Lookups!LookupAssumption
<1>2. LookupTime \in Nat
  BY <1>1, Multiples DEF LookupTime
<1>3. MaxReads * (Timeout - s) = MaxReads * Timeout - MaxReads * s
  BY <1>1, Z3
<1>4. s <= MaxReads * s /\ MaxReads * s \in Nat
  BY <1>1, Multiples
<1> QED
  BY <1>1, <1>2, <1>3, <1>4 DEF LookupTime

LEMMA PieceFits ==
    ASSUME NEW m \in Nat, NEW reads \in Nat, reads < m, NEW left \in Nat,
           NEW took \in Nat, took <= left, NEW spent \in Nat, NEW all \in Nat,
           spent + (m - reads) * left <= all
    PROVE  spent + took + (m - (reads + 1)) * left <= all
<1> DEFINE n == m - reads
<1>1. n \in Nat /\ n > 0 /\ m - (reads + 1) = n - 1
  OBVIOUS
<1> HIDE DEF n
<1>2. (n - 1) * left + left = n * left /\ n * left \in Nat /\ (n - 1) * left \in Nat
  BY <1>1, Multiples
<1>3. spent + n * left <= all
  BY DEF n
<1>4. spent + took + (n - 1) * left <= all
  BY <1>1, <1>2, <1>3
<1> QED
  BY <1>1, <1>4

-----------------------------------------------------------------------------
Stages == {"idle", "classify", "cache", "resolve", "budget", "body", "isbn", "library", "done"}

LookupShape(q) ==
    /\ q = [pc |-> q.pc, url |-> q.url, isbn |-> q.isbn, hops |-> q.hops, spent |-> q.spent, left |-> q.left,
            reads |-> q.reads, known |-> q.known, answer |-> q.answer, starts |-> q.starts]
    /\ q.pc \in Stages
    /\ q.url \in Addresses \cup {None} /\ q.isbn \in Numbers \cup {None}
    /\ q.hops \in Nat /\ q.spent \in Nat /\ q.left \in Nat /\ q.reads \in Nat /\ q.starts \in Nat
    /\ q.pc \in {"classify", "cache"} => q.url \in Addresses
    /\ q.pc = "cache" => q.url \notin Deliverer
    /\ q.pc \in {"isbn", "library"} => q.isbn \in Numbers

(* What was known at the start is on its way to being matched.             *)
KnownOk(q, pages, isbns) ==
    q.known # None =>
        \/ q.pc = "classify" /\ q.url \notin Deliverer /\ q.known = q.url /\ q.url \in pages
        \/ q.pc = "classify" /\ q.url \in Deliverer /\ q.known = Embedded[q.url] /\ q.known \in isbns
        \/ q.pc = "isbn" /\ q.known = q.isbn /\ q.isbn \in isbns
        \/ q.pc = "done" /\ q.answer = Lookups!Match(q.known)

NoCopy(q) ==
    q.url \in Deliverer => q.answer # Lookups!Draft(q.url) /\ q.answer # Lookups!Match(q.url)

(* A hop has the time of its pieces before it.                             *)
InTime(q) ==
    /\ q.pc = "body" => q.reads <= MaxReads /\ q.spent + (MaxReads - q.reads) * q.left <= LookupTime
    /\ q.pc \in {"classify", "cache", "resolve"} => q.spent <= LookupTime
    /\ q.spent <= LookupTime + 1

RequestOk(q, pages, isbns) ==
    LookupShape(q) /\ KnownOk(q, pages, isbns) /\ NoCopy(q) /\ InTime(q)

LookupInv ==
    /\ cited \subseteq Addresses /\ books \subseteq Numbers
    /\ drafts = [u \in Addresses |-> drafts[u]] /\ editions = [i \in Numbers |-> editions[i]]
    /\ Lookups!FailuresAreForgotten
    /\ DOMAIN req = Requests
    /\ \A r \in Requests : RequestOk(req[r], cited, books)

(* More sources leave a request as it should be.                           *)
LEMMA SourcesOnlyHelp ==
    ASSUME NEW q, NEW pages, NEW isbns, NEW more, NEW others, pages \subseteq more, isbns \subseteq others,
           RequestOk(q, pages, isbns)
    PROVE  RequestOk(q, more, others)
BY DEF RequestOk, KnownOk

(* Any answer that suits what was known and is no copy's page.             *)
LEMMA AnswersAreFit ==
    ASSUME NEW r \in Requests, NEW a, LookupInv, Lookups!Answered(r, a),
           req[r].known # None => a = Lookups!Match(req[r].known),
           req[r].url \in Deliverer => a # Lookups!Draft(req[r].url) /\ a # Lookups!Match(req[r].url),
           LookupTime \in Nat
    PROVE  /\ RequestOk(req'[r], cited, books)
           /\ \A o \in Requests \ {r} : req'[o] = req[o]
           /\ DOMAIN req' = Requests
<1>1. RequestOk(req[r], cited, books) /\ DOMAIN req = Requests
  BY DEF LookupInv
<1>2. /\ req'[r] = [req[r] EXCEPT !.pc = "done", !.answer = a, !.hops = 0, !.left = 0, !.reads = 0, !.spent = 0]
      /\ \A o \in Requests \ {r} : req'[o] = req[o]
      /\ DOMAIN req' = Requests
  BY <1>1 DEF Lookups!Answered
<1> DEFINE q == req[r]
<1>3. req'[r] = [pc |-> "done", url |-> q.url, isbn |-> q.isbn, hops |-> 0, spent |-> 0, left |-> 0,
                 reads |-> 0, known |-> q.known, answer |-> a, starts |-> q.starts]
  BY <1>1, <1>2 DEF RequestOk, LookupShape
<1>4. LookupShape(req'[r])
  BY <1>1, <1>3 DEF RequestOk, LookupShape, Stages
<1>5. KnownOk(req'[r], cited, books) /\ NoCopy(req'[r]) /\ InTime(req'[r])
  BY <1>1, <1>3 DEF KnownOk, NoCopy, InTime
<1> QED
  BY <1>2, <1>4, <1>5 DEF RequestOk

(* A step of a request that leaves everything else as it was.              *)
OneMoves(r) ==
    /\ RequestOk(req'[r], cited, books)
    /\ \A o \in Requests \ {r} : req'[o] = req[o]
    /\ DOMAIN req' = Requests

LEMMA AnswersMove ==
    ASSUME NEW r \in Requests, NEW a, LookupInv, Lookups!Answered(r, a), LookupTime \in Nat,
           \/ req[r].known = None /\ req[r].url \notin Deliverer
           \/ req[r].known = None /\ \A b : a # Lookups!Draft(b) /\ a # Lookups!Match(b)
           \/ req[r].known = None /\ \E b \in Numbers : a \in {Lookups!Draft(b), Lookups!Match(b)}
           \/ req[r].known \in Numbers /\ a = Lookups!Match(req[r].known)
           \/ req[r].url \notin Deliverer /\ a = Lookups!Match(req[r].known),
           Lookups!LookupAssumption
    PROVE  OneMoves(r)
<1>1. Addresses \cap Numbers = {} /\ None \notin Addresses \cup Numbers
  BY DEF Lookups!LookupAssumption
<1>2. req[r].url \in Addresses \cup {None}
  BY DEF LookupInv, RequestOk, LookupShape
<1>3. req[r].known # None => a = Lookups!Match(req[r].known)
  OBVIOUS
<1>4. req[r].url \in Deliverer => a # Lookups!Draft(req[r].url) /\ a # Lookups!Match(req[r].url)
  BY <1>1, <1>2, AnswersDiffer DEF Lookups!LookupAssumption
<1> QED
  BY <1>3, <1>4, AnswersAreFit DEF OneMoves

(* Any other step: the fields it sets.                                     *)
LEMMA MovesAreFit ==
    ASSUME NEW r \in Requests, LookupInv, NEW q,
           req' = [req EXCEPT ![r] = q], RequestOk(q, cited, books)
    PROVE  OneMoves(r)
BY DEF OneMoves, LookupInv

LEMMA StartsAreFit ==
    ASSUME NEW r \in Requests, LookupInv, Lookups!LookupAssumption, LookupTime \in Nat,
           \/ \E u \in Addresses : Lookups!StartUrl(r, u)
           \/ \E i \in Numbers : Lookups!StartIsbn(r, i)
    PROVE  OneMoves(r)
<1>1. /\ RequestOk(req[r], cited, books) /\ cited \subseteq Addresses /\ books \subseteq Numbers
      /\ req[r].starts \in Nat
  BY DEF LookupInv, RequestOk, LookupShape
<1>2. /\ Addresses \cap Numbers = {} /\ None \notin Addresses \cup Numbers
      /\ Deliverer \subseteq Addresses /\ Embedded \in [Deliverer -> Numbers \cup {None}]
  BY DEF Lookups!LookupAssumption
<1>3. CASE \E u \in Addresses : Lookups!StartUrl(r, u)
  <2> PICK u \in Addresses : Lookups!StartUrl(r, u)
    BY <1>3
  <2> DEFINE source == IF u \in Addresses \ Deliverer THEN u ELSE Embedded[u]
             known == IF source \in cited \cup books THEN source ELSE None
             q == [pc |-> "classify", url |-> u, isbn |-> None, hops |-> 0, spent |-> 0, left |-> 0,
                   reads |-> 0, known |-> known, answer |-> <<"none">>, starts |-> req[r].starts + 1]
  <2>6. PICK fresh : fresh = [Lookups!Idle EXCEPT !.pc = "classify", !.url = u, !.isbn = None,
                         !.starts = req[r].starts + 1, !.known = known]
    OBVIOUS
  <2>7. req' = [req EXCEPT ![r] = fresh]
    BY <1>2, <2>6 DEF Lookups!StartUrl, Lookups!Start
  <2>8. fresh = q
    BY <2>6 DEF Lookups!Idle
  <2>1. req' = [req EXCEPT ![r] = q]
    BY <2>7, <2>8
  <2>2. LookupShape(q)
    BY <1>1 DEF LookupShape, Stages
  <2>3. KnownOk(q, cited, books)
    BY <1>1, <1>2 DEF KnownOk
  <2>4. NoCopy(q)
    BY AnswersDiffer DEF NoCopy
  <2>5. InTime(q)
    BY DEF InTime
  <2> QED
    BY <2>1, <2>2, <2>3, <2>4, <2>5, MovesAreFit DEF RequestOk
<1>4. CASE \E i \in Numbers : Lookups!StartIsbn(r, i)
  <2> PICK i \in Numbers : Lookups!StartIsbn(r, i)
    BY <1>4
  <2> DEFINE known == IF i \in cited \cup books THEN i ELSE None
             q == [pc |-> "isbn", url |-> None, isbn |-> i, hops |-> 0, spent |-> 0, left |-> 0,
                   reads |-> 0, known |-> known, answer |-> <<"none">>, starts |-> req[r].starts + 1]
  <2>6. PICK fresh : fresh = [Lookups!Idle EXCEPT !.pc = "isbn", !.url = None, !.isbn = i,
                         !.starts = req[r].starts + 1, !.known = known]
    OBVIOUS
  <2>7. req' = [req EXCEPT ![r] = fresh]
    BY <1>2, <2>6 DEF Lookups!StartIsbn, Lookups!Start
  <2>8. fresh = q
    BY <2>6 DEF Lookups!Idle
  <2>1. req' = [req EXCEPT ![r] = q]
    BY <2>7, <2>8
  <2>2. LookupShape(q)
    BY <1>1 DEF LookupShape, Stages
  <2>3. KnownOk(q, cited, books) /\ NoCopy(q) /\ InTime(q)
    BY <1>1, <1>2 DEF KnownOk, NoCopy, InTime
  <2> QED
    BY <2>1, <2>2, <2>3, MovesAreFit DEF RequestOk
<1> QED
  BY <1>3, <1>4

(* From one stage to another, with nothing of the request but that.        *)
LEMMA GoingIsFit ==
    ASSUME NEW r \in Requests, LookupInv, NEW pc, Lookups!Goes(r, pc),
           pc \in {"cache", "resolve", "library"}, req[r].known = None,
           pc = "cache" => req[r].url \in Addresses \ Deliverer,
           pc = "library" => req[r].isbn \in Numbers,
           pc \in {"cache", "resolve"} => req[r].spent <= LookupTime
    PROVE  OneMoves(r)
<1> DEFINE q == [req[r] EXCEPT !.pc = pc]
<1>1. RequestOk(req[r], cited, books)
  BY DEF LookupInv
<1>2. req' = [req EXCEPT ![r] = q]
  BY DEF Lookups!Goes
<1>3. q = [pc |-> pc, url |-> req[r].url, isbn |-> req[r].isbn, hops |-> req[r].hops, spent |-> req[r].spent,
           left |-> req[r].left, reads |-> req[r].reads, known |-> req[r].known, answer |-> req[r].answer,
           starts |-> req[r].starts]
  BY <1>1 DEF RequestOk, LookupShape
<1> HIDE DEF q
<1>4. LookupShape(q)
  BY <1>1, <1>3 DEF RequestOk, LookupShape, Stages
<1>5. KnownOk(q, cited, books) /\ NoCopy(q) /\ InTime(q)
  BY <1>1, <1>3 DEF RequestOk, KnownOk, NoCopy, InTime
<1> QED
  BY <1>2, <1>4, <1>5, MovesAreFit DEF RequestOk

LEMMA ToTheIsbn ==
    ASSUME NEW r \in Requests, LookupInv, NEW i \in Numbers,
           req' = [req EXCEPT ![r].pc = "isbn", ![r].isbn = i],
           req[r].known = None \/ (req[r].known = i /\ i \in books)
    PROVE  OneMoves(r)
<1>1. RequestOk(req[r], cited, books) /\ DOMAIN req = Requests
  BY DEF LookupInv
<1>6. PICK q : q = [req[r] EXCEPT !.pc = "isbn", !.isbn = i]
  OBVIOUS
<1>2. req' = [req EXCEPT ![r] = q]
  BY <1>1, <1>6
<1>3. q = [pc |-> "isbn", url |-> req[r].url, isbn |-> i, hops |-> req[r].hops, spent |-> req[r].spent,
           left |-> req[r].left, reads |-> req[r].reads, known |-> req[r].known, answer |-> req[r].answer,
           starts |-> req[r].starts]
  BY <1>1, <1>6 DEF RequestOk, LookupShape
<1>4. LookupShape(q)
  BY <1>1, <1>3 DEF RequestOk, LookupShape, Stages
<1>5. KnownOk(q, cited, books) /\ NoCopy(q) /\ InTime(q)
  BY <1>1, <1>3 DEF RequestOk, KnownOk, NoCopy, InTime
<1> QED
  BY <1>2, <1>4, <1>5, MovesAreFit DEF RequestOk

LEMMA ClassifyingIsFit ==
    ASSUME NEW r \in Requests, LookupInv, Lookups!LookupAssumption, LookupTime \in Nat,
           Lookups!Classify(r) \/ Lookups!LookInCache(r) \/ Lookups!FindBook(r)
    PROVE  OneMoves(r)
<1>1. RequestOk(req[r], cited, books) /\ Lookups!FailuresAreForgotten /\ cited \subseteq Addresses
  BY DEF LookupInv
<1>2. /\ Addresses \cap Numbers = {} /\ None \notin Addresses \cup Numbers
      /\ Deliverer \subseteq Addresses /\ Embedded \in [Deliverer -> Numbers \cup {None}]
  BY DEF Lookups!LookupAssumption
<1>3. LookupShape(req[r]) /\ KnownOk(req[r], cited, books) /\ InTime(req[r])
  BY <1>1 DEF RequestOk
<1>4. CASE Lookups!Classify(r)
  <2>1. req[r].pc = "classify" /\ req[r].url \in Addresses /\ req[r].spent <= LookupTime
    BY <1>3, <1>4 DEF Lookups!Classify, LookupShape, InTime
  <2>2. CASE req[r].url \in Deliverer /\ Embedded[req[r].url] # None
    <3>1. Embedded[req[r].url] \in Numbers
      BY <1>2, <2>2
    <3>2. req' = [req EXCEPT ![r].pc = "isbn", ![r].isbn = Embedded[req[r].url]]
      BY <1>4, <2>2 DEF Lookups!Classify
    <3>3. req[r].known = None \/ (req[r].known = Embedded[req[r].url] /\ Embedded[req[r].url] \in books)
      BY <1>3, <2>1, <2>2 DEF KnownOk
    <3> QED
      BY <3>1, <3>2, <3>3, ToTheIsbn
  <2>3. CASE req[r].url \in Deliverer /\ Embedded[req[r].url] = None
    <3>1. req[r].known = None
      BY <1>1, <1>2, <1>3, <2>1, <2>3 DEF KnownOk, LookupInv
    <3>2. CASE req[r].url \in Bookish
      <4>1. Lookups!Goes(r, "resolve")
        BY <1>4, <2>3, <3>2 DEF Lookups!Classify
      <4> QED
        BY <2>1, <3>1, <4>1, GoingIsFit
    <3>3. CASE req[r].url \notin Bookish
      <4>1. Lookups!Answered(r, Lookups!Notice)
        BY <1>4, <2>3, <3>3 DEF Lookups!Classify
      <4>2. \A b : Lookups!Notice # Lookups!Draft(b) /\ Lookups!Notice # Lookups!Match(b)
        BY AnswersDiffer
      <4> QED
        BY <3>1, <4>1, <4>2, AnswersMove
    <3> QED
      BY <3>2, <3>3
  <2>4. CASE req[r].url \notin Deliverer /\ req[r].url \in cited
    <3>1. Lookups!Answered(r, Lookups!Match(req[r].url))
      BY <1>4, <2>4 DEF Lookups!Classify
    <3>2. req[r].known = None \/ req[r].known = req[r].url
      BY <1>3, <2>1, <2>4 DEF KnownOk
    <3> QED
      BY <2>4, <3>1, <3>2, AnswersMove
  <2>5. CASE req[r].url \notin Deliverer /\ req[r].url \notin cited
    <3>1. Lookups!Goes(r, "cache")
      BY <1>4, <2>5 DEF Lookups!Classify
    <3>2. req[r].known = None
      BY <1>3, <2>1, <2>5 DEF KnownOk
    <3> QED
      BY <2>1, <2>5, <3>1, <3>2, GoingIsFit
  <2> QED
    BY <2>2, <2>3, <2>4, <2>5
<1>5. CASE Lookups!LookInCache(r)
  <2>1. /\ req[r].pc = "cache" /\ req[r].url \in Addresses /\ req[r].url \notin Deliverer
        /\ req[r].spent <= LookupTime /\ req[r].known = None
    BY <1>3, <1>5 DEF Lookups!LookInCache, LookupShape, InTime, KnownOk
  <2>2. CASE drafts[req[r].url] # None
    <3>1. Lookups!Answered(r, drafts[req[r].url])
      BY <1>5, <2>2 DEF Lookups!LookInCache
    <3> QED
      BY <2>1, <3>1, AnswersMove
  <2>3. CASE drafts[req[r].url] = None
    <3>1. Lookups!Goes(r, "resolve")
      BY <1>5, <2>3 DEF Lookups!LookInCache
    <3> QED
      BY <2>1, <3>1, GoingIsFit
  <2> QED
    BY <2>2, <2>3
<1>6. CASE Lookups!FindBook(r)
  <2>1. /\ req[r].pc = "isbn" /\ req[r].isbn \in Numbers
        /\ req[r].known = None \/ (req[r].known = req[r].isbn /\ req[r].isbn \in books)
    BY <1>3, <1>6 DEF Lookups!FindBook, LookupShape, KnownOk
  <2>2. CASE req[r].isbn \in books
    <3>1. Lookups!Answered(r, Lookups!Match(req[r].isbn))
      BY <1>6, <2>2 DEF Lookups!FindBook
    <3> QED
      BY <2>1, <3>1, AnswersMove
  <2>3. CASE req[r].isbn \notin books /\ editions[req[r].isbn] # None
    <3>1. editions[req[r].isbn] = Lookups!Draft(req[r].isbn)
      BY <1>1, <2>1, <2>3 DEF Lookups!FailuresAreForgotten, Lookups!Edition, Lookups!Draft
    <3>2. Lookups!Answered(r, Lookups!Draft(req[r].isbn))
      BY <1>6, <2>3, <3>1 DEF Lookups!FindBook
    <3> QED
      BY <2>1, <2>3, <3>2, AnswersMove
  <2>4. CASE req[r].isbn \notin books /\ editions[req[r].isbn] = None
    <3>1. Lookups!Goes(r, "library")
      BY <1>6, <2>4 DEF Lookups!FindBook
    <3> QED
      BY <2>1, <2>4, <3>1, GoingIsFit
  <2> QED
    BY <2>2, <2>3, <2>4
<1> QED
  BY <1>4, <1>5, <1>6

(* The two stages of a request that has nothing known: the answers then    *)
(* are notices, failures, drafts.                                          *)
LEMMA FailingIsFit ==
    ASSUME NEW r \in Requests, LookupInv, Lookups!LookupAssumption, LookupTime \in Nat,
           NEW a, Lookups!Answered(r, a), req[r].pc \in {"resolve", "budget", "body", "library"},
           \/ a = Lookups!Crash
           \/ \E e : a = Lookups!Failed(r, e)
           \/ a = Lookups!Notice
           \/ req[r].url \notin Deliverer
           \/ \E b \in Numbers : a = Lookups!Draft(b)
    PROVE  OneMoves(r)
<1>1. req[r].known = None
  BY DEF LookupInv, RequestOk, KnownOk
<1>2. CASE \E b \in Numbers : a = Lookups!Draft(b)
  BY <1>1, <1>2, AnswersMove
<1>3. CASE req[r].url \notin Deliverer
  BY <1>1, <1>3, AnswersMove
<1>4. CASE a \in {Lookups!Crash, Lookups!Notice} \/ \E e : a = Lookups!Failed(r, e)
  <2>1. \A b : a # Lookups!Draft(b) /\ a # Lookups!Match(b)
    BY <1>4, AnswersDiffer DEF Lookups!Failed
  <2> QED
    BY <1>1, <2>1, AnswersMove
<1> QED
  BY <1>2, <1>3, <1>4

LEMMA HoppingIsFit ==
    ASSUME NEW r \in Requests, LookupInv, Lookups!LookupAssumption, LookupTime \in Nat,
           \/ \E took \in 0 .. 1 : Lookups!Resolve(r, took)
           \/ Lookups!Budget(r)
           \/ \E took \in 0 .. Timeout : Lookups!Operation(r, took)
           \/ Lookups!Redirect(r)
    PROVE  OneMoves(r)
<1> DEFINE q == req[r]
<1>1. RequestOk(q, cited, books) /\ DOMAIN req = Requests
  BY DEF LookupInv
<1>2. LookupShape(q) /\ KnownOk(q, cited, books) /\ InTime(q) /\ NoCopy(q)
  BY <1>1 DEF RequestOk
<1>3. Timeout \in Nat /\ MaxReads \in Nat /\ MaxReads > 0
  BY DEF Lookups!LookupAssumption
<1> HIDE DEF q
<1>4. ASSUME NEW took \in 0 .. 1, Lookups!Resolve(r, took)
      PROVE  OneMoves(r)
  <2>1. PICK p : p = [req[r] EXCEPT !.spent = @ + took, !.pc = "budget"]
    OBVIOUS
  <2>2. req' = [req EXCEPT ![r] = p] /\ q.pc = "resolve"
    BY <1>1, <1>4, <2>1 DEF Lookups!Resolve, q
  <2>3. p = [pc |-> "budget", url |-> q.url, isbn |-> q.isbn, hops |-> q.hops, spent |-> q.spent + took,
             left |-> q.left, reads |-> q.reads, known |-> q.known, answer |-> q.answer, starts |-> q.starts]
    BY <1>2, <2>1 DEF LookupShape, q
  <2>4. LookupShape(p)
    BY <1>2, <2>3 DEF LookupShape, Stages
  <2>5. KnownOk(p, cited, books) /\ NoCopy(p)
    BY <1>2, <2>2, <2>3 DEF KnownOk, NoCopy
  <2>6. q.spent <= LookupTime /\ q.spent \in Nat
    BY <1>2, <2>2 DEF InTime, LookupShape
  <2>7. InTime(p)
    BY <2>3, <2>6 DEF InTime
  <2> QED
    BY <2>2, <2>4, <2>5, <2>7, MovesAreFit DEF RequestOk
<1>5. CASE Lookups!Budget(r)
  <2>1. q.pc = "budget" /\ q.spent \in Nat /\ q.hops \in Nat
    BY <1>2, <1>5 DEF Lookups!Budget, LookupShape, q
  <2>2. CASE q.spent >= Timeout
    <3>1. Lookups!Answered(r, Lookups!Failed(r, "timeout"))
      BY <1>5, <2>2 DEF Lookups!Budget, q
    <3> QED
      BY <2>1, <3>1, FailingIsFit DEF q
  <2>3. CASE ~(q.spent >= Timeout)
    <3>1. PICK p : p = [req[r] EXCEPT !.pc = "body", !.hops = @ + 1, !.reads = 0, !.left = Timeout - q.spent]
      OBVIOUS
    <3>2. Lookups!HopTimeout(r) = Timeout - q.spent /\ Timeout - q.spent \in Nat
      BY <1>3, <2>1, <2>3 DEF Lookups!HopTimeout, Lookups!Max2, q
    <3>3. req' = [req EXCEPT ![r] = p]
      BY <1>1, <1>5, <2>3, <3>1, <3>2 DEF Lookups!Budget, q
    <3>4. p = [pc |-> "body", url |-> q.url, isbn |-> q.isbn, hops |-> q.hops + 1, spent |-> q.spent,
               left |-> Timeout - q.spent, reads |-> 0, known |-> q.known, answer |-> q.answer,
               starts |-> q.starts]
      BY <1>2, <3>1 DEF LookupShape, q
    <3>5. LookupShape(p)
      BY <1>2, <2>1, <3>2, <3>4 DEF LookupShape, Stages
    <3>6. KnownOk(p, cited, books) /\ NoCopy(p)
      BY <1>2, <2>1, <3>4 DEF KnownOk, NoCopy
    <3>7. q.spent + MaxReads * (Timeout - q.spent) <= LookupTime
      BY <1>3, <2>1, <2>3, HopFits
    <3>8. q.spent + (MaxReads - 0) * (Timeout - q.spent) <= LookupTime
      BY <1>3, <3>7
    <3>9. q.spent <= LookupTime + 1
      BY <1>2 DEF InTime
    <3>10. InTime(p)
      BY <1>3, <3>4, <3>8, <3>9 DEF InTime
    <3> QED
      BY <3>3, <3>5, <3>6, <3>10, MovesAreFit DEF RequestOk
  <2> QED
    BY <2>2, <2>3
<1>6. ASSUME NEW took \in 0 .. Timeout, Lookups!Operation(r, took)
      PROVE  OneMoves(r)
  <2>1. PICK p : p = [req[r] EXCEPT !.spent = @ + took, !.reads = @ + 1]
    OBVIOUS
  <2>2. req' = [req EXCEPT ![r] = p] /\ q.pc = "body" /\ q.reads < MaxReads /\ took <= q.left
    BY <1>1, <1>6, <2>1 DEF Lookups!Operation, q
  <2>3. p = [pc |-> q.pc, url |-> q.url, isbn |-> q.isbn, hops |-> q.hops, spent |-> q.spent + took,
             left |-> q.left, reads |-> q.reads + 1, known |-> q.known, answer |-> q.answer,
             starts |-> q.starts]
    BY <1>2, <2>1 DEF LookupShape, q
  <2>4. LookupShape(p)
    BY <1>2, <1>3, <2>2, <2>3 DEF LookupShape, Stages
  <2>5. KnownOk(p, cited, books) /\ NoCopy(p)
    BY <1>2, <2>2, <2>3 DEF KnownOk, NoCopy
  <2>6. /\ q.reads \in Nat /\ q.left \in Nat /\ q.spent \in Nat /\ took \in Nat
        /\ q.spent + (MaxReads - q.reads) * q.left <= LookupTime
    BY <1>2, <1>3, <2>2 DEF LookupShape, InTime
  <2>7. q.spent + took + (MaxReads - (q.reads + 1)) * q.left <= LookupTime
    BY <1>3, <2>2, <2>6, PieceFits
  <2>8. MaxReads - (q.reads + 1) \in Nat
    BY <1>3, <2>2, <2>6
  <2>9. (MaxReads - (q.reads + 1)) * q.left \in Nat
    BY <2>6, <2>8, Multiples
  <2>10. q.spent + took <= LookupTime + 1
    BY <2>6, <2>7, <2>9
  <2>11. InTime(p)
    BY <1>3, <2>2, <2>3, <2>6, <2>7, <2>8, <2>10 DEF InTime
  <2> QED
    BY <2>2, <2>4, <2>5, <2>11, MovesAreFit DEF RequestOk
<1>7. CASE Lookups!Redirect(r)
  <2>1. q.pc = "body" /\ q.reads \in Nat /\ q.left \in Nat /\ q.spent \in Nat /\ q.known = None
    BY <1>2, <1>7 DEF Lookups!Redirect, LookupShape, KnownOk, q
  <2>2. CASE q.hops = MaxRedirects + 1
    <3>1. Lookups!Answered(r, Lookups!Failed(r, "api_error"))
      BY <1>7, <2>2 DEF Lookups!Redirect, q
    <3> QED
      BY <2>1, <3>1, FailingIsFit DEF q
  <2>3. CASE q.hops # MaxRedirects + 1
    <3>1. Lookups!Goes(r, "resolve")
      BY <1>7, <2>3 DEF Lookups!Redirect, q
    <3>2. MaxReads - q.reads \in Nat /\ q.spent + (MaxReads - q.reads) * q.left <= LookupTime
      BY <1>2, <1>3, <2>1 DEF InTime
    <3>3. (MaxReads - q.reads) * q.left \in Nat
      BY <2>1, <3>2, Multiples
    <3>4. q.spent <= LookupTime
      BY <2>1, <3>2, <3>3
    <3> QED
      BY <2>1, <3>1, <3>4, GoingIsFit DEF q
  <2> QED
    BY <2>2, <2>3
<1> QED
  BY <1>4, <1>5, <1>6, <1>7

LEMMA FetchingIsFit ==
    ASSUME NEW r \in Requests, LookupInv, Lookups!LookupAssumption, LookupTime \in Nat,
           \/ \E e \in {"blocked", "timeout"} : Lookups!NoAddress(r, e)
           \/ \E e \in {"not_found", "api_error", "timeout"} : Lookups!NoPage(r, e)
           \/ Lookups!Garbled(r)
           \/ \E i \in Numbers \cup {None} : Lookups!Page(r, i)
           \/ Lookups!Found(r)
           \/ \E e \in {"not_found", "api_error", "timeout", "parse_error"} : Lookups!NotFound(r, e)
           \/ Lookups!LibraryCut(r)
    PROVE  OneMoves(r)
<1>1. /\ req[r].pc = "library" => req[r].isbn \in Numbers
      /\ req[r].pc = "body" => req[r].known = None
  BY DEF LookupInv, RequestOk, LookupShape, KnownOk
<1>2. CASE \E e \in {"blocked", "timeout"} : Lookups!NoAddress(r, e)
  BY <1>2, FailingIsFit DEF Lookups!NoAddress
<1>3. CASE \E e \in {"not_found", "api_error", "timeout"} : Lookups!NoPage(r, e)
  BY <1>3, FailingIsFit DEF Lookups!NoPage
<1>4. CASE Lookups!Garbled(r) \/ Lookups!LibraryCut(r)
  BY <1>4, FailingIsFit DEF Lookups!Garbled, Lookups!LibraryCut
<1>5. CASE \E e \in {"not_found", "api_error", "timeout", "parse_error"} : Lookups!NotFound(r, e)
  BY <1>5, FailingIsFit DEF Lookups!NotFound
<1>6. CASE Lookups!Found(r)
  <2>1. req[r].pc = "library" /\ Lookups!Answered(r, Lookups!Draft(req[r].isbn))
    BY <1>6 DEF Lookups!Found, Lookups!Edition, Lookups!Draft
  <2> QED
    BY <1>1, <2>1, FailingIsFit
<1>7. ASSUME NEW i \in Numbers \cup {None}, Lookups!Page(r, i)
      PROVE  OneMoves(r)
  <2>1. req[r].pc = "body"
    BY <1>7 DEF Lookups!Page
  <2>2. CASE req[r].url \in Deliverer /\ i = None
    <3>1. Lookups!Answered(r, Lookups!Notice)
      BY <1>7, <2>2 DEF Lookups!Page
    <3> QED
      BY <2>1, <3>1, FailingIsFit
  <2>3. CASE req[r].url \in Deliverer /\ i # None
    <3>1. req' = [req EXCEPT ![r].pc = "isbn", ![r].isbn = i] /\ i \in Numbers
      BY <1>7, <2>3 DEF Lookups!Page
    <3> QED
      BY <1>1, <2>1, <3>1, ToTheIsbn
  <2>4. CASE req[r].url \notin Deliverer
    <3>1. Lookups!Answered(r, Lookups!Draft(req[r].url))
      BY <1>7, <2>4 DEF Lookups!Page
    <3> QED
      BY <2>1, <2>4, <3>1, FailingIsFit
  <2> QED
    BY <2>2, <2>3, <2>4
<1> QED
  BY <1>2, <1>3, <1>4, <1>5, <1>6, <1>7

(* A request's step keeps the sources, and caches nothing but drafts.      *)
LEMMA RequestsAreFit ==
    ASSUME NEW r \in Requests, LookupInv, Lookups!LookupAssumption, LookupTime \in Nat,
           \/ \E u \in Addresses : Lookups!StartUrl(r, u)
           \/ \E i \in Numbers : Lookups!StartIsbn(r, i)
           \/ Lookups!Step(r)
    PROVE  OneMoves(r) /\ UNCHANGED <<cited, books>>
<1>1. CASE \/ \E u \in Addresses : Lookups!StartUrl(r, u)
           \/ \E i \in Numbers : Lookups!StartIsbn(r, i)
  <2>1. UNCHANGED <<cited, books>>
    BY <1>1 DEF Lookups!StartUrl, Lookups!StartIsbn, Lookups!Start
  <2> QED
    BY <1>1, <2>1, StartsAreFit, SMTT(60)
<1>2. CASE Lookups!Step(r)
  <2>1. CASE Lookups!Classify(r) \/ Lookups!LookInCache(r) \/ Lookups!FindBook(r)
    <3>1. UNCHANGED <<cited, books>>
      BY <2>1 DEF Lookups!Classify, Lookups!LookInCache, Lookups!FindBook
    <3> QED
      BY <2>1, <3>1, ClassifyingIsFit
  <2>2. CASE \/ \E took \in 0 .. 1 : Lookups!Resolve(r, took)
             \/ Lookups!Budget(r)
             \/ \E took \in 0 .. Timeout : Lookups!Operation(r, took)
             \/ Lookups!Redirect(r)
    <3>1. UNCHANGED <<cited, books>>
      BY <2>2 DEF Lookups!Resolve, Lookups!Budget, Lookups!Operation, Lookups!Redirect
    <3> QED
      BY <2>2, <3>1, HoppingIsFit
  <2>3. CASE \/ \E e \in {"blocked", "timeout"} : Lookups!NoAddress(r, e)
             \/ \E e \in {"not_found", "api_error", "timeout"} : Lookups!NoPage(r, e)
             \/ Lookups!Garbled(r)
             \/ \E i \in Numbers \cup {None} : Lookups!Page(r, i)
             \/ Lookups!Found(r)
             \/ \E e \in {"not_found", "api_error", "timeout", "parse_error"} : Lookups!NotFound(r, e)
             \/ Lookups!LibraryCut(r)
    <3>1. UNCHANGED <<cited, books>>
      BY <2>3 DEF Lookups!NoAddress, Lookups!NoPage, Lookups!Garbled, Lookups!Page, Lookups!Found,
                  Lookups!NotFound, Lookups!LibraryCut
    <3> QED
      BY <2>3, <3>1, FetchingIsFit
  <2> QED
    BY <1>2, <2>1, <2>2, <2>3 DEF Lookups!Step
<1> QED
  BY <1>1, <1>2

(* The caches: a page writes its draft, the library its edition.           *)
CachesOk ==
    /\ drafts = [u \in Addresses |-> drafts[u]] /\ editions = [i \in Numbers |-> editions[i]]
    /\ Lookups!FailuresAreForgotten

LEMMA CachesAreKept ==
    ASSUME NEW r \in Requests, LookupInv,
           \/ \E u \in Addresses : Lookups!StartUrl(r, u)
           \/ \E i \in Numbers : Lookups!StartIsbn(r, i)
           \/ Lookups!Step(r)
    PROVE  CachesOk'
<1>1. CachesOk
  BY DEF LookupInv, CachesOk
<1>2. CASE UNCHANGED <<drafts, editions>>
  BY <1>1, <1>2 DEF CachesOk, Lookups!FailuresAreForgotten
<1>3. ASSUME NEW i, Lookups!Page(r, i)
      PROVE  CachesOk'
  <2>1. UNCHANGED editions /\ (drafts' = drafts \/ drafts' = [drafts EXCEPT ![req[r].url] = Lookups!Draft(req[r].url)])
    BY <1>3 DEF Lookups!Page
  <2> QED
    BY <1>1, <2>1 DEF CachesOk, Lookups!FailuresAreForgotten
<1>4. CASE Lookups!Found(r)
  <2>1. UNCHANGED drafts /\ editions' = [editions EXCEPT ![req[r].isbn] = Lookups!Edition(req[r].isbn)]
    BY <1>4, SMTT(60) DEF Lookups!Found
  <2> QED
    BY <1>1, <2>1 DEF CachesOk, Lookups!FailuresAreForgotten
<1>5. CASE \/ \E u \in Addresses : Lookups!StartUrl(r, u)
           \/ \E i \in Numbers : Lookups!StartIsbn(r, i)
  BY <1>2, <1>5 DEF Lookups!StartUrl, Lookups!StartIsbn, Lookups!Start
<1>6. CASE Lookups!Step(r)
  BY <1>2, <1>3, <1>4, <1>6
     DEF Lookups!Step, Lookups!Classify, Lookups!LookInCache, Lookups!FindBook, Lookups!Resolve,
         Lookups!Budget, Lookups!Operation, Lookups!Redirect, Lookups!NoAddress, Lookups!NoPage,
         Lookups!Garbled, Lookups!NotFound, Lookups!LibraryCut
<1> QED
  BY <1>5, <1>6

LEMMA LookupsStayFit ==
    ASSUME LookupInv, Lookups!LookupAssumption, Lookups!Next
    PROVE  LookupInv'
<1>1. LookupTime \in Nat
  BY Multiples DEF Lookups!LookupAssumption, LookupTime
<1>2. ASSUME NEW r \in Requests,
             \/ \E u \in Addresses : Lookups!StartUrl(r, u)
             \/ \E i \in Numbers : Lookups!StartIsbn(r, i)
             \/ Lookups!Step(r)
      PROVE  LookupInv'
  <2>1. OneMoves(r) /\ UNCHANGED <<cited, books>> /\ CachesOk'
    BY <1>1, <1>2, RequestsAreFit, CachesAreKept
  <2> QED
    BY <2>1 DEF LookupInv, OneMoves, CachesOk
<1>3. CASE \/ \E u \in Addresses : Lookups!Cite(u)
           \/ \E i \in Numbers : Lookups!AddBook(i)
  <2>1. /\ cited \subseteq cited' /\ books \subseteq books' /\ UNCHANGED <<drafts, editions, req>>
        /\ cited' \subseteq Addresses /\ books' \subseteq Numbers
    BY <1>3 DEF Lookups!Cite, Lookups!AddBook, LookupInv
  <2>2. \A r \in Requests : RequestOk(req[r], cited', books')
    BY <2>1, SourcesOnlyHelp DEF LookupInv
  <2> QED
    BY <2>1, <2>2 DEF LookupInv, Lookups!FailuresAreForgotten
<1>4. CASE Lookups!Expire
  BY <1>4 DEF LookupInv, Lookups!Expire, Lookups!FailuresAreForgotten
<1> QED
  BY <1>2, <1>3, <1>4 DEF Lookups!Next

LEMMA LookupsStartFit ==
    ASSUME Lookups!Init, Lookups!LookupAssumption
    PROVE  LookupInv
<1>1. LookupTime \in Nat
  BY Multiples DEF Lookups!LookupAssumption, LookupTime
<1>2. ASSUME NEW r \in Requests
      PROVE  RequestOk(req[r], cited, books)
  <2>1. req[r] = [pc |-> "idle", url |-> None, isbn |-> None, hops |-> 0, spent |-> 0, left |-> 0, reads |-> 0,
                  known |-> None, answer |-> <<"none">>, starts |-> 0]
    BY DEF Lookups!Init, Lookups!Idle
  <2>2. None \notin Addresses /\ Deliverer \subseteq Addresses
    BY DEF Lookups!LookupAssumption
  <2>3. LookupShape(req[r])
    BY <2>1 DEF LookupShape, Stages
  <2> QED
    BY <1>1, <2>1, <2>2, <2>3 DEF RequestOk, KnownOk, NoCopy, InTime
<1> QED
  BY <1>2 DEF LookupInv, Lookups!Init, Lookups!FailuresAreForgotten, Lookups!LookupAssumption

LEMMA FitLookupsFind ==
    ASSUME LookupInv, Lookups!LookupAssumption
    PROVE  /\ Lookups!KnownIsMatched /\ Lookups!CopiesAreNotPages
           /\ Lookups!FailuresAreForgotten /\ Lookups!OneHopOver
<1>1. \A r \in Requests : KnownOk(req[r], cited, books) /\ NoCopy(req[r]) /\ InTime(req[r])
  BY DEF LookupInv, RequestOk
<1>2. Lookups!KnownIsMatched
  BY <1>1 DEF Lookups!KnownIsMatched, KnownOk
<1>3. Lookups!CopiesAreNotPages
  BY <1>1 DEF Lookups!CopiesAreNotPages, NoCopy
<1>4. Lookups!OneHopOver
  BY <1>1 DEF Lookups!OneHopOver, InTime, LookupTime
<1> QED
  BY <1>2, <1>3, <1>4 DEF LookupInv

-----------------------------------------------------------------------------
(* Minting sources (CitationSources).                                      *)

SourceRow == [parent : Nat, by : {"cite", "patch", "page", "record", "seed"},
              covers : URLs \cup Records \cup Sites \cup {None}]

RootRow(rows, s) == s \in DOMAIN rows /\ rows[s].parent = 0

(* Every row is a root or the child of one.                                *)
RowsNest(rows) ==
    /\ rows \in Seq(SourceRow) /\ RootRow(rows, 1)
    /\ \A s \in DOMAIN rows : rows[s].parent = 0 \/ RootRow(rows, rows[s].parent)

OwnersOk(rows, owners) ==
    DOMAIN owners \subseteq Sites /\ \A h \in DOMAIN owners : RootRow(rows, owners[h])

(* A page that was cited is under its site's root.                         *)
CitedRow(row) == row.by \in {"cite", "patch"} /\ row.parent # 0

PagesNest(rows, owners) ==
    \A s \in DOMAIN rows : CitedRow(rows[s]) =>
        /\ rows[s].covers \in URLs /\ SiteOf[rows[s].covers] \in DOMAIN owners
        /\ owners[SiteOf[rows[s].covers]] = rows[s].parent

FoundedOk(rows, owners) ==
    \A s \in DOMAIN rows : rows[s].parent = 0 /\ rows[s].by = "cite" =>
        /\ \E h \in DOMAIN owners : owners[h] = s
        /\ \E c \in DOMAIN rows : CitedRow(rows[c]) /\ rows[c].parent = s

(* The link of a record is its source's, and there is one.                 *)
RecordRow(row, i) == row.parent = 1 /\ row.by = "record" /\ row.covers = i

RecordsOk(rows, urls) ==
    /\ \A i \in Records : \A s, t \in DOMAIN rows : RecordRow(rows[s], i) /\ RecordRow(rows[t], i) => s = t
    /\ \A l \in urls : /\ l = [source |-> l.source, url |-> l.url] /\ l.source \in DOMAIN rows
                       /\ l.url \in Records => RecordRow(rows[l.source], l.url)

SourcesOk(rows, urls, owners) ==
    /\ RowsNest(rows) /\ OwnersOk(rows, owners) /\ PagesNest(rows, owners)
    /\ FoundedOk(rows, owners) /\ RecordsOk(rows, urls)

CiteShape(q) ==
    /\ q = [pc |-> q.pc, kind |-> q.kind, url |-> q.url, archive |-> q.archive, parent |-> q.parent,
            newRoot |-> q.newRoot, solo |-> q.solo]
    /\ q.pc \in {"idle", "classify", "root", "again", "mint", "insert"}
    /\ q.kind \in {"cite", "patch", "page", "record"} /\ q.newRoot \in BOOLEAN
    /\ q.archive \in URLs \cup {None}

(* What a request has found out holds until it commits.                    *)
MintOk(q, rows, owners) ==
    /\ CiteShape(q)
    /\ q.pc \in {"root", "again", "mint"} => q.url \in URLs
    /\ q.pc \in {"root", "again"} => q.kind = "cite"
    /\ q.pc \in {"classify", "root"} /\ q.kind \in {"cite", "patch"} => q.parent = 0
    /\ q.pc = "again" => SiteOf[q.url] \in DOMAIN owners
    /\ q.pc = "mint" => q.kind # "record"
    /\ q.pc = "insert" => q.kind = "record"
    /\ q.pc # "idle" /\ q.kind = "record" => q.url \in Records
    /\ q.pc = "classify" /\ q.kind = "page" => q.parent \in DOMAIN rows
    /\ q.pc = "mint" /\ q.kind = "page" => RootRow(rows, q.parent)
    /\ q.newRoot => q.pc = "mint" /\ q.kind = "cite" /\ q.parent = 0
    /\ q.pc = "mint" /\ ~q.newRoot /\ q.kind \in {"cite", "patch"} =>
          SiteOf[q.url] \in DOMAIN owners /\ owners[SiteOf[q.url]] = q.parent

(* Of those who found a root no two found the same, and nobody has.        *)
FoundersOk(citers, owners) ==
    \A w \in Workers : citers[w].newRoot =>
        /\ SiteOf[citers[w].url] \notin DOMAIN owners
        /\ \A v \in Workers \ {w} : citers[v].newRoot => SiteOf[citers[v].url] # SiteOf[citers[w].url]

MintsInv ==
    /\ SourcesOk(sources, links, domains)
    /\ DOMAIN citeWork = Workers
    /\ \A w \in Workers : MintOk(citeWork[w], sources, domains)
    /\ FoundersOk(citeWork, domains)

(* The one request that moves, and the rows it leaves alone.               *)
LEMMA CitesAreFit ==
    ASSUME NEW w \in Workers, MintsInv, NEW q,
           citeWork' = [citeWork EXCEPT ![w] = q], UNCHANGED <<sources, links, domains>>,
           MintOk(q, sources, domains),
           q.newRoot => /\ SiteOf[q.url] \notin DOMAIN domains
                        /\ \A v \in Workers \ {w} : citeWork[v].newRoot => SiteOf[citeWork[v].url] # SiteOf[q.url]
    PROVE  MintsInv'
<1>1. DOMAIN citeWork' = Workers /\ citeWork'[w] = q /\ \A v \in Workers \ {w} : citeWork'[v] = citeWork[v]
  BY DEF MintsInv
<1>2. SourcesOk(sources', links', domains')
  BY DEF MintsInv
<1>3. \A v \in Workers : MintOk(citeWork'[v], sources', domains')
  BY <1>1 DEF MintsInv
<1>4. FoundersOk(citeWork', domains')
  BY <1>1 DEF MintsInv, FoundersOk
<1> QED
  BY <1>1, <1>2, <1>3, <1>4 DEF MintsInv

LEMMA IdleIsFit ==
    ASSUME NEW rows, NEW owners
    PROVE  MintOk(Mints!Idle, rows, owners) /\ ~Mints!Idle.newRoot
<1>1. PICK u : u = CHOOSE v \in URLs : TRUE
  OBVIOUS
<1>2. Mints!Idle = [pc |-> "idle", kind |-> "cite", url |-> u, archive |-> None, parent |-> 0,
                    newRoot |-> FALSE, solo |-> FALSE]
  BY <1>1 DEF Mints!Idle
<1>3. PICK q : q = Mints!Idle
  OBVIOUS
<1>4. MintOk(q, rows, owners) /\ ~q.newRoot
  BY <1>2, <1>3 DEF MintOk, CiteShape
<1> QED
  BY <1>3, <1>4

(* A request that goes on to another stage.                                *)
LEMMA StagesAreFit ==
    ASSUME NEW w \in Workers, MintsInv, Mints!SitesAssumption,
           \/ Mints!Fail(w) \/ Mints!ClassifyPage(w) \/ Mints!InsertRoot(w) \/ Mints!Again(w)
           \/ Mints!FindRecord(w)
    PROVE  MintsInv'
<1> DEFINE q == citeWork[w]
<1>1. MintOk(q, sources, domains) /\ DOMAIN citeWork = Workers
  BY DEF MintsInv
<1>2. CiteShape(q)
  BY <1>1 DEF MintOk
<1> HIDE DEF q
<1>3. ASSUME Mints!Step(w, Mints!Idle)
      PROVE  MintsInv'
  <2>1. citeWork' = [citeWork EXCEPT ![w] = Mints!Idle] /\ UNCHANGED <<sources, links, domains>>
    BY <1>3 DEF Mints!Step, Mints!Goto
  <2> QED
    BY <2>1, IdleIsFit, CitesAreFit
<1>4. CASE Mints!Fail(w)
  BY <1>3, <1>4 DEF Mints!Fail
<1>5. CASE Mints!ClassifyPage(w)
  <2>1. CASE ~(citeWork[w].url \in URLs /\ Mints!ValidParent(citeWork[w].parent))
    BY <1>3, <1>5, <2>1 DEF Mints!ClassifyPage
  <2>2. CASE citeWork[w].url \in URLs /\ Mints!ValidParent(citeWork[w].parent)
    <3>1. PICK p : p = [citeWork[w] EXCEPT !.pc = "mint"]
      OBVIOUS
    <3>2. /\ citeWork' = [citeWork EXCEPT ![w] = p] /\ UNCHANGED <<sources, links, domains>>
          /\ q.pc = "classify" /\ q.kind = "page" /\ q.url \in URLs /\ sources[q.parent].parent = 0
      BY <1>5, <2>2, <3>1 DEF Mints!ClassifyPage, Mints!Step, Mints!Goto, Mints!ValidParent, Mints!IsRoot, q
    <3>3. p = [pc |-> "mint", kind |-> q.kind, url |-> q.url, archive |-> q.archive, parent |-> q.parent,
               newRoot |-> q.newRoot, solo |-> q.solo]
      BY <1>2, <3>1 DEF CiteShape, q
    <3>4. MintOk(p, sources, domains) /\ ~p.newRoot
      BY <1>1, <3>2, <3>3 DEF MintOk, CiteShape, RootRow
    <3> QED
      BY <3>2, <3>4, CitesAreFit
  <2> QED
    BY <2>1, <2>2
<1>6. CASE Mints!InsertRoot(w)
  <2>0. q.pc = "root" /\ q.kind = "cite" /\ q.url \in URLs /\ q.parent = 0 /\ SiteOf[q.url] \in Sites
    BY <1>1, <1>6 DEF Mints!InsertRoot, MintOk, Mints!SitesAssumption, q
  <2>1. CASE SiteOf[q.url] \in DOMAIN domains
    <3>1. PICK p : p = [citeWork[w] EXCEPT !.pc = "again"]
      OBVIOUS
    <3>2. citeWork' = [citeWork EXCEPT ![w] = p] /\ UNCHANGED <<sources, links, domains>>
      BY <1>6, <2>1, <3>1 DEF Mints!InsertRoot, Mints!AfterCollision, Mints!Step, Mints!Goto, q
    <3>3. p = [pc |-> "again", kind |-> q.kind, url |-> q.url, archive |-> q.archive, parent |-> q.parent,
               newRoot |-> q.newRoot, solo |-> q.solo]
      BY <1>2, <3>1 DEF CiteShape, q
    <3>4. MintOk(p, sources, domains) /\ ~p.newRoot
      BY <1>1, <2>0, <2>1, <3>3 DEF MintOk, CiteShape
    <3> QED
      BY <3>2, <3>4, CitesAreFit
  <2>2. CASE SiteOf[q.url] \notin DOMAIN domains
    <3>1. PICK p : p = [citeWork[w] EXCEPT !.pc = "mint", !.newRoot = TRUE]
      OBVIOUS
    <3>2. citeWork' = [citeWork EXCEPT ![w] = p] /\ UNCHANGED <<sources, links, domains>>
      BY <1>6, <2>2, <3>1 DEF Mints!InsertRoot, Mints!Step, Mints!Goto, q
    <3>3. p = [pc |-> "mint", kind |-> q.kind, url |-> q.url, archive |-> q.archive, parent |-> q.parent,
               newRoot |-> TRUE, solo |-> q.solo]
      BY <1>2, <3>1 DEF CiteShape, q
    <3>4. MintOk(p, sources, domains) /\ p.url = q.url
      BY <1>1, <2>0, <3>3 DEF MintOk, CiteShape
    <3>5. \A v \in Workers \ {w} : citeWork[v].newRoot => SiteOf[citeWork[v].url] # SiteOf[q.url]
      BY <1>6 DEF Mints!InsertRoot, Mints!Founding, q
    <3> QED
      BY <2>2, <3>2, <3>4, <3>5, CitesAreFit
  <2> QED
    BY <2>1, <2>2
<1>7. CASE Mints!Again(w)
  <2>0. q.pc = "again" /\ q.kind = "cite" /\ q.url \in URLs /\ SiteOf[q.url] \in DOMAIN domains
    BY <1>1, <1>7 DEF Mints!Again, MintOk, q
  <2>1. Mints!SeenAgain(w) = {domains[SiteOf[q.url]]}
    BY <2>0 DEF Mints!SeenAgain, q
  <2>2. PICK p : p = [citeWork[w] EXCEPT !.pc = "mint", !.parent = domains[SiteOf[q.url]]]
    OBVIOUS
  <2>3. citeWork' = [citeWork EXCEPT ![w] = p] /\ UNCHANGED <<sources, links, domains>>
    BY <1>7, <2>1, <2>2 DEF Mints!Again, Mints!Step, Mints!Goto
  <2>4. p = [pc |-> "mint", kind |-> q.kind, url |-> q.url, archive |-> q.archive,
             parent |-> domains[SiteOf[q.url]], newRoot |-> q.newRoot, solo |-> q.solo]
    BY <1>2, <2>2 DEF CiteShape, q
  <2>5. MintOk(p, sources, domains) /\ ~p.newRoot
    BY <1>1, <2>0, <2>4 DEF MintOk, CiteShape
  <2> QED
    BY <2>3, <2>5, CitesAreFit
<1>8. CASE Mints!FindRecord(w)
  <2>1. CASE Mints!Known(citeWork[w].url) # {}
    BY <1>3, <1>8, <2>1 DEF Mints!FindRecord
  <2>2. CASE Mints!Known(citeWork[w].url) = {}
    <3>1. PICK p : p = [citeWork[w] EXCEPT !.pc = "insert"]
      OBVIOUS
    <3>2. /\ citeWork' = [citeWork EXCEPT ![w] = p] /\ UNCHANGED <<sources, links, domains>>
          /\ q.pc = "classify" /\ q.kind = "record"
      BY <1>8, <2>2, <3>1 DEF Mints!FindRecord, Mints!Step, Mints!Goto, q
    <3>3. p = [pc |-> "insert", kind |-> q.kind, url |-> q.url, archive |-> q.archive, parent |-> q.parent,
               newRoot |-> q.newRoot, solo |-> q.solo]
      BY <1>2, <3>1 DEF CiteShape, q
    <3>4. MintOk(p, sources, domains) /\ ~p.newRoot
      BY <1>1, <3>2, <3>3 DEF MintOk, CiteShape
    <3> QED
      BY <3>2, <3>4, CitesAreFit
  <2> QED
    BY <2>1, <2>2
<1> QED
  BY <1>4, <1>5, <1>6, <1>7, <1>8

(* Whether a request is alone is no part of what it found.                 *)
LEMMA SoloIsApart ==
    ASSUME NEW q, NEW rows, NEW owners, MintOk(q, rows, owners), NEW solo
    PROVE  /\ MintOk([q EXCEPT !.solo = solo], rows, owners)
           /\ ([q EXCEPT !.solo = solo].newRoot <=> q.newRoot) /\ [q EXCEPT !.solo = solo].url = q.url
<1>1. PICK p : p = [q EXCEPT !.solo = solo]
  OBVIOUS
<1>2. p = [pc |-> q.pc, kind |-> q.kind, url |-> q.url, archive |-> q.archive, parent |-> q.parent,
           newRoot |-> q.newRoot, solo |-> solo]
  BY <1>1 DEF MintOk, CiteShape
<1>3. MintOk(p, rows, owners) /\ (p.newRoot <=> q.newRoot) /\ p.url = q.url
  BY <1>2 DEF MintOk, CiteShape
<1> QED
  BY <1>1, <1>3

LEMMA CompanyIsApart ==
    ASSUME NEW q, NEW rows, NEW owners, MintOk(q, rows, owners)
    PROVE  /\ MintOk([q EXCEPT !.solo = FALSE], rows, owners)
           /\ ([q EXCEPT !.solo = FALSE].newRoot <=> q.newRoot) /\ [q EXCEPT !.solo = FALSE].url = q.url
<1>1. PICK p : p = [q EXCEPT !.solo = FALSE]
  OBVIOUS
<1>2. p = [pc |-> q.pc, kind |-> q.kind, url |-> q.url, archive |-> q.archive, parent |-> q.parent,
           newRoot |-> q.newRoot, solo |-> FALSE]
  BY <1>1 DEF MintOk, CiteShape
<1>3. MintOk(p, rows, owners) /\ (p.newRoot <=> q.newRoot) /\ p.url = q.url
  BY <1>2 DEF MintOk, CiteShape
<1> QED
  BY <1>1, <1>3

(* More sources and links leave the requests under way as they are.        *)
OwnersGrow(rows, owners, more, others) ==
    /\ \A s \in DOMAIN rows : s \in DOMAIN more /\ more[s] = rows[s]
    /\ \A h \in DOMAIN owners : h \in DOMAIN others /\ others[h] = owners[h]

LEMMA CitesStayFit ==
    ASSUME NEW q, NEW rows, NEW owners, NEW more, NEW others, OwnersGrow(rows, owners, more, others),
           MintOk(q, rows, owners)
    PROVE  MintOk(q, more, others)
BY DEF MintOk, OwnersGrow, RootRow

LEMMA BeginningIsFit ==
    ASSUME NEW w \in Workers, MintsInv, NEW r, Mints!Begin(w, r), MintOk(r, sources, domains), ~r.newRoot
    PROVE  MintsInv'
<1>1. /\ DOMAIN citeWork' = Workers /\ UNCHANGED <<sources, links, domains>>
      /\ \E solo : citeWork'[w] = [r EXCEPT !.solo = solo]
      /\ \A v \in Workers \ {w} : citeWork'[v] = [citeWork[v] EXCEPT !.solo = FALSE]
  BY DEF Mints!Begin
<1>2. MintOk(citeWork'[w], sources, domains) /\ ~citeWork'[w].newRoot
  BY <1>1, SoloIsApart
<1>3. ASSUME NEW v \in Workers \ {w}
      PROVE  /\ MintOk(citeWork'[v], sources, domains)
             /\ (citeWork'[v].newRoot <=> citeWork[v].newRoot) /\ citeWork'[v].url = citeWork[v].url
  <2>1. MintOk(citeWork[v], sources, domains)
    BY DEF MintsInv
  <2>2. citeWork'[v] = [citeWork[v] EXCEPT !.solo = FALSE]
    BY <1>1
  <2> QED
    BY <2>1, <2>2, CompanyIsApart
<1>4. ASSUME NEW x \in Workers, citeWork'[x].newRoot
      PROVE  /\ SiteOf[citeWork'[x].url] \notin DOMAIN domains
             /\ \A v \in Workers \ {x} : citeWork'[v].newRoot => SiteOf[citeWork'[v].url] # SiteOf[citeWork'[x].url]
  <2>1. x \in Workers \ {w} /\ citeWork[x].newRoot /\ citeWork'[x].url = citeWork[x].url
    BY <1>2, <1>3, <1>4
  <2>2. \A v \in Workers \ {x} : citeWork'[v].newRoot => citeWork[v].newRoot /\ citeWork'[v].url = citeWork[v].url
    BY <1>2, <1>3
  <2> QED
    BY <2>1, <2>2 DEF MintsInv, FoundersOk
<1>5. FoundersOk(citeWork', domains')
  BY <1>1, <1>4 DEF FoundersOk
<1> QED
  BY <1>1, <1>2, <1>3, <1>5 DEF MintsInv

LEMMA BeginningsAreFit ==
    ASSUME NEW w \in Workers, MintsInv, Mints!SitesAssumption,
           \/ \E u \in URLs \cup Records : Mints!BeginCite(w, u)
           \/ \E u \in URLs, a \in URLs \cup {None} : Mints!BeginPatch(w, u, a)
           \/ \E s \in DOMAIN sources, u \in URLs : Mints!BeginPage(w, s, u)
           \/ \E i \in Records : Mints!BeginRecord(w, i)
    PROVE  MintsInv'
<1>1. PICK z : z = CHOOSE v \in URLs : TRUE
  OBVIOUS
<1>2. PICK idle : idle = Mints!Idle
  OBVIOUS
<1>3. idle = [pc |-> "idle", kind |-> "cite", url |-> z, archive |-> None, parent |-> 0,
              newRoot |-> FALSE, solo |-> FALSE]
  BY <1>1, <1>2 DEF Mints!Idle
<1>4. ASSUME NEW u \in URLs \cup Records, Mints!BeginCite(w, u)
      PROVE  MintsInv'
  <2>1. PICK r : r = [idle EXCEPT !.pc = "classify", !.url = u]
    OBVIOUS
  <2>2. Mints!Begin(w, r)
    BY <1>2, <1>4, <2>1 DEF Mints!BeginCite
  <2>3. MintOk(r, sources, domains) /\ ~r.newRoot
    BY <1>3, <2>1 DEF MintOk, CiteShape
  <2> QED
    BY <2>2, <2>3, BeginningIsFit
<1>5. ASSUME NEW u \in URLs, NEW a \in URLs \cup {None}, Mints!BeginPatch(w, u, a)
      PROVE  MintsInv'
  <2>1. PICK r : r = [idle EXCEPT !.pc = "classify", !.kind = "patch", !.url = u, !.archive = a]
    OBVIOUS
  <2>2. Mints!Begin(w, r)
    BY <1>2, <1>5, <2>1 DEF Mints!BeginPatch
  <2>3. MintOk(r, sources, domains) /\ ~r.newRoot
    BY <1>3, <2>1 DEF MintOk, CiteShape
  <2> QED
    BY <2>2, <2>3, BeginningIsFit
<1>6. ASSUME NEW s \in DOMAIN sources, NEW u \in URLs, Mints!BeginPage(w, s, u)
      PROVE  MintsInv'
  <2>1. PICK r : r = [idle EXCEPT !.pc = "classify", !.kind = "page", !.url = u, !.parent = s]
    OBVIOUS
  <2>2. Mints!Begin(w, r)
    BY <1>2, <1>6, <2>1 DEF Mints!BeginPage
  <2>3. MintOk(r, sources, domains) /\ ~r.newRoot
    BY <1>3, <2>1 DEF MintOk, CiteShape
  <2> QED
    BY <2>2, <2>3, BeginningIsFit
<1>7. ASSUME NEW i \in Records, Mints!BeginRecord(w, i)
      PROVE  MintsInv'
  <2>1. PICK r : r = [idle EXCEPT !.pc = "classify", !.kind = "record", !.url = i]
    OBVIOUS
  <2>2. Mints!Begin(w, r)
    BY <1>2, <1>7, <2>1 DEF Mints!BeginRecord
  <2>3. MintOk(r, sources, domains) /\ ~r.newRoot
    BY <1>3, <2>1 DEF MintOk, CiteShape
  <2> QED
    BY <2>2, <2>3, BeginningIsFit
<1> QED
  BY <1>4, <1>5, <1>6, <1>7

(* A link more, of a page's URL or a site's.                               *)
LEMMA LinksAreFit ==
    ASSUME NEW rows, NEW urls, NEW owners, SourcesOk(rows, urls, owners), Mints!SitesAssumption,
           NEW s \in DOMAIN rows, NEW u \in URLs \cup Sites
    PROVE  SourcesOk(rows, urls \cup {[source |-> s, url |-> u]}, owners)
<1>1. u \notin Records
  BY DEF Mints!SitesAssumption
<1> QED
  BY <1>1 DEF SourcesOk, RecordsOk

LEMMA LinkingIsFit ==
    ASSUME NEW w \in Workers, MintsInv, Mints!SitesAssumption,
           \E s \in DOMAIN sources, u \in URLs : Mints!AddLink(w, s, u)
    PROVE  MintsInv'
<1>1. PICK s \in DOMAIN sources, u \in URLs : Mints!AddLink(w, s, u)
  OBVIOUS
<1>2. /\ UNCHANGED <<sources, domains>> /\ links' = links \cup {[source |-> s, url |-> u]}
      /\ DOMAIN citeWork' = Workers
      /\ \A v \in Workers : citeWork'[v] = [citeWork[v] EXCEPT !.solo = FALSE]
  BY <1>1 DEF Mints!AddLink
<1>3. SourcesOk(sources', links', domains')
  BY <1>2, LinksAreFit DEF MintsInv
<1>4. ASSUME NEW v \in Workers
      PROVE  /\ MintOk(citeWork'[v], sources, domains)
             /\ (citeWork'[v].newRoot <=> citeWork[v].newRoot) /\ citeWork'[v].url = citeWork[v].url
  <2>1. MintOk(citeWork[v], sources, domains)
    BY DEF MintsInv
  <2>2. citeWork'[v] = [citeWork[v] EXCEPT !.solo = FALSE]
    BY <1>2
  <2> QED
    BY <2>1, <2>2, CompanyIsApart
<1>5. FoundersOk(citeWork', domains')
  BY <1>2, <1>4 DEF MintsInv, FoundersOk
<1> QED
  BY <1>2, <1>3, <1>4, <1>5 DEF MintsInv

LEMMA SnapshotsAreFit ==
    ASSUME NEW rows, NEW urls, NEW owners, SourcesOk(rows, urls, owners), Mints!SitesAssumption,
           NEW s \in DOMAIN rows, NEW q, CiteShape(q)
    PROVE  SourcesOk(rows, urls \cup Mints!Snapshot(q, s), owners)
<1>1. CASE q.archive = None
  <2>1. urls \cup Mints!Snapshot(q, s) = urls
    BY <1>1 DEF Mints!Snapshot
  <2> QED
    BY <2>1
<1>2. CASE q.archive # None
  <2>1. Mints!Snapshot(q, s) = {[source |-> s, url |-> q.archive]} /\ q.archive \in URLs
    BY <1>2 DEF Mints!Snapshot, CiteShape
  <2> QED
    BY <2>1, LinksAreFit
<1> QED
  BY <1>1, <1>2

(* The request is over, and what it committed is there for the others.     *)
LEMMA CommitsAreFit ==
    ASSUME NEW w \in Workers, MintsInv, citeWork' = [citeWork EXCEPT ![w] = Mints!Idle],
           SourcesOk(sources', links', domains'), OwnersGrow(sources, domains, sources', domains'),
           \A v \in Workers \ {w} : citeWork[v].newRoot => SiteOf[citeWork[v].url] \notin DOMAIN domains'
    PROVE  MintsInv'
<1>1. /\ DOMAIN citeWork' = Workers /\ citeWork'[w] = Mints!Idle
      /\ \A v \in Workers \ {w} : citeWork'[v] = citeWork[v]
  BY DEF MintsInv
<1>2. \A v \in Workers : MintOk(citeWork'[v], sources', domains')
  BY <1>1, IdleIsFit, CitesStayFit DEF MintsInv
<1>3. ~citeWork'[w].newRoot
  BY <1>1, IdleIsFit
<1>4. FoundersOk(citeWork', domains')
  BY <1>1, <1>3 DEF MintsInv, FoundersOk
<1> QED
  BY <1>1, <1>2, <1>4 DEF MintsInv

LEMMA ClassifyingCitesIsFit ==
    ASSUME NEW w \in Workers, MintsInv, Mints!SitesAssumption, Mints!Classify(w)
    PROVE  MintsInv'
<1> DEFINE q == citeWork[w]
<1>1. MintOk(q, sources, domains) /\ DOMAIN citeWork = Workers /\ SourcesOk(sources, links, domains)
  BY DEF MintsInv
<1>2. CiteShape(q) /\ q.parent = 0 /\ q.pc = "classify" /\ q.kind \in {"cite", "patch"} /\ ~q.newRoot
  BY <1>1 DEF MintOk, CiteShape, Mints!Classify
<1> HIDE DEF q
<1>3. CASE Mints!Step(w, Mints!Idle)
  <2>1. citeWork' = [citeWork EXCEPT ![w] = Mints!Idle] /\ UNCHANGED <<sources, links, domains>>
    BY <1>3 DEF Mints!Step, Mints!Goto
  <2> QED
    BY <2>1, IdleIsFit, CitesAreFit
<1>4. ASSUME NEW l \in Mints!ChildLinks(q.url), links' = links \cup Mints!Snapshot(q, l.source),
             Mints!Goto(w, Mints!Idle), UNCHANGED <<sources, domains>>
      PROVE  MintsInv'
  <2>1. l.source \in DOMAIN sources
    BY <1>1 DEF Mints!ChildLinks, SourcesOk, RecordsOk
  <2>2. SourcesOk(sources', links', domains')
    BY <1>1, <1>2, <1>4, <2>1, SnapshotsAreFit
  <2>3. citeWork' = [citeWork EXCEPT ![w] = Mints!Idle] /\ OwnersGrow(sources, domains, sources', domains')
    BY <1>4 DEF Mints!Goto, OwnersGrow
  <2>4. \A v \in Workers : citeWork[v].newRoot => SiteOf[citeWork[v].url] \notin DOMAIN domains'
    BY <1>4 DEF MintsInv, FoundersOk
  <2> QED
    BY <2>2, <2>3, <2>4, CommitsAreFit
<1>5. ASSUME q.url \in URLs, SiteOf[q.url] \in DOMAIN domains,
             Mints!Step(w, [q EXCEPT !.pc = "mint", !.parent = domains[SiteOf[q.url]]])
      PROVE  MintsInv'
  <2>1. PICK p : p = [q EXCEPT !.pc = "mint", !.parent = domains[SiteOf[q.url]]]
    OBVIOUS
  <2>2. citeWork' = [citeWork EXCEPT ![w] = p] /\ UNCHANGED <<sources, links, domains>>
    BY <1>5, <2>1 DEF Mints!Step, Mints!Goto
  <2>3. p = [pc |-> "mint", kind |-> q.kind, url |-> q.url, archive |-> q.archive,
             parent |-> domains[SiteOf[q.url]], newRoot |-> q.newRoot, solo |-> q.solo]
    BY <1>2, <2>1 DEF CiteShape
  <2>4. MintOk(p, sources, domains) /\ ~p.newRoot
    BY <1>1, <1>2, <1>5, <2>3 DEF MintOk, CiteShape
  <2> QED
    BY <2>2, <2>4, CitesAreFit
<1>6. ASSUME q.url \in URLs, q.kind = "cite", Mints!Step(w, [q EXCEPT !.pc = "root"])
      PROVE  MintsInv'
  <2>1. PICK p : p = [q EXCEPT !.pc = "root"]
    OBVIOUS
  <2>2. citeWork' = [citeWork EXCEPT ![w] = p] /\ UNCHANGED <<sources, links, domains>>
    BY <1>6, <2>1 DEF Mints!Step, Mints!Goto
  <2>3. p = [pc |-> "root", kind |-> q.kind, url |-> q.url, archive |-> q.archive, parent |-> q.parent,
             newRoot |-> q.newRoot, solo |-> q.solo]
    BY <1>2, <2>1 DEF CiteShape
  <2>4. MintOk(p, sources, domains) /\ ~p.newRoot
    BY <1>1, <1>2, <1>6, <2>3 DEF MintOk, CiteShape
  <2> QED
    BY <2>2, <2>4, CitesAreFit
<1>7. \/ Mints!Step(w, Mints!Idle)
      \/ \E l \in Mints!ChildLinks(q.url) : /\ links' = links \cup Mints!Snapshot(q, l.source)
                                            /\ Mints!Goto(w, Mints!Idle) /\ UNCHANGED <<sources, domains>>
      \/ /\ q.url \in URLs /\ SiteOf[q.url] \in DOMAIN domains
         /\ Mints!Step(w, [q EXCEPT !.pc = "mint", !.parent = domains[SiteOf[q.url]]])
      \/ q.url \in URLs /\ q.kind = "cite" /\ Mints!Step(w, [q EXCEPT !.pc = "root"])
  BY DEF Mints!Classify, q
<1> QED
  BY <1>3, <1>4, <1>5, <1>6, <1>7

(* Rows are only appended.                                                 *)
LEMMA OneRowMore ==
    ASSUME NEW rows \in Seq(SourceRow), NEW x \in SourceRow
    PROVE  /\ rows \o <<x>> \in Seq(SourceRow) /\ Len(rows) \in Nat /\ DOMAIN rows = 1 .. Len(rows)
           /\ DOMAIN (rows \o <<x>>) = 1 .. Len(rows) + 1
           /\ (rows \o <<x>>)[Len(rows) + 1] = x
           /\ \A s \in DOMAIN rows : (rows \o <<x>>)[s] = rows[s]
OBVIOUS

LEMMA TwoRowsMore ==
    ASSUME NEW rows \in Seq(SourceRow), NEW x \in SourceRow, NEW y \in SourceRow
    PROVE  /\ rows \o <<x, y>> \in Seq(SourceRow) /\ Len(rows) \in Nat /\ DOMAIN rows = 1 .. Len(rows)
           /\ DOMAIN (rows \o <<x, y>>) = 1 .. Len(rows) + 2
           /\ (rows \o <<x, y>>)[Len(rows) + 1] = x /\ (rows \o <<x, y>>)[Len(rows) + 2] = y
           /\ \A s \in DOMAIN rows : (rows \o <<x, y>>)[s] = rows[s]
OBVIOUS

(* A page under a root there is, and the site's own if it was cited.       *)
LEMMA PagesAreFit ==
    ASSUME NEW rows, NEW urls, NEW owners, SourcesOk(rows, urls, owners), NEW x \in SourceRow,
           RootRow(rows, x.parent), x.by # "record",
           CitedRow(x) => /\ x.covers \in URLs /\ SiteOf[x.covers] \in DOMAIN owners
                          /\ owners[SiteOf[x.covers]] = x.parent
    PROVE  SourcesOk(rows \o <<x>>, urls, owners) /\ OwnersGrow(rows, owners, rows \o <<x>>, owners)
<1>1. PICK more : more = rows \o <<x>>
  OBVIOUS
<1>2. PICK n : n = Len(rows)
  OBVIOUS
<1>3. rows \in Seq(SourceRow)
  BY DEF SourcesOk, RowsNest
<1>4. /\ more \in Seq(SourceRow) /\ n \in Nat /\ DOMAIN rows = 1 .. n /\ DOMAIN more = 1 .. n + 1
      /\ more[n + 1] = x /\ \A s \in DOMAIN rows : more[s] = rows[s]
  BY <1>1, <1>2, <1>3, OneRowMore
<1>5. \A s \in DOMAIN more : (s \in DOMAIN rows /\ more[s] = rows[s]) \/ (s = n + 1 /\ more[s] = x)
  BY <1>4
<1>6. \A s \in DOMAIN rows : s \in DOMAIN more /\ more[s] = rows[s]
  BY <1>4
<1>7. RootRow(more, x.parent) /\ x.parent # 0
  BY <1>4, <1>6 DEF RootRow
<1> HIDE <1>1, <1>2, <1>3
<1>8. RowsNest(more)
  BY <1>4, <1>5, <1>6, <1>7 DEF SourcesOk, RowsNest, RootRow
<1>9. OwnersOk(more, owners)
  BY <1>6 DEF SourcesOk, OwnersOk, RootRow
<1>10. PagesNest(more, owners)
  BY <1>5 DEF SourcesOk, PagesNest
<1>11. FoundedOk(more, owners)
  BY <1>5, <1>6, <1>7 DEF SourcesOk, FoundedOk
<1>12. RecordsOk(more, urls)
  BY <1>5, <1>6 DEF SourcesOk, RecordsOk, RecordRow
<1> QED
  BY <1>1, <1>6, <1>8, <1>9, <1>10, <1>11, <1>12 DEF SourcesOk, OwnersGrow

(* A record that has no source yet, and its link.                          *)
LEMMA NewRecordsAreFit ==
    ASSUME NEW rows, NEW urls, NEW owners, SourcesOk(rows, urls, owners), NEW x \in SourceRow,
           NEW i \in Records, RecordRow(x, i), \A s \in DOMAIN rows : ~RecordRow(rows[s], i)
    PROVE  /\ SourcesOk(rows \o <<x>>, urls \cup {[source |-> Len(rows) + 1, url |-> i]}, owners)
           /\ OwnersGrow(rows, owners, rows \o <<x>>, owners)
<1>1. PICK more : more = rows \o <<x>>
  OBVIOUS
<1>2. PICK n : n = Len(rows)
  OBVIOUS
<1>3. rows \in Seq(SourceRow)
  BY DEF SourcesOk, RowsNest
<1>4. /\ more \in Seq(SourceRow) /\ n \in Nat /\ DOMAIN rows = 1 .. n /\ DOMAIN more = 1 .. n + 1
      /\ more[n + 1] = x /\ \A s \in DOMAIN rows : more[s] = rows[s]
  BY <1>1, <1>2, <1>3, OneRowMore
<1>5. \A s \in DOMAIN more : (s \in DOMAIN rows /\ more[s] = rows[s]) \/ (s = n + 1 /\ more[s] = x)
  BY <1>4
<1>6. \A s \in DOMAIN rows : s \in DOMAIN more /\ more[s] = rows[s]
  BY <1>4
<1>7. x.parent = 1 /\ x.by = "record" /\ x.covers = i /\ RootRow(rows, 1) /\ ~CitedRow(x)
  BY DEF RecordRow, CitedRow, SourcesOk, RowsNest
<1> HIDE <1>1, <1>2, <1>3
<1>8. RowsNest(more)
  BY <1>4, <1>5, <1>6, <1>7 DEF SourcesOk, RowsNest, RootRow
<1>9. OwnersOk(more, owners)
  BY <1>6 DEF SourcesOk, OwnersOk, RootRow
<1>10. PagesNest(more, owners)
  BY <1>5, <1>7 DEF SourcesOk, PagesNest
<1>11. FoundedOk(more, owners)
  BY <1>5, <1>6, <1>7 DEF SourcesOk, FoundedOk
<1>12. RecordsOk(more, urls \cup {[source |-> n + 1, url |-> i]})
  <2>1. \A j \in Records : \A s, t \in DOMAIN more : RecordRow(more[s], j) /\ RecordRow(more[t], j) => s = t
    BY <1>5, <1>7 DEF SourcesOk, RecordsOk, RecordRow
  <2>2. n + 1 \in DOMAIN more /\ RecordRow(more[n + 1], i)
    BY <1>4
  <2>3. \A l \in urls : /\ l = [source |-> l.source, url |-> l.url] /\ l.source \in DOMAIN more
                        /\ l.url \in Records => RecordRow(more[l.source], l.url)
    BY <1>6 DEF SourcesOk, RecordsOk
  <2> QED
    BY <2>1, <2>2, <2>3 DEF RecordsOk
<1> QED
  BY <1>1, <1>2, <1>6, <1>8, <1>9, <1>10, <1>11, <1>12 DEF SourcesOk, OwnersGrow

(* A root with its first page, which makes the site its own.               *)
LEMMA RootsAreFit ==
    ASSUME NEW rows, NEW urls, NEW owners, SourcesOk(rows, urls, owners), NEW h \in Sites, h \notin DOMAIN owners,
           NEW x \in SourceRow, x.parent = 0, x.by = "cite",
           NEW y \in SourceRow, y.parent = Len(rows) + 1, y.by = "cite", y.covers \in URLs, SiteOf[y.covers] = h,
           NEW others, others = [k \in DOMAIN owners \cup {h} |-> IF k = h THEN Len(rows) + 1 ELSE owners[k]]
    PROVE  SourcesOk(rows \o <<x, y>>, urls, others) /\ OwnersGrow(rows, owners, rows \o <<x, y>>, others)
<1>1. PICK more : more = rows \o <<x, y>>
  OBVIOUS
<1>2. PICK n : n = Len(rows)
  OBVIOUS
<1>3. rows \in Seq(SourceRow)
  BY DEF SourcesOk, RowsNest
<1>4. /\ more \in Seq(SourceRow) /\ n \in Nat /\ DOMAIN rows = 1 .. n /\ DOMAIN more = 1 .. n + 2
      /\ more[n + 1] = x /\ more[n + 2] = y /\ \A s \in DOMAIN rows : more[s] = rows[s]
  BY <1>1, <1>2, <1>3, TwoRowsMore
<1>5. \A s \in DOMAIN more : \/ s \in DOMAIN rows /\ more[s] = rows[s]
                             \/ s = n + 1 /\ more[s] = x
                             \/ s = n + 2 /\ more[s] = y
  BY <1>4
<1>6. \A s \in DOMAIN rows : s \in DOMAIN more /\ more[s] = rows[s]
  BY <1>4
<1>7. /\ RootRow(more, n + 1) /\ n + 1 # 0 /\ y.parent = n + 1 /\ CitedRow(y) /\ ~CitedRow(x)
      /\ n + 2 \in DOMAIN more /\ more[n + 2] = y
  BY <1>2, <1>4 DEF RootRow, CitedRow
<1>8. /\ DOMAIN others = DOMAIN owners \cup {h} /\ others[h] = n + 1
      /\ \A k \in DOMAIN owners : k \in DOMAIN others /\ others[k] = owners[k]
  BY <1>2
<1> HIDE <1>1, <1>2, <1>3
<1>9. RowsNest(more)
  BY <1>4, <1>5, <1>6, <1>7 DEF SourcesOk, RowsNest, RootRow
<1>10. OwnersOk(more, others)
  BY <1>6, <1>7, <1>8 DEF SourcesOk, OwnersOk, RootRow
<1>11. PagesNest(more, others)
  BY <1>5, <1>7, <1>8 DEF SourcesOk, PagesNest
<1>12. FoundedOk(more, others)
  <2>1. ASSUME NEW s \in DOMAIN more, more[s].parent = 0, more[s].by = "cite"
        PROVE  /\ \E k \in DOMAIN others : others[k] = s
               /\ \E c \in DOMAIN more : CitedRow(more[c]) /\ more[c].parent = s
    <3>1. CASE s \in DOMAIN rows /\ more[s] = rows[s]
      <4>1. PICK k \in DOMAIN owners : owners[k] = s
        BY <2>1, <3>1 DEF SourcesOk, FoundedOk
      <4>2. PICK c \in DOMAIN rows : CitedRow(rows[c]) /\ rows[c].parent = s
        BY <2>1, <3>1 DEF SourcesOk, FoundedOk
      <4> QED
        BY <1>6, <1>8, <4>1, <4>2
    <3>2. CASE s = n + 1
      BY <1>7, <1>8, <3>2
    <3>3. CASE s = n + 2 /\ more[s] = y
      BY <1>7, <2>1, <3>3
    <3> QED
      BY <1>5, <3>1, <3>2, <3>3
  <2> QED
    BY <2>1 DEF FoundedOk
<1>13. RecordsOk(more, urls)
  BY <1>5, <1>6 DEF SourcesOk, RecordsOk, RecordRow
<1> QED
  BY <1>1, <1>6, <1>8, <1>9, <1>10, <1>11, <1>12, <1>13 DEF SourcesOk, OwnersGrow

LEMMA MintingIsFit ==
    ASSUME NEW w \in Workers, MintsInv, Mints!SitesAssumption, Mints!MintPage(w)
    PROVE  MintsInv'
<1> DEFINE q == citeWork[w]
           n == Len(sources)
<1>1. MintOk(q, sources, domains) /\ SourcesOk(sources, links, domains)
  BY DEF MintsInv
<1>2. q.pc = "mint" /\ citeWork' = [citeWork EXCEPT ![w] = Mints!Idle]
  BY DEF Mints!MintPage, Mints!Goto
<1>3. CiteShape(q) /\ q.url \in URLs /\ q.kind \in {"cite", "patch", "page"} /\ SiteOf[q.url] \in Sites
  BY <1>1, <1>2 DEF MintOk, CiteShape, Mints!SitesAssumption
<1>4. sources \in Seq(SourceRow)
  BY <1>1 DEF SourcesOk, RowsNest
<1>5. CASE ~q.newRoot
  <2> DEFINE x == [parent |-> q.parent, by |-> q.kind, covers |-> q.url]
             more == sources \o <<x>>
  <2>1. /\ sources' = sources \o (<<>> \o <<x>>) /\ domains' = domains
        /\ links' = links \cup ({[source |-> n + 1, url |-> q.url]} \cup Mints!Snapshot(q, n + 1) \cup {})
    BY <1>5 DEF Mints!MintPage, Mints!Append2, Mints!Child
  <2>2. RootRow(sources, q.parent)
    BY <1>1, <1>2, <1>3, <1>5 DEF MintOk, SourcesOk, OwnersOk
  <2>3. q.parent \in Nat
    BY <1>4, <2>2 DEF RootRow
  <2>4. x \in SourceRow
    BY <1>3, <2>3 DEF SourceRow
  <2>5. sources' = more
    BY <2>1, <2>4
  <2>6. CitedRow(x) => /\ x.covers \in URLs /\ SiteOf[x.covers] \in DOMAIN domains
                       /\ domains[SiteOf[x.covers]] = x.parent
    BY <1>1, <1>2, <1>3, <1>5 DEF MintOk, CitedRow
  <2>7. SourcesOk(more, links, domains) /\ OwnersGrow(sources, domains, more, domains)
    BY <1>1, <1>3, <2>2, <2>4, <2>6, PagesAreFit
  <2>8. n + 1 \in DOMAIN more
    BY <1>4, <2>4, OneRowMore
  <2> HIDE DEF more
  <2>9. SourcesOk(more, links \cup {[source |-> n + 1, url |-> q.url]}, domains)
    BY <1>3, <2>7, <2>8, LinksAreFit
  <2>10. SourcesOk(more, (links \cup {[source |-> n + 1, url |-> q.url]}) \cup Mints!Snapshot(q, n + 1), domains)
    BY <1>3, <2>8, <2>9, SnapshotsAreFit
  <2>11. links' = (links \cup {[source |-> n + 1, url |-> q.url]}) \cup Mints!Snapshot(q, n + 1)
    BY <2>1
  <2>12. \A v \in Workers : citeWork[v].newRoot => SiteOf[citeWork[v].url] \notin DOMAIN domains'
    BY <2>1 DEF MintsInv, FoundersOk
  <2> QED
    BY <1>2, <2>1, <2>5, <2>7, <2>10, <2>11, <2>12, CommitsAreFit
<1>6. CASE q.newRoot
  <2> DEFINE h == SiteOf[q.url]
             x == [parent |-> 0, by |-> "cite", covers |-> h]
             y == [parent |-> n + 1, by |-> "cite", covers |-> q.url]
             more == sources \o <<x, y>>
             others == [k \in DOMAIN domains \cup {h} |-> IF k = h THEN n + 1 ELSE domains[k]]
             page == {[source |-> n + 2, url |-> q.url]}
             root == {[source |-> n + 1, url |-> h]}
  <2>1. q.kind = "cite" /\ q.parent = 0
    BY <1>1, <1>6 DEF MintOk
  <2>2. /\ sources' = sources \o (<<x>> \o <<y>>) /\ domains' = others
        /\ links' = links \cup (page \cup Mints!Snapshot(q, n + 2) \cup root)
    BY <1>6, <2>1 DEF Mints!MintPage, Mints!Append2, Mints!Child
  <2>3. n \in Nat /\ x \in SourceRow /\ y \in SourceRow
    BY <1>3, <1>4 DEF SourceRow
  <2>4. sources' = more
    BY <2>2, <2>3
  <2>5. h \in Sites /\ h \notin DOMAIN domains
    BY <1>3, <1>6 DEF MintsInv, FoundersOk
  <2>6. SourcesOk(more, links, others) /\ OwnersGrow(sources, domains, more, others)
    BY <1>1, <1>3, <2>3, <2>5, RootsAreFit
  <2>7. n + 1 \in DOMAIN more /\ n + 2 \in DOMAIN more
    BY <1>4, <2>3, TwoRowsMore
  <2>8. DOMAIN others = DOMAIN domains \cup {h}
    OBVIOUS
  <2> HIDE DEF more, others
  <2>9. SourcesOk(more, links \cup page, others)
    BY <1>3, <2>6, <2>7, LinksAreFit
  <2>10. SourcesOk(more, (links \cup page) \cup Mints!Snapshot(q, n + 2), others)
    BY <1>3, <2>7, <2>9, SnapshotsAreFit
  <2>11. SourcesOk(more, ((links \cup page) \cup Mints!Snapshot(q, n + 2)) \cup root, others)
    BY <1>3, <2>7, <2>10, LinksAreFit
  <2>12. links' = ((links \cup page) \cup Mints!Snapshot(q, n + 2)) \cup root
    BY <2>2
  <2>13. ASSUME NEW v \in Workers \ {w}, citeWork[v].newRoot
         PROVE  SiteOf[citeWork[v].url] \notin DOMAIN domains'
    BY <1>6, <2>2, <2>8, <2>13 DEF MintsInv, FoundersOk
  <2> QED
    BY <1>2, <2>2, <2>4, <2>6, <2>11, <2>12, <2>13, CommitsAreFit
<1> QED
  BY <1>5, <1>6

LEMMA InsertingIsFit ==
    ASSUME NEW w \in Workers, MintsInv, Mints!SitesAssumption, Mints!InsertRecord(w)
    PROVE  MintsInv'
<1> DEFINE q == citeWork[w]
           x == [parent |-> 1, by |-> "record", covers |-> q.url]
<1>1. MintOk(q, sources, domains) /\ SourcesOk(sources, links, domains)
  BY DEF MintsInv
<1>2. q.pc = "insert" /\ q.kind = "record" /\ q.url \in Records
  BY <1>1 DEF Mints!InsertRecord, MintOk
<1>3. CASE Mints!TakenRecord(q.url)
  <2>1. citeWork' = [citeWork EXCEPT ![w] = Mints!Idle] /\ UNCHANGED <<sources, links, domains>>
    BY <1>3 DEF Mints!InsertRecord, Mints!Step, Mints!Goto
  <2> QED
    BY <2>1, IdleIsFit, CitesAreFit
<1>4. CASE ~Mints!TakenRecord(q.url)
  <2>1. /\ sources' = sources \o <<x>> /\ links' = links \cup {[source |-> Len(sources) + 1, url |-> q.url]}
        /\ citeWork' = [citeWork EXCEPT ![w] = Mints!Idle] /\ UNCHANGED domains
    BY <1>2, <1>4 DEF Mints!InsertRecord, Mints!Append2, Mints!Child, Mints!Goto, Mints!SchemeRoot
  <2>2. \A s \in DOMAIN sources : ~RecordRow(sources[s], q.url)
    BY <1>4 DEF Mints!TakenRecord, Mints!Known, Mints!SchemeRoot, RecordRow
  <2>3. x \in SourceRow /\ RecordRow(x, q.url)
    BY <1>2 DEF SourceRow, RecordRow
  <2> HIDE DEF x
  <2>4. SourcesOk(sources', links', domains') /\ OwnersGrow(sources, domains, sources', domains')
    BY <1>1, <1>2, <2>1, <2>2, <2>3, NewRecordsAreFit
  <2>5. \A v \in Workers : citeWork[v].newRoot => SiteOf[citeWork[v].url] \notin DOMAIN domains'
    BY <2>1 DEF MintsInv, FoundersOk
  <2> QED
    BY <2>1, <2>4, <2>5, CommitsAreFit
<1> QED
  BY <1>3, <1>4

LEMMA MintsStayFit ==
    ASSUME MintsInv, Mints!SitesAssumption, Mints!Next
    PROVE  MintsInv'
BY BeginningsAreFit, LinkingIsFit, ClassifyingCitesIsFit, StagesAreFit, MintingIsFit, InsertingIsFit
   DEF Mints!Next

LEMMA MintsStartFit ==
    ASSUME Mints!Init
    PROVE  MintsInv
<1> DEFINE x == [parent |-> 0, by |-> "seed", covers |-> None]
<1>1. sources = <<x>> /\ links = {} /\ DOMAIN domains = {}
  BY DEF Mints!Init
<1>2. x \in SourceRow
  BY DEF SourceRow
<1>3. sources \in Seq(SourceRow) /\ DOMAIN sources = {1} /\ sources[1] = x
  BY <1>1, <1>2
<1>4. SourcesOk(sources, links, domains)
  BY <1>1, <1>3 DEF SourcesOk, RowsNest, OwnersOk, PagesNest, FoundedOk, RecordsOk, RootRow, CitedRow, RecordRow
<1>5. DOMAIN citeWork = Workers /\ \A w \in Workers : citeWork[w] = Mints!Idle
  BY DEF Mints!Init
<1>6. \A w \in Workers : MintOk(citeWork[w], sources, domains) /\ ~citeWork[w].newRoot
  BY <1>5, IdleIsFit
<1> QED
  BY <1>4, <1>5, <1>6 DEF MintsInv, FoundersOk

LEMMA FitMintsFork ==
    ASSUME MintsInv
    PROVE  Mints!PagesUnderTheirSite /\ Mints!OneSourcePerRecord /\ Mints!LosersNest
<1>1. SourcesOk(sources, links, domains)
  BY DEF MintsInv
<1>2. Mints!PagesUnderTheirSite
  <2>1. \A s : s \in Mints!Cited <=> s \in DOMAIN sources /\ CitedRow(sources[s])
    BY DEF Mints!Cited, Mints!IsRoot, CitedRow
  <2>2. \A s \in Mints!Cited : /\ SiteOf[sources[s].covers] \in DOMAIN domains
                               /\ domains[SiteOf[sources[s].covers]] = sources[s].parent
    BY <1>1, <2>1 DEF SourcesOk, PagesNest
  <2>3. \A s \in DOMAIN sources : sources[s].parent = 0 /\ sources[s].by = "cite" =>
           /\ \E h \in DOMAIN domains : domains[h] = s
           /\ \E c \in Mints!Cited : sources[c].parent = s
    BY <1>1, <2>1 DEF SourcesOk, FoundedOk
  <2> QED
    BY <2>2, <2>3 DEF Mints!PagesUnderTheirSite, Mints!IsRoot
<1>3. Mints!OneSourcePerRecord
  <2>1. ASSUME NEW i \in Records
        PROVE  Cardinality({l \in links : l.url = i}) <= 1
    <3> DEFINE L == {l \in links : l.url = i}
    <3>1. ASSUME NEW k \in L, NEW l \in L
          PROVE  k = l
      BY <1>1 DEF SourcesOk, RecordsOk
    <3>2. CASE L = {}
      BY <3>2, FS_EmptySet
    <3>3. CASE L # {}
      <4>1. PICK l \in L : TRUE
        BY <3>3
      <4>2. L = {l}
        BY <3>1, <4>1
      <4>3. Cardinality({l}) = 1
        BY FS_Singleton
      <4> QED
        BY <4>2, <4>3
    <3> QED
      BY <3>2, <3>3
  <2> QED
    BY <2>1 DEF Mints!OneSourcePerRecord, Mints!Cardinality, Cardinality
<1>4. Mints!LosersNest
  BY DEF MintsInv, MintOk, CiteShape, Mints!LosersNest
<1> QED
  BY <1>2, <1>3, <1>4

-----------------------------------------------------------------------------
(* The evidence of a patch (PatchCites).                                   *)

(* A set listed in some order: every member once.                          *)
Lists(order, S) ==
    /\ order \in Seq(S)
    /\ \A i, j \in DOMAIN order : order[i] = order[j] => i = j
    /\ \A x \in S : \E i \in DOMAIN order : order[i] = x

LEMMA SetsAreListed ==
    ASSUME NEW S, IsFiniteSet(S), NEW order,
           order = CHOOSE f \in [1 .. Cardinality(S) -> S] : \A a, b \in DOMAIN f : f[a] = f[b] => a = b
    PROVE  Lists(order, S)
<1>1. PICK k : k = Cardinality(S) /\ k \in Nat
  BY FS_CardinalityType
<1>2. ExistsBijection(1 .. k, S)
  BY <1>1, FS_CardinalityType
<1> DEFINE once(f) == \A a, b \in DOMAIN f : f[a] = f[b] => a = b
<1>3. \E f \in [1 .. k -> S] : once(f)
  BY <1>2 DEF ExistsBijection, Bijection, Injection, IsInjective
<1>4. order \in [1 .. k -> S] /\ once(order)
  BY <1>1, <1>3
<1>5. order \in Injection(1 .. k, S)
  BY <1>4 DEF Injection, IsInjective
<1>6. IsFiniteSet(1 .. k) /\ Cardinality(1 .. k) = k
  BY <1>1, FS_Interval
<1>7. order \in Surjection(1 .. k, S)
  BY <1>1, <1>5, <1>6, FS_Injection
<1>8. \A x \in S : \E i \in 1 .. k : order[i] = x
  BY <1>7 DEF Surjection
<1>9. order \in Seq(S)
  BY <1>1, <1>4
<1> QED
  BY <1>4, <1>8, <1>9 DEF Lists

LEMMA ImagesAreFinite ==
    ASSUME NEW S, IsFiniteSet(S), NEW f, DOMAIN f = S
    PROVE  IsFiniteSet({f[x] : x \in S})
<1> DEFINE T == {f[x] : x \in S}
<1>1. \A x \in S : f[x] \in T
  OBVIOUS
<1>2. [x \in S |-> f[x]] \in Surjection(S, T)
  BY DEF Surjection
<1> QED
  BY <1>2, FS_Surjection

LEMMA FormsListed ==
    ASSUME NEW S, IsFiniteSet(S)
    PROVE  Lists(Forms!Listed(S), S)
<1>1. Forms!Cardinality(S) = Cardinality(S)
  BY DEF Forms!Cardinality, Cardinality
<1> QED
  BY <1>1, SetsAreListed DEF Forms!Listed

-----------------------------------------------------------------------------
(* The claims, the instances and the joins of n change sets: the claims of *)
(* one share an instance of each evidence, and none with another's.        *)
Apart(p, q, x, y, a, b) ==
    /\ p.set = q.set /\ x = y => a = b
    /\ a = b => p.set = q.set

BackedOk(cl, rows, js, n) ==
    /\ n \in Nat
    /\ \A k \in DOMAIN cl : cl[k].set \in 1 .. n
    /\ js \subseteq (DOMAIN cl) \X (DOMAIN rows)
    /\ \A k, l \in DOMAIN cl : \A a, b \in DOMAIN rows :
          <<k, a>> \in js /\ <<l, b>> \in js => Apart(cl[k], cl[l], rows[a], rows[b], a, b)


Joins(cl, base, new, shares, n, E) ==
    {<<Len(cl) + x[1], Len(base) + x[2]>> :
        x \in {y \in (DOMAIN new) \X (DOMAIN shares) :
                 shares[y[2]].set = new[y[1]].set /\ shares[y[2]].of \in E[new[y[1]].set - n]}}

(* u is s and then t, of lengths a and b.                                  *)
Chain(T, u, s, t, a, b) ==
    /\ a \in Nat /\ b \in Nat /\ DOMAIN s = 1 .. a /\ DOMAIN t = 1 .. b
    /\ u \in Seq(T) /\ DOMAIN u = 1 .. a + b /\ Len(u) = a + b
    /\ \A i \in 1 .. a : i \in 1 .. a + b /\ u[i] = s[i]
    /\ \A i \in 1 .. b : a + i \in 1 .. a + b /\ u[a + i] = t[i]
    /\ \A i \in 1 .. a + b : i \in 1 .. a \/ \E x \in 1 .. b : i = a + x

LEMMA Chained ==
    ASSUME NEW T, NEW s \in Seq(T), NEW t \in Seq(T)
    PROVE  Chain(T, s \o t, s, t, Len(s), Len(t))
<1>0. PICK a, b : a = Len(s) /\ b = Len(t)
  OBVIOUS
<1>1. /\ a \in Nat /\ b \in Nat /\ DOMAIN s = 1 .. a /\ DOMAIN t = 1 .. b
      /\ s \o t \in Seq(T) /\ Len(s \o t) = a + b
  BY <1>0
<1>2. \A i \in 1 .. a + b : i \in 1 .. a \/ (i - a \in 1 .. b /\ i = a + (i - a))
  BY <1>1
<1>3. /\ \A i \in 1 .. a : (s \o t)[i] = s[i]
      /\ \A i \in 1 .. b : (s \o t)[a + i] = t[i]
  BY <1>0, <1>1
<1>4. DOMAIN (s \o t) = 1 .. a + b
  BY <1>1
<1>5. /\ \A i \in 1 .. a : i \in 1 .. a + b
      /\ \A i \in 1 .. b : a + i \in 1 .. a + b
  BY <1>1
<1>6. \A i \in 1 .. a + b : i \in 1 .. a \/ \E x \in 1 .. b : i = a + x
  BY <1>2
<1> HIDE <1>2
<1>7. \A i \in 1 .. a : i \in 1 .. a + b /\ (s \o t)[i] = s[i]
  BY <1>3, <1>5
<1>8. \A i \in 1 .. b : a + i \in 1 .. a + b /\ (s \o t)[a + i] = t[i]
  BY <1>3, <1>5
<1> QED
  BY <1>0, <1>1, <1>4, <1>6, <1>7, <1>8 DEF Chain

(* What the shares are minted as.                                          *)
Of(shares) == [b \in DOMAIN shares |-> shares[b].of]

LEMMA SharesAreRows ==
    ASSUME NEW S, NEW shares \in Seq(S), NEW R, \A b \in DOMAIN shares : shares[b].of \in R
    PROVE  /\ Of(shares) \in Seq(R) /\ Len(Of(shares)) = Len(shares) /\ DOMAIN shares = 1 .. Len(shares)
           /\ \A b \in 1 .. Len(shares) : Of(shares)[b] = shares[b].of
<1>1. PICK s : s = Len(shares) /\ s \in Nat /\ DOMAIN shares = 1 .. s
  OBVIOUS
<1>2. Of(shares) = [b \in 1 .. s |-> shares[b].of]
  BY <1>1 DEF Of
<1>3. Of(shares) \in [1 .. s -> R]
  BY <1>1, <1>2
<1>4. Of(shares) \in Seq(R) /\ Len(Of(shares)) = s
  BY <1>1, <1>3
<1> QED
  BY <1>1, <1>2, <1>4

Adds(new, foot, shares, n, m, C, R) ==
    /\ m \in Nat /\ new \in Seq(C) /\ foot \in Seq(R) /\ \E S : shares \in Seq(S)
    /\ \A b \in DOMAIN shares : shares[b].of \in R
    /\ \A k \in DOMAIN new : new[k].set \in n + 1 .. n + m
    /\ \A a, b \in DOMAIN shares : shares[a].set = shares[b].set /\ shares[a].of = shares[b].of => a = b

LEMMA LandingKeeps ==
    ASSUME NEW C, NEW R, NEW cl \in Seq(C), NEW rows \in Seq(R), NEW js, NEW n, BackedOk(cl, rows, js, n),
           NEW new, NEW foot, NEW shares, NEW m, NEW E, Adds(new, foot, shares, n, m, C, R)
    PROVE  /\ BackedOk(cl \o new, (rows \o foot) \o Of(shares),
                       js \cup Joins(cl, rows \o foot, new, shares, n, E), n + m)
           /\ (rows \o foot) \o Of(shares) \in Seq(R) /\ cl \o new \in Seq(C)
<1>0. PICK base, rows2, js2, S :
          /\ base = rows \o foot /\ rows2 = base \o Of(shares) /\ js2 = js \cup Joins(cl, base, new, shares, n, E)
          /\ m \in Nat /\ new \in Seq(C) /\ foot \in Seq(R) /\ shares \in Seq(S)
          /\ \A b \in DOMAIN shares : shares[b].of \in R
          /\ \A k \in DOMAIN new : new[k].set \in n + 1 .. n + m
          /\ \A a, b \in DOMAIN shares : shares[a].set = shares[b].set /\ shares[a].of = shares[b].of => a = b
  BY DEF Adds
<1> USE <1>0
<1>1. PICK c, f, r0, e, r, s, cl2 :
          c = Len(cl) /\ f = Len(new) /\ r0 = Len(rows) /\ e = Len(foot) /\ r = Len(base) /\ s = Len(shares)
          /\ cl2 = cl \o new
  OBVIOUS
<1>2. /\ r0 \in Nat /\ r \in Nat /\ base \in Seq(R) /\ DOMAIN rows = 1 .. r0 /\ DOMAIN base = 1 .. r
      /\ \A a \in 1 .. r0 : a \in 1 .. r /\ base[a] = rows[a]
  BY <1>1, Chained DEF Chain
<1>3. /\ Of(shares) \in Seq(R) /\ Len(Of(shares)) = s /\ s \in Nat /\ DOMAIN shares = 1 .. s
      /\ \A b \in 1 .. s : Of(shares)[b] = shares[b].of
  <2>1. \A b \in DOMAIN shares : shares[b].of \in R
    OBVIOUS
  <2>2. shares \in Seq(S) /\ s \in Nat
    BY <1>1
  <2>3. /\ Of(shares) \in Seq(R) /\ Len(Of(shares)) = Len(shares) /\ DOMAIN shares = 1 .. Len(shares)
        /\ \A b \in 1 .. Len(shares) : Of(shares)[b] = shares[b].of
    BY <2>1, <2>2, SharesAreRows, Zenon
  <2> QED
    BY <1>1, <2>2, <2>3, Zenon
<1>4. /\ rows2 \in Seq(R) /\ DOMAIN rows2 = 1 .. r + s
      /\ \A a \in 1 .. r0 : a \in 1 .. r /\ a \in 1 .. r + s /\ rows2[a] = rows[a]
      /\ \A b \in 1 .. s : r + b \in 1 .. r + s /\ rows2[r + b] = shares[b].of
  <2>2. /\ base \o Of(shares) \in Seq(R) /\ DOMAIN (base \o Of(shares)) = 1 .. r + s
        /\ \A a \in 1 .. r : a \in 1 .. r + s /\ (base \o Of(shares))[a] = base[a]
        /\ \A b \in 1 .. s : r + b \in 1 .. r + s /\ (base \o Of(shares))[r + b] = Of(shares)[b]
    <3>1. PICK o : o = Of(shares)
      OBVIOUS
    <3>2. o \in Seq(R) /\ base \in Seq(R) /\ r = Len(base) /\ s = Len(o)
      BY <1>1, <1>2, <1>3, <3>1
    <3>3. Chain(R, base \o o, base, o, r, s)
      BY <3>2, Chained, Zenon
    <3> QED
      BY <3>1, <3>3 DEF Chain
  <2> QED
    BY <1>2, <1>3, <2>2
<1>5. c \in Nat /\ f \in Nat /\ DOMAIN cl = 1 .. c /\ DOMAIN new = 1 .. f
  BY <1>1
<1>6. /\ cl2 \in Seq(C) /\ DOMAIN cl2 = 1 .. c + f
      /\ \A k \in 1 .. c : k \in 1 .. c + f /\ cl2[k] = cl[k]
      /\ \A k \in 1 .. f : c + k \in 1 .. c + f /\ cl2[c + k] = new[k]
      /\ \A k \in 1 .. c + f : k \in 1 .. c \/ \E x \in 1 .. f : k = c + x
  <2>1. cl \in Seq(C) /\ new \in Seq(C) /\ c = Len(cl) /\ f = Len(new) /\ cl2 = cl \o new
    BY <1>1
  <2>2. Chain(C, cl \o new, cl, new, c, f)
    BY <2>1, Chained, Zenon
  <2> QED
    BY <2>1, <2>2 DEF Chain
<1>8. n \in Nat /\ n + m \in Nat
  BY DEF BackedOk
<1>9. \A k \in DOMAIN cl2 : cl2[k].set \in 1 .. n + m
  <2>1. \A k \in 1 .. c : cl2[k].set \in 1 .. n
    BY <1>5, <1>6 DEF BackedOk
  <2>2. \A x \in 1 .. f : cl2[c + x].set \in n + 1 .. n + m
    BY <1>5, <1>6
  <2>3. \A k \in 1 .. n : k \in 1 .. n + m
    BY <1>8
  <2>4. \A k \in n + 1 .. n + m : k \in 1 .. n + m
    BY <1>8
  <2> HIDE <1>0
  <2> QED
    BY <1>6, <2>1, <2>2, <2>3, <2>4
(* A join is an old one, or of a new claim and a new instance.             *)
<1>10. \A j \in js2 : \/ j \in js /\ j[1] \in 1 .. c /\ j[2] \in 1 .. r0
                      \/ \E x \in 1 .. f, y \in 1 .. s : j = <<c + x, r + y>> /\ shares[y].set = new[x].set
  <2> SUFFICES ASSUME NEW j \in js2, j \notin js
               PROVE  \E x \in 1 .. f, y \in 1 .. s : j = <<c + x, r + y>> /\ shares[y].set = new[x].set
    <3>1. \A j \in js : j[1] \in 1 .. c /\ j[2] \in 1 .. r0
      BY <1>2, <1>5 DEF BackedOk
    <3> QED
      BY <3>1
  <2>1. j \in Joins(cl, base, new, shares, n, E)
    <3> HIDE <1>0
    <3> QED
      BY <1>0
  <2>2. PICK p \in (DOMAIN new) \X (DOMAIN shares) :
            shares[p[2]].set = new[p[1]].set /\ j = <<Len(cl) + p[1], Len(base) + p[2]>>
    <3> HIDE <1>0
    <3> QED
      BY <2>1 DEF Joins
  <2> QED
    BY <1>1, <1>3, <1>5, <2>2
<1>11. js2 \subseteq (DOMAIN cl2) \X (DOMAIN rows2)
  <2> SUFFICES ASSUME NEW j \in js2 PROVE j \in (DOMAIN cl2) \X (DOMAIN rows2)
    OBVIOUS
  <2>1. CASE j \in js /\ j[1] \in 1 .. c /\ j[2] \in 1 .. r0
    <3>1. j = <<j[1], j[2]>>
      BY <2>1 DEF BackedOk
    <3> QED
      BY <1>4, <1>6, <2>1, <3>1
  <2>2. CASE \E x \in 1 .. f, y \in 1 .. s : j = <<c + x, r + y>>
    BY <1>4, <1>6, <2>2
  <2> QED
    BY <1>10, <2>1, <2>2
<1>12. ASSUME NEW k \in DOMAIN cl2, NEW l \in DOMAIN cl2, NEW a \in DOMAIN rows2, NEW b \in DOMAIN rows2,
              <<k, a>> \in js2, <<l, b>> \in js2
       PROVE  Apart(cl2[k], cl2[l], rows2[a], rows2[b], a, b)
  <2> DEFINE old(i, z) == <<i, z>> \in js /\ i \in 1 .. c /\ z \in 1 .. r0
             late(i, z) == \E x \in 1 .. f, y \in 1 .. s : i = c + x /\ z = r + y /\ shares[y].set = new[x].set
  <2>1. old(k, a) \/ late(k, a)
    BY <1>10, <1>12
  <2>2. old(l, b) \/ late(l, b)
    BY <1>10, <1>12
  <2>3. \A i, z : old(i, z) => cl2[i].set \in 1 .. n /\ z \in 1 .. r
    <3>1. \A i \in 1 .. c : cl2[i].set \in 1 .. n
      BY <1>5, <1>6 DEF BackedOk
    <3> QED
      BY <1>4, <3>1
  <2>4. \A i, z : late(i, z) => cl2[i].set \in n + 1 .. n + m /\ z \in r + 1 .. r + s
    <3>1. \A x \in 1 .. f : cl2[c + x].set \in n + 1 .. n + m
      BY <1>5, <1>6
    <3>2. \A y \in 1 .. s : r + y \in r + 1 .. r + s
      BY <1>2, <1>3
    <3> QED
      BY <3>1, <3>2
  <2>5. CASE old(k, a) /\ old(l, b)
    <3>1. cl2[k] = cl[k] /\ cl2[l] = cl[l] /\ rows2[a] = rows[a] /\ rows2[b] = rows[b]
      BY <1>4, <1>6, <2>5
    <3>2. k \in DOMAIN cl /\ l \in DOMAIN cl /\ a \in DOMAIN rows /\ b \in DOMAIN rows
      BY <1>2, <1>5, <2>5
    <3>3. Apart(cl[k], cl[l], rows[a], rows[b], a, b)
      BY <2>5, <3>2 DEF BackedOk
    <3> QED
      BY <3>1, <3>3 DEF Apart
  <2>6. CASE (old(k, a) /\ late(l, b)) \/ (late(k, a) /\ old(l, b))
    <3>1. \A x \in 1 .. n, y \in n + 1 .. n + m : x # y
      BY <1>8
    <3>2. \A x \in 1 .. r, y \in r + 1 .. r + s : x # y
      BY <1>2, <1>3
    <3>3. CASE old(k, a) /\ late(l, b)
      <4>1. /\ cl2[k].set \in 1 .. n /\ a \in 1 .. r
            /\ cl2[l].set \in n + 1 .. n + m /\ b \in r + 1 .. r + s
        BY <2>3, <2>4, <3>3
      <4> QED
        BY <3>1, <3>2, <4>1 DEF Apart
    <3>4. CASE late(k, a) /\ old(l, b)
      <4>1. /\ cl2[l].set \in 1 .. n /\ b \in 1 .. r
            /\ cl2[k].set \in n + 1 .. n + m /\ a \in r + 1 .. r + s
        BY <2>3, <2>4, <3>4
      <4> QED
        BY <3>1, <3>2, <4>1 DEF Apart
    <3> QED
      BY <2>6, <3>3, <3>4
  <2>7. CASE late(k, a) /\ late(l, b)
    <3>1. PICK x \in 1 .. f, y \in 1 .. s : k = c + x /\ a = r + y /\ shares[y].set = new[x].set
      BY <2>7
    <3>2. PICK u \in 1 .. f, v \in 1 .. s : l = c + u /\ b = r + v /\ shares[v].set = new[u].set
      BY <2>7
    <3>3. cl2[k].set = shares[y].set /\ cl2[l].set = shares[v].set
      BY <1>6, <3>1, <3>2
    <3>4. rows2[a] = shares[y].of /\ rows2[b] = shares[v].of
      BY <1>4, <3>1, <3>2
    <3>5. shares[y].set = shares[v].set /\ shares[y].of = shares[v].of => y = v
      BY <1>3, <3>1, <3>2
    <3>6. a = b => y = v
      BY <1>2, <1>3, <3>1, <3>2
    <3>7. y = v => a = b
      BY <3>1, <3>2
    <3> HIDE <3>1, <3>2
    <3> QED
      BY <3>3, <3>4, <3>5, <3>6, <3>7 DEF Apart
  <2> QED
    BY <2>1, <2>2, <2>5, <2>6, <2>7
<1>13. \A k, l \in DOMAIN cl2 : \A a, b \in DOMAIN rows2 :
          <<k, a>> \in js2 /\ <<l, b>> \in js2 => Apart(cl2[k], cl2[l], rows2[a], rows2[b], a, b)
  BY <1>12
<1>14. BackedOk(cl2, rows2, js2, n + m)
  BY <1>8, <1>9, <1>11, <1>13 DEF BackedOk
<1> QED
  BY <1>1, <1>4, <1>6, <1>14

(* A new claim of entry i is joined to the instance of each of i's shares. *)
Reaches(cl, base, shares, js, n, E, i, b, k, new) ==
    \E z \in DOMAIN (base \o Of(shares)) :
       /\ <<k, z>> \in js \cup Joins(cl, base, new, shares, n, E)
       /\ (base \o Of(shares))[z] = shares[b].of

LEMMA LandingReaches ==
    ASSUME NEW C, NEW R, NEW S, NEW cl \in Seq(C), NEW new \in Seq(C), NEW base \in Seq(R), NEW shares \in Seq(S),
           \A b \in DOMAIN shares : shares[b].of \in R, NEW js, NEW n \in Nat, NEW E,
           \A k \in DOMAIN cl : cl[k].set \in 1 .. n
    PROVE  \A i \in Nat \ {0} : \A b \in DOMAIN shares : \A k \in DOMAIN (cl \o new) :
              shares[b].set = n + i /\ shares[b].of \in E[i] /\ (cl \o new)[k].set = n + i =>
                 Reaches(cl, base, shares, js, n, E, i, b, k, new)
<1> SUFFICES ASSUME NEW i \in Nat \ {0}, NEW b \in DOMAIN shares, NEW k \in DOMAIN (cl \o new),
                    shares[b].set = n + i, shares[b].of \in E[i], (cl \o new)[k].set = n + i
             PROVE  Reaches(cl, base, shares, js, n, E, i, b, k, new)
  OBVIOUS
<1>1. PICK c, f, cl2 : c = Len(cl) /\ f = Len(new) /\ cl2 = cl \o new
  OBVIOUS
<1>2. Chain(C, cl2, cl, new, c, f)
  BY <1>1, Chained
<1>3. Of(shares) \in Seq(R) /\ b \in 1 .. Len(Of(shares)) /\ Of(shares)[b] = shares[b].of
  BY SharesAreRows
<1>4. PICK r, s, o, rows2 : r = Len(base) /\ o = Of(shares) /\ s = Len(o) /\ rows2 = base \o o
  OBVIOUS
<1>5. Chain(R, rows2, base, o, r, s)
  BY <1>3, <1>4, Chained
<1>6. r + b \in DOMAIN rows2 /\ rows2[r + b] = shares[b].of
  BY <1>3, <1>4, <1>5 DEF Chain
<1>7. PICK x \in DOMAIN new : k = c + x /\ new[x].set = n + i
  <2>1. k \notin 1 .. c
    <3> SUFFICES ASSUME k \in 1 .. c PROVE FALSE
      OBVIOUS
    <3>1. cl2[k] = cl[k] /\ cl[k].set \in 1 .. n
      BY <1>2 DEF Chain
    <3> QED
      BY <1>1, <3>1
  <2>2. k \in 1 .. c + f
    BY <1>1, <1>2 DEF Chain
  <2> QED
    <3>1. PICK x \in 1 .. f : k = c + x
      BY <1>2, <2>1, <2>2 DEF Chain
    <3>2. x \in DOMAIN new /\ cl2[k] = new[x]
      BY <1>2, <3>1 DEF Chain
    <3> QED
      BY <1>1, <3>1, <3>2
<1>8. n + i - n = i
  OBVIOUS
<1>9. <<x, b>> \in (DOMAIN new) \X (DOMAIN shares)
  BY <1>7
<1>10. <<Len(cl) + x, Len(base) + b>> \in Joins(cl, base, new, shares, n, E)
  <2> DEFINE p == <<x, b>>
  <2>1. p \in (DOMAIN new) \X (DOMAIN shares) /\ p[1] = x /\ p[2] = b
    BY <1>9
  <2>2. shares[p[2]].set = new[p[1]].set /\ shares[p[2]].of \in E[new[p[1]].set - n]
    <3>1. new[x].set - n = i
      BY <1>7, <1>8
    <3>2. shares[b].set = new[x].set /\ shares[b].of \in E[new[x].set - n]
      BY <1>7, <3>1
    <3> HIDE DEF p
    <3> QED
      BY <2>1, <3>2
  <2> HIDE DEF p
  <2> DEFINE P == {y \in (DOMAIN new) \X (DOMAIN shares) :
                     shares[y[2]].set = new[y[1]].set /\ shares[y[2]].of \in E[new[y[1]].set - n]}
  <2>3. p \in P
    BY <2>1, <2>2
  <2>4. Joins(cl, base, new, shares, n, E) = {<<Len(cl) + y[1], Len(base) + y[2]>> : y \in P}
    BY DEF Joins
  <2> HIDE DEF P
  <2>5. <<Len(cl) + p[1], Len(base) + p[2]>> \in Joins(cl, base, new, shares, n, E)
    BY <2>3, <2>4
  <2> QED
    BY <2>1, <2>5
<1> QED
  BY <1>1, <1>4, <1>6, <1>7, <1>10 DEF Reaches

-----------------------------------------------------------------------------
(* What is written, and its rows, of the evidence that parses.             *)
CiteEntries(specs, fields, values, handles) ==
    [vals : [fields -> values \cup {None}], cites : Seq(specs), text : {None, "text"},
     marks : SUBSET handles, notes : [handles -> specs \cup {None}]]

CiteTexts(handles) == [body : {None, "text"}, cites : UNION {[m -> Nat] : m \in SUBSET handles}]

Claims(fields, values, handles) ==
    [set : Nat, field : fields \cup {"text"}, val : values \cup {None} \cup CiteTexts(handles)]

FormCites == {c \in AllForms : Forms!Parses(c)}

FormSources ==
    LET found == {Forms!Reference(c) : c \in FormCites}
    IN  found \cup {<<"page", x[2]>> : x \in found} \cup {Forms!Video}

FormRow(x, c) == [source |-> x, locator |-> Forms!Parsed(c).locator, quote |-> c.quote]

FormRows == {FormRow(p[1], p[2]) : p \in FormSources \X FormCites}

FormsInv ==
    /\ formDoc \in Seq(CiteEntries(AllForms, {"f", "g"}, {spoken}, {}))
    /\ formClaims \in Seq(Claims({"f", "g"}, {spoken}, {}))
    /\ formInst \in Seq(FormRows)
    /\ BackedOk(formClaims, formInst, formJoins, formSets)

LEMMA AppendStays ==
    ASSUME NEW T, NEW s \in Seq(T), NEW x \in T
    PROVE  Append(s, x) \in Seq(T)
OBVIOUS

LEMMA ExceptStays ==
    ASSUME NEW T, NEW s \in Seq(T), NEW n \in DOMAIN s, NEW x \in T
    PROVE  [s EXCEPT ![n] = x] \in Seq(T)
OBVIOUS

LEMMA SeqGrows ==
    ASSUME NEW S, NEW T, \A x \in S : x \in T, NEW s \in Seq(S)
    PROVE  s \in Seq(T)
OBVIOUS

LEMMA CitedParts ==
    ASSUME NEW a, NEW b, NEW x, NEW y
    PROVE  /\ Cited(a, b, x, y).form = a /\ Cited(a, b, x, y).id = b
           /\ Cited(a, b, x, y).locator = x /\ Cited(a, b, x, y).quote = y
BY DEF Cited

LEMMA FormsAreThings ==
    ASSUME NEW x \in FormSources
    PROVE  Forms!Thing(x) = x
<1>1. Forms!Thing(Forms!Video) = Forms!Video
  BY Zenon DEF Forms!Thing, Forms!Video
<1>2. ASSUME NEW y PROVE Forms!Thing(<<"page", y>>) = <<"page", y>>
  BY Zenon DEF Forms!Thing
<1>3. ASSUME NEW c \in AllForms, Forms!Parses(c) PROVE Forms!Thing(Forms!Reference(c)) = Forms!Reference(c)
  <2>1. PICK x1, x2, x3 : x1 = c.form /\ x2 = c.id /\ x3 = Forms!Reference(c)
    OBVIOUS
  <2>2. x1 \in {"url", "url+archive", "isbn10", "isbn13", "slug"}
    <3> DEFINE is(a) == \E b, l, q : c = Cited(a, b, l, q)
    <3>1. is("url") \/ is("url+archive") \/ is("isbn10") \/ is("isbn13") \/ is("slug")
      BY Zenon DEF AllForms
    <3>2. \A a : is(a) => x1 = a
      BY <2>1, CitedParts
    <3> QED
      BY <3>1, <3>2
  <2>3. x3 # None
    BY <1>3, <2>1 DEF Forms!Parses
  <2>4. CASE x1 = "url"
    BY <2>1, <2>3, <2>4, Zenon DEF Forms!Reference, Forms!Thing
  <2>5. CASE x1 = "url+archive"
    BY <2>1, <2>3, <2>5, Zenon DEF Forms!Reference, Forms!Thing
  <2>6. CASE x1 \in {"isbn10", "isbn13"}
    BY <2>1, <2>3, <2>6, Zenon DEF Forms!Reference, Forms!Thing
  <2>7. CASE x1 = "slug"
    BY <2>1, <2>3, <2>7, Zenon DEF Forms!Reference, Forms!Thing
  <2> QED
    BY <2>1, <2>2, <2>4, <2>5, <2>6, <2>7
<1> QED
  BY <1>1, <1>2, <1>3 DEF FormSources, FormCites

LEMMA FormsStart == Forms!Init => FormsInv
<1> SUFFICES ASSUME Forms!Init PROVE FormsInv
  OBVIOUS
<1>1. formDoc = <<>> /\ formClaims = <<>> /\ formInst = <<>> /\ formJoins = {} /\ formSets = 0
  BY DEF Forms!Init
<1>2. BackedOk(<<>>, <<>>, {}, 0)
  BY DEF BackedOk
<1> QED
  BY <1>1, <1>2 DEF FormsInv

LEMMA FormsWrite ==
    ASSUME FormsInv, Forms!Begin \/ Forms!Cite \/ Forms!Note \/ Forms!Refuse
    PROVE  formDoc' \in Seq(CiteEntries(AllForms, {"f", "g"}, {spoken}, {}))
<1> DEFINE D == CiteEntries(AllForms, {"f", "g"}, {spoken}, {})
<1>1. formDoc \in Seq(D)
  BY DEF FormsInv
<1>2. CASE Forms!Begin
  <2>1. PICK vals \in [{"f", "g"} -> {spoken} \cup {None}], text \in {None} \cup {"text" : h \in {}}, marks \in SUBSET {} :
            formDoc' = Append(formDoc, [vals |-> vals, cites |-> <<>>, text |-> text, marks |-> marks, notes |-> Forms!NoNotes])
    BY <1>2 DEF Forms!Begin
  <2>2. Forms!NoNotes \in [{} -> AllForms \cup {None}]
    BY DEF Forms!NoNotes
  <2>4. <<>> \in Seq(AllForms) /\ text \in {None, "text"}
    BY <2>1
  <2>3. [vals |-> vals, cites |-> <<>>, text |-> text, marks |-> marks, notes |-> Forms!NoNotes] \in D
    BY <2>1, <2>2, <2>4 DEF CiteEntries
  <2> QED
    BY <1>1, <2>1, <2>3, AppendStays, Zenon
<1>3. CASE Forms!Cite
  <2>1. PICK c \in AllForms : formDoc' = [formDoc EXCEPT ![Len(formDoc)].cites = Append(@, c)]
    BY <1>3 DEF Forms!Cite
  <2>2. formDoc # <<>>
    BY <1>3 DEF Forms!Cite
  <2>3. Len(formDoc) \in DOMAIN formDoc /\ formDoc[Len(formDoc)] \in D
    BY <1>1, <2>2
  <2>4. PICK e, n : e = formDoc[Len(formDoc)] /\ n = Len(formDoc)
    OBVIOUS
  <2>5. e.cites \in Seq(AllForms)
    BY <2>3, <2>4 DEF CiteEntries
  <2>6. Append(e.cites, c) \in Seq(AllForms)
    BY <2>5
  <2>7. [e EXCEPT !.cites = Append(e.cites, c)] \in D
    BY <2>3, <2>4, <2>6 DEF CiteEntries
  <2>8. formDoc' = [formDoc EXCEPT ![n] = [e EXCEPT !.cites = Append(e.cites, c)]]
    BY <2>1, <2>4
  <2> QED
    BY <1>1, <2>3, <2>4, <2>7, <2>8, ExceptStays, Zenon
<1>4. CASE Forms!Note
  BY <1>4 DEF Forms!Note
<1>5. CASE Forms!Refuse
  BY <1>5 DEF Forms!Refuse
<1> QED
  BY <1>2, <1>3, <1>4, <1>5

LEMMA FormsInstances ==
    ASSUME NEW c \in AllForms, Forms!Parses(c)
    PROVE  Forms!Instance(c) \in FormRows
<1> DEFINE ref == Forms!Reference(c)
<1>1. c \in FormCites
  BY DEF FormCites
<1>2. Forms!SourceOf(ref) \in {ref, <<"page", ref[2]>>, Forms!Video}
  BY DEF Forms!SourceOf
<1>3. Forms!SourceOf(ref) \in FormSources
  BY <1>1, <1>2 DEF FormSources
<1> DEFINE p == <<Forms!SourceOf(ref), c>>
<1>4. Forms!Instance(c) = FormRow(p[1], p[2])
  BY DEF Forms!Instance, FormRow
<1>5. p \in FormSources \X FormCites
  BY <1>1, <1>3
<1> HIDE DEF p
<1> QED
  BY <1>4, <1>5 DEF FormRows

LEMMA FormsChanges ==
    ASSUME FormsInv, NEW i \in DOMAIN formDoc
    PROVE  /\ IsFiniteSet(Forms!Changes(i))
           /\ Forms!Changes(i) \subseteq [field : {"f", "g"} \cup {"text"}, val : {spoken} \cup {None} \cup CiteTexts({})]
<1>1. PICK e : e = formDoc[i]
  OBVIOUS
<1>2. e \in CiteEntries(AllForms, {"f", "g"}, {spoken}, {})
  BY <1>1 DEF FormsInv
<1> DEFINE W == {x \in Forms!Written(e) : e.vals[x] \notin Forms!Latest(x)}
           g == [f \in W |-> [field |-> f, val |-> e.vals[f]]]
           A == {[field |-> f, val |-> e.vals[f]] : f \in W}
           T == {x \in {Forms!Text(i)} : e.text # None /\ x \notin Forms!Latest("text")}
           B == {[field |-> "text", val |-> t] : t \in T}
           b == [t \in T |-> [field |-> "text", val |-> t]]
<1>3. W \subseteq {"f", "g"}
  BY DEF Forms!Written
<1>4. IsFiniteSet(W)
  <2>1. IsFiniteSet({"f"} \cup {"g"})
    BY FS_Singleton, FS_AddElement, Zenon
  <2>2. W \subseteq {"f"} \cup {"g"}
    BY <1>3
  <2> QED
    BY <2>1, <2>2, FS_Subset
<1>5. IsFiniteSet({g[f] : f \in W})
  <2>1. DOMAIN g = W
    OBVIOUS
  <2> HIDE DEF g, W
  <2> QED
    BY <1>4, <2>1, ImagesAreFinite
<1>6. A = {g[f] : f \in W}
  OBVIOUS
<1>7. IsFiniteSet(T)
  <2>1. IsFiniteSet({Forms!Text(i)}) /\ T \subseteq {Forms!Text(i)}
    BY FS_Singleton
  <2> QED
    BY <2>1, FS_Subset
<1>8. IsFiniteSet({b[t] : t \in T})
  <2>1. DOMAIN b = T
    OBVIOUS
  <2> HIDE DEF b, T
  <2> QED
    BY <1>7, <2>1, ImagesAreFinite
<1>9. B = {b[t] : t \in T}
  OBVIOUS
<1>10. Forms!Changes(i) = A \cup B
  BY <1>1 DEF Forms!Changes
<1>11. IsFiniteSet(A \cup B)
  BY <1>5, <1>6, <1>8, <1>9, FS_Union
<1>12. A \subseteq [field : {"f", "g"} \cup {"text"}, val : {spoken} \cup {None} \cup CiteTexts({})]
  BY <1>2, <1>3 DEF CiteEntries
<1>13. Forms!Text(i) \in CiteTexts({})
  <2>1. e.marks \in SUBSET {} /\ e.text \in {None, "text"}
    BY <1>2 DEF CiteEntries
  <2>2. \A h \in e.marks : Len(formInst) + Forms!Cardinality({x \in e.marks : x <= h}) \in Nat
    BY <2>1
  <2>3. [h \in e.marks |-> Len(formInst) + Forms!Cardinality({x \in e.marks : x <= h})] \in [e.marks -> Nat]
    BY <2>2
  <2> QED
    BY <1>1, <2>1, <2>3 DEF Forms!Text, CiteTexts
<1>14. B \subseteq [field : {"f", "g"} \cup {"text"}, val : {spoken} \cup {None} \cup CiteTexts({})]
  BY <1>13
<1> QED
  BY <1>10, <1>11, <1>12, <1>14

FormEvidence == [i \in DOMAIN formDoc |-> {Forms!Instance(c) : c \in Forms!CitesOf(formDoc[i])}]

LEMMA FormsNewClaims ==
    ASSUME FormsInv
    PROVE  /\ Lists(Forms!NewClaims, UNION {{[set |-> formSets + i, field |-> c.field, val |-> c.val] :
                                                c \in Forms!Changes(i)} : i \in DOMAIN formDoc})
           /\ Forms!NewClaims \in Seq(Claims({"f", "g"}, {spoken}, {}))
           /\ \A k \in DOMAIN Forms!NewClaims : Forms!NewClaims[k].set \in formSets + 1 .. formSets + Len(formDoc)
<1> DEFINE row(i, c) == [set |-> formSets + i, field |-> c.field, val |-> c.val]
           N(i) == {row(i, c) : c \in Forms!Changes(i)}
           G == [i \in DOMAIN formDoc |-> N(i)]
           S == UNION {N(i) : i \in DOMAIN formDoc}
<1>1. Len(formDoc) \in Nat /\ DOMAIN formDoc = 1 .. Len(formDoc) /\ formSets \in Nat
  BY DEF FormsInv, BackedOk
<1>2. ASSUME NEW i \in DOMAIN formDoc PROVE IsFiniteSet(N(i)) /\ N(i) \subseteq Claims({"f", "g"}, {spoken}, {})
  <2> DEFINE r == [c \in Forms!Changes(i) |-> row(i, c)]
  <2>1. IsFiniteSet({r[c] : c \in Forms!Changes(i)})
    BY FormsChanges, ImagesAreFinite
  <2>2. N(i) = {r[c] : c \in Forms!Changes(i)}
    OBVIOUS
  <2>3. formSets + i \in Nat
    BY <1>1
  <2>4. N(i) \subseteq Claims({"f", "g"}, {spoken}, {})
    BY <2>3, FormsChanges DEF Claims
  <2> QED
    BY <2>1, <2>2, <2>4
<1>3. IsFiniteSet({G[i] : i \in DOMAIN formDoc})
  <2>1. IsFiniteSet(DOMAIN formDoc)
    BY <1>1, FS_Interval
  <2>2. DOMAIN G = DOMAIN formDoc
    OBVIOUS
  <2> HIDE DEF G
  <2> QED
    BY <2>1, <2>2, ImagesAreFinite
<1>4. \A i \in DOMAIN formDoc : G[i] = N(i)
  OBVIOUS
<1>5. S = UNION {G[i] : i \in DOMAIN formDoc}
  BY <1>4
<1>6. IsFiniteSet(S)
  <2>1. \A T \in {G[i] : i \in DOMAIN formDoc} : IsFiniteSet(T)
    BY <1>2, <1>4
  <2> HIDE DEF G, S
  <2> QED
    BY <1>3, <1>5, <2>1, FS_UNION
<1>7. Forms!NewClaims = Forms!Listed(S)
  BY DEF Forms!NewClaims
<1>8. Lists(Forms!NewClaims, S)
  BY <1>6, <1>7, FormsListed
<1>9. \A x \in S : x \in Claims({"f", "g"}, {spoken}, {}) /\ x.set \in formSets + 1 .. formSets + Len(formDoc)
  <2> SUFFICES ASSUME NEW i \in DOMAIN formDoc, NEW x \in N(i)
               PROVE  x \in Claims({"f", "g"}, {spoken}, {}) /\ x.set \in formSets + 1 .. formSets + Len(formDoc)
    OBVIOUS
  <2>1. x.set = formSets + i
    OBVIOUS
  <2> HIDE DEF N
  <2>2. x \in Claims({"f", "g"}, {spoken}, {})
    BY <1>2
  <2>3. formSets + i \in formSets + 1 .. formSets + Len(formDoc)
    BY <1>1
  <2> QED
    BY <2>1, <2>2, <2>3
<1> HIDE DEF S
<1>10. Forms!NewClaims \in Seq(S)
  BY <1>8 DEF Lists
<1>11. Forms!NewClaims \in Seq(Claims({"f", "g"}, {spoken}, {}))
  BY <1>9, <1>10, SeqGrows
<1>12. \A k \in DOMAIN Forms!NewClaims : Forms!NewClaims[k].set \in formSets + 1 .. formSets + Len(formDoc)
  BY <1>9, <1>10
<1> QED
  BY <1>8, <1>11, <1>12 DEF S

LEMMA FormsMinted ==
    ASSUME FormsInv, Forms!Planned
    PROVE  /\ Lists(Forms!Minted, UNION {{Forms!SharedKey(i, c) : c \in Forms!CitesOf(formDoc[i])} :
                                             i \in {k \in DOMAIN formDoc : Forms!Changes(k) # {}}})
           /\ \A b \in DOMAIN Forms!Minted : Forms!Minted[b].of \in FormRows
           /\ \A a, b \in DOMAIN Forms!Minted :
                 Forms!Minted[a].set = Forms!Minted[b].set /\ Forms!Minted[a].of = Forms!Minted[b].of => a = b
<1> DEFINE N(i) == {Forms!SharedKey(i, c) : c \in Forms!CitesOf(formDoc[i])}
           I == {k \in DOMAIN formDoc : Forms!Changes(k) # {}}
           G == [i \in I |-> N(i)]
           S == UNION {N(i) : i \in I}
           R == [set : Int, of : FormRows]
<1>1. Len(formDoc) \in Nat /\ DOMAIN formDoc = 1 .. Len(formDoc) /\ formSets \in Nat
  BY DEF FormsInv, BackedOk
<1>2. ASSUME NEW i \in DOMAIN formDoc PROVE IsFiniteSet(N(i)) /\ N(i) \subseteq R
  <2>1. PICK e : e = formDoc[i] /\ e \in CiteEntries(AllForms, {"f", "g"}, {spoken}, {})
    BY DEF FormsInv
  <2>2. e.cites \in Seq(AllForms)
    BY <2>1 DEF CiteEntries
  <2> DEFINE key == [k \in DOMAIN e.cites |-> Forms!SharedKey(i, e.cites[k])]
  <2>3. IsFiniteSet({key[k] : k \in DOMAIN e.cites})
    <3>1. IsFiniteSet(DOMAIN e.cites)
      BY <2>2, FS_Interval
    <3>2. DOMAIN key = DOMAIN e.cites
      OBVIOUS
    <3> HIDE DEF key
    <3> QED
      BY <3>1, <3>2, ImagesAreFinite
  <2>4. N(i) = {key[k] : k \in DOMAIN e.cites}
    BY <2>1 DEF Forms!CitesOf
  <2>5. \A c \in Forms!CitesOf(e) : c \in AllForms /\ Forms!Parses(c)
    <3>1. \A c \in Forms!CitesOf(e) : c \in AllForms
      BY <2>2 DEF Forms!CitesOf
    <3>2. Forms!EntryOK(e)
      BY <2>1 DEF Forms!Planned
    <3> QED
      BY <3>1, <3>2 DEF Forms!EntryOK
  <2>6. \A c \in Forms!CitesOf(e) : Forms!SharedKey(i, c) \in R
    BY <1>1, <2>5, FormsInstances DEF Forms!SharedKey
  <2> QED
    BY <2>1, <2>3, <2>4, <2>6
<1>3. IsFiniteSet({G[i] : i \in I})
  <2>1. IsFiniteSet(DOMAIN formDoc)
    BY <1>1, FS_Interval
  <2>2. IsFiniteSet(I)
    BY <2>1, FS_Subset
  <2>3. DOMAIN G = I
    OBVIOUS
  <2> HIDE DEF G, I
  <2> QED
    BY <2>2, <2>3, ImagesAreFinite
<1>4. \A i \in I : G[i] = N(i)
  OBVIOUS
<1>5. S = UNION {G[i] : i \in I}
  <2> HIDE DEF N, I
  <2> QED
    OBVIOUS
<1>6. IsFiniteSet(S) /\ S \subseteq R
  <2>1. \A T \in {G[i] : i \in I} : IsFiniteSet(T) /\ T \subseteq R
    BY <1>2, <1>4
  <2> HIDE DEF G, S
  <2> QED
    BY <1>3, <1>5, <2>1, FS_UNION
<1>7. Forms!Minted = Forms!Listed(S)
  BY DEF Forms!Minted
<1>8. Lists(Forms!Minted, S)
  BY <1>6, <1>7, FormsListed
<1> HIDE DEF S
<1> HIDE DEF R
<1>9. \A b \in DOMAIN Forms!Minted : Forms!Minted[b] \in R
  <2>1. Forms!Minted \in Seq(S) /\ S \subseteq R
    BY <1>6, <1>8 DEF Lists
  <2> HIDE DEF S
  <2> QED
    BY <2>1
<1>10. \A x, y \in R : x.set = y.set /\ x.of = y.of => x = y
  BY DEF R
<1>11. \A a, b \in DOMAIN Forms!Minted : Forms!Minted[a] = Forms!Minted[b] => a = b
  BY <1>8 DEF Lists
<1>12. \A b \in DOMAIN Forms!Minted : Forms!Minted[b].of \in FormRows
  BY <1>9 DEF R
<1>13. \A a, b \in DOMAIN Forms!Minted :
          Forms!Minted[a].set = Forms!Minted[b].set /\ Forms!Minted[a].of = Forms!Minted[b].of => a = b
  BY <1>9, <1>10, <1>11
<1> QED
  BY <1>8, <1>12, <1>13 DEF S

LEMMA FormsJoins ==
    ASSUME FormsInv, NEW claim, claim.set \in formSets + 1 .. formSets + Len(formDoc), NEW share,
           share = [set |-> share.set, of |-> share.of]
    PROVE  Forms!Joined(claim, share) <=>
              share.set = claim.set /\ share.of \in FormEvidence[claim.set - formSets]
<1>1. PICK i : i = claim.set - formSets
  OBVIOUS
<1>2. i \in DOMAIN formDoc /\ formSets + i = claim.set
  <2>1. formSets \in Nat /\ Len(formDoc) \in Nat /\ DOMAIN formDoc = 1 .. Len(formDoc)
    BY DEF FormsInv, BackedOk
  <2> QED
    BY <1>1, <2>1
<1>3. FormEvidence[i] = {Forms!Instance(c) : c \in Forms!CitesOf(formDoc[i])}
  BY <1>2 DEF FormEvidence
<1>4. \A c : share = Forms!SharedKey(i, c) <=> share.set = claim.set /\ share.of = Forms!Instance(c)
  BY <1>2 DEF Forms!SharedKey
<1> QED
  BY <1>1, <1>3, <1>4 DEF Forms!Joined

LEMMA FormsFootnotes ==
    ASSUME FormsInv
    PROVE  Forms!AllFootnotes = <<>>
<1>1. \A i \in DOMAIN formDoc : formDoc[i].marks = {}
  <2>1. \A i \in DOMAIN formDoc : formDoc[i] \in CiteEntries(AllForms, {"f", "g"}, {spoken}, {})
    BY DEF FormsInv
  <2> QED
    BY <2>1 DEF CiteEntries
<1> QED
  BY <1>1 DEF Forms!AllFootnotes

(* What is applied: the claims, the instances and the joins that are new.  *)
LEMMA FormsApplied ==
    ASSUME FormsInv, Forms!Apply
    PROVE  /\ formClaims' = formClaims \o Forms!NewClaims
           /\ formInst' = (formInst \o Forms!AllFootnotes) \o Of(Forms!Minted)
           /\ formJoins' = formJoins \cup Joins(formClaims, formInst \o Forms!AllFootnotes, Forms!NewClaims,
                                                 Forms!Minted, formSets, FormEvidence)
           /\ formSets' = formSets + Len(formDoc) /\ formDoc' = <<>> /\ Len(formDoc) \in Nat
<1> DEFINE new == Forms!NewClaims
           shares == Forms!Minted
           base == formInst \o Forms!AllFootnotes
<1>1. \A x \in (DOMAIN new) \X (DOMAIN shares) :
          Forms!Joined(new[x[1]], shares[x[2]]) <=>
             shares[x[2]].set = new[x[1]].set /\ shares[x[2]].of \in FormEvidence[new[x[1]].set - formSets]
  <2> SUFFICES ASSUME NEW k \in DOMAIN new, NEW b \in DOMAIN shares
               PROVE  Forms!Joined(new[k], shares[b]) <=>
                         shares[b].set = new[k].set /\ shares[b].of \in FormEvidence[new[k].set - formSets]
    OBVIOUS
  <2>1. new[k].set \in formSets + 1 .. formSets + Len(formDoc)
    BY FormsNewClaims
  <2>2. shares[b] = [set |-> shares[b].set, of |-> shares[b].of]
    <3> DEFINE S == UNION {{Forms!SharedKey(i, c) : c \in Forms!CitesOf(formDoc[i])} :
                              i \in {k1 \in DOMAIN formDoc : Forms!Changes(k1) # {}}}
    <3>1. Lists(shares, S)
      BY FormsMinted DEF Forms!Apply
    <3>2. \A x \in S : x = [set |-> x.set, of |-> x.of]
      BY DEF Forms!SharedKey
    <3> HIDE DEF S, shares
    <3>3. shares[b] \in S
      BY <3>1 DEF Lists
    <3> QED
      BY <3>2, <3>3
  <2> HIDE DEF new, shares
  <2> QED
    BY <2>1, <2>2, FormsJoins
<1>2. {x \in (DOMAIN new) \X (DOMAIN shares) : Forms!Joined(new[x[1]], shares[x[2]])} =
      {x \in (DOMAIN new) \X (DOMAIN shares) :
          shares[x[2]].set = new[x[1]].set /\ shares[x[2]].of \in FormEvidence[new[x[1]].set - formSets]}
  <2> HIDE DEF new, shares
  <2> QED
    BY <1>1
<1>3. formJoins' = formJoins \cup
         {<<Len(formClaims) + j[1], Len(base) + j[2]>> :
             j \in {x \in (DOMAIN new) \X (DOMAIN shares) : Forms!Joined(new[x[1]], shares[x[2]])}}
  BY DEF Forms!Apply
<1>4. formJoins' = formJoins \cup Joins(formClaims, base, new, shares, formSets, FormEvidence)
  <2> HIDE DEF new, shares, base
  <2> QED
    BY <1>2, <1>3, Zenon DEF Joins
<1>5. /\ formClaims' = formClaims \o new
      /\ formInst' = base \o Of(shares)
      /\ formSets' = formSets + Len(formDoc) /\ formDoc' = <<>>
  BY DEF Forms!Apply, Of
<1> QED
  BY <1>4, <1>5 DEF FormsInv

LEMMA FormsApplyKeeps ==
    ASSUME FormsInv, Forms!Apply
    PROVE  FormsInv'
<1> DEFINE C == Claims({"f", "g"}, {spoken}, {})
           D == CiteEntries(AllForms, {"f", "g"}, {spoken}, {})
<1>1. PICK cl, rows, js, n, m, new, shares, foot, base, E, rows2, js2 :
          /\ cl = formClaims /\ rows = formInst /\ js = formJoins /\ n = formSets /\ m = Len(formDoc)
          /\ new = Forms!NewClaims /\ shares = Forms!Minted /\ foot = Forms!AllFootnotes
          /\ base = rows \o foot /\ E = FormEvidence /\ rows2 = formInst' /\ js2 = formJoins'
  OBVIOUS
<1>2. /\ formClaims' = cl \o new /\ rows2 = base \o Of(shares)
      /\ js2 = js \cup Joins(cl, base, new, shares, n, E) /\ formSets' = n + m /\ formDoc' = <<>> /\ m \in Nat
  BY <1>1, FormsApplied
<1>3. BackedOk(cl, rows, js, n) /\ cl \in Seq(C) /\ rows \in Seq(FormRows)
  BY <1>1 DEF FormsInv
<1>4. new \in Seq(C) /\ \A k \in DOMAIN new : new[k].set \in n + 1 .. n + m
  BY <1>1, FormsNewClaims
<1>5. Forms!Planned
  BY DEF Forms!Apply
<1>6. PICK S : shares \in Seq(S)
  BY <1>1, <1>5, FormsMinted DEF Lists
<1>7. /\ \A b \in DOMAIN shares : shares[b].of \in FormRows
      /\ \A a, b \in DOMAIN shares : shares[a].set = shares[b].set /\ shares[a].of = shares[b].of => a = b
  BY <1>1, <1>5, FormsMinted
<1>8. foot \in Seq(FormRows)
  BY <1>1, FormsFootnotes
<1> HIDE DEF C, D
<1>9. Adds(new, foot, shares, n, m, C, FormRows)
  BY <1>2, <1>4, <1>6, <1>7, <1>8 DEF Adds
<1>11. BackedOk(cl \o new, rows2, js2, n + m) /\ rows2 \in Seq(FormRows) /\ cl \o new \in Seq(C)
  <2>1. base = rows \o foot
    BY <1>1
  <2> QED
    BY <1>2, <1>3, <1>9, <2>1, LandingKeeps, Zenon
<1>10. <<>> \in Seq(D)
  OBVIOUS
<1> QED
  BY <1>1, <1>2, <1>10, <1>11 DEF FormsInv, C, D

LEMMA FormsStaySound ==
    ASSUME FormsInv, Forms!Next
    PROVE  FormsInv'
<1>1. ASSUME UNCHANGED <<formClaims, formInst, formJoins, formSets>>,
             formDoc' \in Seq(CiteEntries(AllForms, {"f", "g"}, {spoken}, {}))
      PROVE  FormsInv'
  BY <1>1 DEF FormsInv
<1>2. CASE Forms!Begin \/ Forms!Cite \/ Forms!Note \/ Forms!Refuse
  BY <1>1, <1>2, FormsWrite DEF Forms!Begin, Forms!Cite, Forms!Note, Forms!Refuse
<1>3. CASE Forms!Link
  BY <1>1, <1>3 DEF Forms!Link, FormsInv
<1> QED
  BY <1>2, <1>3, FormsApplyKeeps DEF Forms!Next

LEMMA FormsLandOnce ==
    ASSUME FormsInv
    PROVE  Forms!OneInstancePerEvidence /\ Forms!ChangeSetsShareNothing /\ Forms!NeverTheSameTwice
<1>1. ASSUME NEW k, NEW n \in Forms!Evidence(k) PROVE n \in DOMAIN formInst /\ <<k, n>> \in formJoins
  BY <1>1 DEF Forms!Evidence
<1>2. ASSUME NEW k \in DOMAIN formClaims, NEW l \in DOMAIN formClaims,
             NEW a \in Forms!Evidence(k), NEW b \in Forms!Evidence(l)
      PROVE  Apart(formClaims[k], formClaims[l], formInst[a], formInst[b], a, b)
  BY <1>1 DEF FormsInv, BackedOk
<1>3. Forms!OneInstancePerEvidence
  BY <1>2 DEF Apart, Forms!OneInstancePerEvidence
<1>4. Forms!ChangeSetsShareNothing
  BY <1>2 DEF Apart, Forms!ChangeSetsShareNothing
<1>5. ASSUME NEW n \in DOMAIN formInst
      PROVE  /\ Forms!Thing(formInst[n].source) = formInst[n].source
             /\ formInst[n] = [source |-> formInst[n].source, locator |-> formInst[n].locator, quote |-> formInst[n].quote]
  <2>1. formInst[n] \in FormRows
    BY DEF FormsInv
  <2>2. PICK p \in FormSources \X FormCites : formInst[n] = FormRow(p[1], p[2])
    BY <2>1 DEF FormRows
  <2> QED
    BY <2>2, FormsAreThings DEF FormRow
<1>6. Forms!NeverTheSameTwice
  <2> SUFFICES ASSUME NEW k \in DOMAIN formClaims, NEW a \in Forms!Evidence(k), NEW b \in Forms!Evidence(k), a # b,
                      Forms!Thing(formInst[a].source) = Forms!Thing(formInst[b].source),
                      formInst[a].locator = formInst[b].locator, formInst[a].quote = formInst[b].quote
               PROVE  FALSE
    BY DEF Forms!NeverTheSameTwice
  <2>1. formInst[a] = formInst[b]
    <3>1. a \in DOMAIN formInst /\ b \in DOMAIN formInst
      BY <1>1
    <3> QED
      BY <1>5, <3>1
  <2> QED
    BY <1>2, <2>1 DEF Apart
<1> QED
  BY <1>3, <1>4, <1>6

(* A cite of entry i is behind each claim that i newly writes.             *)
LEMMA FormsReach ==
    ASSUME FormsInv, Forms!Apply, NEW i \in DOMAIN formDoc, NEW c \in Forms!CitesOf(formDoc[i])
    PROVE  /\ \E k \in DOMAIN formClaims' : formClaims'[k].set = formSets + i
           /\ \A k \in DOMAIN formClaims' : formClaims'[k].set = formSets + i =>
                 \E n \in DOMAIN formInst' : <<k, n>> \in formJoins' /\ formInst'[n] = Forms!Instance(c)
<1> DEFINE C == Claims({"f", "g"}, {spoken}, {})
<1>1. PICK new, shares, base : new = Forms!NewClaims /\ shares = Forms!Minted /\ base = formInst \o Forms!AllFootnotes
  OBVIOUS
<1>2. /\ formClaims' = formClaims \o new /\ formInst' = base \o Of(shares)
      /\ formJoins' = formJoins \cup Joins(formClaims, base, new, shares, formSets, FormEvidence)
  BY <1>1, FormsApplied
<1>3. /\ formClaims \in Seq(C) /\ new \in Seq(C) /\ formSets \in Nat /\ i \in Nat /\ i # 0
      /\ \A k \in DOMAIN formClaims : formClaims[k].set \in 1 .. formSets
  <2>1. i \in 1 .. Len(formDoc) /\ Len(formDoc) \in Nat
    BY DEF FormsInv
  <2> QED
    BY <1>1, <2>1, FormsNewClaims DEF FormsInv, BackedOk
<1>4. base \in Seq(FormRows)
  <2>1. formInst \in Seq(FormRows) /\ Forms!AllFootnotes \in Seq(FormRows)
    BY FormsFootnotes DEF FormsInv
  <2> QED
    BY <1>1, <2>1
<1>5. Forms!Planned
  BY DEF Forms!Apply
<1>6. Forms!Changes(i) # {}
  <2>1. formDoc[i].cites # <<>>
    BY DEF Forms!CitesOf
  <2> QED
    BY <2>1 DEF Forms!Apply, Forms!NoEmptyDiff
<1>7. \E k \in DOMAIN formClaims' : formClaims'[k].set = formSets + i
  <2>1. PICK x \in Forms!Changes(i) : TRUE
    BY <1>6
  <2> DEFINE row(j, y) == [set |-> formSets + j, field |-> y.field, val |-> y.val]
             S == UNION {{row(j, y) : y \in Forms!Changes(j)} : j \in DOMAIN formDoc}
  <2>2. row(i, x) \in S /\ row(i, x).set = formSets + i
    OBVIOUS
  <2>3. Lists(new, S)
    BY <1>1, FormsNewClaims
  <2> HIDE DEF S, row
  <2>4. PICK k \in DOMAIN new : new[k].set = formSets + i
    BY <2>2, <2>3 DEF Lists
  <2>5. Chain(C, formClaims \o new, formClaims, new, Len(formClaims), Len(new))
    BY <1>3, Chained
  <2> HIDE DEF C
  <2>6. Len(formClaims) + k \in DOMAIN (formClaims \o new) /\ (formClaims \o new)[Len(formClaims) + k] = new[k]
    BY <2>4, <2>5 DEF Chain
  <2> QED
    BY <1>2, <2>4, <2>6
<1>8. PICK b \in DOMAIN shares : shares[b] = Forms!SharedKey(i, c)
  <2> DEFINE S == UNION {{Forms!SharedKey(j, y) : y \in Forms!CitesOf(formDoc[j])} :
                            j \in {k1 \in DOMAIN formDoc : Forms!Changes(k1) # {}}}
  <2>1. Forms!SharedKey(i, c) \in S
    BY <1>6
  <2>2. Lists(shares, S)
    BY <1>1, <1>5, FormsMinted
  <2> HIDE DEF S
  <2> QED
    BY <2>1, <2>2 DEF Lists
<1>9. shares[b].set = formSets + i /\ shares[b].of = Forms!Instance(c)
  BY <1>8 DEF Forms!SharedKey
<1>10. shares[b].of \in FormEvidence[i]
  BY <1>9 DEF FormEvidence
<1>11. \A x \in DOMAIN shares : shares[x].of \in FormRows
  BY <1>1, <1>5, FormsMinted
<1>12. PICK S : shares \in Seq(S)
  BY <1>1, <1>5, FormsMinted DEF Lists
<1> HIDE DEF C
<1>13. ASSUME NEW k \in DOMAIN formClaims', formClaims'[k].set = formSets + i
       PROVE  \E n \in DOMAIN formInst' : <<k, n>> \in formJoins' /\ formInst'[n] = Forms!Instance(c)
  <2>1. k \in DOMAIN (formClaims \o new) /\ (formClaims \o new)[k].set = formSets + i
    BY <1>2, <1>13
  <2>2. \A j \in Nat \ {0} : \A y \in DOMAIN shares : \A x \in DOMAIN (formClaims \o new) :
           shares[y].set = formSets + j /\ shares[y].of \in FormEvidence[j] /\ (formClaims \o new)[x].set = formSets + j =>
              Reaches(formClaims, base, shares, formJoins, formSets, FormEvidence, j, y, x, new)
    BY <1>3, <1>4, <1>11, <1>12, LandingReaches, Zenon
  <2>3. Reaches(formClaims, base, shares, formJoins, formSets, FormEvidence, i, b, k, new)
    BY <1>3, <1>9, <1>10, <2>1, <2>2
  <2> QED
    BY <1>2, <1>9, <2>3 DEF Reaches
<1> QED
  BY <1>7, <1>13

(* Nothing cited in a patch that is applied is lost.                       *)
FormStepLands ==
    formPatches' # formPatches =>
        \A i \in DOMAIN formDoc :
            LET new == {k \in DOMAIN formClaims' : formClaims'[k].set = formSets + i} IN
            /\ \A c \in Forms!CitesOf(formDoc[i]) :
                  /\ new # {}
                  /\ \A k \in new : \E n \in DOMAIN formInst' : <<k, n>> \in formJoins' /\ formInst'[n] = Forms!Instance(c)
            /\ \A h \in {} : formDoc[i].notes[h] # None =>
                  \E k \in new : /\ formClaims'[k].field = "text" /\ h \in DOMAIN formClaims'[k].val.cites
                                 /\ formInst'[formClaims'[k].val.cites[h]] = Forms!Instance(formDoc[i].notes[h])

LEMMA FormsLand ==
    ASSUME FormsInv, [Forms!Next]_formVars
    PROVE  FormStepLands
<1>1. formPatches' # formPatches => Forms!Apply
  BY DEF formVars, Forms!Next, Forms!Begin, Forms!Cite, Forms!Note, Forms!Refuse, Forms!Link
<1> QED
  BY <1>1, FormsReach DEF FormStepLands

LEMMA VideosListed ==
    ASSUME NEW S, IsFiniteSet(S)
    PROVE  Lists(Videos!Listed(S), S)
<1>1. Videos!Cardinality(S) = Cardinality(S)
  BY DEF Videos!Cardinality, Cardinality
<1> QED
  BY <1>1, SetsAreListed DEF Videos!Listed

VideoCites == {c \in VideoForms : Videos!Parses(c)}

VideoSources ==
    LET found == {Videos!Reference(c) : c \in VideoCites}
    IN  found \cup {<<"page", x[2]>> : x \in found} \cup {Videos!Video}

VideoRow(x, c) == [source |-> x, locator |-> Videos!Parsed(c).locator, quote |-> c.quote]

VideoRows == {VideoRow(p[1], p[2]) : p \in VideoSources \X VideoCites}

VideosInv ==
    /\ noteDoc \in Seq(CiteEntries(VideoForms, {"f"}, {spoken}, {1, 2}))
    /\ noteClaims \in Seq(Claims({"f"}, {spoken}, {1, 2}))
    /\ noteInst \in Seq(VideoRows)
    /\ BackedOk(noteClaims, noteInst, noteJoins, noteSets)

(* The place of a marker among those of a text.                            *)
Rank(M, h) == Videos!Cardinality({x \in M : x <= h})

LEMMA Ranks ==
    ASSUME NEW M \in SUBSET {1, 2}
    PROVE  /\ Videos!Cardinality(M) \in Nat
           /\ \A h \in M : Rank(M, h) \in 1 .. Videos!Cardinality(M)
           /\ \A g, h \in M : Rank(M, g) = Rank(M, h) => g = h
           /\ \A n \in 1 .. Videos!Cardinality(M) : \E h \in M : Rank(M, h) = n
<1>1. \A S : Videos!Cardinality(S) = Cardinality(S)
  BY DEF Videos!Cardinality, Cardinality
<1>2. Cardinality({}) = 0 /\ Cardinality({1}) = 1 /\ Cardinality({2}) = 1 /\ Cardinality({1, 2}) = 2
  <2>1. Cardinality({}) = 0 /\ IsFiniteSet({})
    BY FS_EmptySet
  <2>2. \A x : Cardinality({x}) = 1 /\ IsFiniteSet({x})
    BY FS_Singleton
  <2>3. Cardinality({1} \cup {2}) = 2
    <3>1. 2 \notin {1}
      OBVIOUS
    <3>2. Cardinality({1} \cup {2}) = Cardinality({1}) + 1
      BY <2>2, <3>1, FS_AddElement
    <3>3. Cardinality({1}) = 1
      BY <2>2
    <3> QED
      BY <3>2, <3>3
  <2>4. {1, 2} = {1} \cup {2}
    OBVIOUS
  <2> QED
    BY <2>1, <2>2, <2>3, <2>4
<1>3. M = {} \/ M = {1} \/ M = {2} \/ M = {1, 2}
  <2>1. CASE 1 \in M /\ 2 \in M
    BY <2>1
  <2>2. CASE 1 \in M /\ 2 \notin M
    BY <2>2
  <2>3. CASE 1 \notin M /\ 2 \in M
    BY <2>3
  <2>4. CASE 1 \notin M /\ 2 \notin M
    BY <2>4
  <2> QED
    BY <2>1, <2>2, <2>3, <2>4
<1>4. CASE M = {}
  BY <1>1, <1>2, <1>4
<1>5. CASE M = {1}
  <2>1. {x \in M : x <= 1} = {1}
    BY <1>5
  <2> QED
    BY <1>1, <1>2, <1>5, <2>1 DEF Rank
<1>6. CASE M = {2}
  <2>1. {x \in M : x <= 2} = {2}
    BY <1>6
  <2> QED
    BY <1>1, <1>2, <1>6, <2>1 DEF Rank
<1>7. CASE M = {1, 2}
  <2>1. {x \in M : x <= 1} = {1} /\ {x \in M : x <= 2} = {1, 2}
    BY <1>7
  <2>2. Rank(M, 1) = 1 /\ Rank(M, 2) = 2 /\ Videos!Cardinality(M) = 2
    BY <1>1, <1>2, <1>7, <2>1 DEF Rank
  <2> QED
    BY <1>7, <2>2
<1> QED
  BY <1>3, <1>4, <1>5, <1>6, <1>7

LEMMA VideosStart == Videos!Init => VideosInv
<1> SUFFICES ASSUME Videos!Init PROVE VideosInv
  OBVIOUS
<1>1. noteDoc = <<>> /\ noteClaims = <<>> /\ noteInst = <<>> /\ noteJoins = {} /\ noteSets = 0
  BY DEF Videos!Init
<1>2. BackedOk(<<>>, <<>>, {}, 0)
  BY DEF BackedOk
<1> QED
  BY <1>1, <1>2 DEF VideosInv

LEMMA VideosWrite ==
    ASSUME VideosInv, Videos!Begin \/ Videos!Cite \/ Videos!Note \/ Videos!Refuse
    PROVE  noteDoc' \in Seq(CiteEntries(VideoForms, {"f"}, {spoken}, {1, 2}))
<1> DEFINE D == CiteEntries(VideoForms, {"f"}, {spoken}, {1, 2})
<1>1. noteDoc \in Seq(D)
  BY DEF VideosInv
<1>2. CASE Videos!Begin
  <2>1. PICK vals \in [{"f"} -> {spoken} \cup {None}], text \in {None} \cup {"text" : h \in {1, 2}}, marks \in SUBSET {1, 2} :
            noteDoc' = Append(noteDoc, [vals |-> vals, cites |-> <<>>, text |-> text, marks |-> marks, notes |-> Videos!NoNotes])
    BY <1>2 DEF Videos!Begin
  <2>2. Videos!NoNotes \in [{1, 2} -> VideoForms \cup {None}]
    BY DEF Videos!NoNotes
  <2>4. <<>> \in Seq(VideoForms) /\ text \in {None, "text"}
    BY <2>1
  <2>3. [vals |-> vals, cites |-> <<>>, text |-> text, marks |-> marks, notes |-> Videos!NoNotes] \in D
    BY <2>1, <2>2, <2>4 DEF CiteEntries
  <2> QED
    BY <1>1, <2>1, <2>3, AppendStays, Zenon
<1>3. CASE Videos!Cite
  <2>1. PICK c \in VideoForms : noteDoc' = [noteDoc EXCEPT ![Len(noteDoc)].cites = Append(@, c)]
    BY <1>3 DEF Videos!Cite
  <2>2. noteDoc # <<>>
    BY <1>3 DEF Videos!Cite
  <2>3. Len(noteDoc) \in DOMAIN noteDoc /\ noteDoc[Len(noteDoc)] \in D
    BY <1>1, <2>2
  <2>4. PICK e, n : e = noteDoc[Len(noteDoc)] /\ n = Len(noteDoc)
    OBVIOUS
  <2>5. e.cites \in Seq(VideoForms)
    BY <2>3, <2>4 DEF CiteEntries
  <2>6. Append(e.cites, c) \in Seq(VideoForms)
    BY <2>5
  <2>7. [e EXCEPT !.cites = Append(e.cites, c)] \in D
    BY <2>3, <2>4, <2>6 DEF CiteEntries
  <2>8. noteDoc' = [noteDoc EXCEPT ![n] = [e EXCEPT !.cites = Append(e.cites, c)]]
    BY <2>1, <2>4
  <2> QED
    BY <1>1, <2>3, <2>4, <2>7, <2>8, ExceptStays, Zenon
<1>4. CASE Videos!Note
  <2>1. PICK h \in {1, 2}, c \in VideoForms : noteDoc' = [noteDoc EXCEPT ![Len(noteDoc)].notes[h] = c]
    BY <1>4 DEF Videos!Note
  <2>2. noteDoc # <<>>
    BY <1>4 DEF Videos!Note
  <2>3. Len(noteDoc) \in DOMAIN noteDoc /\ noteDoc[Len(noteDoc)] \in D
    BY <1>1, <2>2
  <2>4. PICK e, n : e = noteDoc[Len(noteDoc)] /\ n = Len(noteDoc)
    OBVIOUS
  <2>5. e.notes \in [{1, 2} -> VideoForms \cup {None}]
    BY <2>3, <2>4 DEF CiteEntries
  <2>6. [e.notes EXCEPT ![h] = c] \in [{1, 2} -> VideoForms \cup {None}]
    BY <2>5
  <2>7. [e EXCEPT !.notes = [e.notes EXCEPT ![h] = c]] \in D
    BY <2>3, <2>4, <2>6 DEF CiteEntries
  <2>8. noteDoc' = [noteDoc EXCEPT ![n] = [e EXCEPT !.notes = [e.notes EXCEPT ![h] = c]]]
    BY <2>1, <2>4
  <2> QED
    BY <1>1, <2>3, <2>4, <2>7, <2>8, ExceptStays, Zenon
<1>5. CASE Videos!Refuse
  BY <1>5 DEF Videos!Refuse
<1> QED
  BY <1>2, <1>3, <1>4, <1>5

LEMMA VideosInstances ==
    ASSUME NEW c \in VideoForms, Videos!Parses(c)
    PROVE  Videos!Instance(c) \in VideoRows
<1> DEFINE ref == Videos!Reference(c)
<1>1. c \in VideoCites
  BY DEF VideoCites
<1>2. Videos!SourceOf(ref) \in {ref, <<"page", ref[2]>>, Videos!Video}
  BY DEF Videos!SourceOf
<1>3. Videos!SourceOf(ref) \in VideoSources
  BY <1>1, <1>2 DEF VideoSources
<1> DEFINE p == <<Videos!SourceOf(ref), c>>
<1>4. Videos!Instance(c) = VideoRow(p[1], p[2])
  BY DEF Videos!Instance, VideoRow
<1>5. p \in VideoSources \X VideoCites
  BY <1>1, <1>3
<1> HIDE DEF p
<1> QED
  BY <1>4, <1>5 DEF VideoRows

LEMMA VideosChanges ==
    ASSUME VideosInv, NEW i \in DOMAIN noteDoc
    PROVE  /\ IsFiniteSet(Videos!Changes(i))
           /\ Videos!Changes(i) \subseteq [field : {"f"} \cup {"text"}, val : {spoken} \cup {None} \cup CiteTexts({1, 2})]
<1>1. PICK e : e = noteDoc[i]
  OBVIOUS
<1>2. e \in CiteEntries(VideoForms, {"f"}, {spoken}, {1, 2})
  BY <1>1 DEF VideosInv
<1> DEFINE W == {x \in Videos!Written(e) : e.vals[x] \notin Videos!Latest(x)}
           g == [f \in W |-> [field |-> f, val |-> e.vals[f]]]
           A == {[field |-> f, val |-> e.vals[f]] : f \in W}
           T == {x \in {Videos!Text(i)} : e.text # None /\ x \notin Videos!Latest("text")}
           B == {[field |-> "text", val |-> t] : t \in T}
           b == [t \in T |-> [field |-> "text", val |-> t]]
<1>3. W \subseteq {"f"}
  BY DEF Videos!Written
<1>4. IsFiniteSet(W)
  <2>1. IsFiniteSet({"f"} \cup {"g"})
    BY FS_Singleton, FS_AddElement, Zenon
  <2>2. W \subseteq {"f"} \cup {"g"}
    BY <1>3
  <2> QED
    BY <2>1, <2>2, FS_Subset
<1>5. IsFiniteSet({g[f] : f \in W})
  <2>1. DOMAIN g = W
    OBVIOUS
  <2> HIDE DEF g, W
  <2> QED
    BY <1>4, <2>1, ImagesAreFinite
<1>6. A = {g[f] : f \in W}
  OBVIOUS
<1>7. IsFiniteSet(T)
  <2>1. IsFiniteSet({Videos!Text(i)}) /\ T \subseteq {Videos!Text(i)}
    BY FS_Singleton
  <2> QED
    BY <2>1, FS_Subset
<1>8. IsFiniteSet({b[t] : t \in T})
  <2>1. DOMAIN b = T
    OBVIOUS
  <2> HIDE DEF b, T
  <2> QED
    BY <1>7, <2>1, ImagesAreFinite
<1>9. B = {b[t] : t \in T}
  OBVIOUS
<1>10. Videos!Changes(i) = A \cup B
  BY <1>1 DEF Videos!Changes
<1>11. IsFiniteSet(A \cup B)
  BY <1>5, <1>6, <1>8, <1>9, FS_Union
<1>12. A \subseteq [field : {"f"} \cup {"text"}, val : {spoken} \cup {None} \cup CiteTexts({1, 2})]
  BY <1>2, <1>3 DEF CiteEntries
<1>13. Videos!Text(i) \in CiteTexts({1, 2})
  <2>1. e.marks \in SUBSET {1, 2} /\ e.text \in {None, "text"}
    BY <1>2 DEF CiteEntries
  <2>2. \A h \in e.marks : Len(noteInst) + Videos!Cardinality({x \in e.marks : x <= h}) \in Nat
    <3>1. \A h \in e.marks : Rank(e.marks, h) \in Nat
      <4>1. PICK M : M = e.marks /\ M \in SUBSET {1, 2}
        BY <2>1
      <4>2. Videos!Cardinality(M) \in Nat /\ \A h \in M : Rank(M, h) \in 1 .. Videos!Cardinality(M)
        BY <4>1, Ranks
      <4> QED
        BY <4>1, <4>2
    <3>2. Len(noteInst) \in Nat
      BY DEF VideosInv
    <3>3. \A h \in e.marks : Len(noteInst) + Rank(e.marks, h) \in Nat
      BY <3>1, <3>2
    <3> QED
      BY <3>3 DEF Rank
  <2>3. [h \in e.marks |-> Len(noteInst) + Videos!Cardinality({x \in e.marks : x <= h})] \in [e.marks -> Nat]
    BY <2>2
  <2> QED
    BY <1>1, <2>1, <2>3 DEF Videos!Text, CiteTexts
<1>14. B \subseteq [field : {"f"} \cup {"text"}, val : {spoken} \cup {None} \cup CiteTexts({1, 2})]
  BY <1>13
<1> QED
  BY <1>10, <1>11, <1>12, <1>14

VideoEvidence == [i \in DOMAIN noteDoc |-> {Videos!Instance(c) : c \in Videos!CitesOf(noteDoc[i])}]

LEMMA VideosNewClaims ==
    ASSUME VideosInv
    PROVE  /\ Lists(Videos!NewClaims, UNION {{[set |-> noteSets + i, field |-> c.field, val |-> c.val] :
                                                c \in Videos!Changes(i)} : i \in DOMAIN noteDoc})
           /\ Videos!NewClaims \in Seq(Claims({"f"}, {spoken}, {1, 2}))
           /\ \A k \in DOMAIN Videos!NewClaims : Videos!NewClaims[k].set \in noteSets + 1 .. noteSets + Len(noteDoc)
<1> DEFINE row(i, c) == [set |-> noteSets + i, field |-> c.field, val |-> c.val]
           N(i) == {row(i, c) : c \in Videos!Changes(i)}
           G == [i \in DOMAIN noteDoc |-> N(i)]
           S == UNION {N(i) : i \in DOMAIN noteDoc}
<1>1. Len(noteDoc) \in Nat /\ DOMAIN noteDoc = 1 .. Len(noteDoc) /\ noteSets \in Nat
  BY DEF VideosInv, BackedOk
<1>2. ASSUME NEW i \in DOMAIN noteDoc PROVE IsFiniteSet(N(i)) /\ N(i) \subseteq Claims({"f"}, {spoken}, {1, 2})
  <2> DEFINE r == [c \in Videos!Changes(i) |-> row(i, c)]
  <2>1. IsFiniteSet({r[c] : c \in Videos!Changes(i)})
    BY VideosChanges, ImagesAreFinite
  <2>2. N(i) = {r[c] : c \in Videos!Changes(i)}
    OBVIOUS
  <2>3. noteSets + i \in Nat
    BY <1>1
  <2>4. N(i) \subseteq Claims({"f"}, {spoken}, {1, 2})
    BY <2>3, VideosChanges DEF Claims
  <2> QED
    BY <2>1, <2>2, <2>4
<1>3. IsFiniteSet({G[i] : i \in DOMAIN noteDoc})
  <2>1. IsFiniteSet(DOMAIN noteDoc)
    BY <1>1, FS_Interval
  <2>2. DOMAIN G = DOMAIN noteDoc
    OBVIOUS
  <2> HIDE DEF G
  <2> QED
    BY <2>1, <2>2, ImagesAreFinite
<1>4. \A i \in DOMAIN noteDoc : G[i] = N(i)
  OBVIOUS
<1>5. S = UNION {G[i] : i \in DOMAIN noteDoc}
  BY <1>4
<1>6. IsFiniteSet(S)
  <2>1. \A T \in {G[i] : i \in DOMAIN noteDoc} : IsFiniteSet(T)
    BY <1>2, <1>4
  <2> HIDE DEF G, S
  <2> QED
    BY <1>3, <1>5, <2>1, FS_UNION
<1>7. Videos!NewClaims = Videos!Listed(S)
  BY DEF Videos!NewClaims
<1>8. Lists(Videos!NewClaims, S)
  BY <1>6, <1>7, VideosListed
<1>9. \A x \in S : x \in Claims({"f"}, {spoken}, {1, 2}) /\ x.set \in noteSets + 1 .. noteSets + Len(noteDoc)
  <2> SUFFICES ASSUME NEW i \in DOMAIN noteDoc, NEW x \in N(i)
               PROVE  x \in Claims({"f"}, {spoken}, {1, 2}) /\ x.set \in noteSets + 1 .. noteSets + Len(noteDoc)
    OBVIOUS
  <2>1. x.set = noteSets + i
    OBVIOUS
  <2> HIDE DEF N
  <2>2. x \in Claims({"f"}, {spoken}, {1, 2})
    BY <1>2
  <2>3. noteSets + i \in noteSets + 1 .. noteSets + Len(noteDoc)
    BY <1>1
  <2> QED
    BY <2>1, <2>2, <2>3
<1> HIDE DEF S
<1>10. Videos!NewClaims \in Seq(S)
  BY <1>8 DEF Lists
<1>11. Videos!NewClaims \in Seq(Claims({"f"}, {spoken}, {1, 2}))
  BY <1>9, <1>10, SeqGrows
<1>12. \A k \in DOMAIN Videos!NewClaims : Videos!NewClaims[k].set \in noteSets + 1 .. noteSets + Len(noteDoc)
  BY <1>9, <1>10
<1> QED
  BY <1>8, <1>11, <1>12 DEF S

LEMMA VideosMinted ==
    ASSUME VideosInv, Videos!Planned
    PROVE  /\ Lists(Videos!Minted, UNION {{Videos!SharedKey(i, c) : c \in Videos!CitesOf(noteDoc[i])} :
                                             i \in {k \in DOMAIN noteDoc : Videos!Changes(k) # {}}})
           /\ \A b \in DOMAIN Videos!Minted : Videos!Minted[b].of \in VideoRows
           /\ \A a, b \in DOMAIN Videos!Minted :
                 Videos!Minted[a].set = Videos!Minted[b].set /\ Videos!Minted[a].of = Videos!Minted[b].of => a = b
<1> DEFINE N(i) == {Videos!SharedKey(i, c) : c \in Videos!CitesOf(noteDoc[i])}
           I == {k \in DOMAIN noteDoc : Videos!Changes(k) # {}}
           G == [i \in I |-> N(i)]
           S == UNION {N(i) : i \in I}
           R == [set : Int, of : VideoRows]
<1>1. Len(noteDoc) \in Nat /\ DOMAIN noteDoc = 1 .. Len(noteDoc) /\ noteSets \in Nat
  BY DEF VideosInv, BackedOk
<1>2. ASSUME NEW i \in DOMAIN noteDoc PROVE IsFiniteSet(N(i)) /\ N(i) \subseteq R
  <2>1. PICK e : e = noteDoc[i] /\ e \in CiteEntries(VideoForms, {"f"}, {spoken}, {1, 2})
    BY DEF VideosInv
  <2>2. e.cites \in Seq(VideoForms)
    BY <2>1 DEF CiteEntries
  <2> DEFINE key == [k \in DOMAIN e.cites |-> Videos!SharedKey(i, e.cites[k])]
  <2>3. IsFiniteSet({key[k] : k \in DOMAIN e.cites})
    <3>1. IsFiniteSet(DOMAIN e.cites)
      BY <2>2, FS_Interval
    <3>2. DOMAIN key = DOMAIN e.cites
      OBVIOUS
    <3> HIDE DEF key
    <3> QED
      BY <3>1, <3>2, ImagesAreFinite
  <2>4. N(i) = {key[k] : k \in DOMAIN e.cites}
    BY <2>1 DEF Videos!CitesOf
  <2>5. \A c \in Videos!CitesOf(e) : c \in VideoForms /\ Videos!Parses(c)
    <3>1. \A c \in Videos!CitesOf(e) : c \in VideoForms
      BY <2>2 DEF Videos!CitesOf
    <3>2. Videos!EntryOK(e)
      BY <2>1 DEF Videos!Planned
    <3> QED
      BY <3>1, <3>2 DEF Videos!EntryOK
  <2>6. \A c \in Videos!CitesOf(e) : Videos!SharedKey(i, c) \in R
    BY <1>1, <2>5, VideosInstances DEF Videos!SharedKey
  <2> QED
    BY <2>1, <2>3, <2>4, <2>6
<1>3. IsFiniteSet({G[i] : i \in I})
  <2>1. IsFiniteSet(DOMAIN noteDoc)
    BY <1>1, FS_Interval
  <2>2. IsFiniteSet(I)
    BY <2>1, FS_Subset
  <2>3. DOMAIN G = I
    OBVIOUS
  <2> HIDE DEF G, I
  <2> QED
    BY <2>2, <2>3, ImagesAreFinite
<1>4. \A i \in I : G[i] = N(i)
  OBVIOUS
<1>5. S = UNION {G[i] : i \in I}
  <2> HIDE DEF N, I
  <2> QED
    OBVIOUS
<1>6. IsFiniteSet(S) /\ S \subseteq R
  <2>1. \A T \in {G[i] : i \in I} : IsFiniteSet(T) /\ T \subseteq R
    BY <1>2, <1>4
  <2> HIDE DEF G, S
  <2> QED
    BY <1>3, <1>5, <2>1, FS_UNION
<1>7. Videos!Minted = Videos!Listed(S)
  BY DEF Videos!Minted
<1>8. Lists(Videos!Minted, S)
  BY <1>6, <1>7, VideosListed
<1> HIDE DEF S
<1> HIDE DEF R
<1>9. \A b \in DOMAIN Videos!Minted : Videos!Minted[b] \in R
  <2>1. Videos!Minted \in Seq(S) /\ S \subseteq R
    BY <1>6, <1>8 DEF Lists
  <2> HIDE DEF S
  <2> QED
    BY <2>1
<1>10. \A x, y \in R : x.set = y.set /\ x.of = y.of => x = y
  BY DEF R
<1>11. \A a, b \in DOMAIN Videos!Minted : Videos!Minted[a] = Videos!Minted[b] => a = b
  BY <1>8 DEF Lists
<1>12. \A b \in DOMAIN Videos!Minted : Videos!Minted[b].of \in VideoRows
  BY <1>9 DEF R
<1>13. \A a, b \in DOMAIN Videos!Minted :
          Videos!Minted[a].set = Videos!Minted[b].set /\ Videos!Minted[a].of = Videos!Minted[b].of => a = b
  BY <1>9, <1>10, <1>11
<1> QED
  BY <1>8, <1>12, <1>13 DEF S

LEMMA VideosJoins ==
    ASSUME VideosInv, NEW claim, claim.set \in noteSets + 1 .. noteSets + Len(noteDoc), NEW share,
           share = [set |-> share.set, of |-> share.of]
    PROVE  Videos!Joined(claim, share) <=>
              share.set = claim.set /\ share.of \in VideoEvidence[claim.set - noteSets]
<1>1. PICK i : i = claim.set - noteSets
  OBVIOUS
<1>2. i \in DOMAIN noteDoc /\ noteSets + i = claim.set
  <2>1. noteSets \in Nat /\ Len(noteDoc) \in Nat /\ DOMAIN noteDoc = 1 .. Len(noteDoc)
    BY DEF VideosInv, BackedOk
  <2> QED
    BY <1>1, <2>1
<1>3. VideoEvidence[i] = {Videos!Instance(c) : c \in Videos!CitesOf(noteDoc[i])}
  BY <1>2 DEF VideoEvidence
<1>4. \A c : share = Videos!SharedKey(i, c) <=> share.set = claim.set /\ share.of = Videos!Instance(c)
  BY <1>2 DEF Videos!SharedKey
<1> QED
  BY <1>1, <1>3, <1>4 DEF Videos!Joined

(* The entry with the text, of those that are planned, and its markers.    *)
LEMMA VideosNotes ==
    ASSUME VideosInv, Videos!Planned, NEW i \in DOMAIN noteDoc, noteDoc[i].marks # {}
    PROVE  /\ noteDoc[i].marks \in SUBSET {1, 2}
           /\ Videos!AllFootnotes \in Seq(VideoRows)
           /\ Len(Videos!AllFootnotes) = Videos!Cardinality(noteDoc[i].marks)
           /\ \A h \in noteDoc[i].marks : Videos!AllFootnotes[Rank(noteDoc[i].marks, h)] = Videos!Instance(noteDoc[i].notes[h])
<1>1. PICK M, N : M = noteDoc[i].marks /\ N = noteDoc[i].notes
  OBVIOUS
<1>2. \A j \in DOMAIN noteDoc : noteDoc[j] \in CiteEntries(VideoForms, {"f"}, {spoken}, {1, 2}) /\ Videos!EntryOK(noteDoc[j])
  BY DEF VideosInv, Videos!Planned
<1>3. M \in SUBSET {1, 2} /\ N \in [{1, 2} -> VideoForms \cup {None}]
  BY <1>1, <1>2 DEF CiteEntries
<1>4. M = {h \in {1, 2} : N[h] # None}
  BY <1>1, <1>2 DEF Videos!EntryOK, Videos!Corresponds
<1>5. \A h \in M : N[h] \in VideoForms /\ Videos!Parses(N[h])
  BY <1>1, <1>2, <1>3, <1>4 DEF Videos!EntryOK
<1>6. \A j \in DOMAIN noteDoc : noteDoc[j].marks # {} => j = i
  <2>1. \A j \in DOMAIN noteDoc : noteDoc[j].marks # {} => noteDoc[j].text # None
    BY <1>2 DEF Videos!EntryOK, Videos!Corresponds
  <2>2. \A j \in DOMAIN noteDoc : j # i => noteDoc[j].text = None \/ noteDoc[i].text = None
    BY DEF Videos!Planned, Videos!Disjoint
  <2> QED
    BY <2>1, <2>2
<1>7. {j \in DOMAIN noteDoc : noteDoc[j].marks # {}} = {i}
  BY <1>6
<1>8. Videos!AllFootnotes = Videos!Footnotes(i)
  <2>1. (CHOOSE j \in {i} : TRUE) = i
    OBVIOUS
  <2> QED
    BY <1>7, <2>1 DEF Videos!AllFootnotes
<1>9. PICK c : c = Videos!Cardinality(M) /\ c \in Nat
  BY <1>3, Ranks
<1>10. \A n \in 1 .. c : Videos!Handle(i, n) \in M /\ Rank(M, Videos!Handle(i, n)) = n
  <2> SUFFICES ASSUME NEW n \in 1 .. c PROVE Videos!Handle(i, n) \in M /\ Rank(M, Videos!Handle(i, n)) = n
    OBVIOUS
  <2>1. Videos!Handle(i, n) = CHOOSE h \in M : Rank(M, h) = n
    BY <1>1, Zenon DEF Videos!Handle, Rank
  <2>2. \E h \in M : Rank(M, h) = n
    BY <1>3, <1>9, Ranks
  <2> QED
    BY <2>1, <2>2, Zenon
<1>11. Videos!AllFootnotes = [n \in 1 .. c |-> Videos!Instance(N[Videos!Handle(i, n)])]
  BY <1>1, <1>8, <1>9 DEF Videos!Footnotes
<1>12. \A n \in 1 .. c : Videos!Instance(N[Videos!Handle(i, n)]) \in VideoRows
  BY <1>5, <1>10, VideosInstances
<1>13. Videos!AllFootnotes \in [1 .. c -> VideoRows]
  BY <1>11, <1>12
<1>14. Videos!AllFootnotes \in Seq(VideoRows) /\ Len(Videos!AllFootnotes) = c
  BY <1>9, <1>13
<1>15. ASSUME NEW h \in M
       PROVE  Videos!AllFootnotes[Rank(M, h)] = Videos!Instance(N[h])
  <2>1. Rank(M, h) \in 1 .. c
    BY <1>3, <1>9, Ranks
  <2>2. Videos!Handle(i, Rank(M, h)) = h
    BY <1>3, <1>10, <2>1, Ranks
  <2>3. PICK r : r = Rank(M, h)
    OBVIOUS
  <2>4. Videos!AllFootnotes[r] = Videos!Instance(N[Videos!Handle(i, r)])
    BY <1>11, <2>1, <2>3
  <2> QED
    BY <2>2, <2>3, <2>4
<1> QED
  BY <1>1, <1>3, <1>9, <1>14, <1>15

LEMMA VideosFootnotes ==
    ASSUME VideosInv, Videos!Planned
    PROVE  Videos!AllFootnotes \in Seq(VideoRows)
<1>1. CASE \E i \in DOMAIN noteDoc : noteDoc[i].marks # {}
  BY <1>1, VideosNotes
<1>2. CASE \A i \in DOMAIN noteDoc : noteDoc[i].marks = {}
  BY <1>2 DEF Videos!AllFootnotes
<1> QED
  BY <1>1, <1>2

LEMMA VideosApplied ==
    ASSUME VideosInv, Videos!Apply
    PROVE  /\ noteClaims' = noteClaims \o Videos!NewClaims
           /\ noteInst' = (noteInst \o Videos!AllFootnotes) \o Of(Videos!Minted)
           /\ noteJoins' = noteJoins \cup Joins(noteClaims, noteInst \o Videos!AllFootnotes, Videos!NewClaims,
                                                 Videos!Minted, noteSets, VideoEvidence)
           /\ noteSets' = noteSets + Len(noteDoc) /\ noteDoc' = <<>> /\ Len(noteDoc) \in Nat
<1> DEFINE new == Videos!NewClaims
           shares == Videos!Minted
           base == noteInst \o Videos!AllFootnotes
<1>1. \A x \in (DOMAIN new) \X (DOMAIN shares) :
          Videos!Joined(new[x[1]], shares[x[2]]) <=>
             shares[x[2]].set = new[x[1]].set /\ shares[x[2]].of \in VideoEvidence[new[x[1]].set - noteSets]
  <2> SUFFICES ASSUME NEW k \in DOMAIN new, NEW b \in DOMAIN shares
               PROVE  Videos!Joined(new[k], shares[b]) <=>
                         shares[b].set = new[k].set /\ shares[b].of \in VideoEvidence[new[k].set - noteSets]
    OBVIOUS
  <2>1. new[k].set \in noteSets + 1 .. noteSets + Len(noteDoc)
    BY VideosNewClaims
  <2>2. shares[b] = [set |-> shares[b].set, of |-> shares[b].of]
    <3> DEFINE S == UNION {{Videos!SharedKey(i, c) : c \in Videos!CitesOf(noteDoc[i])} :
                              i \in {k1 \in DOMAIN noteDoc : Videos!Changes(k1) # {}}}
    <3>1. Lists(shares, S)
      BY VideosMinted DEF Videos!Apply
    <3>2. \A x \in S : x = [set |-> x.set, of |-> x.of]
      BY DEF Videos!SharedKey
    <3> HIDE DEF S, shares
    <3>3. shares[b] \in S
      BY <3>1 DEF Lists
    <3> QED
      BY <3>2, <3>3
  <2> HIDE DEF new, shares
  <2> QED
    BY <2>1, <2>2, VideosJoins
<1>2. {x \in (DOMAIN new) \X (DOMAIN shares) : Videos!Joined(new[x[1]], shares[x[2]])} =
      {x \in (DOMAIN new) \X (DOMAIN shares) :
          shares[x[2]].set = new[x[1]].set /\ shares[x[2]].of \in VideoEvidence[new[x[1]].set - noteSets]}
  <2> HIDE DEF new, shares
  <2> QED
    BY <1>1
<1>3. noteJoins' = noteJoins \cup
         {<<Len(noteClaims) + j[1], Len(base) + j[2]>> :
             j \in {x \in (DOMAIN new) \X (DOMAIN shares) : Videos!Joined(new[x[1]], shares[x[2]])}}
  BY DEF Videos!Apply
<1>4. noteJoins' = noteJoins \cup Joins(noteClaims, base, new, shares, noteSets, VideoEvidence)
  <2> HIDE DEF new, shares, base
  <2> QED
    BY <1>2, <1>3, Zenon DEF Joins
<1>5. /\ noteClaims' = noteClaims \o new
      /\ noteInst' = base \o Of(shares)
      /\ noteSets' = noteSets + Len(noteDoc) /\ noteDoc' = <<>>
  BY DEF Videos!Apply, Of
<1> QED
  BY <1>4, <1>5 DEF VideosInv

LEMMA VideosApplyKeeps ==
    ASSUME VideosInv, Videos!Apply
    PROVE  VideosInv'
<1> DEFINE C == Claims({"f"}, {spoken}, {1, 2})
           D == CiteEntries(VideoForms, {"f"}, {spoken}, {1, 2})
<1>1. PICK cl, rows, js, n, m, new, shares, foot, base, E, rows2, js2 :
          /\ cl = noteClaims /\ rows = noteInst /\ js = noteJoins /\ n = noteSets /\ m = Len(noteDoc)
          /\ new = Videos!NewClaims /\ shares = Videos!Minted /\ foot = Videos!AllFootnotes
          /\ base = rows \o foot /\ E = VideoEvidence /\ rows2 = noteInst' /\ js2 = noteJoins'
  OBVIOUS
<1>2. /\ noteClaims' = cl \o new /\ rows2 = base \o Of(shares)
      /\ js2 = js \cup Joins(cl, base, new, shares, n, E) /\ noteSets' = n + m /\ noteDoc' = <<>> /\ m \in Nat
  BY <1>1, VideosApplied
<1>3. BackedOk(cl, rows, js, n) /\ cl \in Seq(C) /\ rows \in Seq(VideoRows)
  BY <1>1 DEF VideosInv
<1>4. new \in Seq(C) /\ \A k \in DOMAIN new : new[k].set \in n + 1 .. n + m
  BY <1>1, VideosNewClaims
<1>5. Videos!Planned
  BY DEF Videos!Apply
<1>6. PICK S : shares \in Seq(S)
  BY <1>1, <1>5, VideosMinted DEF Lists
<1>7. /\ \A b \in DOMAIN shares : shares[b].of \in VideoRows
      /\ \A a, b \in DOMAIN shares : shares[a].set = shares[b].set /\ shares[a].of = shares[b].of => a = b
  BY <1>1, <1>5, VideosMinted
<1>8. foot \in Seq(VideoRows)
  BY <1>1, <1>5, VideosFootnotes
<1> HIDE DEF C, D
<1>9. Adds(new, foot, shares, n, m, C, VideoRows)
  BY <1>2, <1>4, <1>6, <1>7, <1>8 DEF Adds
<1>11. BackedOk(cl \o new, rows2, js2, n + m) /\ rows2 \in Seq(VideoRows) /\ cl \o new \in Seq(C)
  <2>1. base = rows \o foot
    BY <1>1
  <2> QED
    BY <1>2, <1>3, <1>9, <2>1, LandingKeeps, Zenon
<1>10. <<>> \in Seq(D)
  OBVIOUS
<1> QED
  BY <1>1, <1>2, <1>10, <1>11 DEF VideosInv, C, D

LEMMA VideosStaySound ==
    ASSUME VideosInv, Videos!Next
    PROVE  VideosInv'
<1>1. ASSUME UNCHANGED <<noteClaims, noteInst, noteJoins, noteSets>>,
             noteDoc' \in Seq(CiteEntries(VideoForms, {"f"}, {spoken}, {1, 2}))
      PROVE  VideosInv'
  BY <1>1 DEF VideosInv
<1>2. CASE Videos!Begin \/ Videos!Cite \/ Videos!Note \/ Videos!Refuse
  BY <1>1, <1>2, VideosWrite DEF Videos!Begin, Videos!Cite, Videos!Note, Videos!Refuse
<1>3. CASE Videos!Link
  BY <1>1, <1>3 DEF Videos!Link, VideosInv
<1> QED
  BY <1>2, <1>3, VideosApplyKeeps DEF Videos!Next

LEMMA VideosReach ==
    ASSUME VideosInv, Videos!Apply, NEW i \in DOMAIN noteDoc, NEW c \in Videos!CitesOf(noteDoc[i])
    PROVE  /\ \E k \in DOMAIN noteClaims' : noteClaims'[k].set = noteSets + i
           /\ \A k \in DOMAIN noteClaims' : noteClaims'[k].set = noteSets + i =>
                 \E n \in DOMAIN noteInst' : <<k, n>> \in noteJoins' /\ noteInst'[n] = Videos!Instance(c)
<1> DEFINE C == Claims({"f"}, {spoken}, {1, 2})
<1>1. PICK new, shares, base : new = Videos!NewClaims /\ shares = Videos!Minted /\ base = noteInst \o Videos!AllFootnotes
  OBVIOUS
<1>2. /\ noteClaims' = noteClaims \o new /\ noteInst' = base \o Of(shares)
      /\ noteJoins' = noteJoins \cup Joins(noteClaims, base, new, shares, noteSets, VideoEvidence)
  BY <1>1, VideosApplied
<1>3. /\ noteClaims \in Seq(C) /\ new \in Seq(C) /\ noteSets \in Nat /\ i \in Nat /\ i # 0
      /\ \A k \in DOMAIN noteClaims : noteClaims[k].set \in 1 .. noteSets
  <2>1. i \in 1 .. Len(noteDoc) /\ Len(noteDoc) \in Nat
    BY DEF VideosInv
  <2> QED
    BY <1>1, <2>1, VideosNewClaims DEF VideosInv, BackedOk
<1>4. base \in Seq(VideoRows)
  <2>1. noteInst \in Seq(VideoRows) /\ Videos!AllFootnotes \in Seq(VideoRows)
    BY VideosFootnotes DEF VideosInv, Videos!Apply
  <2> QED
    BY <1>1, <2>1
<1>5. Videos!Planned
  BY DEF Videos!Apply
<1>6. Videos!Changes(i) # {}
  <2>1. noteDoc[i].cites # <<>>
    BY DEF Videos!CitesOf
  <2> QED
    BY <2>1 DEF Videos!Apply, Videos!NoEmptyDiff
<1>7. \E k \in DOMAIN noteClaims' : noteClaims'[k].set = noteSets + i
  <2>1. PICK x \in Videos!Changes(i) : TRUE
    BY <1>6
  <2> DEFINE row(j, y) == [set |-> noteSets + j, field |-> y.field, val |-> y.val]
             S == UNION {{row(j, y) : y \in Videos!Changes(j)} : j \in DOMAIN noteDoc}
  <2>2. row(i, x) \in S /\ row(i, x).set = noteSets + i
    OBVIOUS
  <2>3. Lists(new, S)
    BY <1>1, VideosNewClaims
  <2> HIDE DEF S, row
  <2>4. PICK k \in DOMAIN new : new[k].set = noteSets + i
    BY <2>2, <2>3 DEF Lists
  <2>5. Chain(C, noteClaims \o new, noteClaims, new, Len(noteClaims), Len(new))
    BY <1>3, Chained
  <2> HIDE DEF C
  <2>6. Len(noteClaims) + k \in DOMAIN (noteClaims \o new) /\ (noteClaims \o new)[Len(noteClaims) + k] = new[k]
    BY <2>4, <2>5 DEF Chain
  <2> QED
    BY <1>2, <2>4, <2>6
<1>8. PICK b \in DOMAIN shares : shares[b] = Videos!SharedKey(i, c)
  <2> DEFINE S == UNION {{Videos!SharedKey(j, y) : y \in Videos!CitesOf(noteDoc[j])} :
                            j \in {k1 \in DOMAIN noteDoc : Videos!Changes(k1) # {}}}
  <2>1. Videos!SharedKey(i, c) \in S
    BY <1>6
  <2>2. Lists(shares, S)
    BY <1>1, <1>5, VideosMinted
  <2> HIDE DEF S
  <2> QED
    BY <2>1, <2>2 DEF Lists
<1>9. shares[b].set = noteSets + i /\ shares[b].of = Videos!Instance(c)
  BY <1>8 DEF Videos!SharedKey
<1>10. shares[b].of \in VideoEvidence[i]
  BY <1>9 DEF VideoEvidence
<1>11. \A x \in DOMAIN shares : shares[x].of \in VideoRows
  BY <1>1, <1>5, VideosMinted
<1>12. PICK S : shares \in Seq(S)
  BY <1>1, <1>5, VideosMinted DEF Lists
<1> HIDE DEF C
<1>13. ASSUME NEW k \in DOMAIN noteClaims', noteClaims'[k].set = noteSets + i
       PROVE  \E n \in DOMAIN noteInst' : <<k, n>> \in noteJoins' /\ noteInst'[n] = Videos!Instance(c)
  <2>1. k \in DOMAIN (noteClaims \o new) /\ (noteClaims \o new)[k].set = noteSets + i
    BY <1>2, <1>13
  <2>2. \A j \in Nat \ {0} : \A y \in DOMAIN shares : \A x \in DOMAIN (noteClaims \o new) :
           shares[y].set = noteSets + j /\ shares[y].of \in VideoEvidence[j] /\ (noteClaims \o new)[x].set = noteSets + j =>
              Reaches(noteClaims, base, shares, noteJoins, noteSets, VideoEvidence, j, y, x, new)
    BY <1>3, <1>4, <1>11, <1>12, LandingReaches, Zenon
  <2>3. Reaches(noteClaims, base, shares, noteJoins, noteSets, VideoEvidence, i, b, k, new)
    BY <1>3, <1>9, <1>10, <2>1, <2>2
  <2> QED
    BY <1>2, <1>9, <2>3 DEF Reaches
<1> QED
  BY <1>7, <1>13

(* A text's markers are behind instances there are.                        *)
VideoTextsOk ==
    \A k \in DOMAIN noteClaims : noteClaims[k].field = "text" =>
        /\ noteClaims[k].val \in CiteTexts({1, 2})
        /\ \A h \in DOMAIN noteClaims[k].val.cites : noteClaims[k].val.cites[h] \in DOMAIN noteInst

LEMMA VideosTexts ==
    ASSUME VideosInv, Videos!Apply, NEW i \in DOMAIN noteDoc
    PROVE  /\ Videos!Text(i) \in CiteTexts({1, 2}) /\ DOMAIN Videos!Text(i).cites = noteDoc[i].marks
           /\ \A h \in noteDoc[i].marks :
                 /\ Videos!Text(i).cites[h] \in DOMAIN noteInst' /\ Videos!Text(i).cites[h] \notin DOMAIN noteInst
                 /\ noteInst'[Videos!Text(i).cites[h]] = Videos!Instance(noteDoc[i].notes[h])
<1>1. PICK M, N, t : M = noteDoc[i].marks /\ N = noteDoc[i].notes /\ t = Videos!Text(i)
  OBVIOUS
<1>2. noteDoc[i] \in CiteEntries(VideoForms, {"f"}, {spoken}, {1, 2}) /\ noteInst \in Seq(VideoRows)
  BY DEF VideosInv
<1>3. M \in SUBSET {1, 2} /\ noteDoc[i].text \in {None, "text"}
  BY <1>1, <1>2 DEF CiteEntries
<1>4. PICK r : r = Len(noteInst) /\ r \in Nat /\ DOMAIN noteInst = 1 .. r
  BY <1>2
<1>5. t = [body |-> noteDoc[i].text, cites |-> [h \in M |-> r + Rank(M, h)]]
  BY <1>1, <1>4, Zenon DEF Videos!Text, Rank
<1>6. Videos!Cardinality(M) \in Nat /\ \A h \in M : Rank(M, h) \in 1 .. Videos!Cardinality(M)
  BY <1>3, Ranks
<1>7. t \in CiteTexts({1, 2})
  <2>1. \A h \in M : r + Rank(M, h) \in Nat
    BY <1>4, <1>6
  <2>2. [h \in M |-> r + Rank(M, h)] \in [M -> Nat]
    BY <2>1
  <2>3. [h \in M |-> r + Rank(M, h)] \in UNION {[m -> Nat] : m \in SUBSET {1, 2}}
    BY <1>3, <2>2
  <2> QED
    BY <1>3, <1>5, <2>3 DEF CiteTexts
<1>8. Videos!Planned
  BY DEF Videos!Apply
<1>9. PICK foot, base, o : /\ foot = Videos!AllFootnotes /\ base = noteInst \o foot /\ o = Of(Videos!Minted)
                           /\ noteInst' = base \o o
  BY VideosApplied
<1>10. foot \in Seq(VideoRows) /\ o \in Seq(VideoRows)
  <2>1. \A b \in DOMAIN Videos!Minted : Videos!Minted[b].of \in VideoRows
    BY <1>8, VideosMinted
  <2>2. PICK S : Videos!Minted \in Seq(S)
    BY <1>8, VideosMinted DEF Lists
  <2>3. Of(Videos!Minted) \in Seq(VideoRows)
    BY <2>1, <2>2, SharesAreRows
  <2> QED
    BY <1>8, <1>9, <2>3, VideosFootnotes
<1>11. Chain(VideoRows, base, noteInst, foot, r, Len(foot))
  BY <1>2, <1>4, <1>9, <1>10, Chained
<1>12. base \in Seq(VideoRows)
  BY <1>11 DEF Chain
<1>13. Chain(VideoRows, noteInst', base, o, Len(base), Len(o))
  BY <1>9, <1>10, <1>12, Chained
<1>14. ASSUME NEW h \in M
       PROVE  t.cites[h] \in DOMAIN noteInst' /\ t.cites[h] \notin DOMAIN noteInst /\ noteInst'[t.cites[h]] = Videos!Instance(N[h])
  <2>1. PICK n : n = Rank(M, h)
    OBVIOUS
  <2>2. t.cites[h] = r + n
    BY <1>5, <2>1
  <2>3. /\ Len(foot) = Videos!Cardinality(M) /\ foot[n] = Videos!Instance(N[h])
    BY <1>1, <1>8, <1>9, <2>1, VideosNotes
  <2>4. n \in 1 .. Len(foot) /\ Len(foot) \in Nat
    BY <1>6, <2>1, <2>3
  <2>5. r + n \in 1 .. r + Len(foot) /\ base[r + n] = foot[n]
    BY <1>11, <2>4 DEF Chain
  <2>6. Len(base) = r + Len(foot)
    BY <1>11 DEF Chain
  <2>7. r + n \in DOMAIN noteInst' /\ noteInst'[r + n] = base[r + n]
    BY <1>13, <2>5, <2>6 DEF Chain
  <2>8. r + n \notin DOMAIN noteInst
    BY <1>4, <2>4
  <2> QED
    BY <2>2, <2>3, <2>5, <2>7, <2>8
<1>15. DOMAIN t.cites = M
  BY <1>5
<1> QED
  BY <1>1, <1>7, <1>14, <1>15

LEMMA VideosTextsStay ==
    ASSUME VideosInv, VideoTextsOk, Videos!Next
    PROVE  VideoTextsOk'
<1>1. CASE UNCHANGED <<noteClaims, noteInst>>
  BY <1>1 DEF VideoTextsOk
<1>2. CASE Videos!Apply
  <2> DEFINE C == Claims({"f"}, {spoken}, {1, 2})
  <2>1. PICK new : new = Videos!NewClaims /\ noteClaims' = noteClaims \o new
    BY <1>2, VideosApplied
  <2>2. new \in Seq(C) /\ noteClaims \in Seq(C)
    BY <2>1, VideosNewClaims DEF VideosInv
  <2>3. Chain(C, noteClaims', noteClaims, new, Len(noteClaims), Len(new))
    BY <2>1, <2>2, Chained
  <2>4. DOMAIN noteInst \subseteq DOMAIN noteInst'
    <3>1. PICK foot, o : foot = Videos!AllFootnotes /\ o = Of(Videos!Minted) /\ noteInst' = (noteInst \o foot) \o o
      BY <1>2, VideosApplied
    <3>2. Videos!Planned
      BY <1>2 DEF Videos!Apply
    <3>3. PICK S : Videos!Minted \in Seq(S)
      BY <3>2, VideosMinted DEF Lists
    <3>4. o \in Seq(VideoRows)
      BY <3>1, <3>2, <3>3, VideosMinted, SharesAreRows
    <3>5. foot \in Seq(VideoRows) /\ noteInst \in Seq(VideoRows)
      BY <3>1, <3>2, VideosFootnotes DEF VideosInv
    <3>6. Chain(VideoRows, noteInst \o foot, noteInst, foot, Len(noteInst), Len(foot))
      BY <3>5, Chained
    <3>7. noteInst \o foot \in Seq(VideoRows)
      BY <3>6 DEF Chain
    <3>8. Chain(VideoRows, noteInst', noteInst \o foot, o, Len(noteInst \o foot), Len(o))
      BY <3>1, <3>4, <3>7, Chained
    <3> QED
      BY <3>6, <3>8 DEF Chain
  <2> HIDE DEF C
  <2> SUFFICES ASSUME NEW k \in DOMAIN noteClaims', noteClaims'[k].field = "text"
               PROVE  /\ noteClaims'[k].val \in CiteTexts({1, 2})
                      /\ \A h \in DOMAIN noteClaims'[k].val.cites : noteClaims'[k].val.cites[h] \in DOMAIN noteInst'
    BY DEF VideoTextsOk
  <2>5. CASE k \in DOMAIN noteClaims
    <3>1. noteClaims'[k] = noteClaims[k]
      BY <2>3, <2>5 DEF Chain
    <3> QED
      BY <2>4, <2>5, <3>1 DEF VideoTextsOk
  <2>6. CASE k \notin DOMAIN noteClaims
    <3>1. PICK x \in DOMAIN new : noteClaims'[k] = new[x]
      <4>1. PICK a, b : a = Len(noteClaims) /\ b = Len(new)
        OBVIOUS
      <4>2. /\ a \in Nat /\ b \in Nat /\ DOMAIN noteClaims = 1 .. a /\ DOMAIN new = 1 .. b
            /\ DOMAIN noteClaims' = 1 .. a + b
            /\ \A j \in 1 .. b : noteClaims'[a + j] = new[j]
        BY <2>3, <4>1 DEF Chain
      <4>3. PICK j : j = k - a
        OBVIOUS
      <4>4. j \in 1 .. b /\ a + j = k
        <5>1. k \in 1 .. a + b /\ k \notin 1 .. a
          BY <2>6, <4>2
        <5> QED
          BY <4>2, <4>3, <5>1
      <4> QED
        BY <4>2, <4>4
    <3>2. PICK i \in DOMAIN noteDoc : \E c \in Videos!Changes(i) : new[x] = [set |-> noteSets + i, field |-> c.field, val |-> c.val]
      <4> DEFINE S == UNION {{[set |-> noteSets + i, field |-> c.field, val |-> c.val] :
                                c \in Videos!Changes(i)} : i \in DOMAIN noteDoc}
      <4>1. Lists(new, S)
        BY <2>1, VideosNewClaims
      <4>2. new[x] \in S
        <5> HIDE DEF S
        <5> QED
          BY <4>1 DEF Lists
      <4> QED
        BY <4>2
    <3>3. PICK c \in Videos!Changes(i) : c.field = "text" /\ noteClaims'[k].val = c.val
      BY <3>1, <3>2
    <3>4. noteDoc[i] \in CiteEntries(VideoForms, {"f"}, {spoken}, {1, 2})
      BY DEF VideosInv
    <3>5. c.val = Videos!Text(i)
      <4>1. Videos!Written(noteDoc[i]) \subseteq {"f"}
        BY <3>4 DEF Videos!Written, CiteEntries
      <4>2. c \in {[field |-> f, val |-> noteDoc[i].vals[f]] : f \in {g \in Videos!Written(noteDoc[i]) : noteDoc[i].vals[g] \notin Videos!Latest(g)}}
               => c.field \in {"f"}
        BY <4>1
      <4>3. c \in {[field |-> "text", val |-> t] : t \in {g \in {Videos!Text(i)} : noteDoc[i].text # None /\ g \notin Videos!Latest("text")}}
               => c.val = Videos!Text(i)
        OBVIOUS
      <4>4. Videos!Changes(i) = {[field |-> f, val |-> noteDoc[i].vals[f]] : f \in {g \in Videos!Written(noteDoc[i]) : noteDoc[i].vals[g] \notin Videos!Latest(g)}}
                   \cup {[field |-> "text", val |-> t] : t \in {g \in {Videos!Text(i)} : noteDoc[i].text # None /\ g \notin Videos!Latest("text")}}
        BY DEF Videos!Changes
      <4> QED
        BY <3>3, <4>2, <4>3, <4>4
    <3> QED
      BY <1>2, <3>3, <3>5, VideosTexts
  <2> QED
    BY <2>5, <2>6
<1>3. CASE Videos!Begin \/ Videos!Cite \/ Videos!Note \/ Videos!Refuse \/ Videos!Link
  BY <1>1, <1>3 DEF Videos!Begin, Videos!Cite, Videos!Note, Videos!Refuse, Videos!Link
<1> QED
  BY <1>2, <1>3 DEF Videos!Next

(* Every note of an entry is behind the marker of its number.              *)
LEMMA VideosMark ==
    ASSUME VideosInv, VideoTextsOk, Videos!Apply, NEW i \in DOMAIN noteDoc,
           NEW h \in {1, 2}, noteDoc[i].notes[h] # None
    PROVE  \E k \in DOMAIN noteClaims' :
              /\ noteClaims'[k].set = noteSets + i /\ noteClaims'[k].field = "text"
              /\ h \in DOMAIN noteClaims'[k].val.cites
              /\ noteInst'[noteClaims'[k].val.cites[h]] = Videos!Instance(noteDoc[i].notes[h])
<1> DEFINE C == Claims({"f"}, {spoken}, {1, 2})
<1>1. h \in noteDoc[i].marks /\ noteDoc[i].text # None
  BY DEF Videos!Apply, Videos!Planned, Videos!EntryOK, Videos!Corresponds
<1>2. PICK t : t = Videos!Text(i)
  OBVIOUS
<1>3. /\ h \in DOMAIN t.cites /\ t.cites[h] \notin DOMAIN noteInst
      /\ noteInst'[t.cites[h]] = Videos!Instance(noteDoc[i].notes[h])
  BY <1>1, <1>2, VideosTexts
<1>4. t \notin Videos!Latest("text")
  <2> SUFFICES ASSUME t \in Videos!Latest("text") PROVE FALSE
    OBVIOUS
  <2>1. PICK k \in DOMAIN noteClaims : noteClaims[k].field = "text" /\ t = noteClaims[k].val
    BY DEF Videos!Latest
  <2> QED
    BY <1>3, <2>1 DEF VideoTextsOk
<1> DEFINE c == [field |-> "text", val |-> t]
<1>5. c \in Videos!Changes(i)
  BY <1>1, <1>2, <1>4 DEF Videos!Changes
<1>6. c.field = "text" /\ c.val = t
  OBVIOUS
<1> HIDE DEF c
<1> DEFINE row(j, y) == [set |-> noteSets + j, field |-> y.field, val |-> y.val]
           S == UNION {{row(j, y) : y \in Videos!Changes(j)} : j \in DOMAIN noteDoc}
<1>7. row(i, c) \in S /\ row(i, c).set = noteSets + i /\ row(i, c).field = "text" /\ row(i, c).val = t
  BY <1>5, <1>6
<1>8. PICK new : new = Videos!NewClaims /\ noteClaims' = noteClaims \o new
  BY VideosApplied
<1>9. Lists(new, S)
  BY <1>8, VideosNewClaims
<1> HIDE DEF S, row
<1>10. PICK x \in DOMAIN new : new[x] = row(i, c)
  BY <1>7, <1>9 DEF Lists
<1>11. new \in Seq(C) /\ noteClaims \in Seq(C)
  BY <1>8, VideosNewClaims DEF VideosInv
<1>12. Chain(C, noteClaims', noteClaims, new, Len(noteClaims), Len(new))
  BY <1>8, <1>11, Chained
<1> HIDE DEF C
<1>13. Len(noteClaims) + x \in DOMAIN noteClaims' /\ noteClaims'[Len(noteClaims) + x] = row(i, c)
  BY <1>10, <1>12 DEF Chain
<1> QED
  BY <1>3, <1>7, <1>13

VideoStepLands ==
    notePatches' # notePatches =>
        \A i \in DOMAIN noteDoc :
            LET new == {k \in DOMAIN noteClaims' : noteClaims'[k].set = noteSets + i} IN
            /\ \A c \in Videos!CitesOf(noteDoc[i]) :
                  /\ new # {}
                  /\ \A k \in new : \E n \in DOMAIN noteInst' : <<k, n>> \in noteJoins' /\ noteInst'[n] = Videos!Instance(c)
            /\ \A h \in {1, 2} : noteDoc[i].notes[h] # None =>
                  \E k \in new : /\ noteClaims'[k].field = "text" /\ h \in DOMAIN noteClaims'[k].val.cites
                                 /\ noteInst'[noteClaims'[k].val.cites[h]] = Videos!Instance(noteDoc[i].notes[h])

LEMMA VideosLand ==
    ASSUME VideosInv, VideoTextsOk, [Videos!Next]_noteVars
    PROVE  VideoStepLands
<1> SUFFICES ASSUME notePatches' # notePatches PROVE VideoStepLands
  BY DEF VideoStepLands
<1>1. Videos!Apply
  BY DEF noteVars, Videos!Next, Videos!Begin, Videos!Cite, Videos!Note, Videos!Refuse, Videos!Link
<1>2. ASSUME NEW i \in DOMAIN noteDoc, NEW h \in {1, 2}, noteDoc[i].notes[h] # None
      PROVE  \E k \in {k \in DOMAIN noteClaims' : noteClaims'[k].set = noteSets + i} :
                /\ noteClaims'[k].field = "text" /\ h \in DOMAIN noteClaims'[k].val.cites
                /\ noteInst'[noteClaims'[k].val.cites[h]] = Videos!Instance(noteDoc[i].notes[h])
  BY <1>1, <1>2, VideosMark
<1> QED
  BY <1>1, <1>2, VideosReach DEF VideoStepLands

(* A video's locator is a start time as it is written.                     *)
LEMMA StartTimesStay ==
    ASSUME NEW c \in VideoCites
    PROVE  Videos!StartTime(Videos!Parsed(c).locator) = Videos!Parsed(c).locator
<1>1. c \in VideoForms /\ Videos!Parsed(c).locator # None
  BY DEF VideoCites, Videos!Parses
<1>2. PICK x1, x2, x3, x4 : x1 = c.form /\ x2 = Videos!Reference(c) /\ x3 = c.locator /\ x4 = Videos!Locator(x2, x3)
  OBVIOUS
<1>3. Videos!Parsed(c).locator = x4
  BY <1>2 DEF Videos!Parsed
<1>4. x4 = x3 \/ x4 = Videos!StartTime(x3)
  BY <1>2 DEF Videos!Locator
<1> DEFINE blank == \E a, b, q : c = Cited(a, b, "", q)
           timed == \E b, q : c = Cited("youtube", b, "1:35", q)
           seconds == \E b, q : c = Cited("youtube url", b, "95s", q)
           page == \E b, q : c = Cited("youtube", b, "p. 3", q)
<1>5. blank \/ timed \/ seconds \/ page
  BY <1>1, Zenon DEF VideoForms
<1>0. \A a, b, l, q : c = Cited(a, b, l, q) => x1 = a /\ x3 = l
  BY <1>2, CitedParts
<1>6. CASE blank
  <2>1. x3 = ""
    BY <1>0, <1>6, Zenon
  <2>2. Videos!StartTime("") = ""
    BY Zenon DEF Videos!StartTime
  <2> QED
    BY <1>3, <1>4, <2>1, <2>2, Zenon
<1>7. CASE timed
  <2>1. x3 = "1:35"
    BY <1>0, <1>7, Zenon
  <2>2. Videos!StartTime("1:35") = "1:35"
    BY Zenon DEF Videos!StartTime
  <2> QED
    BY <1>3, <1>4, <2>1, <2>2, Zenon
<1>8. CASE seconds
  <2>1. x3 = "95s" /\ x1 = "youtube url"
    BY <1>0, <1>8, Zenon
  <2>2. Videos!StartTime("95s") = "1:35" /\ Videos!StartTime("1:35") = "1:35"
    BY Zenon DEF Videos!StartTime
  <2>3. x2 = Videos!Video
    BY <1>2, <2>1, Zenon DEF Videos!Reference
  <2> QED
    BY <1>2, <1>3, <2>1, <2>2, <2>3, Zenon DEF Videos!Locator
<1>9. CASE page
  <2>1. x3 = "p. 3" /\ x1 = "youtube"
    BY <1>0, <1>9, Zenon
  <2>2. Videos!StartTime("p. 3") = None
    BY Zenon DEF Videos!StartTime
  <2>3. x2 = Videos!Video
    BY <1>2, <2>1, Zenon DEF Videos!Reference
  <2> QED
    BY <1>1, <1>2, <1>3, <2>1, <2>2, <2>3, Zenon DEF Videos!Locator
<1> QED
  BY <1>5, <1>6, <1>7, <1>8, <1>9

LEMMA VideosAreCanonical ==
    ASSUME VideosInv
    PROVE  Videos!StartTimesCanonical
<1> SUFFICES ASSUME NEW n \in DOMAIN noteInst
             PROVE  Videos!StartTime(noteInst[n].locator) = noteInst[n].locator
  BY DEF Videos!StartTimesCanonical
<1>1. noteInst[n] \in VideoRows
  BY DEF VideosInv
<1>2. PICK p \in VideoSources \X VideoCites : noteInst[n] = VideoRow(p[1], p[2])
  BY <1>1 DEF VideoRows
<1>3. p[2] \in VideoCites /\ noteInst[n].locator = Videos!Parsed(p[2]).locator
  BY <1>2 DEF VideoRow
<1> QED
  BY <1>3, StartTimesStay

-----------------------------------------------------------------------------
(* A request that is alone (CitationSources).                              *)

(* No page covers u.                                                       *)
Unlinked(u) == ~\E l \in links : l.url = u /\ sources[l.source].parent # 0

(* A request that is alone has all others idle, and whatever it has found  *)
(* to be without a page still is.                                          *)
SoloOk(w) ==
    citeWork[w].solo =>
        /\ \A v \in Workers \ {w} : citeWork[v].pc = "idle"
        /\ citeWork[w].kind \in {"cite", "patch"} /\ citeWork[w].pc \in {"root", "again", "mint"} =>
              Unlinked(citeWork[w].url)

SoloInv == \A w \in Workers : SoloOk(w)

LEMMA SoloMoves ==
    ASSUME NEW w \in Workers, MintsInv, SoloInv, citeWork[w].pc # "idle", NEW q,
           citeWork' = [citeWork EXCEPT ![w] = q], UNCHANGED <<sources, links>>,
           q.solo => citeWork[w].solo,
           q.solo /\ q.kind \in {"cite", "patch"} /\ q.pc \in {"root", "again", "mint"} => Unlinked(q.url)
    PROVE  SoloInv'
<1>1. citeWork'[w] = q /\ \A v \in Workers \ {w} : citeWork'[v] = citeWork[v]
  BY DEF MintsInv
<1>2. \A v \in Workers \ {w} : ~citeWork[v].solo
  BY DEF SoloInv, SoloOk
<1>3. ASSUME NEW v \in Workers PROVE SoloOk(v)'
  <2>1. CASE v # w
    BY <1>1, <1>2, <2>1 DEF SoloOk
  <2>2. CASE v = w
    <3>1. q.solo => \A x \in Workers \ {w} : citeWork'[x].pc = "idle"
      BY <1>1 DEF SoloInv, SoloOk
    <3> QED
      BY <1>1, <2>2, <3>1 DEF SoloOk, Unlinked
  <2> QED
    BY <2>1, <2>2
<1> QED
  BY <1>3 DEF SoloInv

LEMMA SoloEnds ==
    ASSUME NEW w \in Workers, MintsInv, SoloInv, citeWork[w].pc # "idle",
           citeWork' = [citeWork EXCEPT ![w] = Mints!Idle]
    PROVE  SoloInv'
<1>1. citeWork'[w] = Mints!Idle /\ \A v \in Workers \ {w} : citeWork'[v] = citeWork[v]
  BY DEF MintsInv
<1>2. ~Mints!Idle.solo
  <2>1. PICK u, q : u = (CHOOSE v \in URLs : TRUE) /\ q = Mints!Idle
    OBVIOUS
  <2>2. q = [pc |-> "idle", kind |-> "cite", url |-> u, archive |-> None, parent |-> 0, newRoot |-> FALSE, solo |-> FALSE]
    BY <2>1 DEF Mints!Idle
  <2>3. ~q.solo
    BY <2>2
  <2> QED
    BY <2>1, <2>3
<1>3. \A v \in Workers \ {w} : ~citeWork[v].solo
  BY DEF SoloInv, SoloOk
<1> QED
  BY <1>1, <1>2, <1>3 DEF SoloInv, SoloOk

LEMMA SoloBegins ==
    ASSUME NEW w \in Workers, MintsInv, SoloInv, NEW r, Mints!Begin(w, r), CiteShape(r), r.pc = "classify"
    PROVE  SoloInv'
<1> DEFINE alone == \A v \in Workers \ {w} : citeWork[v].pc = "idle"
<1>1. PICK p : p = [r EXCEPT !.solo = alone]
  OBVIOUS
<1>2. citeWork'[w] = p /\ \A v \in Workers \ {w} : citeWork'[v] = [citeWork[v] EXCEPT !.solo = FALSE]
  BY <1>1 DEF Mints!Begin
<1>3. p.pc = "classify" /\ (p.solo => alone)
  BY <1>1 DEF CiteShape
<1>4. ASSUME NEW v \in Workers \ {w}
      PROVE  ~citeWork'[v].solo /\ citeWork'[v].pc = citeWork[v].pc
  <2>1. PICK q, c : q = citeWork'[v] /\ c = citeWork[v]
    OBVIOUS
  <2>2. q = [c EXCEPT !.solo = FALSE] /\ CiteShape(c)
    BY <1>2, <2>1 DEF MintsInv, MintOk
  <2>3. ~q.solo /\ q.pc = c.pc
    BY <2>2 DEF CiteShape
  <2> QED
    BY <2>1, <2>3
<1>5. ASSUME NEW v \in Workers PROVE SoloOk(v)'
  <2>1. CASE v # w
    BY <1>4, <2>1 DEF SoloOk
  <2>2. CASE v = w
    BY <1>2, <1>3, <1>4, <2>2 DEF SoloOk
  <2> QED
    BY <2>1, <2>2
<1> QED
  BY <1>5 DEF SoloInv

LEMMA SoloBeginnings ==
    ASSUME NEW w \in Workers, MintsInv, SoloInv, Mints!SitesAssumption,
           \/ \E u \in URLs \cup Records : Mints!BeginCite(w, u)
           \/ \E u \in URLs, a \in URLs \cup {None} : Mints!BeginPatch(w, u, a)
           \/ \E s \in DOMAIN sources, u \in URLs : Mints!BeginPage(w, s, u)
           \/ \E i \in Records : Mints!BeginRecord(w, i)
    PROVE  SoloInv'
<1>1. PICK z, idle : z = (CHOOSE v \in URLs : TRUE) /\ idle = Mints!Idle
  OBVIOUS
<1>3. idle = [pc |-> "idle", kind |-> "cite", url |-> z, archive |-> None, parent |-> 0,
              newRoot |-> FALSE, solo |-> FALSE]
  BY <1>1 DEF Mints!Idle
<1>4. ASSUME NEW u \in URLs \cup Records, Mints!BeginCite(w, u)
      PROVE  SoloInv'
  <2>1. PICK r : r = [idle EXCEPT !.pc = "classify", !.url = u]
    OBVIOUS
  <2>2. Mints!Begin(w, r)
    BY <1>1, <1>4, <2>1 DEF Mints!BeginCite
  <2>3. CiteShape(r) /\ r.pc = "classify"
    BY <1>3, <2>1 DEF CiteShape
  <2> QED
    BY <2>2, <2>3, SoloBegins
<1>5. ASSUME NEW u \in URLs, NEW a \in URLs \cup {None}, Mints!BeginPatch(w, u, a)
      PROVE  SoloInv'
  <2>1. PICK r : r = [idle EXCEPT !.pc = "classify", !.kind = "patch", !.url = u, !.archive = a]
    OBVIOUS
  <2>2. Mints!Begin(w, r)
    BY <1>1, <1>5, <2>1 DEF Mints!BeginPatch
  <2>3. CiteShape(r) /\ r.pc = "classify"
    BY <1>3, <2>1 DEF CiteShape
  <2> QED
    BY <2>2, <2>3, SoloBegins
<1>6. ASSUME NEW s \in DOMAIN sources, NEW u \in URLs, Mints!BeginPage(w, s, u)
      PROVE  SoloInv'
  <2>1. PICK r : r = [idle EXCEPT !.pc = "classify", !.kind = "page", !.url = u, !.parent = s]
    OBVIOUS
  <2>2. Mints!Begin(w, r)
    BY <1>1, <1>6, <2>1 DEF Mints!BeginPage
  <2>3. CiteShape(r) /\ r.pc = "classify"
    BY <1>3, <2>1 DEF CiteShape
  <2> QED
    BY <2>2, <2>3, SoloBegins
<1>7. ASSUME NEW i \in Records, Mints!BeginRecord(w, i)
      PROVE  SoloInv'
  <2>1. PICK r : r = [idle EXCEPT !.pc = "classify", !.kind = "record", !.url = i]
    OBVIOUS
  <2>2. Mints!Begin(w, r)
    BY <1>1, <1>7, <2>1 DEF Mints!BeginRecord
  <2>3. CiteShape(r) /\ r.pc = "classify"
    BY <1>3, <2>1 DEF CiteShape
  <2> QED
    BY <2>2, <2>3, SoloBegins
<1> QED
  BY <1>4, <1>5, <1>6, <1>7

LEMMA LinkedAreInCompany ==
    ASSUME NEW w \in Workers, MintsInv, \E s \in DOMAIN sources, u \in URLs : Mints!AddLink(w, s, u)
    PROVE  SoloInv'
<1>1. \A v \in Workers : citeWork'[v] = [citeWork[v] EXCEPT !.solo = FALSE]
  BY DEF Mints!AddLink
<1>2. ASSUME NEW v \in Workers PROVE ~citeWork'[v].solo
  <2>1. PICK q, c : q = citeWork'[v] /\ c = citeWork[v]
    OBVIOUS
  <2>2. q = [c EXCEPT !.solo = FALSE] /\ CiteShape(c)
    BY <1>1, <2>1 DEF MintsInv, MintOk
  <2>3. ~q.solo
    BY <2>2 DEF CiteShape
  <2> QED
    BY <2>1, <2>3
<1> QED
  BY <1>2 DEF SoloInv, SoloOk

(* The stages of a request that is or is not alone.                        *)
LEMMA SoloStages ==
    ASSUME NEW w \in Workers, MintsInv, SoloInv, Mints!SitesAssumption,
           \/ Mints!Classify(w) \/ Mints!ClassifyPage(w) \/ Mints!InsertRoot(w) \/ Mints!Again(w)
           \/ Mints!MintPage(w) \/ Mints!FindRecord(w) \/ Mints!InsertRecord(w) \/ Mints!Fail(w)
    PROVE  SoloInv'
<1>1. PICK q : q = citeWork[w]
  OBVIOUS
<1>2. MintOk(q, sources, domains) /\ CiteShape(q)
  BY <1>1 DEF MintsInv, MintOk
<1>3. ASSUME Mints!Goto(w, Mints!Idle), q.pc # "idle"
      PROVE  SoloInv'
  BY <1>1, <1>3, SoloEnds DEF Mints!Goto
<1>4. ASSUME NEW p, Mints!Step(w, p), q.pc # "idle", p.solo => q.solo,
             p.solo /\ p.kind \in {"cite", "patch"} /\ p.pc \in {"root", "again", "mint"} => Unlinked(p.url)
      PROVE  SoloInv'
  BY <1>1, <1>4, SoloMoves DEF Mints!Step, Mints!Goto
<1>5. q.solo /\ q.kind \in {"cite", "patch"} /\ q.pc \in {"root", "again", "mint"} => Unlinked(q.url)
  BY <1>1 DEF SoloInv, SoloOk
<1>6. ASSUME NEW at, NEW under, NEW root, NEW p,
             p = [pc |-> at, kind |-> q.kind, url |-> q.url, archive |-> q.archive, parent |-> under,
                  newRoot |-> root, solo |-> q.solo],
             Mints!Step(w, p), q.pc # "idle",
             at \in {"root", "again", "mint"} /\ q.kind \in {"cite", "patch"} /\ q.solo => Unlinked(q.url)
      PROVE  SoloInv'
  <2>1. p.solo = q.solo /\ p.kind = q.kind /\ p.pc = at /\ p.url = q.url
    BY <1>6
  <2> QED
    BY <1>4, <1>6, <2>1
<1>7. CASE Mints!Classify(w)
  <2>1. q.pc = "classify" /\ q.kind \in {"cite", "patch"}
    BY <1>1, <1>7 DEF Mints!Classify
  <2>2. \/ Mints!Goto(w, Mints!Idle)
        \/ /\ Mints!ChildLinks(q.url) = {}
           /\ Mints!Step(w, [q EXCEPT !.pc = "mint", !.parent = domains[SiteOf[q.url]]])
        \/ Mints!ChildLinks(q.url) = {} /\ Mints!Step(w, [q EXCEPT !.pc = "root"])
    BY <1>1, <1>7 DEF Mints!Classify, Mints!Step
  <2>3. Mints!ChildLinks(q.url) = {} => Unlinked(q.url)
    BY DEF Mints!ChildLinks, Unlinked, Mints!IsRoot
  <2>4. CASE Mints!ChildLinks(q.url) = {} /\ Mints!Step(w, [q EXCEPT !.pc = "mint", !.parent = domains[SiteOf[q.url]]])
    <3>1. PICK p, d : d = domains[SiteOf[q.url]] /\ p = [q EXCEPT !.pc = "mint", !.parent = d] /\ Mints!Step(w, p)
      BY <2>4
    <3>2. p = [pc |-> "mint", kind |-> q.kind, url |-> q.url, archive |-> q.archive, parent |-> d,
               newRoot |-> q.newRoot, solo |-> q.solo]
      BY <1>2, <3>1 DEF CiteShape
    <3> QED
      BY <1>6, <2>1, <2>3, <2>4, <3>1, <3>2
  <2>5. CASE Mints!ChildLinks(q.url) = {} /\ Mints!Step(w, [q EXCEPT !.pc = "root"])
    <3>1. PICK p : p = [q EXCEPT !.pc = "root"] /\ Mints!Step(w, p)
      BY <2>5
    <3>2. p = [pc |-> "root", kind |-> q.kind, url |-> q.url, archive |-> q.archive, parent |-> q.parent,
               newRoot |-> q.newRoot, solo |-> q.solo]
      BY <1>2, <3>1 DEF CiteShape
    <3> QED
      BY <1>6, <2>1, <2>3, <2>5, <3>1, <3>2
  <2> QED
    BY <1>3, <2>1, <2>2, <2>4, <2>5
<1>8. CASE Mints!ClassifyPage(w)
  <2>1. q.pc = "classify" /\ q.kind = "page"
    BY <1>1, <1>8 DEF Mints!ClassifyPage
  <2>2. Mints!Goto(w, Mints!Idle) \/ Mints!Step(w, [q EXCEPT !.pc = "mint"])
    BY <1>1, <1>8 DEF Mints!ClassifyPage, Mints!Step
  <2>3. CASE Mints!Step(w, [q EXCEPT !.pc = "mint"])
    <3>1. PICK p : p = [q EXCEPT !.pc = "mint"] /\ Mints!Step(w, p)
      BY <2>3
    <3>2. p = [pc |-> "mint", kind |-> q.kind, url |-> q.url, archive |-> q.archive, parent |-> q.parent,
               newRoot |-> q.newRoot, solo |-> q.solo]
      BY <1>2, <3>1 DEF CiteShape
    <3> QED
      BY <1>6, <2>1, <3>1, <3>2
  <2> QED
    BY <1>3, <2>1, <2>2, <2>3
<1>9. CASE Mints!InsertRoot(w)
  <2>1. q.pc = "root"
    BY <1>1, <1>9 DEF Mints!InsertRoot
  <2>2. Mints!Step(w, [q EXCEPT !.pc = "again"]) \/ Mints!Step(w, [q EXCEPT !.pc = "mint", !.newRoot = TRUE])
    BY <1>1, <1>9 DEF Mints!InsertRoot, Mints!AfterCollision
  <2>3. CASE Mints!Step(w, [q EXCEPT !.pc = "again"])
    <3>1. PICK p : p = [q EXCEPT !.pc = "again"] /\ Mints!Step(w, p)
      BY <2>3
    <3>2. p = [pc |-> "again", kind |-> q.kind, url |-> q.url, archive |-> q.archive, parent |-> q.parent,
               newRoot |-> q.newRoot, solo |-> q.solo]
      BY <1>2, <3>1 DEF CiteShape
    <3> QED
      BY <1>5, <1>6, <2>1, <3>1, <3>2
  <2>4. CASE Mints!Step(w, [q EXCEPT !.pc = "mint", !.newRoot = TRUE])
    <3>1. PICK p, t : t = TRUE /\ p = [q EXCEPT !.pc = "mint", !.newRoot = t] /\ Mints!Step(w, p)
      BY <2>4
    <3>2. p = [pc |-> "mint", kind |-> q.kind, url |-> q.url, archive |-> q.archive, parent |-> q.parent,
               newRoot |-> t, solo |-> q.solo]
      BY <1>2, <3>1 DEF CiteShape
    <3> QED
      BY <1>5, <1>6, <2>1, <3>1, <3>2
  <2> QED
    BY <2>2, <2>3, <2>4
<1>10. CASE Mints!Again(w)
  <2>1. q.pc = "again" /\ SiteOf[q.url] \in DOMAIN domains
    BY <1>1, <1>2, <1>10 DEF Mints!Again, MintOk
  <2>2. PICK d : d = domains[SiteOf[q.url]]
    OBVIOUS
  <2>3. Mints!SeenAgain(w) = {d}
    BY <1>1, <2>1, <2>2 DEF Mints!SeenAgain
  <2>4. PICK p : p = [q EXCEPT !.pc = "mint", !.parent = d] /\ Mints!Step(w, p)
    BY <1>1, <1>10, <2>3 DEF Mints!Again
  <2>5. p = [pc |-> "mint", kind |-> q.kind, url |-> q.url, archive |-> q.archive, parent |-> d,
             newRoot |-> q.newRoot, solo |-> q.solo]
    BY <1>2, <2>4 DEF CiteShape
  <2> QED
    BY <1>5, <1>6, <2>1, <2>4, <2>5
<1>11. CASE Mints!MintPage(w)
  BY <1>1, <1>3, <1>11 DEF Mints!MintPage
<1>12. CASE Mints!FindRecord(w)
  <2>1. q.pc = "classify"
    BY <1>1, <1>12 DEF Mints!FindRecord
  <2>2. Mints!Goto(w, Mints!Idle) \/ Mints!Step(w, [q EXCEPT !.pc = "insert"])
    BY <1>1, <1>12 DEF Mints!FindRecord, Mints!Step
  <2>3. CASE Mints!Step(w, [q EXCEPT !.pc = "insert"])
    <3>1. PICK p : p = [q EXCEPT !.pc = "insert"] /\ Mints!Step(w, p)
      BY <2>3
    <3>2. p = [pc |-> "insert", kind |-> q.kind, url |-> q.url, archive |-> q.archive, parent |-> q.parent,
               newRoot |-> q.newRoot, solo |-> q.solo]
      BY <1>2, <3>1 DEF CiteShape
    <3> QED
      BY <1>6, <2>1, <3>1, <3>2
  <2> QED
    BY <1>3, <2>1, <2>2, <2>3
<1>13. CASE Mints!InsertRecord(w)
  BY <1>1, <1>3, <1>13 DEF Mints!InsertRecord, Mints!Step
<1>14. CASE Mints!Fail(w)
  BY <1>1, <1>3, <1>14 DEF Mints!Fail, Mints!Step
<1> QED
  BY <1>7, <1>8, <1>9, <1>10, <1>11, <1>12, <1>13, <1>14

LEMMA SoloStays ==
    ASSUME MintsInv, SoloInv, Mints!SitesAssumption, Mints!Next
    PROVE  SoloInv'
<1>1. PICK w \in Workers :
        \/ \E u \in URLs \cup Records : Mints!BeginCite(w, u)
        \/ \E u \in URLs, a \in URLs \cup {None} : Mints!BeginPatch(w, u, a)
        \/ \E s \in DOMAIN sources, u \in URLs : Mints!BeginPage(w, s, u) \/ Mints!AddLink(w, s, u)
        \/ \E i \in Records : Mints!BeginRecord(w, i)
        \/ Mints!Classify(w) \/ Mints!ClassifyPage(w) \/ Mints!InsertRoot(w) \/ Mints!Again(w) \/ Mints!MintPage(w)
        \/ Mints!FindRecord(w) \/ Mints!InsertRecord(w)
        \/ Mints!Fail(w)
  BY DEF Mints!Next
<1> QED
  BY <1>1, SoloBeginnings, LinkedAreInCompany, SoloStages

(* A request that is alone mints no page of a URL that a page covers.      *)
LEMMA SoloReuses ==
    ASSUME MintsInv, SoloInv, Mints!Next, NEW w \in Workers,
           citeWork[w].solo, citeWork[w].kind \in {"cite", "patch"}, Len(sources') > Len(sources),
           citeWork'[w] # citeWork[w]
    PROVE  Unlinked(citeWork[w].url)
<1>1. Len(sources) \in Nat
  BY DEF MintsInv, SourcesOk, RowsNest
<1>2. sources' # sources
  BY <1>1, SMTT(60)
<1>3. PICK v \in Workers : Mints!MintPage(v) \/ Mints!InsertRecord(v)
  BY <1>2 DEF Mints!Next, Mints!BeginCite, Mints!BeginPatch, Mints!BeginPage, Mints!BeginRecord, Mints!Begin,
              Mints!AddLink, Mints!Classify, Mints!ClassifyPage, Mints!InsertRoot, Mints!Again, Mints!FindRecord,
              Mints!Fail, Mints!Step
<1>4. citeWork' = [citeWork EXCEPT ![v] = Mints!Idle]
  BY <1>2, <1>3 DEF Mints!MintPage, Mints!InsertRecord, Mints!Step, Mints!Goto
<1>5. v = w
  BY <1>4 DEF MintsInv
<1>6. citeWork[w].pc \in {"mint", "insert"}
  BY <1>3, <1>5 DEF Mints!MintPage, Mints!InsertRecord
<1>7. citeWork[w].pc = "mint"
  BY <1>6 DEF MintsInv, MintOk
<1> QED
  BY <1>7 DEF SoloInv, SoloOk

-----------------------------------------------------------------------------
(* The rows that a block adds to (SourceSeeding).                          *)
PassTo(f, m, s, block, nested) ==
    f = [n \in 0 .. m |-> IF n = 0 THEN s
                          ELSE IF (block[n].parent # None) = nested THEN Seeds!Ensure(f[n - 1], block[n])
                          ELSE f[n - 1]]

LEMMA PassesAreThere ==
    ASSUME NEW s, NEW block, NEW nested, NEW N \in Nat
    PROVE  \E f : PassTo(f, N, s, block, nested)
<1> DEFINE bad == {m \in Nat : ~\E f : PassTo(f, m, s, block, nested)}
<1>1. ASSUME NEW m \in bad, \A k \in bad : m <= k
      PROVE  FALSE
  <2>1. CASE m = 0
    <3>1. PassTo([n \in 0 .. 0 |-> s], 0, s, block, nested)
      BY DEF PassTo
    <3> QED
      BY <1>1, <2>1, <3>1
  <2>2. CASE m # 0
    <3>1. m - 1 \in Nat /\ m - 1 \notin bad
      BY <1>1, <2>2
    <3>2. PICK g : PassTo(g, m - 1, s, block, nested)
      BY <3>1
    <3> DEFINE step(n, x) == IF (block[n].parent # None) = nested THEN Seeds!Ensure(x, block[n]) ELSE x
               f == [n \in 0 .. m |-> IF n = m THEN step(m, g[m - 1]) ELSE g[n]]
    <3>3. PassTo(f, m, s, block, nested)
      <4> HIDE DEF step
      <4>1. \A n \in 0 .. m - 1 : g[n] = IF n = 0 THEN s ELSE step(n, g[n - 1])
        <5> USE DEF step
        <5> QED
          BY <3>2, <3>1 DEF PassTo
      <4>2. \A n \in 0 .. m : f[n] = IF n = 0 THEN s ELSE step(n, f[n - 1])
        BY <2>2, <3>1, <4>1
      <4>3. f = [n \in 0 .. m |-> IF n = 0 THEN s ELSE step(n, f[n - 1])]
        <5>1. DOMAIN f = 0 .. m /\ f = [n \in 0 .. m |-> f[n]]
          OBVIOUS
        <5> HIDE DEF f
        <5> QED
          BY <4>2, <5>1
      <4> QED
        BY <4>3 DEF PassTo, step
    <3> QED
      BY <1>1, <3>3
  <2> QED
    BY <2>1, <2>2
<1>2. bad = {}
  <2> SUFFICES ASSUME bad # {} PROVE FALSE
    OBVIOUS
  <2>1. \E m \in bad : \A k \in bad : m <= k
    <3>1. bad \in SUBSET Nat
      OBVIOUS
    <3> HIDE DEF bad
    <3> QED
      BY <3>1, LeastNumber
  <2> QED
    BY <1>1, <2>1
<1> QED
  BY <1>2

LEMMA PassIsRun ==
    ASSUME NEW s, NEW block, NEW nested, Len(block) \in Nat
    PROVE  \E f : PassTo(f, Len(block), s, block, nested) /\ Seeds!Pass(s, block, nested) = f[Len(block)]
<1>1. \E f : PassTo(f, Len(block), s, block, nested)
  BY PassesAreThere
<1> DEFINE g == CHOOSE f : PassTo(f, Len(block), s, block, nested)
<1>2. PassTo(g, Len(block), s, block, nested)
  BY <1>1
<1>3. Seeds!Pass(s, block, nested) = g[Len(block)]
  BY DEF Seeds!Pass, PassTo
<1> QED
  BY <1>2, <1>3

(* Rows in a transaction, and what only adds to them.                      *)
Kept(s) ==
    /\ s = [src |-> s.src, links |-> s.links, owner |-> s.owner, failed |-> s.failed]
    /\ \E T : s.src \in Seq(T)

Grown(s, t) ==
    /\ Kept(t)
    /\ Len(s.src) <= Len(t.src) /\ \A i \in 1 .. Len(s.src) : t.src[i] = s.src[i]
    /\ s.links \subseteq t.links
    /\ \A h \in DOMAIN s.owner : h \in DOMAIN t.owner /\ t.owner[h] = s.owner[h]

LEMMA KeptAreLists ==
    ASSUME NEW s, Kept(s)
    PROVE  Len(s.src) \in Nat /\ \E T : s.src \in Seq(T)
<1>1. PICK T : s.src \in Seq(T)
  BY DEF Kept
<1> QED
  BY <1>1

LEMMA KeptIsGrown ==
    ASSUME NEW s, Kept(s)
    PROVE  Grown(s, s)
<1>1. Len(s.src) \in Nat
  BY DEF Kept
<1> QED
  BY <1>1 DEF Grown

LEMMA GrownTwice ==
    ASSUME NEW s, NEW t, NEW u, Kept(s), Grown(s, t), Grown(t, u)
    PROVE  Grown(s, u)
<1>1. Len(s.src) \in Nat /\ Len(t.src) \in Nat /\ Len(u.src) \in Nat
  BY DEF Kept, Grown
<1>2. Len(s.src) <= Len(u.src)
  BY <1>1 DEF Grown
<1>3. ASSUME NEW i \in 1 .. Len(s.src) PROVE u.src[i] = s.src[i]
  <2>1. i \in 1 .. Len(t.src) /\ t.src[i] = s.src[i]
    BY <1>1 DEF Grown
  <2> QED
    BY <2>1 DEF Grown
<1> QED
  BY <1>2, <1>3 DEF Grown

LEMMA FailuresReplaced ==
    ASSUME NEW l, NEW o, NEW x, NEW y, NEW s, s = [src |-> l, links |-> o, owner |-> x, failed |-> y], NEW v
    PROVE  [s EXCEPT !.failed = v] = [src |-> l, links |-> o, owner |-> x, failed |-> v]
OBVIOUS

LEMMA RaisesGrow ==
    ASSUME NEW s, Kept(s)
    PROVE  Grown(s, Seeds!Raise(s))
<1>1. PICK l, o, x, y : l = s.src /\ o = s.links /\ x = s.owner /\ y = s.failed
  OBVIOUS
<1>2. s = [src |-> l, links |-> o, owner |-> x, failed |-> y]
  BY <1>1 DEF Kept
<1>3. Seeds!Raise(s) = [src |-> l, links |-> o, owner |-> x, failed |-> TRUE]
  <2>1. PICK v : v = TRUE
    OBVIOUS
  <2>2. [s EXCEPT !.failed = v] = [src |-> l, links |-> o, owner |-> x, failed |-> v]
    BY <1>2, FailuresReplaced
  <2> QED
    BY <2>1, <2>2, Zenon DEF Seeds!Raise
<1>4. Len(l) \in Nat /\ \E T : l \in Seq(T)
  BY <1>1, KeptAreLists, Zenon
<1> QED
  BY <1>1, <1>3, <1>4 DEF Grown, Kept

LEMMA LinksGrow ==
    ASSUME NEW s, Kept(s), NEW p, NEW n
    PROVE  Grown(s, Seeds!Link(s, p, n))
<1>1. PICK l, o, x, y, m : /\ l = s.src /\ o = s.links /\ x = s.owner /\ y = s.failed
                           /\ m = {[source |-> p, url |-> u] : u \in n.links}
  OBVIOUS
<1>2. s = [src |-> l, links |-> o, owner |-> x, failed |-> y]
  BY <1>1 DEF Kept
<1>3. Seeds!Link(s, p, n) = [src |-> l, links |-> o \cup m, owner |-> x, failed |-> y]
  BY <1>1, <1>2 DEF Seeds!Link
<1>4. Len(l) \in Nat /\ \E T : l \in Seq(T)
  BY <1>1, KeptAreLists, Zenon
<1> QED
  BY <1>1, <1>3, <1>4 DEF Grown, Kept

LEMMA SlicesGrow ==
    ASSUME NEW s, Kept(s), NEW p, NEW hosts
    PROVE  Grown(s, Seeds!Own(s, p, hosts))
<1>1. PICK l, o, x, y, z : /\ l = s.src /\ o = s.links /\ x = s.owner /\ y = s.failed
                           /\ z = [h \in DOMAIN x \cup hosts |-> IF h \in DOMAIN x THEN x[h] ELSE p]
  OBVIOUS
<1>2. s = [src |-> l, links |-> o, owner |-> x, failed |-> y]
  BY <1>1 DEF Kept
<1>3. Seeds!Own(s, p, hosts) = [src |-> l, links |-> o, owner |-> z, failed |-> y]
  BY <1>1, <1>2 DEF Seeds!Own
<1>4. Len(l) \in Nat /\ \E T : l \in Seq(T)
  BY <1>1, KeptAreLists, Zenon
<1>5. \A h \in DOMAIN x : h \in DOMAIN z /\ z[h] = x[h]
  BY <1>1
<1> QED
  BY <1>1, <1>3, <1>4, <1>5 DEF Grown, Kept

LEMMA DomainsGrow ==
    ASSUME NEW s, Kept(s), NEW p, NEW n
    PROVE  Grown(s, Seeds!EnsureDomains(s, p, n))
BY KeptIsGrown, RaisesGrow, SlicesGrow DEF Seeds!EnsureDomains

LEMMA RowsGrow ==
    ASSUME NEW s, Kept(s), NEW r
    PROVE  Grown(s, [s EXCEPT !.src = Append(@, r)])
<1>1. PICK l, o, x, y : l = s.src /\ o = s.links /\ x = s.owner /\ y = s.failed
  OBVIOUS
<1>2. s = [src |-> l, links |-> o, owner |-> x, failed |-> y]
  BY <1>1 DEF Kept
<1>3. [s EXCEPT !.src = Append(@, r)] = [src |-> Append(l, r), links |-> o, owner |-> x, failed |-> y]
  <2>1. PICK m : m = Append(l, r)
    OBVIOUS
  <2>2. [s EXCEPT !.src = Append(@, r)] = [s EXCEPT !.src = m]
    BY <1>1, <2>1
  <2>3. [s EXCEPT !.src = m] = [src |-> m, links |-> o, owner |-> x, failed |-> y]
    BY <1>2
  <2> QED
    BY <2>1, <2>2, <2>3
<1>4. PICK T : l \in Seq(T)
  BY <1>1, KeptAreLists, Zenon
<1>5. l \in Seq(T \cup {r}) /\ r \in T \cup {r}
  BY <1>4
<1>6. /\ Append(l, r) \in Seq(T \cup {r})
      /\ Len(l) \in Nat /\ Len(Append(l, r)) = Len(l) + 1 /\ \A i \in 1 .. Len(l) : Append(l, r)[i] = l[i]
  BY <1>5
<1> QED
  BY <1>1, <1>3, <1>6 DEF Grown, Kept

LEMMA CreatesGrow ==
    ASSUME NEW s, Kept(s), NEW n, NEW parent
    PROVE  Grown(s, Seeds!Create(s, n, parent))
<1>1. PICK r, p, t : /\ r = Seeds!RowOf(n, parent) /\ p = Len(s.src) + 1
                     /\ t = [s EXCEPT !.src = Append(@, r)]
  OBVIOUS
<1>2. Seeds!Create(s, n, parent) \in
        {Seeds!Raise(s), Seeds!EnsureDomains(Seeds!Link(t, p, n), p, n), Seeds!Link(t, p, n)}
  BY <1>1 DEF Seeds!Create
<1>3. Grown(s, t) /\ Kept(t)
  <2>1. Grown(s, t)
    BY <1>1, RowsGrow, Zenon
  <2> QED
    BY <2>1 DEF Grown
<1>4. Grown(s, Seeds!Link(t, p, n)) /\ Kept(Seeds!Link(t, p, n))
  <2>1. Grown(t, Seeds!Link(t, p, n))
    BY <1>3, LinksGrow
  <2>2. Kept(Seeds!Link(t, p, n))
    BY <2>1 DEF Grown
  <2> QED
    BY <1>3, <2>1, <2>2, GrownTwice
<1>5. Grown(s, Seeds!EnsureDomains(Seeds!Link(t, p, n), p, n))
  BY <1>4, DomainsGrow, GrownTwice
<1> QED
  BY <1>2, <1>4, <1>5, RaisesGrow

LEMMA FindsGrow ==
    ASSUME NEW s, Kept(s), NEW p, NEW n
    PROVE  Grown(s, Seeds!Found(s, p, n))
<1>1. Grown(s, Seeds!Link(s, p, n)) /\ Kept(Seeds!Link(s, p, n))
  BY LinksGrow DEF Grown
<1> QED
  BY <1>1, DomainsGrow, GrownTwice DEF Seeds!Found

(* What is ensured for a node is added to what there is.                   *)
LEMMA NodesGrow ==
    ASSUME NEW s, Kept(s), NEW n
    PROVE  Grown(s, Seeds!Ensure(s, n))
<1>1. \A parent : Grown(s, Seeds!Create(s, n, parent))
  BY CreatesGrow
<1>2. \A p : Grown(s, Seeds!Found(s, p, n)) /\ Grown(s, Seeds!Link(s, p, n))
  BY FindsGrow, LinksGrow
<1>3. Grown(s, s)
  BY KeptIsGrown
<1>4. Grown(s, Seeds!EnsurePlain(s, n))
  BY <1>1, <1>2, <1>3 DEF Seeds!EnsurePlain
<1>5. Grown(s, Seeds!EnsureSlugRoot(s, n))
  BY <1>1, <1>2, <1>3 DEF Seeds!EnsureSlugRoot
<1>6. Grown(s, Seeds!EnsureSlugChild(s, n))
  BY <1>1, <1>2, <1>3 DEF Seeds!EnsureSlugChild
<1> QED
  BY <1>3, <1>4, <1>5, <1>6 DEF Seeds!Ensure

LEMMA PassesGrow ==
    ASSUME NEW s, Kept(s), NEW block, NEW nested, Len(block) \in Nat
    PROVE  Grown(s, Seeds!Pass(s, block, nested))
<1>1. PICK f : PassTo(f, Len(block), s, block, nested) /\ Seeds!Pass(s, block, nested) = f[Len(block)]
  BY PassIsRun
<1> DEFINE bad == {m \in 0 .. Len(block) : ~Grown(s, f[m])}
<1>2. ASSUME NEW m \in bad, \A k \in bad : m <= k
      PROVE  FALSE
  <2>1. m \in 0 .. Len(block) /\ ~Grown(s, f[m])
    OBVIOUS
  <2>2. f[m] = IF m = 0 THEN s ELSE IF (block[m].parent # None) = nested THEN Seeds!Ensure(f[m - 1], block[m]) ELSE f[m - 1]
    BY <1>1, <2>1 DEF PassTo
  <2>3. CASE m = 0
    BY <2>1, <2>2, <2>3, KeptIsGrown
  <2>4. CASE m # 0
    <3>1. m - 1 \in 0 .. Len(block) /\ m - 1 \notin bad
      BY <1>2, <2>1, <2>4
    <3>2. Grown(s, f[m - 1])
      BY <3>1
    <3>3. Kept(f[m - 1])
      BY <3>2 DEF Grown
    <3>4. Grown(s, Seeds!Ensure(f[m - 1], block[m]))
      BY <3>2, <3>3, NodesGrow, GrownTwice
    <3> QED
      BY <2>1, <2>2, <2>4, <3>2, <3>4
  <2> QED
    BY <2>3, <2>4
<1>3. bad = {}
  <2> SUFFICES ASSUME bad # {} PROVE FALSE
    OBVIOUS
  <2>1. \E m \in bad : \A k \in bad : m <= k
    <3>1. bad \in SUBSET Nat
      OBVIOUS
    <3> HIDE DEF bad
    <3> QED
      BY <3>1, LeastNumber
  <2> QED
    BY <1>2, <2>1
<1> QED
  BY <1>1, <1>3

LEMMA BlocksGrow ==
    ASSUME NEW d, NEW block, Len(block) \in Nat, \E T : d.src \in Seq(T)
    PROVE  LET t == Seeds!EnsureAll(d, block)
           IN  /\ Len(d.src) <= Len(t.src) /\ \A i \in 1 .. Len(d.src) : t.src[i] = d.src[i]
               /\ d.links \subseteq t.links
               /\ \A h \in DOMAIN d.owner : h \in DOMAIN t.owner /\ t.owner[h] = d.owner[h]
               /\ \E T : t.src \in Seq(T)
<1> DEFINE s == [src |-> d.src, links |-> d.links, owner |-> d.owner, failed |-> FALSE]
<1>1. PICK u, t : u = Seeds!Pass(s, block, FALSE) /\ t = Seeds!Pass(u, block, TRUE)
  OBVIOUS
<1>2. t = Seeds!EnsureAll(d, block)
  BY <1>1 DEF Seeds!EnsureAll
<1>3. Kept(s)
  BY DEF Kept
<1> HIDE DEF s
<1>4. Grown(s, u) /\ Kept(u)
  <2>1. Grown(s, u)
    BY <1>1, <1>3, PassesGrow, Zenon DEF s
  <2> QED
    BY <2>1 DEF Grown
<1>5. Grown(s, t)
  BY <1>1, <1>3, <1>4, PassesGrow, GrownTwice
<1> QED
  BY <1>2, <1>5 DEF Grown, Kept, s

SeedsInv ==
    /\ db = [src |-> db.src, links |-> db.links, owner |-> db.owner]
    /\ \E T : db.src \in Seq(T)
    /\ planned \in AllBlocks \cup {None}

LEMMA BlocksAreLists ==
    ASSUME NEW block \in AllBlocks
    PROVE  Len(block) \in Nat
<1>1. PICK a, b, c, d, e, f, g : AllBlocks = {<<a, b>>, <<c, d>>, <<c, e>>, <<d, a, f>>, <<g>>}
  BY Zenon DEF AllBlocks
<1> QED
  BY <1>1

LEMMA SeedsStart == Seeds!Init => SeedsInv
<1> SUFFICES ASSUME Seeds!Init PROVE SeedsInv
  OBVIOUS
<1>1. db.src = <<>> /\ db = [src |-> db.src, links |-> db.links, owner |-> db.owner]
  BY DEF Seeds!Init
<1>2. db.src \in Seq({}) /\ planned = None
  BY <1>1 DEF Seeds!Init
<1> QED
  BY <1>1, <1>2 DEF SeedsInv

(* Of what there was, nothing is changed.                                  *)
BlockAdds ==
    /\ \A p \in Seeds!Pks : p \in Seeds!Pks' /\ db'.src[p] = db.src[p]
    /\ db.links \subseteq db'.links
    /\ \A h \in DOMAIN db.owner : h \in DOMAIN db'.owner /\ db'.owner[h] = db.owner[h]

LEMMA BlocksOnlyAdd ==
    ASSUME SeedsInv, Seeds!Apply
    PROVE  SeedsInv' /\ BlockAdds
<1>1. PICK s : s = Seeds!EnsureAll(db, planned)
  OBVIOUS
<1>2. /\ planned # None /\ planned' = None
      /\ db' = IF s.failed THEN db ELSE [src |-> s.src, links |-> s.links, owner |-> s.owner]
  BY <1>1 DEF Seeds!Apply
<1>3. Len(planned) \in Nat
  BY <1>2, BlocksAreLists DEF SeedsInv
<1>4. PICK S : db.src \in Seq(S)
  BY DEF SeedsInv
<1>5. CASE s.failed
  <2>1. db' = db
    BY <1>2, <1>5
  <2>2. BlockAdds
    BY <2>1 DEF BlockAdds, Seeds!Pks
  <2> QED
    BY <1>2, <2>1, <2>2 DEF SeedsInv
<1>6. CASE ~s.failed
  <2>1. db'.src = s.src /\ db'.links = s.links /\ db'.owner = s.owner
        /\ db' = [src |-> db'.src, links |-> db'.links, owner |-> db'.owner]
    BY <1>2, <1>6
  <2>2. /\ Len(db.src) <= Len(s.src) /\ \A i \in 1 .. Len(db.src) : s.src[i] = db.src[i]
        /\ db.links \subseteq s.links
        /\ \A h \in DOMAIN db.owner : h \in DOMAIN s.owner /\ s.owner[h] = db.owner[h]
        /\ \E T : s.src \in Seq(T)
    BY <1>1, <1>3, <1>4, BlocksGrow
  <2>3. PICK T : s.src \in Seq(T)
    BY <2>2
  <2>4. Len(db.src) \in Nat /\ Len(s.src) \in Nat /\ Seeds!Pks = 1 .. Len(db.src) /\ DOMAIN s.src = 1 .. Len(s.src)
    BY <1>4, <2>3 DEF Seeds!Pks
  <2>5. \A p \in Seeds!Pks : p \in DOMAIN s.src /\ s.src[p] = db.src[p]
    BY <2>2, <2>4
  <2>6. BlockAdds
    BY <2>1, <2>2, <2>5 DEF BlockAdds, Seeds!Pks
  <2> QED
    BY <1>2, <2>1, <2>3, <2>6 DEF SeedsInv
<1> QED
  BY <1>5, <1>6

LEMMA SeedsOnlyAdd ==
    ASSUME SeedsInv, Seeds!Next
    PROVE  SeedsInv' /\ (planned # None /\ planned' = None => BlockAdds)
<1>1. PICK T : db.src \in Seq(T)
  BY DEF SeedsInv
<1>2. PICK l, o, x : l = db.src /\ o = db.links /\ x = db.owner /\ db = [src |-> l, links |-> o, owner |-> x]
  BY DEF SeedsInv
<1>3. ASSUME NEW d, db' = d, planned' = planned, NEW u, NEW S,
             d = [src |-> u, links |-> d.links, owner |-> d.owner], u \in Seq(S)
      PROVE  SeedsInv'
  <2>1. db' = [src |-> db'.src, links |-> db'.links, owner |-> db'.owner] /\ db'.src \in Seq(S)
    BY <1>3
  <2> QED
    BY <1>3, <2>1 DEF SeedsInv
<1>4. ASSUME NEW b \in AllBlocks, Seeds!Read(b)
      PROVE  SeedsInv' /\ ~(planned # None)
  BY <1>4 DEF Seeds!Read, SeedsInv
<1>5. ASSUME NEW r, Seeds!CreateSource(r)
      PROVE  SeedsInv' /\ planned' = planned
  <2>1. db' = [db EXCEPT !.src = Append(@, r)] /\ planned' = planned
    BY <1>5 DEF Seeds!CreateSource, Seeds!Edit
  <2>2. db' = [src |-> Append(l, r), links |-> o, owner |-> x]
    BY <1>2, <2>1
  <2>3. Append(l, r) \in Seq(T \cup {r})
    <3>1. l \in Seq(T \cup {r})
      BY <1>1, <1>2
    <3> QED
      BY <3>1
  <2> QED
    BY <1>3, <2>1, <2>2, <2>3
<1>6. ASSUME NEW name, NEW isbn, NEW slug, NEW p \in Seeds!Pks, Seeds!UpdateSource(p, name, isbn, slug)
      PROVE  SeedsInv' /\ planned' = planned
  <2>1. PICK r : db' = [db EXCEPT !.src[p] = r] /\ planned' = planned
    BY <1>6 DEF Seeds!UpdateSource, Seeds!Edit
  <2>2. db' = [src |-> [l EXCEPT ![p] = r], links |-> o, owner |-> x]
    BY <1>2, <2>1
  <2>3. [l EXCEPT ![p] = r] \in Seq(T \cup {r})
    <3>1. l \in Seq(T \cup {r}) /\ p \in DOMAIN l
      BY <1>1, <1>2 DEF Seeds!Pks
    <3> QED
      BY <3>1
  <2> QED
    BY <1>3, <2>1, <2>2, <2>3
<1>7. ASSUME NEW name, NEW h, Seeds!FoundSite(name, h)
      PROVE  SeedsInv' /\ planned' = planned
  <2>1. PICK r, z : db' = [src |-> Append(l, r), links |-> o, owner |-> z] /\ planned' = planned
    BY <1>2, <1>7 DEF Seeds!FoundSite, Seeds!Edit
  <2>3. Append(l, r) \in Seq(T \cup {r})
    <3>1. l \in Seq(T \cup {r})
      BY <1>1, <1>2
    <3> QED
      BY <3>1
  <2> QED
    BY <1>3, <2>1, <2>3
<1>8. CASE Seeds!Apply
  BY <1>8, BlocksOnlyAdd
<1> QED
  BY <1>4, <1>5, <1>6, <1>7, <1>8 DEF Seeds!Next

-----------------------------------------------------------------------------
CitingVars == <<citing, file, formVars, noteVars, sourceVars, seedVars, lookupVars>>

LEMMA CitingStaysFit ==
    ASSUME MintsInv, LookupInv, [CitingNext]_CitingVars
    PROVE  MintsInv' /\ LookupInv'
<1>1. Mints!SitesAssumption /\ Lookups!LookupAssumption
  BY CitingAssumption
<1>2. Mints!Next \/ UNCHANGED sourceVars
  BY DEF CitingNext, CitingVars
<1>3. Lookups!Next \/ UNCHANGED lookupVars
  BY DEF CitingNext, CitingVars
<1>4. UNCHANGED sourceVars => MintsInv'
  BY DEF sourceVars, MintsInv
<1>5. UNCHANGED lookupVars => LookupInv'
  BY DEF lookupVars, LookupInv, Lookups!FailuresAreForgotten
<1> QED
  BY <1>1, <1>2, <1>3, <1>4, <1>5, MintsStayFit, LookupsStayFit

(* Whoever cites a site or a record at once with others, its pages are     *)
(* under one root, a record has one source, and losing a race is no error; *)
(* a lookup finds the source there is, drafts no store's copy, keeps no    *)
(* failure and ends within its time: for any sites, requests, redirects    *)
(* and timeouts (_create_root_and_child, get_or_create_scheme_child,       *)
(* extract_citation).                                                      *)
THEOREM SourcesAreNeverForked == CitingSpec => []NoSourceIsForked
<1>1. CitingInit => MintsInv /\ LookupInv
  BY CitingAssumption, MintsStartFit, LookupsStartFit DEF CitingInit
<1>2. MintsInv /\ LookupInv /\ [CitingNext]_CitingVars => MintsInv' /\ LookupInv'
  BY CitingStaysFit
<1>3. MintsInv /\ LookupInv => NoSourceIsForked
  BY CitingAssumption, FitMintsFork, FitLookupsFind DEF NoSourceIsForked
<1> QED
  BY <1>1, <1>2, <1>3, PTL DEF CitingSpec, CitingVars

LEMMA CitesStaySound ==
    ASSUME FormsInv, VideosInv, VideoTextsOk, [CitingNext]_CitingVars
    PROVE  FormsInv' /\ VideosInv' /\ VideoTextsOk'
<1>1. Forms!Next \/ UNCHANGED formVars
  BY DEF CitingNext, CitingVars
<1>2. Videos!Next \/ UNCHANGED noteVars
  BY DEF CitingNext, CitingVars
<1>3. UNCHANGED formVars => FormsInv'
  BY DEF formVars, FormsInv
<1>4. UNCHANGED noteVars => VideosInv' /\ VideoTextsOk'
  BY DEF noteVars, VideosInv, VideoTextsOk
<1> QED
  BY <1>1, <1>2, <1>3, <1>4, FormsStaySound, VideosStaySound, VideosTextsStay

LEMMA CitesStartSound ==
    ASSUME CitingInit
    PROVE  FormsInv /\ VideosInv /\ VideoTextsOk
<1>1. FormsInv /\ VideosInv
  BY FormsStart, VideosStart DEF CitingInit
<1>2. noteClaims = <<>>
  BY DEF CitingInit, Videos!Init
<1> QED
  BY <1>1, <1>2 DEF VideoTextsOk

(* Cites that are one evidence, however each is spelled (an ISBN of ten or *)
(* thirteen digits, a page with or without its archived copy, a video's    *)
(* start time in seconds), share one instance in their entry's change set, *)
(* no two change sets share one, and no claim has the same evidence twice, *)
(* whatever patches were applied before (_mint_instances, persist_one).    *)
THEOREM CitesAlwaysLandOnce == CitingSpec => []CitesLandOnce
<1>1. CitingInit => FormsInv /\ VideosInv /\ VideoTextsOk
  BY CitesStartSound
<1>2. FormsInv /\ VideosInv /\ VideoTextsOk /\ [CitingNext]_CitingVars
         => FormsInv' /\ VideosInv' /\ VideoTextsOk'
  BY CitesStaySound
<1>3. FormsInv /\ VideosInv => CitesLandOnce
  BY FormsLandOnce, VideosAreCanonical DEF CitesLandOnce
<1> QED
  BY <1>1, <1>2, <1>3, PTL DEF CitingSpec, CitingVars

LEMMA SourcesStayFound ==
    ASSUME MintsInv, SoloInv, SeedsInv, [CitingNext]_CitingVars
    PROVE  MintsInv' /\ SoloInv' /\ SeedsInv'
<1>1. Mints!SitesAssumption
  BY CitingAssumption
<1>2. Mints!Next \/ UNCHANGED sourceVars
  BY DEF CitingNext, CitingVars
<1>3. Seeds!Next \/ UNCHANGED seedVars
  BY DEF CitingNext, CitingVars
<1>4. UNCHANGED sourceVars => MintsInv' /\ SoloInv'
  BY DEF sourceVars, MintsInv, SoloInv, SoloOk, Unlinked
<1>5. UNCHANGED seedVars => SeedsInv'
  BY DEF seedVars, SeedsInv
<1> QED
  BY <1>1, <1>2, <1>3, <1>4, <1>5, MintsStayFit, SoloStays, SeedsOnlyAdd

LEMMA SourcesStartFound ==
    ASSUME CitingInit
    PROVE  MintsInv /\ SoloInv /\ SeedsInv
<1>1. MintsInv /\ SeedsInv
  BY CitingAssumption, MintsStartFit, SeedsStart DEF CitingInit
<1>2. citeWork = [w \in Workers |-> Mints!Idle]
  BY DEF CitingInit, Mints!Init
<1>3. \A w \in Workers : ~citeWork[w].solo
  BY <1>2 DEF Mints!Idle
<1> QED
  BY <1>1, <1>3 DEF SoloInv, SoloOk

(* The action properties in CitesFindTheirSources, without their boxes.    *)
SoloStepReuses ==
    \A w \in Workers :
        citeWork[w].solo /\ citeWork[w].kind \in {"cite", "patch"} /\ Len(sources') > Len(sources)
        /\ citeWork'[w] # citeWork[w]
           => ~\E l \in links : l.url = citeWork[w].url /\ sources[l.source].parent # 0

BlockStepAdds == planned # None /\ planned' = None => BlockAdds

LEMMA StepsFindSources ==
    ASSUME FormsInv, VideosInv, VideoTextsOk, MintsInv, SoloInv, SeedsInv, [CitingNext]_CitingVars
    PROVE  FormStepLands /\ VideoStepLands /\ SoloStepReuses /\ BlockStepAdds
<1>1. FormStepLands
  <2>1. [Forms!Next]_formVars
    BY DEF CitingNext, CitingVars
  <2> QED
    BY <2>1, FormsLand
<1>2. VideoStepLands
  <2>1. [Videos!Next]_noteVars
    BY DEF CitingNext, CitingVars
  <2> QED
    BY <2>1, VideosLand
<1>3. SoloStepReuses
  <2>1. Mints!Next \/ citeWork' = citeWork
    BY DEF CitingNext, CitingVars, sourceVars
  <2> SUFFICES ASSUME NEW w \in Workers, citeWork[w].solo, citeWork[w].kind \in {"cite", "patch"},
                      Len(sources') > Len(sources), citeWork'[w] # citeWork[w]
               PROVE  ~\E l \in links : l.url = citeWork[w].url /\ sources[l.source].parent # 0
    BY DEF SoloStepReuses
  <2>2. Unlinked(citeWork[w].url)
    BY <2>1, SoloReuses
  <2> QED
    BY <2>2 DEF Unlinked
<1>4. BlockStepAdds
  <2>1. Seeds!Next \/ planned' = planned
    BY DEF CitingNext, CitingVars, seedVars
  <2> QED
    BY <2>1, SeedsOnlyAdd DEF BlockStepAdds
<1> QED
  BY <1>1, <1>2, <1>3, <1>4

(* Every cite of a patch that is applied is joined to each claim its entry *)
(* newly writes, and every note is behind its marker; a request that no    *)
(* other overlaps mints no page of a URL a page covers; and a block        *)
(* changes no row, link or slice that was there, whatever patches, edits   *)
(* and races came before (_attach_plan_citations,                          *)
(* get_or_create_web_source, ensure_source).                               *)
THEOREM CitesAlwaysFindTheirSources == CitingSpec => CitesFindTheirSources
<1>1. CitingInit => FormsInv /\ VideosInv /\ VideoTextsOk /\ MintsInv /\ SoloInv /\ SeedsInv
  BY CitesStartSound, SourcesStartFound
<1>2. FormsInv /\ VideosInv /\ VideoTextsOk /\ MintsInv /\ SoloInv /\ SeedsInv /\ [CitingNext]_CitingVars
         => FormsInv' /\ VideosInv' /\ VideoTextsOk' /\ MintsInv' /\ SoloInv' /\ SeedsInv'
  BY CitesStaySound, SourcesStayFound
<1>3. FormsInv /\ VideosInv /\ VideoTextsOk /\ MintsInv /\ SoloInv /\ SeedsInv /\ [CitingNext]_CitingVars =>
        [FormStepLands]_formVars /\ [VideoStepLands]_noteVars /\ [SoloStepReuses]_sourceVars /\ [BlockStepAdds]_seedVars
  BY StepsFindSources
<1> QED
  BY <1>1, <1>2, <1>3, PTL
  DEF CitingSpec, CitingVars, CitesFindTheirSources, Forms!EveryCiteLands, Videos!EveryCiteLands,
      Mints!SoloCitesReuse, Seeds!OnlyAdds, FormStepLands, VideoStepLands, SoloStepReuses, BlockStepAdds, BlockAdds,
      Forms!vars, formVars, Videos!vars, noteVars, Mints!vars, sourceVars, Seeds!vars, seedVars
=============================================================================
