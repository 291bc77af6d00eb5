---------------------------- MODULE MCProgress ----------------------------
(* What must come to an end, side by side: commands that apply patches     *)
(* (PatchLedger), signups submitted from two tabs (Signup), the edits of a *)
(* kiosk's form (KioskEditor) and the lookups of addresses and ISBNs       *)
(* (Extraction), each under the fairness its scheduling gives.             *)
EXTENDS TLC, Sequences, Integers

CONSTANTS Scenes, None

VARIABLES scene,
    runs, log, procs, started,                                            \* PatchLedger
    users, sess, work, announced, cancelled,                              \* Signup
    form, typed, saving, savePending, error, lastSaved, initialIdle,      \* KioskEditor
    request, server, cookie,
    cited, books, drafts, editions, req                                   \* Extraction

ledgerVars == <<runs, log, procs, started>>
signupVars == <<users, sess, work, announced, cancelled>>
editorVars == <<form, typed, saving, savePending, error, lastSaved, initialIdle,
                request, server, cookie>>
lookupVars == <<cited, books, drafts, editions, req>>
allVars == <<scene, ledgerVars, signupVars, editorVars, lookupVars>>

-----------------------------------------------------------------------------
\* Two commands, one of which has not pulled the second patch, or pulled an
\* edited first one
Commands == INSTANCE PatchLedger WITH
    Patches <- {1, 2}, Contents <- {"v1", "v2"}, Procs <- {"c1", "c2"}, MaxCommands <- 2,
    Shelves <- {[k \in {1} |-> "v1"],
                [k \in {1, 2} |-> "v1"],
                [k \in {1, 2} |-> IF k = 1 THEN "v2" ELSE "v1"]}

\* One person with two browsers and two tabs, and one handle
Tabs == INSTANCE Signup WITH
    People <- {"p1"}, Handles <- {"h1"}, Workers <- {"w1", "w2"}, Browsers <- {"b1", "b2"},
    Owner <- [b \in {"b1", "b2"} |-> "p1"], Operators <- FALSE

\* One text has blanks around it that a body does not carry; one idle time is
\* no number
Editor == INSTANCE KioskEditor WITH
    Texts <- {"a", " a ", "b"}, Sent <- [t \in {"a", " a ", "b"} |-> IF t = " a " THEN "a" ELSE t],
    Idles <- {"1", "2", "x"}, Valid <- {"1", "2"}, Offline <- FALSE

\* A page, a store's page with an ISBN in its URL and one without
Lookups == INSTANCE Extraction WITH
    Urls <- {"page", "store", "shop"}, Isbns <- {"isbn"}, Requests <- {"r1"},
    Deliverer <- {"store", "shop"}, Embedded <- ("store" :> "isbn") @@ ("shop" :> None),
    Bookish <- {"shop"}, Timeout <- 2, MaxRedirects <- 5, MaxReads <- 2, MaxStarts <- 1

ASSUME ProgressAssumption ==
    /\ Tabs!OwnerAssumption /\ Tabs!NoneAssumption
    /\ Editor!SentAssumption /\ Editor!ValidAssumption

-----------------------------------------------------------------------------
(* The components share nothing here, so a product of them would add states *)
(* and no behaviours: in each scene one of them moves, the others rest.    *)
Resting == [text |-> "a", idle |-> "1"]

SceneInit ==
    /\ scene \in Scenes
    /\ IF scene = "editor" THEN TRUE ELSE server = Resting
    /\ IF scene = "lookups" THEN TRUE ELSE cited = {}
    /\ Commands!Init /\ Tabs!Init /\ Editor!Init /\ Lookups!Init

SceneNext ==
    /\ IF scene = "patches" THEN Commands!Next ELSE UNCHANGED ledgerVars
    /\ IF scene = "signup" THEN Tabs!Next ELSE UNCHANGED signupVars
    /\ IF scene = "editor" THEN Editor!Next ELSE UNCHANGED editorVars
    /\ IF scene = "lookups" THEN Lookups!Next ELSE UNCHANGED lookupVars
    /\ UNCHANGED scene

\* A request being handled goes on, a command that runs takes its steps, a
\* lookup its own, and a save on its way is served and answered
SceneFairness ==
    /\ \A p \in {"c1", "c2"} : WF_ledgerVars(scene = "patches" /\ Commands!Step(p))
    /\ \A w \in {"w1", "w2"} : WF_signupVars(scene = "signup" /\ Tabs!Handle(w))
    /\ WF_editorVars(scene = "editor" /\ Editor!Serve)
    /\ WF_editorVars(scene = "editor" /\ Editor!Answer)
    /\ WF_lookupVars(scene = "lookups" /\ Lookups!Step("r1"))

SceneSpec == SceneInit /\ [][SceneNext]_allVars /\ SceneFairness

-----------------------------------------------------------------------------
(* A command that was started ends (PatchLedger).                          *)
CommandsEnd == Commands!CommandsEnd

(* Whoever submits a signup for an identity that has an account ends up    *)
(* signed in, whichever tab was first (Signup).                            *)
SubmitsSettle == Tabs!SubmitsSettle

(* What the kiosk's form shows is saved in the end, or the page says it is *)
(* not (KioskEditor).                                                      *)
EditsSettle == Editor!EditsSettle

(* Every lookup is answered (Extraction).                                  *)
EveryLookupAnswered == Lookups!EveryLookupAnswered
=============================================================================
