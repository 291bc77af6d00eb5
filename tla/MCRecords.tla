----------------------------- MODULE MCRecords -----------------------------
(* The records' own trees and graphs, three components side by side:       *)
(* titles, models and their variants (Lifecycle; and what any models could *)
(* declare of their relations), the two rules over what relationship       *)
(* claims win (RelationshipRules: acyclic parents, the shape of export     *)
(* markets), and the tree of locations (Locations).                        *)
EXTENDS Lifecycle, TLC

CONSTANTS Scenes, Graphs, None, alice, bob, opdb, medieval, attack, pro, le, topper,
    Slugs, Divisions, Entities, Manufacturers, MaxRows, MaxDepth, MaxEdits, FaultSets   \* Locations

VARIABLES scene, declared,
    graph, ruleLog, ruleForm,                          \* RelationshipRules
    placeRows, entity, mfrLive, edits, faults          \* Locations

ruleVars == <<graph, ruleLog, ruleForm>>
placeVars == <<placeRows, entity, mfrLive, edits, faults>>

-----------------------------------------------------------------------------
\* User.priority is 10000 and a source's is below it by default
UsersOutrank == [a \in {alice, bob, opdb} |-> IF a = opdb THEN 1 ELSE 2]

\* A title, its model, and a variant of the model under the same title
PairAndVariant ==
    <<[subject |-> medieval, vals |-> (status :> live)],
      [subject |-> pro, vals |-> (status :> live) @@ (title :> medieval)],
      [subject |-> le, vals |-> (status :> live) @@ (title :> medieval) @@ (variantOf :> pro)]>>

\* The bodies whose fields have one of the values V[k]
Bodies(V) == {vals \in Payloads : \A k \in DOMAIN vals : vals[k] \in V[k]}

\* Deleted, moved to the other title, made a variant or no longer one, or
\* several of these at once
DeleteMoveJoin ==
    Bodies((status :> {deleted}) @@ (title :> {attack}) @@ (variantOf :> {none, topper}))

UserSymmetry == Permutations({alice, bob})

-----------------------------------------------------------------------------
\* A hierarchy of three records; and one model's markets, two countries and
\* the label
MCGraphs ==
    {[nodes |-> {"a", "b", "c"}, targets |-> {"a", "b", "c"}, label |-> "a", hierarchy |-> TRUE,
      users |-> {"user"}, source |-> "source", workers |-> {"page"},
      reverts |-> TRUE, interleaved |-> FALSE, claims |-> 3],
     [nodes |-> {"a"}, targets |-> {"a", "b", "c"}, label |-> "c", hierarchy |-> FALSE,
      users |-> {"user", "other"}, source |-> "source", workers |-> {"page"},
      reverts |-> TRUE, interleaved |-> FALSE, claims |-> 4]}

Rules == INSTANCE RelationshipRules WITH log <- ruleLog, form <- ruleForm

ASSUME RulesAssumption == Rules!GraphsAssumption

\* Two locations' slugs, one of which begins with the other, and what may
\* happen besides the location pages: an entity at a deleted place, a deleted
\* parent or an undo, a reverted parent
MCSlugs == {<<"n">>, <<"n", "l">>}
MCDivisions == {<<>>, <<"state">>, <<"state", "city">>}
MCFaultSets == {{"stray"}, {"undo", "orphan"}, {"revert"}}

Places == INSTANCE Locations WITH rows <- placeRows

ASSUME PlacesAssumption == Places!LocationsAssumption

-----------------------------------------------------------------------------
\* Every two relations that models could declare, between three records of
\* which the first, which is live, is deleted
Declarations ==
    LET either == {"this", "that"}
        edges == {<<3, "that", 1>>, <<3, "that", 2>>, <<2, "that", 3>>}
    IN  [schema : [either -> {r \in Relation : WellFormed(r)}],
         refs : {{<<2, "this", 1>>} \cup E : E \in SUBSET edges},
         alive : {A \in SUBSET (1 .. 3) : 1 \in A}]

NothingDeclared == [schema |-> <<>>, refs |-> {}, alive |-> {1}]

(* The components share nothing here, so a product of them would add states *)
(* and no behaviours: in each scene one of them moves, the others rest.    *)
SceneInit ==
    /\ scene \in Scenes
    /\ IF scene = "schemas" THEN declared \in Declarations ELSE declared = NothingDeclared
    /\ IF scene = "places" THEN TRUE
       ELSE /\ entity = [e \in Entities |-> [mfr |-> CHOOSE m \in Manufacturers : TRUE, at |-> {}, live |-> TRUE]]
            /\ faults = CHOOSE f \in FaultSets : TRUE
    /\ IF scene = "rules" THEN TRUE ELSE graph = CHOOSE g \in Graphs : TRUE
    /\ Init /\ Rules!Init
    /\ Places!Init

SceneNext ==
    /\ IF scene = "titles" THEN Next ELSE UNCHANGED vars
    /\ IF scene = "rules" THEN Rules!Next ELSE UNCHANGED ruleVars
    /\ IF scene = "places" THEN Places!Next ELSE UNCHANGED placeVars
    /\ UNCHANGED <<scene, declared>>

SceneSpec == SceneInit /\ [][SceneNext]_<<scene, declared, vars, ruleVars, placeVars>>

-----------------------------------------------------------------------------
(* No save and no patch breaks a rule that held, whatever claims lie       *)
(* outranked beneath the winners (RelationshipRules).                      *)
WritesKeepTheRules == Rules!WritesKeepTheRules

(* Nothing live hangs off what is gone.  A location that is live is found: *)
(* by browsing down from the countries, under the label its page offered,  *)
(* in the sitemap exactly when it lists a manufacturer, with the number    *)
(* that stands next to it (Locations).  And a delete leaves no live        *)
(* referrer, whatever the models declare that the check accepts            *)
(* (Lifecycle).                                                            *)
NothingDangles ==
    /\ Places!LocationsAreFound
    /\ DeclarationsAreSafe(declared.schema, declared.refs, declared.alive, 1)
=============================================================================
