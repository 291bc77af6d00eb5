---------------------------- MODULE MCResolution ----------------------------
(* What happens between a claim and the rows, four components side by      *)
(* side: the interactive write path (ClaimTxn), the claims themselves      *)
(* (ClaimValidation, with one row of each target table and every mix of    *)
(* missing, null, ill-typed and right keys), the relationship rows of a    *)
(* namespace of each kind (Relationships), and the batch resolver          *)
(* (BulkResolve).                                                          *)
EXTENDS ClaimTxn, ClaimValidation

CONSTANTS
    Scenes, Missing, Absent, Cleared,
    Kinds, MaxSaves,                                    \* Relationships
    Count, Slugs, ExternalIds                           \* BulkResolve

VARIABLES scene,
    kind, chosen, listed, listedPk, saves, clock, saving,                \* Relationships
    table, wins, batch, objs, owners, stage, place                                \* BulkResolve

saveVars == <<kind, chosen, listed, listedPk, saves, clock, saving>>
bulkVars == <<table, wins, batch, objs, owners, stage, place>>

-----------------------------------------------------------------------------
Machine == <<"int", "1">>
Country == <<"int", "2">>
Person == <<"int", "3">>
Role == <<"int", "4">>
Label == <<"str", "several EM models">>
Copy == <<"str", "copy">>

Key(f, k, id, t, n) == [field |-> f, key |-> k, identity |-> id, table |-> t, nullable |-> n]

MCBindings ==
    {[namespace |-> "model_relationship", subject |-> "model", fields |-> {"name", "series"},
      members |-> {Key("target_machine", None, TRUE, "machines", TRUE),
                   Key("target_label", None, FALSE, None, FALSE)},
      payload |-> {[field |-> "relationship_type", key |-> None, required |-> TRUE,
                    nullable |-> FALSE, choices |-> {Copy}]},
      xor |-> {{"target_machine"}, {"target_label"}}, xorRequired |-> TRUE],
     [namespace |-> "export_market", subject |-> "model", fields |-> {"name", "series"},
      members |-> {Key("target_market_location", None, TRUE, "countries", TRUE),
                   Key("target_market_label", None, FALSE, None, FALSE)},
      payload |-> {}, xor |-> {{"target_market_location"}, {"target_market_label"}},
      xorRequired |-> FALSE]} \cup
    {[namespace |-> "credit", subject |-> s, fields |-> {"name"},
      members |-> {Key("person", None, TRUE, "people", FALSE), Key("role", None, TRUE, "roles", FALSE)},
      payload |-> {}, xor |-> {}, xorRequired |-> TRUE] : s \in {"model", "series"}}

Sent(record) == Restrict(record, {k \in DOMAIN record : record[k] # Missing})

Edges ==
    [exists : {Yes, No, Machine, Missing}, target_machine : {Null, Machine, <<"str", "1">>, Missing},
     target_label : {Label, Empty, Null, Missing}, relationship_type : {Copy, Label, Null, Missing}]
Markets ==
    [exists : {Yes, No}, target_market_location : {Null, Country, Missing},
     target_market_label : {Label, Empty, Missing}]
Credits ==
    [exists : {Yes, No}, person : {Null, Person, Missing}, role : {Role, Missing}, category : {Label, Missing}]

MCOffered ==
    [ns \in {"model_relationship", "export_market", "credit"} |->
        {Sent(r) : r \in CASE ns = "model_relationship" -> Edges
                           [] ns = "export_market" -> Markets
                           [] OTHER -> Credits}]

MCTables == [t \in {"machines", "countries", "people", "roles"} |->
    CASE t = "machines" -> {Machine} [] t = "countries" -> {Country}
      [] t = "people" -> {Person} [] OTHER -> {Role}]

MCLadder == [ns \in {"model_relationship", "export_market", "credit"} |->
    CASE ns = "model_relationship" -> "one" [] ns = "export_market" -> "most" [] OTHER -> "none"]

Rule(f, on, null) == [fields |-> f, on |-> on, null |-> null]

\* On an edge's target, and on the one edge without (a market's likewise); a
\* credit's for each kind of subject
Rungs(target) ==
    {Rule({"model", target}, target, FALSE), Rule({"model"}, target, TRUE)}

MCUniques == [ns \in {"model_relationship", "export_market", "credit"} |->
    CASE ns = "model_relationship" -> Rungs("target_machine")
      [] ns = "export_market" -> Rungs("target_market_location")
      [] OTHER -> {Rule({s, "person", "role"}, s, FALSE) : s \in {"model", "series"}}]

-----------------------------------------------------------------------------
\* alice edited the year three times, bob the maker once: a stack with two
\* superseded claims under its active one, and a slot of another column
MCHistory == << <<"alice", "year">>, <<"alice", "year">>, <<"alice", "year">>, <<"bob", "maker">> >>

\* The rows of one subject, where z is a member whose target is gone; a type
\* resolved whole (parents), and one whose rows two subjects contest (aliases)
Kind(full, shared, subjects, members, payloads) ==
    [full |-> full, shared |-> shared, subjects |-> subjects, members |-> members,
     payloads |-> payloads, valid |-> {"x", "y"}]

MCKinds ==
    {Kind(FALSE, FALSE, {"s"}, {"x", "y", "z"}, {"p", "q"}),
     Kind(TRUE, FALSE, {"s", "t"}, {"x", "y"}, {"p"}),
     Kind(TRUE, TRUE, {"s", "t"}, {"x", "y"}, {"p", "q"})}

Saves == INSTANCE Relationships WITH
    MaxRequests <- MaxSaves, claims <- chosen, rows <- listed, nextPk <- listedPk,
    begun <- saves, work <- saving

Bulk == INSTANCE BulkResolve WITH
    Ids <- ExternalIds, seen <- owners, pc <- stage, i <- place

ASSUME ResolutionAssumption == Bulk!BulkAssumption /\ Saves!KindsAssumption

-----------------------------------------------------------------------------
(* The components share nothing here, so a product of them would add states *)
(* and no behaviours: in each scene one of them moves, the others rest.    *)
Rest(name, there) == IF scene = name THEN TRUE ELSE there

SceneInit ==
    /\ scene \in Scenes
    /\ Rest("saves", /\ kind = CHOOSE k \in Kinds : TRUE
                     /\ chosen = [s \in kind.subjects |-> [m \in kind.members |->
                                    [value |-> Absent, at |-> 0]]])
    /\ Rest("bulk", /\ batch = {1}
                    /\ wins = [r \in {1} |-> Bulk!Unclaimed]
                    /\ table = [r \in Bulk!Rows |-> [(CHOOSE t \in Bulk!StoredTables : TRUE)[r]
                                       EXCEPT !.xid = None, !.parent = None, !.live = TRUE]])
    /\ Init /\ BoundaryInit /\ Saves!Init /\ Bulk!Init

SceneNext ==
    /\ IF scene = "claims" THEN BoundaryNext ELSE UNCHANGED boundaryVars
    /\ IF scene = "txn" THEN Next ELSE UNCHANGED vars
    /\ IF scene = "saves" THEN Saves!Next ELSE UNCHANGED saveVars
    /\ IF scene = "bulk" THEN Bulk!Next ELSE UNCHANGED bulkVars
    /\ UNCHANGED scene

SceneSpec == SceneInit /\ [][SceneNext]_<<scene, boundaryVars, vars, saveVars, bulkVars>>

WorkerSymmetry == Permutations(Workers)

-----------------------------------------------------------------------------
(* What the validators let through can always be resolved and taken back:  *)
(* one key per edge, rows that meet their table's constraints whichever    *)
(* claims win, a tombstone for every claim, rows that point at rows, and   *)
(* no accepted claim that shows nowhere (ClaimValidation).                 *)
AcceptedClaimsResolve ==
    scene = "claims" => /\ OneKeyPerEdge
                        /\ AnyWinnersMaterialize
                        /\ AlwaysRemovable
                        /\ RowsPointAtRows
                        /\ NothingSwallowed

(* A save that no other overlapped leaves the rows the claims ask for, and *)
(* kept members keep their row; what a form left alone stands, in each     *)
(* kind of namespace (Relationships).                                      *)
SavesConverge ==
    Saves!SoloConverges /\ Saves!KeptMembersKeepTheirRow /\ Saves!EditsOfOtherMembersStand

(* In a batch the rightful owner of a slug keeps it, a contested external  *)
(* id ends on one row, no chain is written that the batch made, and one    *)
(* that stood before stops nothing (BulkResolve).                          *)
BatchesKeepOwners == scene = "bulk" => Bulk!BatchesKeepOwners
=============================================================================
