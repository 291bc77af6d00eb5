----------------------------- MODULE MCPatches -----------------------------
(* Patches from the command to the claims, side by side: commands that     *)
(* share a ledger (PatchLedger), the plan of a patch's entries against the *)
(* records and the claims there are, with and without another editor       *)
(* between planning and applying (PatchPlan), and the members its entries  *)
(* add and remove (PatchMembers, one or two namespaces at a time).         *)
EXTENDS PatchLedger, TLC

CONSTANTS Scenes, Worlds, Families, Nothing, c1, c2, v1, v2

VARIABLES scene,
    world, records, claims, doc, plan, sets, patches, edits,                     \* PatchPlan
    family, memberRows, memberClaims, memberDoc, memberPatches                           \* PatchMembers

planVars == <<world, records, claims, doc, plan, sets, patches, edits>>
memberVars == <<family, memberRows, memberClaims, memberDoc, memberPatches>>

-----------------------------------------------------------------------------
\* One command has not pulled the second patch, another an edited first one
OneOrTwoPatches ==
    { [k \in {1} |-> v1],
      [k \in {1, 2} |-> v1],
      [k \in {1, 2} |-> IF k = 1 THEN v2 ELSE v1] }

\* Two records and a cascade child of one of them, and two new ids; and two
\* records that another actor may edit while a patch is applied
MCWorlds ==
    {[committed |-> {"a", "k", "m"}, new |-> {"n", "p"},
      kids |-> [x \in {"a", "k", "m", "n", "p"} |-> IF x = "a" THEN {"k"} ELSE {}],
      names |-> {"v"}, operations |-> {"create", "delete", "name", "ref", "add"},
      editor |-> FALSE, entries |-> 2, patches |-> 1, edits |-> 0],
     [committed |-> {"a", "m"}, new |-> {}, kids |-> [x \in {"a", "m"} |-> {}], names |-> {},
      operations |-> {"ref", "add", "remove", "retract", "delete"},
      editor |-> TRUE, entries |-> 2, patches |-> 2, edits |-> 1]}

Plans == INSTANCE PatchPlan WITH None <- Nothing, rows <- records

\* Text members with and without case and padding, beside references; credits;
\* parents, unpadded; and members with a target or a label: a country and
\* another record, there or new
Family(kinds, firsts, seconds, subjects, new, pads, members, entries) ==
    [kinds |-> kinds, firsts |-> firsts, seconds |-> seconds, subjects |-> subjects, new |-> new,
     countries |-> {"c", "n"}, words |-> {"w"}, pads |-> pads,
     members |-> members, entries |-> entries, patches |-> 2]

MCFamilies ==
    {Family({"alias", "feature"}, {"f", "n"}, {}, {"m"}, {"n"}, BOOLEAN, 2, 2),
     Family({"credit"}, {"p", "q"}, {"r", "n"}, {"m"}, {"n"}, BOOLEAN, 2, 2),
     Family({"parent"}, {"a", "b", "n"}, {}, {"a", "b", "n"}, {"n"}, {FALSE}, 3, 2),
     Family({"edge", "market"}, {"c", "s", "n", "t"}, {}, {"m"}, {"n", "t"}, {FALSE}, 2, 1)}

Membership == INSTANCE PatchMembers WITH
    None <- Nothing, rows <- memberRows, claims <- memberClaims, doc <- memberDoc, patches <- memberPatches

ASSUME PatchesAssumption == Plans!WorldsAssumption /\ Membership!FamiliesAssumption

-----------------------------------------------------------------------------
(* The components share nothing here, so a product of them would add states *)
(* and no behaviours: in each scene one of them moves, the others rest.    *)
SceneInit ==
    /\ scene \in Scenes
    /\ IF scene = "plans" THEN TRUE ELSE claims = {} /\ world = CHOOSE w \in Worlds : TRUE
    /\ IF scene = "members" THEN TRUE ELSE family = CHOOSE f \in Families : TRUE
    /\ Init /\ Plans!Init /\ Membership!Init

SceneNext ==
    /\ IF scene = "ledger" THEN Next ELSE UNCHANGED vars
    /\ IF scene = "plans" THEN Plans!Next ELSE UNCHANGED planVars
    /\ IF scene = "members" THEN Membership!Next ELSE UNCHANGED memberVars
    /\ UNCHANGED scene

SceneSpec == SceneInit /\ [][SceneNext]_<<scene, vars, planVars, memberVars>>

-----------------------------------------------------------------------------
(* Every entry of an accepted plan takes effect, its note rides a change,  *)
(* and no delete leaves a record referring to what it deleted, although    *)
(* another editor moves in between (PatchPlan).                            *)
PlansTakeEffect ==
    Plans!EveryEntryTakesEffect /\ Plans!DeletesLeaveNoReferrer /\ Plans!NotesRideChanges

(* One claim per member, however it is spelled; two entries say together   *)
(* what they say apart; markets resolve one way, to countries; and parents *)
(* form no cycle (PatchMembers).                                           *)
MembersStandAlone ==
    /\ Membership!EveryMemberItsOwnClaim /\ Membership!DifferentMembersPass
    /\ Membership!TogetherIsApart
    /\ Membership!MarketsAtOneResolution /\ Membership!MarketsAreCountries
    /\ Membership!ParentsAcyclic
=============================================================================
