---------------------------- MODULE MCClaimStore ----------------------------
(***************************************************************************)
(* ClaimStore for TLC.  The run on fields takes the Next of ClaimStore: one *)
(* subject with a slug, a year and a tag, and a source that can be         *)
(* switched.  The run on stacks plays one of two scenes a behaviour:       *)
(* "fields", one subject with a slug and a tag, and "records", two         *)
(* subjects that compete for the unique slug, over one changeset more.     *)
(***************************************************************************)
EXTENDS ClaimStore, TLC

CONSTANTS alice, bob, opdb, e1, e2, slug, year, tag, v1, v2, Scenes

VARIABLE scene

\* User.priority is 10000 and a source's is below it by default; this source
\* is trusted as much as a user, so that recency decides between them
EqualRank == [a \in {alice, bob, opdb} |-> 1]

UserSymmetry == Permutations({alice, bob})

SceneSubjects == IF scene = "fields" THEN {e1} ELSE {e1, e2}
SceneKeys == IF scene = "fields" THEN {slug, tag} ELSE {slug}
SceneValues == IF scene = "fields" THEN {v1, Cleared} ELSE {v1, v2, Cleared}
SceneRoom == scene = "fields" => Len(changesets) < MaxChangesets - 1

ScenePayloads == UNION {[K -> SceneValues] : K \in SUBSET SceneKeys}

SceneInit == Init /\ scene \in Scenes

SceneNext ==
    /\ scene' = scene
    /\ \/ /\ SceneRoom
          /\ \/ \E u \in Users, s \in SceneSubjects, vals \in ScenePayloads :
                   CreateEntity(u, s, vals) \/ Edit(u, s, vals)
             \/ \E u \in Users : \E c \in active : Revert(u, c)
             \/ \E w \in Sources, s \in SceneSubjects, vals \in ScenePayloads :
                   \E retracts \in SUBSET SceneKeys : Ingest(w, s, vals, retracts)

FieldsSpec == SceneInit /\ [][Next /\ scene' = scene]_<<vars, scene>>

SceneSpec == SceneInit /\ [][SceneNext]_<<vars, scene>>
=============================================================================
