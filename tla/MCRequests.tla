---------------------------- MODULE MCRequests ----------------------------
(* What requests that overlap do to each other, three components side by   *)
(* side: page edits of titles and models (LifecycleRequests), the slugs of *)
(* citation instances (CiteSlugs), and the limiter of one user's requests  *)
(* (RateLimit).                                                            *)
EXTENDS LifecycleRequests, TLC

CONSTANTS
    Scenes,
    Slugs, Users, Loader, MaxAttempts, MaxMints,               \* CiteSlugs
    Limit, Window, Fudge, Culling, MaxTime, MaxGrants          \* RateLimit

VARIABLES scene,
    reserved, instances, log, begun, work,      \* CiteSlugs
    now, entry, workers, granted, promise       \* RateLimit

citeVars == <<reserved, instances, log, begun, work>>
limitVars == <<now, entry, workers, granted, promise>>

Cite == INSTANCE CiteSlugs WITH Workers <- Procs, MaxRequests <- MaxMints

Limiter == INSTANCE RateLimit WITH Workers <- Procs

ASSUME RequestsAssumption == Cite!CiteAssumption /\ Limiter!LimitAssumption

-----------------------------------------------------------------------------
(* The components share nothing here, so a product of them would add states *)
(* and no behaviours: in each scene one of them moves, the others rest.    *)
SceneInit == scene \in Scenes /\ Init /\ Cite!Init /\ Limiter!Init

SceneNext ==
    /\ IF scene = "edits" THEN Next ELSE UNCHANGED vars
    /\ IF scene = "cites" THEN Cite!Next ELSE UNCHANGED citeVars
    /\ IF scene = "limit" THEN Limiter!Next ELSE UNCHANGED limitVars
    /\ UNCHANGED scene

SceneSpec == SceneInit /\ [][SceneNext]_<<scene, vars, citeVars, limitVars>>

RequestSymmetry == Permutations(Procs) \cup Permutations(Slugs) \cup Permutations(Users)

-----------------------------------------------------------------------------
(* A slug in saved text is an instance's, an instance is in saved text or  *)
(* a patch's, and no two saves consume one reservation (CiteSlugs).        *)
SavedCitesResolve == scene = "cites" => Cite!SavedCitesResolve

(* No more grants than the limit in a window, among requests that did not  *)
(* overlap and whose entry was not culled (RateLimit).                     *)
AtMostLimit == scene = "limit" => Limiter!AtMostLimit

(* A refusal was earned, and who waits as long as it says is let through   *)
(* (RateLimit).                                                            *)
RetryAfterIsHonoured == Limiter!RefusalsAreEarned /\ Limiter!RetryAfterIsHonoured
=============================================================================
