---------------------------- MODULE MediaGallery ----------------------------
(***************************************************************************)
(* The images of one record: who is shown first in each category.          *)
(*                                                                         *)
(* An attachment is a claim per asset, with a category and a primary flag; *)
(* the winning claims are materialised verbatim as EntityMedia rows, and   *)
(* which image a category shows is chosen at read time: the earliest       *)
(* upload of those that claim to be primary, or of all when none does.     *)
(* Making an image primary therefore also writes a demotion for each image *)
(* that is.                                                                *)
(*                                                                         *)
(* A request loads the asset and its row before its transaction, which     *)
(* then reads the other primaries, and writes: other requests commit in    *)
(* between.  Claims of users outrank each other by recency; a user has one *)
(* active claim per asset, and reverting it brings back that user's one    *)
(* before.  (The rows of two racing resolves are module Relationships';    *)
(* here every commit leaves the rows its claims ask for.)                  *)
(***************************************************************************)
EXTENDS Naturals, Sequences, FiniteSets, FiniteSetsExt

CONSTANTS Users, Categories, Workers,
          MaxAssets,    \* bound: assets ever uploaded
          MaxClaims,    \* bound: claims ever written
          Reverts       \* whether claims are reverted

BoundsAssumption == MaxAssets \in Nat /\ MaxClaims \in Nat

VARIABLES
    claims,    \* in the order they were made
    assets,    \* the MediaAsset rows that exist: ids, in upload order
    uploaded,  \* how many were ever uploaded
    work,      \* requests between their load and their commit
    fresh      \* history: the requests that nothing committed past

vars == <<claims, assets, uploaded, work, fresh>>

Ids == 1..MaxAssets
Claim == [user : Users, asset : Ids, cat : Categories, primary : BOOLEAN,
          exists : BOOLEAN, active : BOOLEAN, retracted : BOOLEAN]
Idle == [op |-> "idle"]

(* The winning claim of each asset that has one.                           *)
Winner(cs, a) ==
    LET active == {i \in DOMAIN cs : cs[i].asset = a /\ cs[i].active}
    IN IF active = {} THEN 0 ELSE Max(active)

(* EntityMedia: assets whose winning claim is present, if they exist.      *)
Rows(cs, as) == {a \in as : Winner(cs, a) # 0 /\ cs[Winner(cs, a)].exists}

CategoryOf(cs, a) == cs[Winner(cs, a)].cat
IsPrimary(cs, a) == cs[Winner(cs, a)].primary
InCategory(cs, as, c) == {a \in Rows(cs, as) : CategoryOf(cs, a) = c}
Primaries(cs, as, c) == {a \in InCategory(cs, as, c) : IsPrimary(cs, a)}

(* displayed_primary_asset_ids, for one category (0 when it is empty).     *)
Displayed(cs, as, c) ==
    IF Primaries(cs, as, c) # {} THEN Min(Primaries(cs, as, c))
    ELSE IF InCategory(cs, as, c) # {} THEN Min(InCategory(cs, as, c)) ELSE 0

TypeOK ==
    /\ claims \in Seq(Claim) /\ Len(claims) <= MaxClaims
    /\ assets \subseteq 1..uploaded /\ uploaded \in 0..MaxAssets
    /\ \A u \in Users, a \in Ids :
         Cardinality({i \in DOMAIN claims :
             claims[i].active /\ claims[i].user = u /\ claims[i].asset = a}) <= 1

Init ==
    /\ claims = <<>> /\ assets = {} /\ uploaded = 0
    /\ work = [w \in Workers |-> Idle] /\ fresh = {}

New(u, a, cat, primary, exists) ==
    [user |-> u, asset |-> a, cat |-> cat, primary |-> primary, exists |-> exists,
     active |-> TRUE, retracted |-> FALSE]

(* The user's active claims of some assets give way.                       *)
Superseded(cs, u, as) ==
    [i \in DOMAIN cs |->
        IF cs[i].user = u /\ cs[i].asset \in as THEN [cs[i] EXCEPT !.active = FALSE] ELSE cs[i]]

(* _assert_claim                                                           *)
Assert(cs, u, a, cat, primary, exists) ==
    Append(Superseded(cs, u, {a}), New(u, a, cat, primary, exists))

(* The demotions of a set-primary, one after the other, then its own claim.*)
Promote(cs, u, a, cat, priors) ==
    LET n == Cardinality(priors)
        prior == CHOOSE f \in [1..n -> priors] : \A p \in priors : \E i \in 1..n : f[i] = p
    IN Superseded(cs, u, priors \cup {a})
         \o [i \in 1..(n + 1) |-> IF i <= n THEN New(u, prior[i], cat, FALSE, TRUE)
                                 ELSE New(u, a, cat, TRUE, TRUE)]

(* upload_media's transaction: the asset and its attachment.               *)
Upload(u, c) ==
    /\ uploaded < MaxAssets
    /\ uploaded' = uploaded + 1
    /\ assets' = assets \cup {uploaded + 1}
    /\ claims' = Assert(claims, u, uploaded + 1, c, FALSE, TRUE)
    /\ fresh' = {}
    /\ UNCHANGED work

(* A request loads the asset and its attachment: what it keeps of them is  *)
(* the category.                                                           *)
Load(w, u, op, a, c) ==
    /\ work[w] = Idle /\ a \in Rows(claims, assets)
    /\ op = "category" => c # CategoryOf(claims, a)
    /\ op # "category" => c = CategoryOf(claims, a)
    /\ work' = [work EXCEPT ![w] = [op |-> op, user |-> u, asset |-> a, cat |-> c]]
    /\ fresh' = fresh \cup {w}
    /\ UNCHANGED <<claims, assets, uploaded>>

(* Mutant: the other images keep their claim to be primary.                *)
PriorPrimariesKept(w) == {}

(* prior_primaries: read in the transaction, for the category loaded       *)
(* before it.                                                              *)
PriorPrimaries(w) == Primaries(claims, assets, work[w].cat) \ {work[w].asset}

ReadPriors(w) ==
    /\ work[w].op = "primary"
    /\ work' = [work EXCEPT ![w] =
                  [op |-> "promote", user |-> @.user, asset |-> @.asset, cat |-> @.cat,
                   priors |-> PriorPrimaries(w)]]
    /\ UNCHANGED <<claims, assets, uploaded, fresh>>

CommitPrimary(w) ==
    /\ work[w].op = "promote"
    /\ claims' = Promote(claims, work[w].user, work[w].asset, work[w].cat, work[w].priors)
    /\ work' = [work EXCEPT ![w] = Idle]
    /\ fresh' = {}
    /\ UNCHANGED <<assets, uploaded>>

CommitCategory(w) ==
    /\ work[w].op = "category"
    /\ claims' = Assert(claims, work[w].user, work[w].asset, work[w].cat, FALSE, TRUE)
    /\ work' = [work EXCEPT ![w] = Idle]
    /\ fresh' = {}
    /\ UNCHANGED <<assets, uploaded>>

(* A tombstone, then the asset itself (which takes its row along).         *)
CommitDetach(w) ==
    /\ work[w].op = "detach"
    /\ claims' = Assert(claims, work[w].user, work[w].asset, work[w].cat, FALSE, FALSE)
    /\ assets' = assets \ {work[w].asset}
    /\ work' = [work EXCEPT ![w] = Idle]
    /\ fresh' = {}
    /\ UNCHANGED uploaded

(* execute_revert: one claim, and its author's one before comes back.      *)
Reverted(cs, i) ==
    LET out == [cs EXCEPT ![i].active = FALSE, ![i].retracted = TRUE]
        before == {j \in DOMAIN cs : /\ j # i /\ cs[j].user = cs[i].user
                                     /\ cs[j].asset = cs[i].asset
                                     /\ ~cs[j].active /\ ~cs[j].retracted}
    IN IF before = {} THEN out ELSE [out EXCEPT ![Max(before)].active = TRUE]

Revert(i) ==
    /\ Reverts /\ i \in DOMAIN claims /\ claims[i].active
    /\ claims' = Reverted(claims, i)
    /\ fresh' = {}
    /\ UNCHANGED <<assets, uploaded, work>>

Next ==
    \/ /\ Len(claims) < MaxClaims
       /\ \/ \E u \in Users, c \in Categories : Upload(u, c)
          \/ \E w \in Workers, u \in Users, a \in Ids, c \in Categories :
               \E op \in {"primary", "category", "detach"} : Load(w, u, op, a, c)
          \/ \E w \in Workers : ReadPriors(w) \/ CommitCategory(w) \/ CommitDetach(w)
    \/ \E w \in Workers : /\ work[w].op = "promote"
                          /\ Len(claims) + Cardinality(work[w].priors) < MaxClaims
                          /\ CommitPrimary(w)
    \/ \E i \in 1..MaxClaims : Revert(i)

Spec == Init /\ [][Next]_vars

-----------------------------------------------------------------------------
(* "Last set wins" (set_primary): an image made primary is the one its     *)
(* category shows, whatever raced or was reverted before, when nothing     *)
(* committed while the request ran.                                        *)
LastSetWins ==
    [][\A w \in fresh :
         (work[w].op = "promote" /\ work'[w] = Idle)
         => Displayed(claims', assets', work[w].cat) = work[w].asset]_vars

(* A detached image never comes back, whatever is reverted and whoever     *)
(* still had it loaded (detach_media deletes the asset and its files).     *)
DetachedStaysGone ==
    [][\A a \in 1..uploaded : a \notin assets =>
          \A c \in Categories : a \notin InCategory(claims', assets', c)]_vars

(* An upload never takes a category's first place: the flag it claims is   *)
(* off and its id the highest (displayed_primary_asset_ids).               *)
UploadsNeverTakeOver ==
    [][uploaded' > uploaded =>
         \A c \in Categories : Displayed(claims, assets, c) # 0 =>
             Displayed(claims', assets', c) = Displayed(claims, assets, c)]_vars

(* "A revert restores the prior primary atomically" (set_primary): taking  *)
(* back the claim that made an image primary, with nothing else done       *)
(* since, shows the image that was shown before it.                        *)
RevertRestoresPrior ==
    [][\A w \in Workers :
         (work[w].op = "promote" /\ work'[w] = Idle)
         => Displayed(Reverted(claims', Len(claims')), assets', work[w].cat)
              = Displayed(claims, assets, work[w].cat)]_vars

(* "Storing a demotion claim keeps 'last set wins' deterministic": at rest *)
(* a category has one image that claims to be primary, at most.            *)
OnePrimary == \A c \in Categories : Cardinality(Primaries(claims, assets, c)) <= 1
=============================================================================
