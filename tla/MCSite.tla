------------------------------- MODULE MCSite -------------------------------
(* What the site keeps besides the claims of its records, side by side:    *)
(* the objects of uploaded media (MediaStorage), the gallery of a record   *)
(* (MediaGallery: one user in several tabs, then several users one after   *)
(* the other in one category), kiosks (Kiosk), links between texts         *)
(* (MarkdownLinks), and what a pasted address is a page of (Recognition).  *)
EXTENDS MediaStorage, TLC, Integers

CONSTANTS
    Scenes,
    Users, Categories, MaxAssets, MaxClaims,                         \* MediaGallery
    Configs, Titles, Positions, Headings, IdleSeconds, None, Lists,  \* Kiosk
    Records, Old, Pages, PublicIds                                   \* MarkdownLinks

VARIABLES scene,
    claims, images, uploaded, editing, fresh,                          \* MediaGallery
    configs, items, born, titles, lock, requests, sent, deleted,      \* Kiosk
    key, text, refs, desk,                                             \* MarkdownLinks
    domainRows, minted                                                 \* Recognition

galleryVars == <<claims, images, uploaded, editing, fresh>>
kioskVars == <<configs, items, born, titles, lock, requests, sent, deleted>>
linkVars == <<key, text, refs, desk>>
domainVars == <<domainRows, minted>>

-----------------------------------------------------------------------------
\* The renditions of an image, in the order they are uploaded
MCParts == <<"original", "thumb", "display">>

Gallery == INSTANCE MediaGallery WITH Reverts <- TRUE, assets <- images, work <- editing

\* The gallery in two scenes, which are what TLC can take in full: the tabs of
\* one user (an image and a claim less, and nothing is loaded that there is no
\* room to write); several users, one tab at a time, in one category
OneUser ==
    /\ uploaded < MaxAssets /\ Len(claims) < MaxClaims
    /\ \A i, j \in DOMAIN claims : claims[i].user = claims[j].user
    /\ \A w \in Workers, i \in DOMAIN claims :
          editing[w] # Gallery!Idle => editing[w].user = claims[i].user

OneTab ==
    /\ \A i, j \in DOMAIN claims : claims[i].cat = claims[j].cat
    /\ \A w \in Workers, i \in DOMAIN claims :
          editing[w] # Gallery!Idle => editing[w].cat = claims[i].cat
    /\ \A v, w \in Workers : editing[v] # Gallery!Idle /\ editing[w] # Gallery!Idle => v = w

Item(t, p) == [title |-> t, position |-> p]

\* Nothing, one title, the same two in either order, and two that clash
MCLists == {{}, {Item("t1", 1)}, {Item("t1", 2), Item("t2", 1)}, {Item("t2", 2)},
            {Item("t1", 1), Item("t2", 1)}}

Kiosks == INSTANCE Kiosk WITH work <- requests

Links == INSTANCE MarkdownLinks WITH Keys <- PublicIds, Editors <- Workers

-----------------------------------------------------------------------------
\* Two ordinary sites, one below a two-label public suffix, a shared host with
\* two tenants, a shared leaf below an ordinary site, a deliverer leaf, and
\* malformed hosts
Acme == <<"acme", "com">>
Shop == <<"shop", "com">>
Cdn == <<"cdn", "shop", "com">>
Play == <<"play", "acme", "com">>
Club == <<"club", "co", "uk">>

Url(h, p) == [host |-> h, path |-> p]
Domain(h, p) == [host |-> h, prefix |-> p]

Addresses == INSTANCE Recognition WITH
    Sources <- {"ipdb", "maker"},
    URLs <- {Url(<<"www">> \o Acme, <<"a">>), Url(<<"s4">> \o Acme, <<>>),
             Url(<<"">> \o Acme, <<>>), Url(Play, <<"a">>),
             Url(Shop, <<"a">>), Url(Cdn, <<"a", "b">>), Url(Cdn, <<"ab">>),
             Url(<<"s4">> \o Cdn, <<"a", "..", "b">>), Url(<<"s4">> \o Cdn, <<"a", "b">>),
             Url(Club, <<>>), Url(<<"pub", "co", "uk">>, <<"a">>), Url(<<"co", "uk">>, <<>>)},
    Declared <- {Domain(<<"www">> \o Acme, <<>>), Domain(<<"s4">> \o Acme, <<>>),
                 Domain(Shop, <<>>), Domain(Cdn, <<"a">>), Domain(Cdn, <<"a", "b">>),
                 Domain(<<"s4">> \o Cdn, <<"a">>), Domain(Cdn, <<>>),
                 Domain(<<"co", "uk">>, <<>>), Domain(Play, <<>>)},
    Bypassed <- {Domain(Play, <<>>), Domain(Cdn, <<>>), Domain(Shop, <<"a">>)},
    SharedHosts <- {Cdn}, DelivererHosts <- {Play},
    PublicSuffixes <- {<<"com">>, <<"uk">>, <<"co", "uk">>},
    MaxRecords <- 3, BadLabels <- {""}, NumericLabels <- {"7"}, ReservedTlds <- {"test"},
    DotSegments <- {".."}, rows <- domainRows

ASSUME SiteAssumption ==
    /\ Gallery!BoundsAssumption
    /\ Kiosks!NoneAssumption /\ Links!LinkAssumption /\ Addresses!HostsAssumption

-----------------------------------------------------------------------------
(* The components share nothing here, so a product of them would add states *)
(* and no behaviours: in each scene one of them moves, the others rest.    *)
SceneInit ==
    /\ scene \in Scenes
    /\ IF scene = "links" THEN TRUE ELSE key = CHOOSE k \in [Old -> PublicIds] : IsInjective(k)
    /\ Init /\ Gallery!Init /\ Kiosks!Init /\ Links!Init /\ Addresses!Init

SceneNext ==
    /\ IF scene = "storage" THEN Next ELSE UNCHANGED vars
    /\ \/ /\ scene = "tabs" /\ Gallery!Next /\ OneUser'
          /\ Len(claims) + 1 < MaxClaims \/ UNCHANGED editing
       \/ scene = "uploaders" /\ Gallery!Next /\ OneTab'
       \/ scene \notin {"tabs", "uploaders"} /\ UNCHANGED galleryVars
    /\ IF scene = "kiosks" THEN Kiosks!Next ELSE UNCHANGED kioskVars
    /\ IF scene = "links" THEN Links!Next ELSE UNCHANGED linkVars
    /\ IF scene = "addresses" THEN Addresses!Next ELSE UNCHANGED domainVars
    /\ UNCHANGED scene

SceneSpec ==
    SceneInit /\ [][SceneNext]_<<scene, vars, galleryVars, kioskVars, linkVars, domainVars>>

SiteSymmetry ==
    Permutations(Workers) \cup Permutations(Assets) \cup Permutations(Users)
        \cup Permutations(Categories) \cup Permutations(PublicIds)

-----------------------------------------------------------------------------
(* The last asset made primary shows, what was detached stays gone, and an *)
(* upload never displaces what another chose (MediaGallery).               *)
GalleriesObeyTheLastEdit ==
    Gallery!LastSetWins /\ Gallery!DetachedStaysGone /\ Gallery!UploadsNeverTakeOver

(* A kiosk shows one list that was sent, never a mix of two (Kiosk).       *)
OneList == scene = "kiosks" => Kiosks!OneList

(* The edges between texts are those of the stored texts, and a text that  *)
(* is opened and saved unchanged stays itself (MarkdownLinks).             *)
EdgesMatchText == scene = "links" => Links!EdgesMatchText /\ Links!UntouchedTextRoundTrips

(* An address is a page of one site, the most specific that is declared;   *)
(* never of another tenant, of a public suffix or of a deliverer's copy    *)
(* (Recognition).                                                          *)
AddressesHaveOneSite ==
    scene = "addresses" => /\ Addresses!OneMostSpecificRow
                           /\ Addresses!NoCrossTenant
                           /\ Addresses!NoSuffixSwallowed
                           /\ Addresses!NoCopyCited
=============================================================================
