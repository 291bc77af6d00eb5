------------------------------ MODULE MCPages ------------------------------
(* What readers are shown, side by side: the cached responses of the bulk  *)
(* endpoints (ResponseCache), the games listing and its sidebar            *)
(* (GameListing, whatever its dimensions), and the manufacturers           *)
(* (ManufacturerList).                                                     *)
EXTENDS ResponseCache, TLC

CONSTANTS Scenes, Sidebars, Register, MaxEdits, MaxSelections, None, public, kiosk, v1, v2, m1, m2, m3, t1, t2, e1, e2

VARIABLES scene,
    sidebar, gameModels, gameTitles, gameFilter, gameEdits,            \* GameListing
    makerModels, makerEntities, makers, makerFilter, makerEdits        \* ManufacturerList

gameVars == <<sidebar, gameModels, gameTitles, gameFilter, gameEdits>>
makerVars == <<makerModels, makerEntities, makers, makerFilter, makerEdits>>

-----------------------------------------------------------------------------
(* The games: two titles, one with a variant.                              *)
Game(t, p, q, vals) == [live |-> TRUE, title |-> t, variantOf |-> p, q |-> q, vals |-> vals]

GameTitles(dims) ==
    (t1 :> [live |-> TRUE, q |-> TRUE, vals |-> [d \in dims |-> "f"]])
        @@ (t2 :> [live |-> TRUE, q |-> FALSE, vals |-> [d \in dims |-> None]])

Taxonomy == ("myth" :> {}) @@ ("dragon" :> {"myth"})

\* One manufacturer, a theme under another, and a game format
SparseHeld == [manufacturer |-> {"williams", "stern"}, themes |-> {"myth", "dragon"},
               game_format |-> {"pinball", "bingo"}]

Sparse(x, y, z) == [manufacturer |-> x, themes |-> y, game_format |-> z]

SparseSidebar ==
    [models    |-> (m1 :> Game(t1, None, TRUE, Sparse({"williams"}, {"dragon"}, {"pinball"})))
                      @@ (m2 :> Game(t1, m1, FALSE, Sparse({"williams"}, {"myth"}, {})))
                      @@ (m3 :> Game(t2, None, TRUE, Sparse({"stern"}, {}, {"bingo"}))),
     titles    |-> GameTitles({"franchise"}),
     dims      |-> DOMAIN SparseHeld,
     titleDims |-> {"franchise"},
     values    |-> SparseHeld @@ [franchise |-> {"f"}],
     held      |-> SparseHeld,
     shape     |-> Sparse("path", "taxonomy", "sparse"),
     combine   |-> Sparse("one", "and", "or"),
     many      |-> {"themes"},
     broader   |-> Taxonomy,
     default   |-> [game_format |-> "pinball"]]

\* Reward types, edges and player counts; franchise and series together
EdgeHeld == [reward_types |-> {"replay", "cash"}, edge |-> {}, player_count |-> {3, 6, 7},
             tag |-> {"home"}]

Edge(r, e, n, g) == [reward_types |-> r, edge |-> e, player_count |-> n, tag |-> g]

EdgeSidebar ==
    [models    |-> (m1 :> Game(t1, None, TRUE, Edge({"replay", "cash"}, {}, {6}, {"home"})))
                      @@ (m2 :> Game(t1, m1, FALSE, Edge({"replay"}, {}, {7}, {})))
                      @@ (m3 :> Game(t1, None, TRUE, Edge({"cash"}, {}, {}, {"home"}))),
     titles    |-> GameTitles({"franchise", "series"}),
     dims      |-> DOMAIN EdgeHeld,
     titleDims |-> {"franchise", "series"},
     values    |-> Edge({"replay", "cash"}, {"variant_of", "variant_of:in"}, {2, 6}, {"home"})
                      @@ [franchise |-> {"f"}, series |-> {"f"}],
     held      |-> EdgeHeld,
     shape     |-> Edge("path", "edge", "bucket", "path"),
     combine   |-> Edge("and", "and", "one", "one"),
     many      |-> {"reward_types", "tag"},
     broader   |-> <<>>,
     default   |-> <<>>]

MCSidebars == [sparse |-> SparseSidebar, edges |-> EdgeSidebar]

Games == INSTANCE GameListing WITH
    CrossTitle <- FALSE,
    models <- gameModels, titles <- gameTitles, f <- gameFilter, edits <- gameEdits

ASSUME GamesAssumption == Games!SidebarsAssumption

-----------------------------------------------------------------------------
(* The manufacturers: two, each with an entity, three models, and a state  *)
(* with two cities, the name of one the beginning of the other's.          *)
State == <<"il">>
City == <<"il", "elgin">>
Suburb == <<"il", "elginshire">>

Machine(e, p, y, people, g) ==
    [live |-> TRUE, entity |-> e, variantOf |-> p, year |-> y, people |-> people, generation |-> g]

MCRegister ==
    [models        |-> (m1 :> Machine(e1, None, 1, {"pat"}, "ss")) @@ (m2 :> Machine(e1, m1, 2, {}, None))
                          @@ (m3 :> Machine(e2, None, 3, {"pat"}, "ss")),
     entities      |-> (e1 :> [live |-> TRUE, manufacturer |-> 1, places |-> {City}, q |-> FALSE])
                          @@ (e2 :> [live |-> TRUE, manufacturer |-> 2, places |-> {City, Suburb}, q |-> TRUE]),
     manufacturers |-> {1, 2},
     places        |-> {State, City, Suburb},
     hits          |-> {State, Suburb},
     years         |-> {1, 2, 3},
     people        |-> {"pat"},
     generations   |-> {"ss"},
     limit         |-> 1]

MakerList == INSTANCE ManufacturerList WITH
    Models <- DOMAIN Register.models, Entities <- DOMAIN Register.entities,
    Manufacturers <- Register.manufacturers, Places <- Register.places, Hits <- Register.hits,
    Years <- Register.years, People <- Register.people, Generations <- Register.generations,
    Limit <- Register.limit, InitModels <- Register.models, InitEntities <- Register.entities,
    models <- makerModels, entities <- makerEntities, mfrs <- makers, f <- makerFilter,
    edits <- makerEdits

ASSUME MakersAssumption == MakerList!ListAssumption

-----------------------------------------------------------------------------
(* The components share nothing here, so a product of them would add states *)
(* and no behaviours: in each scene one of them moves, the others rest.    *)
SceneInit ==
    /\ scene \in Scenes
    /\ IF scene = "games" THEN TRUE ELSE sidebar = CHOOSE k \in DOMAIN Sidebars : TRUE
    /\ Init /\ Games!Init /\ MakerList!Init

SceneNext ==
    /\ IF scene = "cache" THEN Next ELSE UNCHANGED vars
    /\ IF scene = "games" THEN Games!Next ELSE UNCHANGED gameVars
    /\ IF scene = "makers" THEN MakerList!Next ELSE UNCHANGED makerVars
    /\ UNCHANGED scene

SceneSpec == SceneInit /\ [][SceneNext]_<<scene, vars, gameVars, makerVars>>

PagesSymmetry == Permutations({v1, v2})

-----------------------------------------------------------------------------
(* The games a filter asks for are on the page, once, behind a card that   *)
(* keeps its word, and the number beside every option of the sidebar is    *)
(* the number of cards a click on it shows (GameListing).                  *)
GamesMatchTheSidebar ==
    scene = "games" =>
        /\ Games!EveryMatchIsShown /\ Games!NoneShownTwice
        /\ Games!CardsKeepTheirWord /\ Games!FreeMeansFree
        /\ Games!BadgesMatchTheClick /\ Games!TitleBadgesMatchTheClick
        /\ Games!PresetsPartition

(* A manufacturer that matches is in the section of the search or by its   *)
(* place, years or name; the number beside an option is what a click on it *)
(* shows, and the ends of a slider find something (ManufacturerList).      *)
MakersMatchTheSidebar ==
    scene = "makers" =>
        /\ MakerList!SpanIsTheOneShown /\ MakerList!PlacesSearchAsTheyFilter
        /\ MakerList!FreeNamesAreFree /\ MakerList!SectionsAreComplete
        /\ MakerList!CountsMatchTheClick /\ MakerList!SelectionsStayListed
        /\ MakerList!YearsReachTheEnds
=============================================================================
