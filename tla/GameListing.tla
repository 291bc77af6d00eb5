---------------------------- MODULE GameListing ----------------------------
(***************************************************************************)
(* The games listing (backend/apps/catalog/api/_game_rows.py,              *)
(* _game_facets.py): which cards a filter shows, and the number beside     *)
(* each option of the sidebar.  A Title is one card when every live Model  *)
(* of it matches the Model-only dimensions (rung 1); otherwise each match  *)
(* is a card (rung 2), except a Variant whose parent matches               *)
(* (rung 3).  Unanimity is measured over ModelOnly, carding over Carding:  *)
(* the text of the search narrows only the second.                         *)
(*                                                                         *)
(* The catalog changes under the reader by the edits the site has; the     *)
(* reader changes the filter by clicks on the facets.  Names, years and    *)
(* the order of the cards are left out: a record either matches the        *)
(* search text or does not.                                                *)
(***************************************************************************)
EXTENDS FiniteSets, Integers

CONSTANTS
    Sidebars,                \* the sidebars, each with the catalog it is about
    CrossTitle,              \* may a Variant's parent be in another Title?
    MaxEdits, MaxSelections,
    None

VARIABLES
    sidebar,   \* the one of Sidebars this behaviour is about
    models,    \* [Models -> [live, title, variantOf, q, vals]]
    titles,    \* [Titles -> [live, q, vals]]
    f,         \* the reader's filter: [q, sel, tsel]
    edits

vars == <<sidebar, models, titles, f, edits>>

Sidebar     == Sidebars[sidebar]
Models      == DOMAIN Sidebar.models
Titles      == DOMAIN Sidebar.titles
Dims        == Sidebar.dims         \* the Model-only dimensions
TitleDims   == Sidebar.titleDims    \* franchise, series
Values      == Sidebar.values       \* the values an option of a dimension can have
Held        == Sidebar.held         \* the values a Model can carry
Shape       == Sidebar.shape        \* "path" | "taxonomy" | "bucket" | "edge" | "sparse"
Combine     == Sidebar.combine      \* "one" | "and" | "or"
Many        == Sidebar.many         \* dimensions a Model may carry several values of (M2M)
Broader     == Sidebar.broader      \* the taxonomy: value -> its direct parents
DefaultSlug == Sidebar.default      \* the value a sparse field left unset reads as

Unclassified == "unclassified"

PlayerBuckets == {1, 2, 4, 6}

\* One record of the catalog as a sidebar's dimensions know it: of each a
\* Model carries values, one unless the field is an M2M.
IsModel(s, m) ==
    /\ m \in [live : BOOLEAN, title : DOMAIN s.titles, variantOf : DOMAIN s.models \cup {None},
              q : BOOLEAN, vals : {[d \in s.dims |-> m.vals[d]]}]
    /\ \A d \in s.dims : /\ m.vals[d] \subseteq s.held[d]
                         /\ d \notin s.many => \A x, y \in m.vals[d] : x = y

TitleRow(s) == [live : BOOLEAN, q : BOOLEAN,
                vals : [s.titleDims -> {None} \cup UNION {s.values[d] : d \in s.titleDims}]]

IsCatalog(s, ms, ts) ==
    /\ ms = [m \in DOMAIN s.models |-> ms[m]] /\ \A m \in DOMAIN s.models : IsModel(s, ms[m])
    /\ ts \in [DOMAIN s.titles -> TitleRow(s)]

\* Variants stay flat, a parent is no Variant; and under one Title.
Flat(ms) == \A m \in DOMAIN ms : ms[m].variantOf # None =>
    LET p == ms[ms[m].variantOf]
    IN  p.variantOf = None /\ (CrossTitle \/ p.title = ms[m].title)

\* What the vocabularies promise of one dimension, by its shape: a taxonomy
\* has the parents of what it has, a bucket counts players, a sparse field is
\* one of the values listed, the default among them.
DimensionFits(s, d) ==
    /\ s.shape[d] \in {"path", "taxonomy", "bucket", "edge", "sparse"}
    /\ s.combine[d] = "or" <=> s.shape[d] = "sparse"
    /\ s.shape[d] = "taxonomy" =>
          /\ s.values[d] \cup s.held[d] \subseteq DOMAIN s.broader
          /\ \A v \in DOMAIN s.broader : s.broader[v] \subseteq DOMAIN s.broader
    /\ s.shape[d] = "bucket" => s.values[d] \subseteq PlayerBuckets /\ s.held[d] \subseteq Int
    /\ s.shape[d] = "sparse" =>
          /\ s.held[d] \subseteq s.values[d] /\ s.default[d] \in s.values[d]
          /\ Unclassified \notin s.values[d] /\ d \notin s.many

SidebarsAssumption ==
    /\ MaxEdits \in Nat
    /\ \A k \in DOMAIN Sidebars : LET s == Sidebars[k] IN
          /\ IsFiniteSet(DOMAIN s.models) /\ IsFiniteSet(DOMAIN s.titles)
          /\ None \notin DOMAIN s.models \cup s.dims \cup s.titleDims
          /\ \A d \in s.titleDims : None \notin s.values[d]
          /\ \A d \in s.dims : DimensionFits(s, d)
          /\ IsCatalog(s, s.models, s.titles) /\ Flat(s.models)

-----------------------------------------------------------------------------
(* The taxonomy, walked downwards by the filter: what every set with the    *)
(* value has that is closed under the children.                            *)

_descendants(s) ==
    LET Closed(S) == \A c \in DOMAIN Broader : Broader[c] \cap S # {} => c \in S
    IN  {c \in DOMAIN Broader : \A S \in SUBSET DOMAIN Broader : s \in S /\ Closed(S) => c \in S}

-----------------------------------------------------------------------------
(* One dimension against one Model.                                        *)

Standing(m) == models[m].live /\ titles[models[m].title].live

_bucket_q(b, counts) == \E n \in counts : IF b >= 6 THEN n >= 6 ELSE n = b

\* An outbound edge needs only the field; an inbound one a live far end.
edge_q(e, m) ==
    IF e = "variant_of" THEN models[m].variantOf # None
    ELSE \E v \in Models : Standing(v) /\ models[v].variantOf = m

_sparse_q(values, held) ==
    (held \cap values) # {} \/ (Unclassified \in values /\ held = {})

NarrowsTo(d, sel, m) ==
    LET held == models[m].vals[d]
    IN  CASE Shape[d] = "path"     -> sel \subseteq held
          [] Shape[d] = "taxonomy" -> \A s \in sel : (held \cap _descendants(s)) # {}
          [] Shape[d] = "bucket"   -> \A b \in sel : _bucket_q(b, held)
          [] Shape[d] = "edge"     -> \A e \in sel : edge_q(e, m)
          [] Shape[d] = "sparse"   -> _sparse_q(sel, held)

Active(g, d) == g.sel[d] # {}
_model_dimensions_active(g) == \E d \in Dims : Active(g, d)

-----------------------------------------------------------------------------
(* The two sets and the three rungs.                                       *)

model_only_models(g, exclude) ==
    {m \in Models : /\ Standing(m)
                    /\ \A d \in Dims \ {exclude} :
                          Active(g, d) => NarrowsTo(d, g.sel[d], m)}

carding_models(g) == {m \in model_only_models(g, None) : g.q => models[m].q}

_title_only_q(g, t, exclude) ==
    \A d \in TitleDims \ {exclude} : g.tsel[d] \in {None, titles[t].vals[d]}

LiveModels(t) == {m \in Models : models[m].live /\ models[m].title = t}

title_rows(g) ==
    LET passing == model_only_models(g, None)
    IN  {t \in Titles :
            /\ titles[t].live
            /\ _title_only_q(g, t, None)
            /\ g.q => titles[t].q
            /\ _model_dimensions_active(g) =>
                  LiveModels(t) # {} /\ LiveModels(t) \subseteq passing}

matching_models(g) ==
    {m \in carding_models(g) : _title_only_q(g, models[m].title, None)}

\* Mutant: a Variant is absorbed whether its parent matches or not.
VariantsNeverCard(g) ==
    LET carded == title_rows(g)
    IN  {m \in matching_models(g) : /\ models[m].title \notin carded
                                    /\ models[m].variantOf = None}

model_rows(g) ==
    LET carding == carding_models(g)
        carded  == title_rows(g)
    IN  {m \in matching_models(g) : /\ models[m].title \notin carded
                                    /\ models[m].variantOf \notin carding}

game_rows(g) == {<<"title", t>> : t \in title_rows(g)}
                   \cup {<<"model", m>> : m \in model_rows(g)}

\* The "create this title?" prompt asks how many cards the text alone finds.
_query_only_count(g) ==
    Cardinality(game_rows([q    |-> g.q,
                           sel  |-> [d \in Dims |-> {}],
                           tsel |-> [d \in TitleDims |-> None]]))

-----------------------------------------------------------------------------
(* The reader.                                                             *)

\* Choosing the default of a sparse dimension asks for the unset ones too.
preset_values(d, v) == IF v = DefaultSlug[d] THEN {v, Unclassified} ELSE {v}

\* The filter a click on option v of dimension d writes.
Chosen(g, d, v) ==
    [g EXCEPT !.sel[d] = CASE Combine[d] = "and" -> @ \cup {v}
                           [] Combine[d] = "or"  -> preset_values(d, v)
                           [] OTHER              -> {v}]

ChosenTitle(g, d, v) == [g EXCEPT !.tsel[d] = v]

Selections(g) == Cardinality({d \in TitleDims : g.tsel[d] # None})
    + Cardinality(UNION {{d} \X (g.sel[d] \cap Values[d]) : d \in Dims})

Narrowed(g) == /\ Selections(g) <= MaxSelections
               /\ f' = g
               /\ UNCHANGED <<sidebar, models, titles, edits>>

Choose(d, v)      == Narrowed(Chosen(f, d, v))
ChooseTitle(d, v) == Narrowed(ChosenTitle(f, d, v))
Search            == Narrowed([f EXCEPT !.q = ~@])

-----------------------------------------------------------------------------
(* The edits.  Only what decides a card: the records that live, their      *)
(* Title, their parent, their values and whether the text finds them.      *)

Edit == edits < MaxEdits /\ edits' = edits + 1 /\ UNCHANGED <<sidebar, f>>

SetValue(m, d, v) ==
    /\ Edit
    /\ models' = [models EXCEPT ![m].vals[d] =
                     IF v \in @ THEN @ \ {v}
                     ELSE IF d \in Many THEN @ \cup {v} ELSE {v}]
    /\ UNCHANGED titles

SetTitleValue(t, d, v) ==
    /\ Edit
    /\ titles' = [titles EXCEPT ![t].vals[d] = v]
    /\ UNCHANGED models

\* Variants stay flat: a parent is no Variant, a Variant has no Variants.
SetVariantOf(m, p) ==
    /\ Edit
    /\ p # None => /\ p # m
                   /\ models[p].live
                   /\ models[p].variantOf = None
                   /\ \A v \in Models : models[v].variantOf # m
                   /\ CrossTitle \/ models[p].title = models[m].title
    /\ models' = [models EXCEPT ![m].variantOf = p]
    /\ UNCHANGED titles

RenameModel(m) == /\ Edit
                  /\ models' = [models EXCEPT ![m].q = ~@]
                  /\ UNCHANGED titles

RenameTitle(t) == /\ Edit
                  /\ titles' = [titles EXCEPT ![t].q = ~@]
                  /\ UNCHANGED models

\* A live Variant outside the deletion protects its parent.
Unprotected(gone) ==
    \A v \in Models \ gone : models[v].live => models[v].variantOf \notin gone

DeleteModel(m) ==
    /\ Edit
    /\ models[m].live /\ Unprotected({m})
    /\ models' = [models EXCEPT ![m].live = FALSE]
    /\ UNCHANGED titles

DeleteTitle(t) ==
    /\ Edit
    /\ titles[t].live /\ Unprotected(LiveModels(t))
    /\ titles' = [titles EXCEPT ![t].live = FALSE]
    /\ models' = [m \in Models |-> IF models[m].title = t
                                   THEN [models[m] EXCEPT !.live = FALSE] ELSE models[m]]

\* A Model is restored without its Title, and a Title without its Models.
RestoreModel(m) == /\ Edit
                   /\ ~models[m].live
                   /\ models' = [models EXCEPT ![m].live = TRUE]
                   /\ UNCHANGED titles

RestoreTitle(t) == /\ Edit
                   /\ ~titles[t].live
                   /\ titles' = [titles EXCEPT ![t].live = TRUE]
                   /\ UNCHANGED models

-----------------------------------------------------------------------------

Init ==
    /\ sidebar \in DOMAIN Sidebars
    /\ models = Sidebar.models /\ titles = Sidebar.titles
    /\ f = [q |-> FALSE, sel |-> [d \in Dims |-> {}], tsel |-> [d \in TitleDims |-> None]]
    /\ edits = 0

Next ==
    \/ Search
    \/ \E d \in Dims : \E v \in Values[d] : Choose(d, v)
    \/ \E d \in TitleDims : \E v \in Values[d] \cup {None} : ChooseTitle(d, v)
    \/ \E m \in Models : \/ \E d \in Dims : \E v \in Held[d] : SetValue(m, d, v)
                         \/ \E p \in Models \cup {None} : SetVariantOf(m, p)
                         \/ RenameModel(m)
                         \/ DeleteModel(m)
                         \/ RestoreModel(m)
    \/ \E t \in Titles : \/ \E d \in TitleDims : \E v \in Values[d] \cup {None} :
                               SetTitleValue(t, d, v)
                         \/ RenameTitle(t)
                         \/ DeleteTitle(t)
                         \/ RestoreTitle(t)

Spec == Init /\ [][Next]_vars

-----------------------------------------------------------------------------

TypeOK ==
    /\ sidebar \in DOMAIN Sidebars
    /\ IsCatalog(Sidebar, models, titles)
    /\ f \in [q : BOOLEAN, sel : {[d \in Dims |-> f.sel[d]]},
              tsel : [TitleDims -> {None} \cup UNION {Values[d] : d \in TitleDims}]]
    /\ \A d \in Dims :
          f.sel[d] \subseteq Values[d] \cup IF Shape[d] = "sparse" THEN {Unclassified} ELSE {}
    /\ edits \in 0..MaxEdits

\* What a reader means by the filter, said of one Model at a time.
Wanted(m) ==
    /\ models[m].live /\ titles[models[m].title].live
    /\ \A d \in TitleDims : f.tsel[d] # None => titles[models[m].title].vals[d] = f.tsel[d]
    /\ \A d \in Dims : f.sel[d] # {} => NarrowsTo(d, f.sel[d], m)
    /\ f.q => models[m].q

\* The Models a card stands for: a Title card its live Models, a Model card
\* the Model and its Variants.
Behind(card) ==
    IF card[1] = "title" THEN {m \in Models : models[m].live /\ models[m].title = card[2]}
    ELSE {card[2]} \cup {v \in Models : models[v].variantOf = card[2]}

\* Every Model the filter asks for is behind a card.
EveryMatchIsShown ==
    \A m \in Models : Wanted(m) => \E card \in game_rows(f) : m \in Behind(card)

\* Never two cards for one: a Title's card stands alone, and a Variant is
\* not shown beside its parent.
NoneShownTwice ==
    \A m \in Models : <<"model", m>> \in game_rows(f) =>
        /\ <<"title", models[m].title>> \notin game_rows(f)
        /\ <<"model", models[m].variantOf>> \notin game_rows(f)

\* Under a Model-only dimension no card is empty and a Title's card hides no
\* Model that fails it.  The text may be found in the Title alone.
CardsKeepTheirWord ==
    (\E d \in Dims : f.sel[d] # {}) =>
        \A card \in game_rows(f) :
            LET fits == {m \in Models : \A d \in Dims :
                            f.sel[d] # {} => NarrowsTo(d, f.sel[d], m)}
            IN  IF card[1] = "title"
                THEN Behind(card) # {} /\ Behind(card) \subseteq fits
                ELSE card[2] \in fits

\* The presets of a sparse dimension share the Models out: each has one.
PresetsPartition ==
    \A d \in Dims : Shape[d] = "sparse" =>
        \A m \in model_only_models(f, d) :
            Cardinality({v \in Values[d] : NarrowsTo(d, preset_values(d, v), m)}) = 1

\* No card for the text alone means that no live record has it: a facet that
\* hides a record does not make its name look free.
FreeMeansFree ==
    (f.q /\ _query_only_count(f) = 0) =>
        /\ \A t \in Titles : titles[t].live => ~titles[t].q
        /\ \A m \in Models : models[m].live /\ titles[models[m].title].live => ~models[m].q

-----------------------------------------------------------------------------
(* The sidebar: computed by an algebra of its own, over (value, Title)     *)
(* cells and without running the listing once per option, each number must *)
(* be the number of cards the listing has after a click on the option.     *)
(* A selection that replaces leaves its own dimension out of the base; one *)
(* that accumulates keeps it.                                              *)

facet_exclude(d) == IF Combine[d] = "and" THEN None ELSE d

\* The taxonomy, walked upwards by the facet.
ancestor_map(v) ==
    LET Closed(S) == \A c \in S : Broader[c] \subseteq S
    IN  {a \in DOMAIN Broader : \A S \in SUBSET DOMAIN Broader : v \in S /\ Closed(S) => a \in S}

\* The option values a Model counts under: the rows of its dimension.
ValueRows(d, m) ==
    LET held == models[m].vals[d]
    IN  CASE Shape[d] = "path"     -> held
          [] Shape[d] = "taxonomy" -> UNION {ancestor_map(v) : v \in held}
          [] Shape[d] = "bucket"   -> {IF n >= 6 THEN 6 ELSE n : n \in held} \cap PlayerBuckets
          [] Shape[d] = "edge"     -> {e \in Values[d] : edge_q(e, m)}
          [] Shape[d] = "sparse"   -> IF held = {} THEN {DefaultSlug[d]} ELSE held

\* The Models of the candidate set that carry value v.
Rows(d, v) ==
    {m \in model_only_models(f, facet_exclude(d)) :
        _title_only_q(f, models[m].title, None) /\ v \in ValueRows(d, m)}

TitleRowsOf(d, v) ==
    {m \in model_only_models(f, None) :
        _title_only_q(f, models[m].title, d) /\ titles[models[m].title].vals[d] = v}

-----------------------------------------------------------------------------
(* The cells and the tally of one option.                                  *)

totals_by_title(t) == Cardinality({m \in Models : Standing(m) /\ models[m].title = t})

own_q_titles == {t \in Titles : titles[t].live /\ (f.q => titles[t].q)}

q_match_models == {m \in Models : Standing(m) /\ (f.q => models[m].q)}

_unanimous_cells(rows) ==
    {t \in {models[m].title : m \in rows} :
        /\ Cardinality({m \in rows : models[m].title = t}) = totals_by_title(t)
        /\ t \in own_q_titles}

_vacuous_title_cells(d, v) ==
    {t \in own_q_titles : _title_only_q(f, t, d) /\ titles[t].vals[d] = v}

_tally(rows, carded) ==
    LET carding == rows \cap q_match_models
    IN  Cardinality(carded)
        + Cardinality({m \in carding : /\ models[m].title \notin carded
                                       /\ models[m].variantOf \notin carding})

\* The number beside option v of dimension d.
Badge(d, v) == LET rows == Rows(d, v) IN _tally(rows, _unanimous_cells(rows))

TitleBadge(d, v) ==
    LET rows == TitleRowsOf(d, v)
    IN  _tally(rows, IF _model_dimensions_active(f) THEN _unanimous_cells(rows)
                     ELSE _vacuous_title_cells(d, v))

-----------------------------------------------------------------------------

\* What a click on the option shows.
Clicked(d, v) == Cardinality(game_rows(Chosen(f, d, v)))

\* The badge of a Model-only dimension is the number of cards its click
\* shows, whatever else is selected, searched or edited.
BadgesMatchTheClick ==
    \A d \in Dims : \A v \in Values[d] : Badge(d, v) = Clicked(d, v)

\* So is the badge of a franchise or a series, empty Titles counted.
TitleBadgesMatchTheClick ==
    \A d \in TitleDims : \A v \in Values[d] :
        TitleBadge(d, v) = Cardinality(game_rows(ChosenTitle(f, d, v)))

=============================================================================
