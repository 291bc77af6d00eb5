-------------------------- MODULE ManufacturerList --------------------------
(***************************************************************************)
(* The manufacturers listing (backend/apps/catalog/api/                    *)
(* _manufacturer_facets.py, manufacturers.py): which manufacturers a       *)
(* filter shows, the sidebar beside them, the card and the page of each,   *)
(* and the section of the global search.                                   *)
(*                                                                         *)
(* A manufacturer is reached from its models through its corporate         *)
(* entities, which live and die on their own: models, people, years and    *)
(* generations count whatever the state of their entity, places and the    *)
(* names of entities only while it lives.                                  *)
(*                                                                         *)
(* Names are left out: a record either has the search text or does not.    *)
(* Aliases count as names, and equal counts are ordered by the pk alone.   *)
(***************************************************************************)
EXTENDS Integers, Sequences, FiniteSets, SequencesExt, FiniteSetsExt

CONSTANTS
    Models, Entities,
    Manufacturers,   \* the pks, in the order of their names
    Places,          \* location paths: sequences of slugs, prefix-closed
    Hits,            \* the places whose own name has the search text
    Years, People, Generations,
    Limit,           \* the cards of a search section
    InitModels, InitEntities,
    MaxEdits, MaxSelections,
    None

DIMENSIONS == {"q", "location", "year", "person", "technology_generation"}

ModelRow == [live : BOOLEAN, entity : Entities \cup {None}, variantOf : Models \cup {None},
             year : Years \cup {None}, people : SUBSET People, generation : Generations \cup {None}]

EntityRow == [live : BOOLEAN, manufacturer : Manufacturers, places : SUBSET Places, q : BOOLEAN]

MakerRow == [live : BOOLEAN, q : BOOLEAN, d : BOOLEAN]

FilterRow == [q : BOOLEAN, location : Places \cup {None}, year_min : Years \cup {None},
              year_max : Years \cup {None}, person : People \cup {None},
              technology_generation : Generations \cup {None}]

ListAssumption ==
    /\ IsFiniteSet(Models) /\ IsFiniteSet(Manufacturers) /\ Limit \in Nat /\ MaxEdits \in Nat
    /\ Manufacturers \subseteq Int /\ Years \subseteq Int
    /\ None \notin Manufacturers /\ None \notin Years /\ None \notin DIMENSIONS
    /\ \A S \in {Places, People, Generations} : None \notin S
    /\ Places \subseteq Seq(STRING) \ {<<>>} /\ Hits \subseteq Places
    /\ \A p \in Places : Len(p) = 1 \/ Front(p) \in Places
    /\ InitModels \in [Models -> ModelRow] /\ InitEntities \in [Entities -> EntityRow]

VARIABLES
    models,     \* [Models -> [live, entity, variantOf, year, people, generation]]
    entities,   \* [Entities -> [live, manufacturer, places, q]]
    mfrs,       \* [Manufacturers -> [live, q, d]]: the text is in its name, description
    f,          \* the reader's filter
    edits

vars == <<models, entities, mfrs, f, edits>>

NoFilter == [q |-> FALSE, location |-> None, year_min |-> None, year_max |-> None,
             person |-> None, technology_generation |-> None]

-----------------------------------------------------------------------------
(* The tree of places, walked up by the counts and by the search text,     *)
(* and down, as text, by the filter.                                       *)
ancestor_map[p \in Places] == {p} \cup (IF Len(p) = 1 THEN {} ELSE ancestor_map[Front(p)])

_location_match_paths == {p \in Places : ancestor_map[p] \cap Hits # {}}

\* Mutant: the chosen place alone.
UnderExactly(p, sel) == p = sel

Under(p, sel) == IsPrefix(sel, p)

-----------------------------------------------------------------------------
(* Models and entities of a manufacturer.                                  *)

_MODEL(m) == models[m].live /\ models[m].variantOf = None

MakerOf(m) == IF models[m].entity = None THEN None ELSE entities[models[m].entity].manufacturer

CountedModels(x) == {m \in Models : _MODEL(m) /\ MakerOf(m) = x}

LiveEntities(x) == {e \in Entities : entities[e].live /\ entities[e].manufacturer = x}

-----------------------------------------------------------------------------
(* The filter.                                                             *)

_apply_q(x) ==
    \/ mfrs[x].q
    \/ \E e \in LiveEntities(x) :
          entities[e].q \/ entities[e].places \cap _location_match_paths # {}

\* Two joins: different models may meet the two bounds.
SpanOverlaps(x, lo, hi) ==
    /\ hi # None => \E m \in CountedModels(x) : models[m].year # None /\ models[m].year <= hi
    /\ lo # None => \E m \in CountedModels(x) : models[m].year # None /\ models[m].year >= lo

apply_dimension(x, key, g) ==
    CASE key = "q" -> g.q => _apply_q(x)
      [] key = "location" ->
            g.location # None =>
               \E e \in LiveEntities(x) : \E p \in entities[e].places : Under(p, g.location)
      [] key = "year" -> SpanOverlaps(x, g.year_min, g.year_max)
      [] key = "person" -> g.person # None => \E m \in CountedModels(x) : g.person \in models[m].people
      [] key = "technology_generation" ->
            g.technology_generation # None =>
               \E m \in CountedModels(x) : models[m].generation = g.technology_generation

filtered(g, exclude) ==
    {x \in Manufacturers : mfrs[x].live /\ \A key \in DIMENSIONS \ {exclude} : apply_dimension(x, key, g)}

model_count(x) == Cardinality(CountedModels(x))

\* The most models first, then by pk.
Before(x, y) == model_count(x) > model_count(y) \/ (model_count(x) = model_count(y) /\ x < y)

InOrder(S) ==
    CHOOSE s \in [1 .. Cardinality(S) -> S] : \A i, j \in DOMAIN s : i < j => Before(s[i], s[j])

ordered(g) == InOrder(filtered(g, None))

query_count(g) == IF g.q THEN Cardinality(filtered([NoFilter EXCEPT !.q = TRUE], None)) ELSE None

-----------------------------------------------------------------------------
(* The sidebar: every option with a count, found from the other side.      *)

count_distinct(ids, ms) == Cardinality({MakerOf(m) : m \in {n \in ms : _MODEL(n) /\ MakerOf(n) \in ids}})

hierarchy_rollup(pairs, p) == Cardinality({pair[1] : pair \in {q \in pairs : p \in ancestor_map[q[2]]}})

\* What each manufacturer's living entities say of where it is
Located(ids) ==
    UNION {{<<entities[e].manufacturer, p>> : p \in entities[e].places} :
              e \in {d \in Entities : entities[d].live /\ entities[d].manufacturer \in ids}}

with_selected(options, selected) == options \cup (IF selected = None THEN {} ELSE {selected})

Count(d, v) ==
    LET ids == filtered(f, d)
    IN  CASE d = "location" -> hierarchy_rollup(Located(ids), v)
          [] d = "person" -> count_distinct(ids, {m \in Models : v \in models[m].people})
          [] d = "technology_generation" -> count_distinct(ids, {m \in Models : models[m].generation = v})

Values == [location |-> Places, person |-> People, technology_generation |-> Generations]

facet_counts(d) == with_selected({v \in Values[d] : Count(d, v) > 0}, f[d])

bounds(ids) ==
    LET years == {models[m].year : m \in {n \in Models : _MODEL(n) /\ MakerOf(n) \in ids}} \ {None}
    IN  IF years = {} THEN [min |-> None, max |-> None] ELSE [min |-> Min(years), max |-> Max(years)]

-----------------------------------------------------------------------------
(* The page of a manufacturer: what hangs off its living entities.         *)

PageModels(x) == {m \in CountedModels(x) : entities[models[m].entity].live}

model_year_bounds(ms) ==
    LET years == {models[m].year : m \in ms} \ {None}
    IN  IF years = {} THEN [first |-> None, last |-> None] ELSE [first |-> Min(years), last |-> Max(years)]

-----------------------------------------------------------------------------
(* The section of the global search: names first, then descriptions.       *)

Tiers(primary, base) ==
    LET both == primary \o InOrder({x \in base : mfrs[x].d} \ Range(primary))
    IN  SubSeq(both, 1, IF Len(both) > Limit THEN Limit + 1 ELSE Len(both))

tiered_search_rows ==
    LET found == Tiers(ordered([NoFilter EXCEPT !.q = TRUE]), filtered(NoFilter, None))
    IN  [rows |-> SubSeq(found, 1, IF Len(found) > Limit THEN Limit ELSE Len(found)),
         has_more |-> Len(found) > Limit]

-----------------------------------------------------------------------------
(* The reader.                                                             *)

Selections(g) == Cardinality({k \in DOMAIN g \ {"q"} : g[k] # None}) + IF g.q THEN 1 ELSE 0

Narrow(g) ==
    /\ Selections(g) <= MaxSelections
    /\ f' = g
    /\ UNCHANGED <<models, entities, mfrs, edits>>

Search       == Narrow([f EXCEPT !.q = ~@])
Select(d, v) == Narrow([f EXCEPT ![d] = v])

-----------------------------------------------------------------------------
(* The edits: those that decide what is shown.                             *)

Edit == edits < MaxEdits /\ edits' = edits + 1 /\ UNCHANGED f

EditModel(m, r) == Edit /\ r # models[m] /\ models' = [models EXCEPT ![m] = r] /\ UNCHANGED <<entities, mfrs>>

EditEntity(e, r) == Edit /\ r # entities[e] /\ entities' = [entities EXCEPT ![e] = r] /\ UNCHANGED <<models, mfrs>>

EditMaker(x, r) == Edit /\ r # mfrs[x] /\ mfrs' = [mfrs EXCEPT ![x] = r] /\ UNCHANGED <<models, entities>>

Toggle(S, v) == IF v \in S THEN S \ {v} ELSE S \cup {v}

PatchModel(m) ==
    /\ models[m].live
    /\ \/ \E y \in Years \cup {None} : EditModel(m, [models[m] EXCEPT !.year = y])
       \/ \E v \in People : EditModel(m, [models[m] EXCEPT !.people = Toggle(@, v)])
       \/ \E v \in Generations \cup {None} : EditModel(m, [models[m] EXCEPT !.generation = v])
       \/ \E e \in Entities \cup {None} : EditModel(m, [models[m] EXCEPT !.entity = e])

\* Variants stay flat: a parent is no Variant, a Variant has no Variants.
SetVariantOf(m, p) ==
    /\ models[m].live
    /\ p # None => /\ p # m /\ models[p].live /\ models[p].variantOf = None
                   /\ \A v \in Models : models[v].variantOf # m
    /\ EditModel(m, [models[m] EXCEPT !.variantOf = p])

PatchEntity(e) ==
    /\ entities[e].live
    /\ \/ EditEntity(e, [entities[e] EXCEPT !.q = ~@])
       \/ \E x \in Manufacturers : EditEntity(e, [entities[e] EXCEPT !.manufacturer = x])
       \/ \E p \in Places : EditEntity(e, [entities[e] EXCEPT !.places = Toggle(@, p)])

PatchMaker(x) ==
    /\ mfrs[x].live
    /\ EditMaker(x, [mfrs[x] EXCEPT !.q = ~@]) \/ EditMaker(x, [mfrs[x] EXCEPT !.d = ~@])

\* A delete is blocked by what lives and refers to the record.
DeleteModel(m) ==
    /\ models[m].live
    /\ \A v \in Models : models[v].live => models[v].variantOf # m
    /\ EditModel(m, [models[m] EXCEPT !.live = FALSE])

DeleteEntity(e) ==
    /\ entities[e].live
    /\ \A m \in Models : models[m].live => models[m].entity # e
    /\ EditEntity(e, [entities[e] EXCEPT !.live = FALSE])

DeleteMaker(x) ==
    /\ mfrs[x].live /\ LiveEntities(x) = {}
    /\ EditMaker(x, [mfrs[x] EXCEPT !.live = FALSE])

\* A model is restored whatever became of its entity, an entity under a live
\* manufacturer only.
RestoreModel(m) == ~models[m].live /\ EditModel(m, [models[m] EXCEPT !.live = TRUE])

RestoreEntity(e) ==
    /\ ~entities[e].live /\ mfrs[entities[e].manufacturer].live
    /\ EditEntity(e, [entities[e] EXCEPT !.live = TRUE])

RestoreMaker(x) == ~mfrs[x].live /\ EditMaker(x, [mfrs[x] EXCEPT !.live = TRUE])

-----------------------------------------------------------------------------

Init ==
    /\ models = InitModels /\ entities = InitEntities
    /\ mfrs = [x \in Manufacturers |-> [live |-> TRUE, q |-> FALSE, d |-> TRUE]]
    /\ f = NoFilter
    /\ edits = 0

Next ==
    \/ Search
    \/ \E d \in DOMAIN Values : \E v \in Values[d] \cup {None} : Select(d, v)
    \/ \E d \in {"year_min", "year_max"} : \E y \in Years \cup {None} : Select(d, y)
    \/ \E m \in Models : \/ PatchModel(m) \/ DeleteModel(m) \/ RestoreModel(m)
                         \/ \E p \in Models \cup {None} : SetVariantOf(m, p)
    \/ \E e \in Entities : PatchEntity(e) \/ DeleteEntity(e) \/ RestoreEntity(e)
    \/ \E x \in Manufacturers : PatchMaker(x) \/ DeleteMaker(x) \/ RestoreMaker(x)

Spec == Init /\ [][Next]_vars

-----------------------------------------------------------------------------

TypeOK ==
    /\ models \in [Models -> ModelRow]
    /\ entities \in [Entities -> EntityRow]
    /\ mfrs \in [Manufacturers -> MakerRow]
    /\ f \in FilterRow
    /\ edits \in 0 .. MaxEdits

\* Every option's count is the number of manufacturers its click shows, and
\* what is pruned shows none: the counts find models and places from their own
\* side, the filter from the manufacturer's (count_distinct, hierarchy_rollup).
CountsMatchTheClick ==
    \A d \in DOMAIN Values : \A v \in Values[d] :
        Count(d, v) = Cardinality(filtered([f EXCEPT ![d] = v], None))

\* A selection that leaves nothing can still be undone (with_selected).
SelectionsStayListed == \A d \in DOMAIN Values : f[d] # None => f[d] \in facet_counts(d)

\* The slider reaches as far as there is something to find, and no further
\* (bounds against the span filter).
YearsReachTheEnds ==
    LET ids == filtered(f, "year")
        b == bounds(ids)
        Found(lo, hi) == \E x \in ids : SpanOverlaps(x, lo, hi)
    IN  IF b.min = None THEN ~\E y \in Years : Found(y, None)
        ELSE /\ Found(None, b.min) /\ Found(b.max, None)
             /\ \A y \in Years : (Found(None, y) => y >= b.min) /\ (Found(y, None) => y <= b.max)

\* A filter by years finds a manufacturer just when the span on its page
\* overlaps them, and its card counts the models of its page, unless a live
\* model hangs off a deleted entity.
SpanIsTheOneShown ==
    \A x \in filtered(NoFilter, None) : PageModels(x) = CountedModels(x) =>
        LET shown == model_year_bounds(PageModels(x))
        IN  \A lo, hi \in Years : lo <= hi =>
               (SpanOverlaps(x, lo, hi) <=> shown.first # None /\ shown.first <= hi /\ shown.last >= lo)

\* A place searched by its name finds what choosing it finds (_apply_q:
\* "agrees with the location facet counts").
PlacesSearchAsTheyFilter ==
    \A p \in Hits :
        filtered([NoFilter EXCEPT !.location = p], None) \subseteq filtered([NoFilter EXCEPT !.q = TRUE], None)

\* A name is found although no entity of its manufacturer lives, and the prompt
\* to create one shows only if nothing has the text, whatever else is chosen and
\* whatever a description says (_apply_q: "the global-guard trap", query_count).
FreeNamesAreFree ==
    LET found == filtered([NoFilter EXCEPT !.q = TRUE], None)
    IN  /\ \A x \in Manufacturers : mfrs[x].live /\ mfrs[x].q => x \in found
        /\ (f.q /\ query_count(f) = 0) => found = {}

\* The section shows every match or says that there are more, each once and
\* names before descriptions (tiered_search_rows).
SectionsAreComplete ==
    LET s == tiered_search_rows
        named == filtered([NoFilter EXCEPT !.q = TRUE], None)
        told == {x \in filtered(NoFilter, None) : mfrs[x].d}
    IN  /\ Cardinality(Range(s.rows)) = Len(s.rows)
        /\ s.has_more <=> Cardinality(named \cup told) > Limit
        /\ Len(s.rows) = IF s.has_more THEN Limit ELSE Cardinality(named \cup told)
        /\ \A i, j \in DOMAIN s.rows : s.rows[j] \in named /\ s.rows[i] \notin named => j < i
=============================================================================
