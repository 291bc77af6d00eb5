----------------------------- MODULE Locations -----------------------------
(***************************************************************************)
(* The geography: locations in a tree, each known by a path composed once, *)
(* when it is created, from its parent's path and its slug.  The parent    *)
(* itself stays a claim.  Pages read the tree by parents and count the     *)
(* manufacturers at or below a location; the sitemap decides by paths who  *)
(* has a page, and a create reads the type of the new child off the        *)
(* country's divisions.                                                    *)
(*                                                                         *)
(* A path is a sequence of characters.  Corporate entities stand at        *)
(* locations for their manufacturer.  Requests are atomic here: the races  *)
(* of a delete with a create are in LifecycleRequests, names in            *)
(* LifecycleRequests and Lifecycle, the cached tree in ResponseCache.      *)
(***************************************************************************)
EXTENDS Integers, Sequences, FiniteSets, SequencesExt

CONSTANTS Slugs,          \* sequences of characters, with no slash
          Divisions,      \* the lists of division labels a country may get
          Entities, Manufacturers,
          MaxRows, MaxDepth, MaxEdits,
          FaultSets       \* sets of "undo", "revert", and what patches may do:
                          \* "stray" and "orphan" edits of what is deleted

Chars == {"/"} \cup UNION {ToSet(s) : s \in Slugs}
Types == {"country"} \cup UNION {ToSet(d) : d \in Divisions}

LocationsAssumption ==
    /\ \A s \in Slugs : s \in Seq(Chars) /\ s # <<>> /\ \A n \in DOMAIN s : s[n] # "/"
    /\ \A d \in Divisions : d \in Seq(Types)
    /\ MaxDepth \in Nat /\ MaxEdits \in Nat

VARIABLES
    rows,       \* path -> [parent, slug, type, divs, live, undo, byUser]
    entity,     \* corporate entity -> [mfr, at, live]
    mfrLive,    \* manufacturer -> BOOLEAN
    edits,
    faults      \* what happens here besides the location pages

vars == <<rows, entity, mfrLive, edits, faults>>

Paths == DOMAIN rows
Root == <<>>            \* no parent
Live(p) == p \in Paths /\ rows[p].live
Depth(p) == Cardinality({n \in DOMAIN p : p[n] = "/"})

-----------------------------------------------------------------------------
(* compose_public_id.                                                      *)
Compose(parent, slug) == IF parent = Root THEN slug ELSE parent \o <<"/">> \o slug

(* p and the rows above it by their parents, deleted ones too.             *)
Chain(p) ==
    CHOOSE s \in UNION {[1 .. n -> Paths] : n \in 1 .. MaxDepth} :
        /\ s[1] = p /\ rows[Last(s)].parent = Root
        /\ \A n \in 1 .. Len(s) - 1 : s[n + 1] = rows[s[n]].parent

(* lookup_child_division.                                                  *)
Division(divs, depth) == IF depth >= Len(divs) THEN "" ELSE divs[depth + 1]

(* derive_child_location_type; no label refuses the create.                *)
Derived(p) == Division(rows[Last(Chain(p))].divs, Depth(p))

-----------------------------------------------------------------------------
(* The tree the pages are built from: live rows, keyed by their parents.   *)
Nodes == {p \in Paths : rows[p].live}

(* A manufacturer counts at the entity's location and at all above it.     *)
ManufacturersAt(p) ==
    {entity[e].mfr : e \in {x \in Entities : entity[x].live /\ \E q \in entity[x].at : p \in ToSet(Chain(q))}}

Children(p) == {q \in Nodes : rows[q].parent = p}

(* _ancestors_of, p included: up to the first parent that is no node.      *)
Ancestors(p) ==
    LET up == Chain(p)
        nodes == {n \in DOMAIN up : \A m \in 1 .. n : up[m] \in Nodes}
    IN  SubSeq(up, 1, Cardinality(nodes))

Expected(p) == Division(rows[Last(Ancestors(p))].divs, Depth(p))

(* _get_manufacturers_for_pks.                                             *)
Listed(p) == {m \in ManufacturersAt(p) : mfrLive[m]}

Below(q, p) == q = p \/ IsPrefix(p \o <<"/">>, q)

(* sitemap_queryset.                                                       *)
Sitemap == {p \in Nodes : \E e \in Entities : entity[e].live /\ \E q \in entity[e].at : Below(q, p)}

-----------------------------------------------------------------------------
Init ==
    /\ rows = << >>
    /\ \E m \in Manufacturers : entity = [e \in Entities |-> [mfr |-> m, at |-> {}, live |-> TRUE]]
    /\ mfrLive = [m \in Manufacturers |-> TRUE]
    /\ edits = 0
    /\ faults \in FaultSets

(* The unique constraints, per parent and at the root; deleted rows count. *)
SlugFree(parent, slug) == \A q \in Paths : rows[q].parent = parent => rows[q].slug # slug

Insert(parent, slug, type, divs, byUser) ==
    /\ Cardinality(Paths) < MaxRows /\ Depth(Compose(parent, slug)) < MaxDepth
    /\ Compose(parent, slug) \notin Paths /\ SlugFree(parent, slug)
    /\ rows' = [p \in Paths \cup {Compose(parent, slug)} |->
                   IF p \in Paths THEN rows[p]
                   ELSE [parent |-> parent, slug |-> slug, type |-> type, divs |-> divs,
                         live |-> TRUE, undo |-> FALSE, byUser |-> byUser]]
    /\ UNCHANGED <<entity, mfrLive, edits>>

CreateCountry == \E s \in Slugs, d \in Divisions : d # <<>> /\ Insert(Root, s, "country", d, TRUE)

CreateChild ==
    \E p \in Nodes, s \in Slugs :
        Derived(p) # "" /\ Insert(p, s, Derived(p), <<>>, TRUE)

(* A patch writes the type itself, and its parent need only exist.         *)
PatchCreates ==
    \E p \in Paths, s \in Slugs, d \in Divisions :
        /\ Live(p) \/ "orphan" \in faults
        /\ d # <<>> /\ Insert(p, s, d[1], <<>>, FALSE)

Edit == edits < MaxEdits /\ edits' = edits + 1

(* patch_location_claims: divisions are a country's.                       *)
EditDivisions ==
    /\ Edit
    /\ \E p \in Nodes, d \in Divisions :
          /\ rows[p].type = "country" /\ d \notin {<<>>, rows[p].divs}
          /\ rows' = [rows EXCEPT ![p].divs = d]
    /\ UNCHANGED <<entity, mfrLive>>

(* Active children, and active entities at the location, block.            *)
Deletable(p) == Children(p) = {} /\ \A e \in Entities : entity[e].live => p \notin entity[e].at

Delete ==
    /\ Edit
    /\ \E p \in Nodes : Deletable(p) /\ rows' = [rows EXCEPT ![p].live = FALSE, ![p].undo = TRUE]
    /\ UNCHANGED <<entity, mfrLive>>

Restore ==
    /\ Edit
    /\ \E p \in Paths \ Nodes :
          /\ rows[p].parent = Root \/ Live(rows[p].parent)
          /\ rows' = [rows EXCEPT ![p].live = TRUE, ![p].undo = FALSE]
    /\ UNCHANGED <<entity, mfrLive>>

(* execute_undo_changeset, of a delete that is still the last word.        *)
Undo ==
    /\ "undo" \in faults /\ Edit
    /\ \E p \in Paths \ Nodes : rows[p].undo /\ rows' = [rows EXCEPT ![p].live = TRUE, ![p].undo = FALSE]
    /\ UNCHANGED <<entity, mfrLive>>

(* execute_revert of the parent a user's create claimed.                   *)
RevertParent ==
    /\ "revert" \in faults /\ Edit
    /\ \E p \in Nodes :
          /\ rows[p].byUser /\ rows[p].parent # Root /\ SlugFree(Root, rows[p].slug)
          /\ rows' = [rows EXCEPT ![p].parent = Root]
    /\ UNCHANGED <<entity, mfrLive>>

(* Entities are placed by patches; a target need only exist.               *)
Place ==
    /\ Edit
    /\ \E e \in Entities, p \in Paths :
          /\ entity[e].live /\ p \notin entity[e].at /\ (Live(p) \/ "stray" \in faults)
          /\ entity' = [entity EXCEPT ![e].at = @ \cup {p}]
    /\ UNCHANGED <<rows, mfrLive>>

Leave ==
    /\ Edit
    /\ \E e \in Entities : \E p \in entity[e].at : entity' = [entity EXCEPT ![e].at = @ \ {p}]
    /\ UNCHANGED <<rows, mfrLive>>

Reassign ==
    /\ Edit
    /\ \E e \in Entities, m \in Manufacturers :
          /\ entity[e].live /\ entity[e].mfr # m /\ (mfrLive[m] \/ "stray" \in faults)
          /\ entity' = [entity EXCEPT ![e].mfr = m]
    /\ UNCHANGED <<rows, mfrLive>>

DeleteEntity ==
    /\ Edit
    /\ \E e \in Entities : entity[e].live /\ entity' = [entity EXCEPT ![e].live = FALSE]
    /\ UNCHANGED <<rows, mfrLive>>

Restorable(e) == mfrLive[entity[e].mfr]

(* The places of a restored entity were kept, and may be deleted by now.   *)
RestoreEntity ==
    /\ Edit
    /\ \E e \in Entities : ~entity[e].live /\ Restorable(e) /\ entity' = [entity EXCEPT ![e].live = TRUE]
    /\ UNCHANGED <<rows, mfrLive>>

DeleteManufacturer ==
    /\ Edit
    /\ \E m \in Manufacturers :
          /\ mfrLive[m] /\ \A e \in Entities : entity[e].live => entity[e].mfr # m
          /\ mfrLive' = [mfrLive EXCEPT ![m] = FALSE]
    /\ UNCHANGED <<rows, entity>>

Next ==
    /\ \/ CreateCountry \/ CreateChild \/ PatchCreates \/ EditDivisions
       \/ Delete \/ Restore \/ Undo \/ RevertParent
       \/ Place \/ Leave \/ Reassign \/ DeleteEntity \/ RestoreEntity \/ DeleteManufacturer
    /\ UNCHANGED faults

Spec == Init /\ [][Next]_vars

-----------------------------------------------------------------------------
(* "the create routes, the read serializer ... all agree on one rule":     *)
(* the label a page offers for a new child is the type it would get, and   *)
(* no label where the create would be refused.                             *)
OfferedTypeIsGiven == \A p \in Nodes : Expected(p) = Derived(p)

(* A live location is found by browsing down from the countries.           *)
NoLocationIsLost ==
    \A p \in Nodes : rows[p].parent = Root \/ rows[p].parent \in Nodes

(* A location is in the sitemap exactly when its page's grid of            *)
(* manufacturers is not empty: a zero-manufacturer location renders an     *)
(* empty page.                                                             *)
SitemapHasNoEmptyPage == \A p \in Nodes : p \in Sitemap <=> Listed(p) # {}

(* The number next to a location's name is the length of its list.         *)
CountsAreListed == \A p \in Nodes : ManufacturersAt(p) = Listed(p)

(* "location_path encodes the full ancestry", until the parent is         *)
(* reverted.                                                               *)
PathIsAncestry == \A p \in Paths : p = Compose(rows[p].parent, rows[p].slug)

(* What of these holds, whatever edits besides the pages there are.  An    *)
(* undo or a patch can leave a live location under a deleted parent; a     *)
(* patch can leave an entity with a deleted manufacturer.                  *)
LocationsAreFound ==
    /\ faults \cap {"undo", "orphan"} = {} => OfferedTypeIsGiven /\ NoLocationIsLost
    /\ faults \cap {"revert", "stray"} = {} => SitemapHasNoEmptyPage
    /\ "stray" \notin faults => CountsAreListed
    /\ "revert" \notin faults => PathIsAncestry

Path == Seq(Chars) \ {Root}

TypeOK ==
    /\ Paths \subseteq Path
    /\ rows \in [Paths -> [parent : Paths \cup {Root}, slug : Slugs, type : Types, divs : Seq(Types),
                           live : BOOLEAN, undo : BOOLEAN, byUser : BOOLEAN]]
    /\ \A p \in Paths : rows[p].undo => ~rows[p].live
    /\ entity \in [Entities -> [mfr : Manufacturers, at : SUBSET Paths, live : BOOLEAN]]
    /\ mfrLive \in [Manufacturers -> BOOLEAN]
    /\ edits \in 0 .. MaxEdits /\ faults \in FaultSets
=============================================================================
