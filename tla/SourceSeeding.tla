---------------------------- MODULE SourceSeeding ----------------------------
(***************************************************************************)
(* The sources: block of a data patch: sites, works and periodicals with   *)
(* their issues, created when they are missing and otherwise added to.     *)
(* The block is checked when the batch is read and applied later, in one   *)
(* transaction, after users may have created or renamed what it names.     *)
(***************************************************************************)
EXTENDS Naturals, Sequences, FiniteSets

CONSTANTS
    Blocks,       \* the blocks: sequences of nodes
    Names, Types,
    Addressed,    \* slug-addressed types
    Authored,     \* types whose roots users create
    Web,          \* the type of sites, which have no authored children
    Isbns, Slugs, Hosts, URLs,
    None,
    MaxEdits,     \* bound: what users do
    MaxPatches    \* bound: blocks read

\* A node: [name, type, isbn, slug, parent, links, hosts], parent a root's slug.
\* A row has a parent pk instead, 0 for a root.
Row == [parent : Nat, name : Names, type : Types, isbn : Isbns \cup {None}, slug : Slugs \cup {None}]

VARIABLES
    db,         \* [src: rows, links: {[source, url]}, owner: host -> pk]
    planned,    \* the block that was read, or None
    applied,    \* the block applied last, or None
    failed,     \* the last apply raised
    edits, patches

vars == <<db, planned, applied, failed, edits, patches>>

Pks == DOMAIN db.src

-----------------------------------------------------------------------------
Roots(s) == {p \in DOMAIN s.src : s.src[p].parent = 0}

First(S) == IF S = {} THEN 0 ELSE CHOOSE p \in S : \A q \in S : p <= q

\* The unique constraints of CitationSource
RowUnique(s, p, r) ==
    \A q \in DOMAIN s.src \ {p} :
        /\ r.isbn # None => s.src[q].isbn # r.isbn
        /\ r.slug # None /\ s.src[q].parent = r.parent => s.src[q].slug # r.slug

\* CitationSource.clean and the constraints on slugs
RowClean(s, r) ==
    /\ r.slug # None <=> r.type \in Addressed
    /\ r.parent # 0 /\ r.type \in Addressed =>
          s.src[r.parent].parent = 0 /\ s.src[r.parent].type = r.type

Valid(s, p, r) == RowUnique(s, p, r) /\ RowClean(s, r)

RowOf(n, parent) ==
    [parent |-> parent, name |-> n.name, type |-> n.type, isbn |-> n.isbn, slug |-> n.slug]

Raise(s) == [s EXCEPT !.failed = TRUE]

\* _ensure_links, and the links of a new row: the missing ones
Link(s, p, n) == [s EXCEPT !.links = @ \cup {[source |-> p, url |-> u] : u \in n.links}]

\* The slices that no source owns yet
Own(s, p, hosts) ==
    [s EXCEPT !.owner = [h \in DOMAIN s.owner \cup hosts |->
                           IF h \in DOMAIN s.owner THEN s.owner[h] ELSE p]]

\* _ensure_root_domains: full_clean rejects a row on a child
EnsureDomains(s, p, n) ==
    IF n.hosts \subseteq DOMAIN s.owner THEN s
    ELSE IF s.src[p].parent # 0 THEN Raise(s)
    ELSE Own(s, p, n.hosts)

\* _create_source: full_clean rejects a taken ISBN or slug
Create(s, n, parent) ==
    LET r == RowOf(n, parent)
        p == Len(s.src) + 1
        t == [s EXCEPT !.src = Append(@, r)]
    IN  IF ~Valid(s, 0, r) THEN Raise(s)
        ELSE IF parent = 0 THEN EnsureDomains(Link(t, p, n), p, n) ELSE Link(t, p, n)

Found(s, p, n) == EnsureDomains(Link(s, p, n), p, n)

\* _roots_owning_hosts
HostRoots(s, n) == {s.owner[h] : h \in n.hosts \cap DOMAIN s.owner} \cap Roots(s)

\* Mutant: only roots are looked at
LookupRoots(s, n) ==
    IF n.isbn # None THEN First({p \in Roots(s) : s.src[p].isbn = n.isbn})
    ELSE First({p \in Roots(s) : s.src[p].name = n.name /\ s.src[p].type = n.type})

\* _lookup_source: by ISBN wherever it is, else by name and type among roots
Lookup(s, n) ==
    IF n.isbn # None THEN First({p \in DOMAIN s.src : s.src[p].isbn = n.isbn})
    ELSE First({p \in Roots(s) : s.src[p].name = n.name /\ s.src[p].type = n.type})

\* _ensure_plain_root: host before ISBN before name; a node whose slices are
\* owned by two roots is skipped whole
EnsurePlain(s, n) ==
    LET owners == HostRoots(s, n)
        p == IF owners # {} THEN First(owners) ELSE Lookup(s, n)
    IN  IF Cardinality(owners) > 1 THEN s
        ELSE IF p = 0 THEN Create(s, n, 0) ELSE Found(s, p, n)

SlugClash(s, n) == \E p \in Roots(s) : s.src[p].slug = n.slug

\* _ensure_slug_root: the slug is the identity; another type's slug skips
EnsureSlugRoot(s, n) ==
    LET p == First({q \in Roots(s) : s.src[q].slug = n.slug /\ s.src[q].type = n.type})
    IN  IF p # 0 THEN Found(s, p, n)
        ELSE IF SlugClash(s, n) THEN s ELSE Create(s, n, 0)

\* _ensure_slug_child: under the root that has the parent slug, else skipped
EnsureSlugChild(s, n) ==
    LET parent == First({q \in Roots(s) : s.src[q].slug = n.parent /\ s.src[q].type = n.type})
        p == First({q \in DOMAIN s.src : s.src[q].parent = parent /\ s.src[q].slug = n.slug})
    IN  IF parent = 0 THEN s
        ELSE IF p # 0 THEN Link(s, p, n) ELSE Create(s, n, parent)

\* ensure_source; a node that raised ends the transaction
Ensure(s, n) ==
    IF s.failed THEN s
    ELSE IF n.parent # None THEN EnsureSlugChild(s, n)
    ELSE IF n.slug # None THEN EnsureSlugRoot(s, n) ELSE EnsurePlain(s, n)

\* _plan_citation_sources puts the parentless nodes first: the nodes of a block
\* with a parent, or those without, in its order
Pass(start, block, nested) ==
    LET after[n \in 0 .. Len(block)] ==
          IF n = 0 THEN start
          ELSE IF (block[n].parent # None) = nested THEN Ensure(after[n - 1], block[n]) ELSE after[n - 1]
    IN  after[Len(block)]

\* _make_sources_hook
EnsureAll(d, block) ==
    LET start == [src |-> d.src, links |-> d.links, owner |-> d.owner, failed |-> FALSE]
    IN  Pass(Pass(start, block, FALSE), block, TRUE)

\* _plan_citation_sources and validate_source_node: one type for each root slug
\* of the block, parents that are there or declared, slugs of no other type
Readable(block) ==
    /\ \A i, j \in DOMAIN block : LET m == block[i]  n == block[j] IN
          m.parent = None /\ n.parent = None /\ m.slug = n.slug /\ m.slug # None => m.type = n.type
    /\ \A i \in DOMAIN block : LET n == block[i] IN
          n.slug # None =>
            IF n.parent # None
            THEN \/ \E j \in DOMAIN block : block[j].parent = None /\ block[j].slug = n.parent /\ block[j].type = n.type
                 \/ \E p \in Roots(db) : db.src[p].slug = n.parent /\ db.src[p].type = n.type
            ELSE \A p \in Roots(db) : db.src[p].slug = n.slug => db.src[p].type = n.type

-----------------------------------------------------------------------------
Init ==
    /\ db = [src |-> <<>>, links |-> {}, owner |-> [h \in {} |-> 0]]
    /\ planned = None /\ applied = None /\ failed = FALSE
    /\ edits = 0 /\ patches = 0

Read(b) ==
    /\ planned = None /\ Readable(b)
    /\ patches < MaxPatches /\ patches' = patches + 1
    /\ planned' = b
    /\ UNCHANGED <<db, applied, failed, edits>>

\* A raise rolls the patch back; the queue stops on it
Apply ==
    LET s == EnsureAll(db, planned)
    IN  /\ planned # None
        /\ planned' = None
        /\ failed' = s.failed
        /\ applied' = IF s.failed THEN None ELSE planned
        /\ db' = IF s.failed THEN db ELSE [src |-> s.src, links |-> s.links, owner |-> s.owner]
        /\ UNCHANGED <<edits, patches>>

Edit(d) ==
    /\ edits < MaxEdits /\ edits' = edits + 1
    /\ db' = d /\ applied' = None
    /\ UNCHANGED <<planned, failed, patches>>

\* create_citation_source: an authored root, or a child of its own type
CreateSource(r) ==
    /\ edits < MaxEdits
    /\ IF r.parent = 0 THEN r.type \in Authored
       ELSE r.type # Web /\ db.src[r.parent].type = r.type
    /\ Valid(db, 0, r)
    /\ Edit([db EXCEPT !.src = Append(@, r)])

\* update_citation_source: name, ISBN and slug may change
UpdateSource(p, name, isbn, slug) ==
    LET r == [db.src[p] EXCEPT !.name = name, !.isbn = isbn, !.slug = slug] IN
    /\ edits < MaxEdits /\ r # db.src[p]
    /\ Valid(db, p, r)
    /\ Edit([db EXCEPT !.src[p] = r])

\* cite_url founds a site: a root named by the user, and its host
FoundSite(name, h) ==
    /\ h \notin DOMAIN db.owner
    /\ LET p == Len(db.src) + 1
       IN  Edit([src |-> Append(db.src, [parent |-> 0, name |-> name, type |-> Web, isbn |-> None, slug |-> None]),
                 links |-> db.links,
                 owner |-> [g \in DOMAIN db.owner \cup {h} |-> IF g = h THEN p ELSE db.owner[g]]])

Next ==
    \/ \E b \in Blocks : Read(b)
    \/ Apply
    \/ \E name \in Names, isbn \in Isbns \cup {None}, slug \in Slugs \cup {None} :
          \/ \E parent \in 0 .. Len(db.src), type \in Types :
                CreateSource([parent |-> parent, name |-> name, type |-> type, isbn |-> isbn, slug |-> slug])
          \/ \E p \in Pks : UpdateSource(p, name, isbn, slug)
    \/ \E name \in Names, h \in Hosts : FoundSite(name, h)

Spec == Init /\ [][Next]_vars

-----------------------------------------------------------------------------
TypeOK ==
    /\ \A p \in Pks : db.src[p] \in Row /\ db.src[p].parent < p
    /\ \A p, q \in Pks : p # q =>
          /\ \A i \in Isbns : {db.src[p].isbn, db.src[q].isbn} # {i}
          /\ db.src[p].parent = db.src[q].parent =>
                \A u \in Slugs : {db.src[p].slug, db.src[q].slug} # {u}
    /\ db.links \subseteq [source : Pks, url : URLs]
    /\ DOMAIN db.owner \subseteq Hosts /\ \A h \in DOMAIN db.owner : db.owner[h] \in Roots(db)
    /\ planned \in Blocks \cup {None} /\ applied \in Blocks \cup {None}
    /\ failed \in BOOLEAN /\ edits \in 0 .. MaxEdits /\ patches \in 0 .. MaxPatches

\* A patch only adds: no row, link or slice that was there is changed
\* (ensure_source: "Never overwrites").
OnlyAdds ==
    [][planned # None /\ planned' = None =>
          /\ \A p \in Pks : p \in Pks' /\ db'.src[p] = db.src[p]
          /\ db.links \subseteq db'.links
          /\ \A h \in DOMAIN db.owner : h \in DOMAIN db'.owner /\ db'.owner[h] = db.owner[h]]_vars

\* Applied again, a block finds all it made and changes nothing: no node is
\* split over two rows, whatever the rows were before (_ensure_plain_root).
ApplyingTwiceIsOnce ==
    applied # None =>
        LET s == EnsureAll(db, applied)
        IN  ~s.failed /\ db = [src |-> s.src, links |-> s.links, owner |-> s.owner]

\* After a block is applied each of its hosts is recognised and each of its
\* children can be cited, unless two roots, or another type's slug, stand in
\* the way (_ensure_root_domains, get_slug_source).
DeclaredIsThere ==
    applied # None =>
        \A i \in DOMAIN applied : LET n == applied[i] IN
            /\ \/ n.hosts \subseteq DOMAIN db.owner
               \/ Cardinality({db.owner[h] : h \in n.hosts \cap DOMAIN db.owner}) > 1
               \/ \E p \in Roots(db) : n.slug # None /\ db.src[p].slug = n.slug /\ db.src[p].type # n.type
            /\ \A p \in Roots(db) :
                  n.parent # None /\ db.src[p].slug = n.parent /\ db.src[p].type = n.type =>
                     \E q \in Pks : /\ db.src[q].parent = p /\ db.src[q].slug = n.slug
                                    /\ \A u \in n.links : [source |-> q, url |-> u] \in db.links

\* Whatever users created or renamed since the block was read, applying it does
\* not fail: "a user-created source can't wedge the ingest queue".
NeverWedged == ~failed
=============================================================================
