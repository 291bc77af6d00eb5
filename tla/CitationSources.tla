--------------------------- MODULE CitationSources ---------------------------
(***************************************************************************)
(* Minting citation sources on demand: the concurrent requests and patches *)
(* that cite a URL or a record.  Each looks for a source that covers what  *)
(* it cites before it inserts one; only the recognition rows and the       *)
(* identifiers have unique indexes to catch the second of two.             *)
(*                                                                         *)
(* What Recognition says of hosts is here one owner per site.  A           *)
(* transaction sees the commits of others as they happen, and an insert    *)
(* into a unique index waits for an uncommitted equal one.                 *)
(***************************************************************************)
EXTENDS Naturals, Sequences, FiniteSets

CONSTANTS
    URLs,          \* page URLs
    Sites,
    SiteOf,        \* the site each URL is a page of
    Records,       \* identifiers of the one scheme, or URLs of its records
    Workers,
    None,
    MaxRequests    \* bound: requests in a behaviour

\* A record is cited by its identifier, which is no URL of a page or a site.
SitesAssumption ==
    /\ SiteOf \in [URLs -> Sites]
    /\ Records \cap (URLs \cup Sites) = {} /\ None \notin URLs \cup Sites \cup Records
    /\ MaxRequests \in Nat

VARIABLES
    sources,    \* sequence of CitationSource rows; the index is the pk
    links,      \* CitationSourceLink: [source, url]
    domains,    \* CitationSourceRootDomain: site -> the root that owns it
    begun,
    work        \* the request each worker is handling

vars == <<sources, links, domains, begun, work>>

Max == 2 * MaxRequests + 1
Pks == 1 .. Max
SchemeRoot == 1

Kinds == {"cite", "patch", "page", "record"}

\* A row: root or child of a root, minted how and for what
Source == [parent : 0 .. Max, by : Kinds \cup {"seed"}, covers : URLs \cup Records \cup Sites \cup {None}]

Request == [pc : {"idle", "classify", "root", "again", "mint", "insert", "error"}, kind : Kinds,
            url : URLs \cup Records, archive : URLs \cup {None},
            parent : 0 .. Max, newRoot : BOOLEAN, solo : BOOLEAN]

Idle == [pc |-> "idle", kind |-> "cite", url |-> CHOOSE u \in URLs : TRUE, archive |-> None,
         parent |-> 0, newRoot |-> FALSE, solo |-> FALSE]

IsRoot(s) == sources[s].parent = 0

TypeOK ==
    /\ sources \in Seq(Source) /\ Len(sources) <= Max
    /\ \A s \in DOMAIN sources : IsRoot(s) \/ IsRoot(sources[s].parent)
    /\ links \subseteq [source : DOMAIN sources, url : URLs \cup Records \cup Sites]
    /\ DOMAIN domains \subseteq Sites /\ \A h \in DOMAIN domains : IsRoot(domains[h])
    /\ work \in [Workers -> Request]
    /\ begun \in 0 .. MaxRequests

\* The scheme's root is seeded
Init ==
    /\ sources = <<[parent |-> 0, by |-> "seed", covers |-> None]>>
    /\ links = {}
    /\ domains = [h \in {} |-> 0]
    /\ begun = 0
    /\ work = [w \in Workers |-> Idle]

-----------------------------------------------------------------------------
Goto(w, r) == work' = [work EXCEPT ![w] = r]

Begin(w, r) ==
    LET alone == \A v \in Workers \ {w} : work[v].pc = "idle"
    IN  /\ work[w].pc = "idle" /\ begun < MaxRequests
        /\ begun' = begun + 1
        /\ work' = [v \in Workers |-> IF v = w THEN [r EXCEPT !.solo = alone]
                                      ELSE [work[v] EXCEPT !.solo = FALSE]]
        /\ UNCHANGED <<sources, links, domains>>

Step(w, r) == Goto(w, r) /\ UNCHANGED <<sources, links, domains, begun>>

\* A refusal, an error response, or a lost worker: everything rolls back
Fail(w) == work[w].pc # "idle" /\ Step(w, Idle)

BeginCite(w, u) == Begin(w, [Idle EXCEPT !.pc = "classify", !.url = u])
BeginPatch(w, u, a) ==
    u # a /\ Begin(w, [Idle EXCEPT !.pc = "classify", !.kind = "patch", !.url = u, !.archive = a])
BeginPage(w, p, u) == Begin(w, [Idle EXCEPT !.pc = "classify", !.kind = "page", !.url = u, !.parent = p])
BeginRecord(w, i) == Begin(w, [Idle EXCEPT !.pc = "classify", !.kind = "record", !.url = i])

-----------------------------------------------------------------------------
\* _recognize_by_child_link
ChildLinks(u) == {l \in links : l.url = u /\ ~IsRoot(l.source)}

Append2(rows, link) == sources' = sources \o rows /\ links' = links \cup link

Child(r, parent) == [parent |-> parent, by |-> r.kind, covers |-> r.url]

\* get_or_create_web_source: the snapshot rides on the page as a second link
Snapshot(r, s) == IF r.archive = None THEN {} ELSE {[source |-> s, url |-> r.archive]}

\* cite_url and get_or_create_web_source: classify_url, then a page that covers
\* the URL is reused, a known site gets the page, and only cite_url founds one
Classify(w) ==
    LET r == work[w]
    IN  /\ r.pc = "classify" /\ r.kind \in {"cite", "patch"}
        /\ \/ r.url \in Records /\ Step(w, Idle)
           \/ \E l \in ChildLinks(r.url) :
                 /\ r.url \notin Records
                 /\ links' = links \cup Snapshot(r, l.source)
                 /\ Goto(w, Idle)
                 /\ UNCHANGED <<sources, domains, begun>>
           \/ /\ r.url \in URLs /\ ChildLinks(r.url) = {}
              /\ IF SiteOf[r.url] \in DOMAIN domains
                 THEN Step(w, [r EXCEPT !.pc = "mint", !.parent = domains[SiteOf[r.url]]])
                 ELSE Step(w, IF r.kind = "cite" THEN [r EXCEPT !.pc = "root"] ELSE Idle)

\* CitationSource.clean: a web page nests one level deep
ValidParent(p) == IsRoot(p)

\* create_citation_source_page: the parent is given, the URL only checked
ClassifyPage(w) ==
    LET r == work[w]
    IN  /\ r.pc = "classify" /\ r.kind = "page"
        /\ Step(w, IF r.url \in URLs /\ ValidParent(r.parent) THEN [r EXCEPT !.pc = "mint"] ELSE Idle)

\* An uncommitted root of the same site
Founding(w, h) == \E v \in Workers \ {w} : work[v].newRoot /\ SiteOf[work[v].url] = h

\* The savepoint takes the root and its homepage link with it
AfterCollision(r) == [r EXCEPT !.pc = "again"]

\* _create_root_and_child: root, homepage and row in a savepoint; the row's
\* unique index decides
InsertRoot(w) ==
    LET r == work[w]
    IN  /\ r.pc = "root"
        /\ ~Founding(w, SiteOf[r.url])
        /\ Step(w, IF SiteOf[r.url] \in DOMAIN domains THEN AfterCollision(r)
                   ELSE [r EXCEPT !.pc = "mint", !.newRoot = TRUE])

\* recognize_url reads what is committed by now
SeenAgain(w) == LET h == SiteOf[work[w].url] IN IF h \in DOMAIN domains THEN {domains[h]} ELSE {}

\* The loser nests its page under the winner's root
Again(w) ==
    LET r == work[w]
    IN  /\ r.pc = "again"
        /\ \/ \E p \in SeenAgain(w) : Step(w, [r EXCEPT !.pc = "mint", !.parent = p])
           \/ SeenAgain(w) = {} /\ Step(w, [r EXCEPT !.pc = "error"])

\* create_web_child, and the commit of the request
MintPage(w) ==
    LET r == work[w]
        root == Len(sources) + 1
        owned == r.newRoot /\ r.parent = 0
        page == Len(sources) + IF r.newRoot THEN 2 ELSE 1
        roots == IF r.newRoot THEN <<[parent |-> 0, by |-> "cite", covers |-> SiteOf[r.url]]>> ELSE <<>>
    IN  /\ r.pc = "mint"
        /\ Append2(roots \o <<Child(r, IF owned THEN root ELSE r.parent)>>,
                   {[source |-> page, url |-> r.url]} \cup Snapshot(r, page)
                   \cup (IF r.newRoot THEN {[source |-> root, url |-> SiteOf[r.url]]} ELSE {}))
        /\ domains' = IF owned
                      THEN [h \in DOMAIN domains \cup {SiteOf[r.url]} |->
                              IF h = SiteOf[r.url] THEN root ELSE domains[h]]
                      ELSE domains
        /\ Goto(w, Idle)
        /\ UNCHANGED begun

-----------------------------------------------------------------------------
\* The scheme's child with this identifier
Known(i) == {s \in DOMAIN sources : sources[s].parent = SchemeRoot /\ sources[s].by = "record" /\ sources[s].covers = i}

\* get_or_create_scheme_child: a known record is reused, without a new link
FindRecord(w) ==
    LET r == work[w]
    IN  /\ r.pc = "classify" /\ r.kind = "record"
        /\ Step(w, IF Known(r.url) # {} THEN Idle ELSE [r EXCEPT !.pc = "insert"])

\* citation_citationsource_unique_child_identifier
TakenRecord(i) == Known(i) # {}

\* ... else inserted; whoever comes second gets the first one's row.  The
\* commit comes with the insert: nothing else is read in between
InsertRecord(w) ==
    LET r == work[w]
    IN  /\ r.pc = "insert"
        /\ IF TakenRecord(r.url) THEN Step(w, Idle)
           ELSE /\ Append2(<<Child(r, SchemeRoot)>>, {[source |-> Len(sources) + 1, url |-> r.url]})
                /\ Goto(w, Idle)
                /\ UNCHANGED <<domains, begun>>

\* create_citation_source_link: a curator links another URL to a source
AddLink(w, s, u) ==
    /\ work[w].pc = "idle" /\ begun < MaxRequests /\ begun' = begun + 1
    /\ [source |-> s, url |-> u] \notin links
    /\ links' = links \cup {[source |-> s, url |-> u]}
    /\ work' = [v \in Workers |-> [work[v] EXCEPT !.solo = FALSE]]
    /\ UNCHANGED <<sources, domains>>

Next ==
    \E w \in Workers :
        \/ \E u \in URLs \cup Records : BeginCite(w, u)
        \/ \E u \in URLs, a \in URLs \cup {None} : BeginPatch(w, u, a)
        \/ \E s \in DOMAIN sources, u \in URLs : BeginPage(w, s, u) \/ AddLink(w, s, u)
        \/ \E i \in Records : BeginRecord(w, i)
        \/ Classify(w) \/ ClassifyPage(w) \/ InsertRoot(w) \/ Again(w) \/ MintPage(w)
        \/ FindRecord(w) \/ InsertRecord(w)
        \/ Fail(w)

Spec == Init /\ [][Next]_vars

-----------------------------------------------------------------------------
Cited == {s \in DOMAIN sources : sources[s].by \in {"cite", "patch"} /\ ~IsRoot(s)}

\* Every cited page sits under the root that owns its site, and every root a
\* cite founded owns its site and has a page, whoever lost the race to found it
\* (_create_root_and_child).
PagesUnderTheirSite ==
    /\ \A s \in Cited : LET h == SiteOf[sources[s].covers]
                        IN  h \in DOMAIN domains /\ domains[h] = sources[s].parent
    /\ \A s \in DOMAIN sources :
          IsRoot(s) /\ sources[s].by = "cite" =>
             /\ \E h \in DOMAIN domains : domains[h] = s
             /\ \E c \in Cited : sources[c].parent = s

\* A record has one source, and its canonical link is made once
\* (get_or_create_scheme_child).
OneSourcePerRecord ==
    \A i \in Records : Cardinality({l \in links : l.url = i}) <= 1

\* Losing the race to found a site is not an error (_create_root_and_child).
LosersNest == \A w \in Workers : work[w].pc # "error"

\* A cite that no other request overlaps never mints a page for a URL that a
\* page covers already, also when a curator or a snapshot made the link
\* (get_or_create_web_source: "a re-applied patch never duplicates").
SoloCitesReuse ==
    [][\A w \in Workers :
          work[w].solo /\ work[w].kind \in {"cite", "patch"} /\ Len(sources') > Len(sources)
          /\ work'[w] # work[w]
             => ~\E l \in links : l.url = work[w].url /\ sources[l.source].parent # 0]_vars

\* A URL is cited through one page (cite_url: "identified (exact child) ->
\* reuse it"; get_or_create_web_source: "Idempotent by exact URL").
OnePagePerUrl ==
    \A s, t \in Cited : sources[s].covers = sources[t].covers => s = t
=============================================================================
