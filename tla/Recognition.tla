----------------------------- MODULE Recognition -----------------------------
(***************************************************************************)
(* Which site a pasted URL belongs to.  Roots own recognition rows: a host *)
(* and, on a host that many publishers share, a path prefix.  A URL goes   *)
(* to the most specific row above it; a URL no row is above may found a    *)
(* site of its own, rooted at its registrable domain.                      *)
(*                                                                         *)
(* A host is the tuple of its labels, a path the tuple of its segments.    *)
(***************************************************************************)
EXTENDS Naturals, FiniteSets, SequencesExt

CONSTANTS
    Sources,         \* root sources
    URLs,            \* pasted URLs, [host, path]; <<>> is a missing host
    Declared,        \* the [host, prefix] a curator may declare
    Bypassed,        \* the [host, prefix] that got in past validation
    SharedHosts,     \* SHARED_HOSTS: many publishers, told apart by the path
    DelivererHosts,  \* DELIVERERS: copies of works kept elsewhere
    PublicSuffixes,  \* the snapshot of the public suffix list
    BadLabels,       \* labels no DNS name has
    NumericLabels,
    ReservedTlds,
    MaxRecords,      \* bound: rows and pages
    DotSegments      \* segments that traverse, however they are spelled

\* _validate_and_index of both tables: no declared host nests under another
HostsAssumption ==
    \A T \in {SharedHosts, DelivererHosts} : \A g, h \in T : ~IsStrictSuffix(g, h)

VARIABLES
    rows,      \* CitationSourceRootDomain: [source, host, prefix]
    minted     \* the web pages minted: [url, source]

vars == <<rows, minted>>

-----------------------------------------------------------------------------
\* normalize_host: leading "www" labels go while something follows them
NormalizeHost(h) ==
    LET www == {n \in 0 .. Len(h) - 1 : \A i \in 1 .. n : h[i] = "www"}
    IN  IF h = <<>> THEN h ELSE SubSeq(h, Max(www) + 1, Len(h))

\* hosts.py:label_suffixes
LabelSuffixes(h) == {s \in Suffixes(h) : s # <<>>}

IsDnsHost(h) ==
    Len(h) > 1 /\ (\A i \in DOMAIN h : h[i] \notin BadLabels) /\ Last(h) \notin NumericLabels

TraversalFree(path) == \A i \in DOMAIN path : path[i] \notin DotSegments

\* Mutant: the dots are not looked at
PathPrefixMatchesDots(prefix, path) == IsPrefix(prefix, path)

PathPrefixMatches(prefix, path) ==
    prefix = <<>> \/ (TraversalFree(path) /\ IsPrefix(prefix, path))

SharedHostFor(h) == LabelSuffixes(h) \cap SharedHosts # {}
DelivererForHost(h) == LabelSuffixes(h) \cap DelivererHosts # {}

\* publicsuffixlist, accept_unknown: the longest listed suffix, else the last label
PublicSuffix(h) ==
    LET listed == LabelSuffixes(h) \cap PublicSuffixes
    IN  IF listed = {} THEN <<Last(h)>>
        ELSE CHOOSE s \in listed : \A t \in listed : Len(t) <= Len(s)

IsPublicSuffix(h) == h # <<>> /\ PublicSuffix(h) = h

\* The public suffix and one label; <<>> for a bare public suffix
RegistrableDomain(h) ==
    IF IsPublicSuffix(h) THEN <<>>
    ELSE SubSeq(h, Len(h) - Len(PublicSuffix(h)), Len(h))

-----------------------------------------------------------------------------
MoreSpecific(r, s) ==
    \/ Len(r.host) > Len(s.host)
    \/ Len(r.host) = Len(s.host) /\ Len(r.prefix) > Len(s.prefix)

Above(r, u) == r.host \in LabelSuffixes(u.host) /\ PathPrefixMatches(r.prefix, u.path)

\* longest_suffix_match over the rows in the order the query returns them
LongestSuffixMatch(u, domains) ==
    FoldLeft(LAMBDA best, r :
                 IF Above(r, u) /\ (best = {} \/ \A b \in best : MoreSpecific(r, b))
                 THEN {r} ELSE best,
             {}, domains)

\* _recognize_by_host: on a shared host only the prefixed rows of shared hosts,
\* elsewhere only bare rows
Candidates(rs, u) ==
    {r \in rs : /\ r.host \in LabelSuffixes(u.host)
                  /\ IF SharedHostFor(u.host) THEN r.prefix # <<>> /\ SharedHostFor(r.host)
                     ELSE r.prefix = <<>>}

Clean(u) == [u EXCEPT !.host = NormalizeHost(u.host)]

\* The row a URL is recognised by, as a set of at most one
RecognizeByHost(rs, raw) ==
    LET u == Clean(raw)
    IN  IF IsDnsHost(u.host) THEN LongestSuffixMatch(u, SetToSeq(Candidates(rs, u))) ELSE {}

\* deliverer_for_url
Delivered(raw) == LET h == NormalizeHost(raw.host) IN IsDnsHost(h) /\ DelivererForHost(h)

\* classify_url without schemes and child links (CitationSources has those)
Classify(raw) ==
    IF Delivered(raw) THEN "deliverer"
    ELSE IF RecognizeByHost(rows, raw) # {} THEN "site" ELSE "unrecognized"

\* root_host_from_url: the gates in their order
Funnel(raw) ==
    LET h == NormalizeHost(raw.host)
    IN  CASE h = <<>> -> "no_host"
          [] ~IsDnsHost(h) -> "not_dns"
          [] Last(h) \in ReservedTlds -> "reserved_tld"
          [] SharedHostFor(h) -> "shared_host"
          [] RegistrableDomain(h) = <<>> -> "public_suffix"
          [] OTHER -> "rooted"

\* CitationSourceRootDomain.clean, the host already normalised
CleanDomain(d) ==
    /\ IsDnsHost(d.host)
    /\ ~IsPublicSuffix(d.host)
    /\ ~DelivererForHost(d.host)
    /\ TraversalFree(d.prefix)
    /\ SharedHostFor(d.host) <=> d.prefix # <<>>

\* citation_rootdomain_unique_host_path_prefix
Taken(d) == \E r \in rows : r.host = d.host /\ r.prefix = d.prefix

RowOf(s, d) == [source |-> s, host |-> d.host, prefix |-> d.prefix]

-----------------------------------------------------------------------------
Init == rows = {} /\ minted = {}

\* A patch or the admin declares a row of a root
Declare(s, d) ==
    LET clean == [d EXCEPT !.host = NormalizeHost(d.host)]
    IN  /\ CleanDomain(clean) /\ ~Taken(clean)
        /\ rows' = rows \cup {RowOf(s, clean)}
        /\ UNCHANGED minted

\* Raw SQL, or a row from before a host joined a table
Bypass(s, d) ==
    /\ d \in Bypassed /\ ~Taken(d)
    /\ rows' = rows \cup {RowOf(s, d)}
    /\ UNCHANGED minted

\* The admin inline deletes a row
Delete(r) ==
    /\ rows' = rows \ {r}
    /\ UNCHANGED minted

\* cite_url of a known site's page
CitePage(u) ==
    /\ Classify(u) = "site"
    /\ \E r \in RecognizeByHost(rows, u) : minted' = minted \cup {[url |-> u, source |-> r.source]}
    /\ UNCHANGED rows

\* root_host_from_url
RootHost(raw) == RegistrableDomain(NormalizeHost(raw.host))

\* _create_root_and_child: a new root with its row, and the page under it
CiteNewSite(u, s) ==
    LET d == [host |-> RootHost(u), prefix |-> <<>>]
    IN  /\ Classify(u) = "unrecognized" /\ Funnel(u) = "rooted"
        /\ \A r \in rows : r.source # s
        /\ CleanDomain(d) /\ ~Taken(d)
        /\ rows' = rows \cup {RowOf(s, d)}
        /\ minted' = minted \cup {[url |-> u, source |-> s]}

Room == Cardinality(rows) + Cardinality(minted) < MaxRecords

Next ==
    \/ Room /\ \E s \in Sources : \/ \E d \in Declared : Declare(s, d)
                                  \/ \E d \in Bypassed : Bypass(s, d)
                                  \/ \E u \in URLs : CiteNewSite(u, s)
    \/ \E r \in rows : Delete(r)
    \/ Room /\ \E u \in URLs : CitePage(u)

Spec == Init /\ [][Next]_vars

-----------------------------------------------------------------------------
TypeOK ==
    /\ \A r \in rows : r.source \in Sources /\ IsFiniteSet(rows)
    /\ \A r, q \in rows : r.host = q.host /\ r.prefix = q.prefix => r = q
    /\ minted \subseteq [url : URLs, source : Sources]

\* Whatever order the rows come in, a URL goes to the one row whose host, then
\* prefix, extends those of every other row above it (longest_suffix_match).
OneMostSpecificRow ==
    \A raw \in URLs :
        LET u == Clean(raw)
            C == {r \in rows : r.host \in LabelSuffixes(u.host)}
            above == {r \in C : r.prefix = <<>> \/ (TraversalFree(u.path) /\ IsPrefix(r.prefix, u.path))}
            best == {r \in above : \A q \in above \ {r} :
                        \/ IsStrictSuffix(q.host, r.host)
                        \/ q.host = r.host /\ IsStrictPrefix(q.prefix, r.prefix)}
        IN  \A order \in SetToSeqs(C) : LongestSuffixMatch(u, order) = best

\* A page on a shared host is only recognised by a publisher whose declared
\* prefix it is really under, whatever rows got past validation: no tenant's
\* files are credited to another (_recognize_by_host, path_prefix_matches).
NoCrossTenant ==
    \A u \in URLs :
        (\E s \in SharedHosts : IsSuffix(s, u.host)) =>
            \A r \in RecognizeByHost(rows, u) :
                /\ r.prefix # <<>> /\ IsPrefix(r.prefix, u.path)
                /\ \A i \in DOMAIN u.path : u.path[i] \notin DotSegments

\* No row that went through validation takes in the sites below a public
\* suffix: a URL and the row it is recognised by have one registrable domain
\* (CitationSourceRootDomain.clean).
NoSuffixSwallowed ==
    \A u \in URLs : \A r \in RecognizeByHost(rows, u) :
        [host |-> r.host, prefix |-> r.prefix] \notin Bypassed
            => RegistrableDomain(r.host) = RegistrableDomain(NormalizeHost(u.host))

\* No copy of a work is ever cited as a page, though a row for the deliverer
\* may be left over from before it was in the table (classify_url).
NoCopyCited ==
    \A p \in minted : \A h \in DelivererHosts : ~IsSuffix(h, p.url.host)

SameSite(u, v) ==
    LET g == NormalizeHost(u.host)
        h == NormalizeHost(v.host)
    IN  IsDnsHost(h) /\ ~SharedHostFor(h) /\ RegistrableDomain(g) = RegistrableDomain(h)

\* A site founded by a paste takes in every page of its registrable domain
\* that was not recognised before, so later pastes do not found it twice; and
\* it takes no page from a site that had it (root_host_from_url).
FoundingCollapsesTheSite ==
    [][\A u \in URLs, s \in Sources :
         CiteNewSite(u, s) =>
             \A v \in URLs :
                 IF RecognizeByHost(rows, v) # {}
                 THEN RecognizeByHost(rows', v) = RecognizeByHost(rows, v)
                 ELSE SameSite(u, v) =>
                         /\ RecognizeByHost(rows', v) # {}
                         /\ \A r \in RecognizeByHost(rows', v) : r.source = s]_vars
=============================================================================
