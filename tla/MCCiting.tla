------------------------------ MODULE MCCiting ------------------------------
(* Citations, side by side: the grammar of a patch's claims (PatchParse),  *)
(* the evidence they cite (PatchCites: every form of a cite, then videos   *)
(* and a text's notes), the sources that patches declare (SourceSeeding)   *)
(* and cites mint (CitationSources), and the lookup of a pasted one        *)
(* (Extraction).                                                           *)
EXTENDS TLC, Sequences, Integers

CONSTANTS CitingScenes, None, spoken,
    URLs, Sites, SiteOf, Records, Workers, MaxMinted,                             \* CitationSources
    Addresses, Numbers, Requests, Deliverer, Embedded, Bookish,                  \* Extraction
    Timeout, MaxRedirects, MaxReads, MaxStarts

VARIABLES citing,
    file,                                                                        \* PatchParse
    formDoc, formClaims, formInst, formJoins, formLinks, formSets, formPatches,  \* PatchCites
    noteDoc, noteClaims, noteInst, noteJoins, noteLinks, noteSets, notePatches,
    sources, links, domains, mintsBegun, citeWork,                               \* CitationSources
    db, planned, applied, failed, seedEdits, seedPatches,                        \* SourceSeeding
    cited, books, drafts, editions, req                                          \* Extraction

formVars == <<formDoc, formClaims, formInst, formJoins, formLinks, formSets, formPatches>>
noteVars == <<noteDoc, noteClaims, noteInst, noteJoins, noteLinks, noteSets, notePatches>>
sourceVars == <<sources, links, domains, mintsBegun, citeWork>>
seedVars == <<db, planned, applied, failed, seedEdits, seedPatches>>
lookupVars == <<cited, books, drafts, editions, req>>

-----------------------------------------------------------------------------
AllDirectives ==
    {<<"create", "true">>, <<"create", "false">>, <<"delete", "true">>, <<"delete", "false">>,
     <<"expect", "e">>, <<"retract", "r">>, <<"remove", "m">>, <<"note", "n">>,
     <<"cite", "c">>, <<"note", "ill">>}

Grammar == INSTANCE PatchParse WITH
    Refs <- {"r"}, Fields <- {"f"}, Numerals <- {<<8>>}, Directives <- AllDirectives,
    MaxEntries <- 2, MaxItems <- 2, MaxKeys <- 3

Cited(form, id, locator, quote) == [form |-> form, id |-> id, locator |-> locator, quote |-> quote]

\* The forms of a cite, the pairs that are one evidence, and what is refused
AllForms ==
    {Cited("url", "p", "", ""), Cited("url+archive", "p", "", ""), Cited("url", "p", "", "q"),
     Cited("isbn10", "b", "", ""), Cited("isbn13", "b", "", ""), Cited("slug", "i", "", ""),
     Cited("url", "stray", "", ""), Cited("url", "shape", "", "")}

\* Start times of a video, a page that mirrors it, and what is no reference
VideoForms ==
    {Cited("youtube", "v", "1:35", ""), Cited("youtube url", "v", "95s", ""),
     Cited("youtube", "v", "p. 3", ""),
     Cited("url", "mirror", "", ""), Cited("bad isbn", "b", "", ""), Cited("archive only", "p", "", "")}

Forms == INSTANCE PatchCites WITH
    Specs <- AllForms,
    Fields <- {"f", "g"}, Values <- {spoken}, Handles <- {},
    MaxCites <- 2, MaxEntries <- 2, MaxPatches <- 2,
    doc <- formDoc, claims <- formClaims, inst <- formInst, joins <- formJoins,
    links <- formLinks, sets <- formSets, patches <- formPatches

\* A text with two markers
Videos == INSTANCE PatchCites WITH
    Specs <- VideoForms,
    Fields <- {"f"}, Values <- {spoken}, Handles <- {1, 2},
    MaxCites <- 1, MaxEntries <- 1, MaxPatches <- 2,
    doc <- noteDoc, claims <- noteClaims, inst <- noteInst, joins <- noteJoins,
    links <- noteLinks, sets <- noteSets, patches <- notePatches

\* A site's page and its archived copy, cited by two workers
HostsOf == [u \in URLs |-> IF u = "wayback" THEN "archive" ELSE "acme"]

Mints == INSTANCE CitationSources WITH
    work <- citeWork, begun <- mintsBegun, MaxRequests <- MaxMinted

-----------------------------------------------------------------------------
Node(name, type, isbn, slug, parent, urls, hosts) ==
    [name |-> name, type |-> type, isbn |-> isbn, slug |-> slug, parent |-> parent,
     links |-> urls, hosts |-> hosts]

Issue == Node("billboard", "paper", None, "s2", "s1", {"page"}, {})
Magazine == Node("billboard", "paper", None, "s1", None, {"home"}, {"acme", "old"})
Manual == Node("pinball", "document", None, "s1", None, {"home"}, {"old"})
Work == Node("pinball", "book", "i1", None, None, {"page"}, {})
Notes == Node("billboard", "book", None, None, None, {"page"}, {})
Site == Node("pinball", "web", None, None, None, {"home"}, {"acme", "old"})
Renamed == Node("billboard", "web", None, None, None, {}, {"old"})

\* No node with an ISBN has a homepage host.  With one, Lookup can find a child
\* that a user gave the ISBN, and EnsureDomains then fails the patch and the
\* queue behind it, for good: README.md reports that as a finding.
AllBlocks == {<<Issue, Magazine>>, <<Site, Work>>, <<Site, Renamed>>, <<Work, Issue, Notes>>, <<Manual>>}

Seeds == INSTANCE SourceSeeding WITH
    Blocks <- AllBlocks,
    Names <- {"pinball", "billboard"}, Types <- {"book", "web", "paper", "document"},
    Authored <- {"book", "paper"}, Web <- "web", Addressed <- {"paper", "document"},
    Isbns <- {"i1"}, Slugs <- {"s1", "s2"}, Hosts <- {"acme", "old"}, URLs <- {"home", "page"},
    MaxEdits <- 2, MaxPatches <- 2, edits <- seedEdits, patches <- seedPatches

\* A page, a store's page with an ISBN in its URL and one without
InTheUrl == [u \in Deliverer |-> IF u = "store" THEN "isbn" ELSE None]

Lookups == INSTANCE Extraction WITH Urls <- Addresses, Isbns <- Numbers

ASSUME CitingAssumption == Mints!SitesAssumption /\ Lookups!LookupAssumption

-----------------------------------------------------------------------------
(* The components share nothing here, so a product of them would add states *)
(* and no behaviours: in each scene one of them moves, the others rest.    *)
CitingInit ==
    /\ citing \in CitingScenes
    /\ IF citing = "lookups" THEN TRUE ELSE cited = {} /\ books = {}
    /\ Grammar!Init /\ Forms!Init /\ Videos!Init /\ Mints!Init /\ Seeds!Init /\ Lookups!Init

CitingNext ==
    /\ IF citing = "grammar" THEN Grammar!Next ELSE UNCHANGED file
    /\ IF citing = "forms" THEN Forms!Next ELSE UNCHANGED formVars
    /\ IF citing = "videos" THEN Videos!Next ELSE UNCHANGED noteVars
    /\ IF citing = "mints" THEN Mints!Next ELSE UNCHANGED sourceVars
    /\ IF citing = "seeds" THEN Seeds!Next ELSE UNCHANGED seedVars
    /\ IF citing = "lookups" THEN Lookups!Next ELSE UNCHANGED lookupVars
    /\ UNCHANGED citing

CitingSpec ==
    CitingInit /\ [][CitingNext]_<<citing, file, formVars, noteVars, sourceVars, seedVars, lookupVars>>

CitingSymmetry == Permutations(Workers) \cup Permutations(Requests)

-----------------------------------------------------------------------------
(* No authored directive or field is lost on the way to the entries, a     *)
(* group costs nothing, and an entry's lifecycle decides what else it may  *)
(* say (PatchParse).                                                       *)
NothingAuthoredIsLost ==
    citing = "grammar" =>
        Grammar!NothingAuthoredIsLost /\ Grammar!GroupsCostNothing /\ Grammar!LifecycleFirst

(* One instance per evidence and change set, however its cites are spelled *)
(* and however often they are applied (PatchCites).                        *)
CitesLandOnce ==
    /\ citing = "forms" => /\ Forms!OneInstancePerEvidence /\ Forms!ChangeSetsShareNothing
                          /\ Forms!NeverTheSameTwice
    /\ citing = "videos" => Videos!StartTimesCanonical

(* A block applied twice is applied once, declares what it says and never  *)
(* wedges on what users did (SourceSeeding).                               *)
SourcesStayOne ==
    citing = "seeds" => Seeds!ApplyingTwiceIsOnce /\ Seeds!DeclaredIsThere /\ Seeds!NeverWedged

(* No source is forked.  A page is under its site's root and a record has  *)
(* one source, whoever of those that cite it at once is first; a lookup    *)
(* finds the source there is, never drafts a store's copy, keeps no        *)
(* failure and ends within its time (CitationSources, Extraction).         *)
NoSourceIsForked ==
    /\ citing = "mints" => Mints!PagesUnderTheirSite /\ Mints!OneSourcePerRecord /\ Mints!LosersNest
    /\ citing = "lookups" => /\ Lookups!KnownIsMatched /\ Lookups!CopiesAreNotPages
                             /\ Lookups!FailuresAreForgotten /\ Lookups!OneHopOver

(* Every cite of an applied patch reaches the claims its entry wrote, a    *)
(* cite that runs alone reuses the source there is, and a block only adds  *)
(* (PatchCites, CitationSources, SourceSeeding).                           *)
CitesFindTheirSources ==
    /\ Forms!EveryCiteLands /\ Videos!EveryCiteLands
    /\ Mints!SoloCitesReuse /\ Seeds!OnlyAdds
=============================================================================
