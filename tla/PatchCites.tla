---------------------------- MODULE PatchCites ----------------------------
(***************************************************************************)
(* The evidence of a data patch.  An entry cites by URL, ISBN,             *)
(* scheme:identifier or root:child, each with a locator and a quote; the   *)
(* parser brings a cite to one reference, refuses what it cannot, and      *)
(* applying the patch resolves the reference to a citation source, mints   *)
(* one instance per evidence and change set, and joins it to every claim   *)
(* the entry newly writes.  A text's numbered markers mint instances of    *)
(* their own, and the text is stored with their slugs in place of numbers. *)
(*                                                                         *)
(* A source is named by the reference that found or made it; the sources   *)
(* themselves, their roots and their links are in CitationSources.         *)
(***************************************************************************)
EXTENDS Integers, Sequences, FiniteSets

CONSTANTS Specs,        \* the cites an author may write
          Fields,       \* claim fields besides the text
          Values,
          Handles,      \* the numbers of a text's markers
          None,
          MaxCites, MaxEntries, MaxPatches

VARIABLES
    doc,        \* the entries being written: [vals, cites, text, marks, notes]
    claims,     \* the claims ever written: <<[set, field, val]>>
    inst,       \* the citation instances: <<[source, locator, quote]>>
    joins,      \* claim -> instance
    links,      \* the pages a curator has linked to the video record
    sets, patches

vars == <<doc, claims, inst, joins, links, sets, patches>>

-----------------------------------------------------------------------------
(* Cites: [form, id, locator, quote].  A page may come with its archive;   *)
(* "shape" is the URL of the video record, "stray" one under no root.      *)
Video == <<"scheme", "youtube", "v">>

(* _parse_cite_value, with _parse_cite_url, _parse_cite_isbn and each      *)
(* scheme's normalize: the reference, or None.  A scheme's own URL must be *)
(* cited as the record, in which a URL and a bare identifier are one; an   *)
(* ISBN-10 is its ISBN-13; and the identifier of a machine is any digits.  *)
Reference(c) ==
    CASE c.form = "url" -> IF c.id = "shape" THEN None ELSE <<"web", c.id, "">>
      [] c.form = "url+archive" -> IF c.id = "shape" THEN None ELSE <<"web", c.id, "archive">>
      [] c.form = "archive only" -> None
      [] c.form \in {"isbn10", "isbn13"} -> <<"isbn", c.id, "">>
      [] c.form = "bad isbn" -> None
      [] c.form = "slug" -> <<"source", c.id, "">>
      [] c.form = "youtube" -> Video
      [] c.form = "youtube url" -> Video
      [] c.form = "ipdb" -> <<"scheme", "ipdb", c.id>>

(* A video's locator is a start time: "1:35" and "95s" are one, "p. 3" is  *)
(* none.                                                                   *)
StartTime(loc) == CASE loc \in {"", "1:35"} -> loc [] loc = "95s" -> "1:35" [] OTHER -> None

(* _normalized_cite_locator: only a scheme's cite has a type yet.          *)
Locator(ref, loc) == IF ref = Video THEN StartTime(loc) ELSE loc

Parsed(c) == [ref |-> Reference(c), locator |-> Locator(Reference(c), c.locator), quote |-> c.quote]

Parses(c) == Reference(c) # None /\ Parsed(c).locator # None

-----------------------------------------------------------------------------
(* One entry.                                                              *)
Written(e) == {f \in Fields : e.vals[f] # None}
CitesOf(e) == {e.cites[k] : k \in DOMAIN e.cites}

(* _normalize_raw_cites and _parse_provenance: no evidence twice.          *)
CitesDistinct(e) == \A j, k \in DOMAIN e.cites : j # k => Parsed(e.cites[j]) # Parsed(e.cites[k])

(* _classify_inline_cites: markers and notes correspond, and are of a text.*)
Corresponds(e) == e.marks = {h \in Handles : e.notes[h] # None} /\ (e.marks # {} => e.text # None)

(* _check_provenance_carrier.                                              *)
Carried(e) == e.cites # <<>> => Written(e) # {} \/ e.text # None

EntryOK(e) ==
    /\ \A c \in CitesOf(e) \cup {e.notes[h] : h \in {x \in Handles : e.notes[x] # None}} : Parses(c)
    /\ CitesDistinct(e)
    /\ Corresponds(e)
    /\ Carried(e)

(* _validate_plan_wide: no field from two entries.                         *)
Disjoint(d) ==
    \A i, j \in DOMAIN d : i # j =>
        Written(d[i]) \cap Written(d[j]) = {} /\ (d[i].text = None \/ d[j].text = None)

Planned == doc # <<>> /\ Disjoint(doc) /\ \A i \in DOMAIN doc : EntryOK(doc[i])

-----------------------------------------------------------------------------
(* Applying.                                                               *)
(* _resolve_cite_source_id: a page linked to the video record is that      *)
(* record, else a page under its root; archives ride along.                *)
SourceOf(ref) ==
    CASE ref[1] = "web" -> IF ref[2] \in links THEN Video ELSE <<"page", ref[2]>>
      [] OTHER -> ref

Unresolved(ref) == ref[1] = "web" /\ ref[2] = "stray"

(* The value of the last claim of a field, if there is one.                *)
Latest(field) ==
    LET past == {k \in DOMAIN claims : claims[k].field = field} IN
    {claims[k].val : k \in {x \in past : \A y \in past : y <= x}}

Instance(c) == [source |-> SourceOf(Reference(c)), locator |-> Parsed(c).locator, quote |-> c.quote]

(* _materialize_inline_citations: the instances of entry i's markers, in   *)
(* the order of the numbers, and the text with their slugs.                *)
Handle(i, n) == CHOOSE h \in doc[i].marks : Cardinality({x \in doc[i].marks : x <= h}) = n

Footnotes(i) == [n \in 1 .. Cardinality(doc[i].marks) |-> Instance(doc[i].notes[Handle(i, n)])]

(* Mutant: the slugs are handed out in the other order.                    *)
TextReversed(i) ==
    [body |-> doc[i].text, cites |-> [h \in doc[i].marks |-> Len(inst) + Cardinality({x \in doc[i].marks : x >= h})]]

Text(i) ==
    [body |-> doc[i].text, cites |-> [h \in doc[i].marks |-> Len(inst) + Cardinality({x \in doc[i].marks : x <= h})]]

(* _diff_claims, after the slugs are in: what entry i newly writes.        *)
Changes(i) ==
    {[field |-> f, val |-> doc[i].vals[f]] : f \in {x \in Written(doc[i]) : doc[i].vals[x] \notin Latest(x)}} \cup
    {[field |-> "text", val |-> t] : t \in {x \in {Text(i)} : doc[i].text # None /\ x \notin Latest("text")}}

(* _check_empty_diff_entries.                                              *)
NoEmptyDiff == \A i \in DOMAIN doc : doc[i].cites # <<>> \/ doc[i].marks # {} => Changes(i) # {}

Resolvable ==
    \A i \in DOMAIN doc :
        \A c \in CitesOf(doc[i]) \cup {doc[i].notes[h] : h \in doc[i].marks} : ~Unresolved(Reference(c))

(* A set's elements in some order.                                         *)
Listed(S) == CHOOSE f \in [1 .. Cardinality(S) -> S] : \A m, n \in DOMAIN f : f[m] = f[n] => m = n

(* The new claims, each with its entry's change set.                       *)
NewClaims ==
    Listed(UNION {{[set |-> sets + i, field |-> c.field, val |-> c.val] : c \in Changes(i)} : i \in DOMAIN doc})

(* Mutant: one instance per evidence in a patch.                           *)
SharedInPatch(i, c) == [set |-> sets, of |-> Instance(c)]
(* _SharedCiteKey: evidence is shared by the claims of a change set.       *)
SharedKey(i, c) == [set |-> sets + i, of |-> Instance(c)]

(* _attach_plan_citations.                                                 *)
Minted == Listed(UNION {{SharedKey(i, c) : c \in CitesOf(doc[i])} : i \in {k \in DOMAIN doc : Changes(k) # {}}})

(* One entry of a plan writes the text, and no other has markers.          *)
AllFootnotes ==
    LET noted == {i \in DOMAIN doc : doc[i].marks # {}} IN
    IF noted = {} THEN <<>> ELSE Footnotes(CHOOSE i \in noted : TRUE)

Joined(claim, share) == \E c \in CitesOf(doc[claim.set - sets]) : share = SharedKey(claim.set - sets, c)

-----------------------------------------------------------------------------
NoNotes == [h \in Handles |-> None]

Init ==
    /\ doc = <<>> /\ claims = <<>> /\ inst = <<>> /\ joins = {} /\ links = {}
    /\ sets = 0 /\ patches = 0

Size == LET f[k \in 0 .. Len(doc)] == IF k = 0 THEN 0 ELSE f[k - 1] + Len(doc[k].cites) IN f[Len(doc)]

(* The author goes on while what is there is not refused for good.         *)
Promising == Disjoint(doc) /\ \A i \in DOMAIN doc : Carried(doc[i]) /\ CitesDistinct(doc[i]) /\ \A c \in CitesOf(doc[i]) : Parses(c)

Begin ==
    /\ Len(doc) < MaxEntries /\ patches < MaxPatches /\ Promising
    /\ \E vals \in [Fields -> Values \cup {None}], text \in {None} \cup {"text" : h \in Handles}, marks \in SUBSET Handles :
          /\ text = None => marks = {}
          /\ doc' = Append(doc, [vals |-> vals, cites |-> <<>>, text |-> text, marks |-> marks, notes |-> NoNotes])
    /\ UNCHANGED <<claims, inst, joins, links, sets, patches>>

Cite ==
    /\ doc # <<>> /\ Size < MaxCites /\ Promising
    /\ \E c \in Specs : doc' = [doc EXCEPT ![Len(doc)].cites = Append(@, c)]
    /\ UNCHANGED <<claims, inst, joins, links, sets, patches>>

Note ==
    /\ doc # <<>> /\ Promising
    /\ \E h \in Handles, c \in Specs :
          /\ doc[Len(doc)].notes[h] = None /\ Parses(c)
          /\ doc' = [doc EXCEPT ![Len(doc)].notes[h] = c]
    /\ UNCHANGED <<claims, inst, joins, links, sets, patches>>

(* The patch is in, or all of it is not.                                   *)
Apply ==
    /\ Planned /\ Resolvable /\ NoEmptyDiff
    /\ LET new == NewClaims
           shares == Minted
           base == inst \o AllFootnotes
       IN  /\ claims' = claims \o new
           /\ inst' = base \o [n \in DOMAIN shares |-> shares[n].of]
           /\ joins' = joins \cup
                 {<<Len(claims) + j[1], Len(base) + j[2]>> :
                     j \in {x \in (DOMAIN new) \X (DOMAIN shares) : Joined(new[x[1]], shares[x[2]])}}
    /\ sets' = sets + Len(doc) /\ patches' = patches + 1
    /\ doc' = <<>>
    /\ UNCHANGED links

Refuse ==
    /\ doc # <<>> /\ ~(Planned /\ Resolvable /\ NoEmptyDiff)
    /\ doc' = <<>>
    /\ UNCHANGED <<claims, inst, joins, links, sets, patches>>

(* A curator links a page to the video record a cite has made.             *)
Link ==
    /\ \E n \in DOMAIN inst : inst[n].source = Video
    /\ \E c \in {x \in Specs : x.form = "url" /\ x.id = "mirror"} : c.id \notin links /\ links' = links \cup {c.id}
    /\ UNCHANGED <<doc, claims, inst, joins, sets, patches>>

Next == Begin \/ Cite \/ Note \/ Apply \/ Refuse \/ Link

Spec == Init /\ [][Next]_vars

-----------------------------------------------------------------------------
TypeOK ==
    /\ \A j \in joins : j[1] \in DOMAIN claims /\ j[2] \in DOMAIN inst
    /\ \A k \in DOMAIN claims : claims[k].set \in 1 .. sets
    /\ \A k \in DOMAIN claims : claims[k].field = "text" =>
          \A h \in DOMAIN claims[k].val.cites : claims[k].val.cites[h] \in DOMAIN inst

Evidence(k) == {n \in DOMAIN inst : <<k, n>> \in joins}

(* A change set's claims share one instance of each evidence, and share    *)
(* none with another change set: editing one's citation touches no other.  *)
OneInstancePerEvidence ==
    \A k, l \in DOMAIN claims : \A a \in Evidence(k), b \in Evidence(l) :
        (claims[k].set = claims[l].set /\ inst[a] = inst[b]) => a = b

ChangeSetsShareNothing ==
    \A k, l \in DOMAIN claims : Evidence(k) \cap Evidence(l) # {} => claims[k].set = claims[l].set

(* Nothing cited in a patch that is applied is lost: every cite of an      *)
(* entry is joined to each claim it newly writes, at least one, and every  *)
(* note is behind the marker of its number.                                *)
EveryCiteLands ==
    [][patches' # patches =>
         \A i \in DOMAIN doc :
             LET new == {k \in DOMAIN claims' : claims'[k].set = sets + i} IN
             /\ \A c \in CitesOf(doc[i]) :
                   /\ new # {}
                   /\ \A k \in new : \E n \in DOMAIN inst' : <<k, n>> \in joins' /\ inst'[n] = Instance(c)
             /\ \A h \in Handles : doc[i].notes[h] # None =>
                   \E k \in new : /\ claims'[k].field = "text" /\ h \in DOMAIN claims'[k].val.cites
                                  /\ inst'[claims'[k].val.cites[h]] = Instance(doc[i].notes[h])]_vars

(* What a source is, however its identifier was spelled.                   *)
Thing(source) ==
    CASE source[1] = "isbn" -> <<"isbn", source[2], "">>
      [] source[1] = "scheme" /\ source[3] = "0m" -> <<"scheme", source[2], "m">>
      [] OTHER -> source

(* "ipdb:04443 and ipdb:4443 ... are the same evidence twice": a claim is  *)
(* not backed by one thing, locator and quote twice.                       *)
NeverTheSameTwice ==
    \A k \in DOMAIN claims : \A a, b \in Evidence(k) :
        a # b => <<Thing(inst[a].source), inst[a].locator, inst[a].quote>> #
                 <<Thing(inst[b].source), inst[b].locator, inst[b].quote>>

(* "A video cite's timestamp is validated and canonicalized no matter how  *)
(* it arrives."                                                            *)
StartTimesCanonical ==
    \A n \in DOMAIN inst : inst[n].source = Video => StartTime(inst[n].locator) = inst[n].locator
=============================================================================
