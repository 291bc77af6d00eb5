---------------------------- MODULE MarkdownLinks ----------------------------
(***************************************************************************)
(* Wikilinks between authoring, storage and the reference graph.  A stored *)
(* text links rows by their pk; the editor gets the links by public id,    *)
(* and a save turns public ids into pks again, writes the row and then     *)
(* reconciles the row's RecordReference edges.                             *)
(*                                                                         *)
(* A text is the set of links it holds; only its owner, the page, matters  *)
(* for the edges.  Rows are renamed and created.  A record that is deleted *)
(* keeps its row and its public id (core/soft_delete.py), and the lookups  *)
(* here go through the default manager, which still finds it: no action.   *)
(***************************************************************************)
EXTENDS Naturals, FiniteSets

CONSTANTS
    Records,     \* pks
    Old,         \* the rows there are at first
    Pages,       \* the rows whose text is edited
    Keys,        \* public ids
    Editors

LinkAssumption == Pages # {} /\ Pages \subseteq Old /\ Old \subseteq Records

VARIABLES
    key,     \* row -> its public id
    text,    \* page -> the rows its stored text links
    refs,    \* page -> targets of its RecordReference rows
    desk     \* what each editor is doing

vars == <<key, text, refs, desk>>

Rows == DOMAIN key

\* An authoring text: markers [[type:key]] and raw storage markers [[type:id:N]]
Draft == [keys : SUBSET Keys, ids : SUBSET Records]

Pcs == {"away", "edit", "write", "sync", "apply"}

\* loaded and names: the links of the text that was loaded, and their keys then
Desk == [pc : Pcs, page : Pages, draft : Draft, touched : BOOLEAN,
         loaded : SUBSET Records, names : SUBSET (Records \X Keys),
         content : SUBSET Records, before : SUBSET Records]

Away == [pc |-> "away", page |-> CHOOSE p \in Pages : TRUE,
         draft |-> [keys |-> {}, ids |-> {}], touched |-> FALSE,
         loaded |-> {}, names |-> {}, content |-> {}, before |-> {}]

TypeOK ==
    /\ Old \subseteq Rows /\ Rows \subseteq Records
    /\ \A r \in Rows : key[r] \in Keys
    /\ \A q, r \in Rows : key[q] = key[r] => q = r
    /\ text \in [Pages -> SUBSET Records]
    /\ refs \in [Pages -> SUBSET Rows]
    /\ desk \in [Editors -> Desk]

Init ==
    /\ key \in {k \in [Old -> Keys] : \A q, r \in Old : k[q] = k[r] => q = r}
    /\ text = [p \in Pages |-> {}]
    /\ refs = [p \in Pages |-> {}]
    /\ desk = [e \in Editors |-> Away]

-----------------------------------------------------------------------------
\* The rows whose public id is one of K
Named(K) == {r \in Rows : key[r] \in K}

\* convert_storage_to_authoring: a link whose row is missing keeps storage form
Authoring(links) ==
    [keys |-> {key[r] : r \in links \cap Rows}, ids |-> links \ Rows]

\* convert_authoring_to_storage: every key must name a row; raw ids pass as they are
Resolves(draft) == draft.keys \subseteq {key[r] : r \in Rows}

Storage(draft) == Named(draft.keys) \cup draft.ids

-----------------------------------------------------------------------------
SymDiff(S, T) == (S \ T) \cup (T \ S)

At(e, pc) == desk[e].pc = pc
Set(e, d) == desk' = [desk EXCEPT ![e] = d]

Free(k) == \A r \in Rows : key[r] # k

\* Another save or an import gives a row a new public id, or makes a row
Rename(r, k) ==
    /\ r \in Rows /\ Free(k)
    /\ key' = [key EXCEPT ![r] = k]
    /\ UNCHANGED <<text, refs, desk>>

Create(r, k) ==
    /\ r \notin Rows /\ Free(k)
    /\ key' = [q \in Rows \cup {r} |-> IF q = r THEN k ELSE key[q]]
    /\ UNCHANGED <<text, refs, desk>>

\* build_rich_text, dump_patch_entry: the edit form
Load(e, p) ==
    /\ At(e, "away")
    /\ Set(e, [Away EXCEPT !.pc = "edit", !.page = p, !.draft = Authoring(text[p]),
                 !.loaded = text[p],
                 !.names = {<<r, key[r]>> : r \in text[p] \cap Rows}])
    /\ UNCHANGED <<key, text, refs>>

\* One marker typed or deleted
Edit(e, keys, ids) ==
    LET d == desk[e].draft
    IN  /\ At(e, "edit") /\ ~desk[e].touched
        /\ Cardinality(SymDiff(d.keys, keys)) + Cardinality(SymDiff(d.ids, ids)) = 1
        /\ Set(e, [desk[e] EXCEPT !.draft = [keys |-> keys, ids |-> ids], !.touched = TRUE])
        /\ UNCHANGED <<key, text, refs>>

\* The save's validation: the claim holds the text in storage form, or a form
\* error leaves the draft with its author
Submit(e) ==
    /\ At(e, "edit") /\ Resolves(desk[e].draft)
    /\ Set(e, [Away EXCEPT !.pc = "write", !.page = desk[e].page,
                 !.content = Storage(desk[e].draft)])
    /\ UNCHANGED <<key, text, refs>>

\* Another transaction has updated the row and not ended
RowLocked(e) ==
    \E f \in Editors \ {e} :
        desk[f].page = desk[e].page /\ desk[f].pc \in {"sync", "apply"}

\* Mutant: the edges are reconciled before the row is saved
WriteAfterSync(e) ==
    /\ At(e, "write")
    /\ Set(e, [desk[e] EXCEPT !.pc = "sync"])
    /\ UNCHANGED <<key, text, refs>>

\* resolve_entity: obj.save() ...
Write(e) ==
    /\ At(e, "write") /\ ~RowLocked(e)
    /\ Set(e, [desk[e] EXCEPT !.pc = "sync"])
    /\ UNCHANGED <<key, text, refs>>

\* ... then sync_references reads the page's edges ...
ReadEdges(e) ==
    /\ At(e, "sync")
    /\ Set(e, [desk[e] EXCEPT !.pc = "apply", !.before = refs[desk[e].page]])
    /\ UNCHANGED <<key, text, refs>>

\* Edges whose marker is no longer in the text
Stale(d) == d.before \ d.content

\* Edges to add, to targets that exist
Missing(d) == (d.content \cap Rows) \ d.before

\* ... deletes the stale ones, inserts the missing ones (ignoring what another
\* transaction inserted), and the transaction commits
Apply(e) ==
    LET d == desk[e]
    IN  /\ At(e, "apply")
        /\ text' = [text EXCEPT ![d.page] = d.content]
        /\ refs' = [refs EXCEPT ![d.page] = (@ \ Stale(d)) \cup Missing(d)]
        /\ Set(e, Away)
        /\ UNCHANGED key

\* The author leaves, or the save fails and rolls back
Leave(e) ==
    /\ ~At(e, "away")
    /\ Set(e, Away)
    /\ UNCHANGED <<key, text, refs>>

Next ==
    \/ \E r \in Records, k \in Keys : Rename(r, k) \/ Create(r, k)
    \/ \E e \in Editors :
          \/ \E p \in Pages : Load(e, p)
          \/ \E keys \in SUBSET Keys, ids \in SUBSET Records : Edit(e, keys, ids)
          \/ Submit(e) \/ Write(e) \/ ReadEdges(e) \/ Apply(e) \/ Leave(e)

Spec == Init /\ [][Next]_vars

-----------------------------------------------------------------------------
\* The graph is the stored text's, although two saves of one page reconcile it
\* from what each of them read: no edge without a marker, and no marker of a
\* row that was there without an edge (sync_references).
EdgesMatchText ==
    \A p \in Pages : refs[p] \subseteq text[p] /\ text[p] \cap Old \subseteq refs[p]

\* Saving a text nobody touched changes a link only where, since it was loaded,
\* another row took over the key the link was shown with; every other link
\* comes back, broken ones included (the round trip the editor and
\* dump_patch_entry count on).
UntouchedTextRoundTrips ==
    \A e \in Editors :
        LET d == desk[e]
        IN  d.pc = "edit" /\ ~d.touched /\ Resolves(d.draft) =>
               LET now == Storage(d.draft)
               IN  /\ \A r \in now \ d.loaded : \E q \in d.loaded : <<q, key[r]>> \in d.names
                   /\ \A q \in d.loaded \ now :
                         \E r \in Rows : r # q /\ <<q, key[r]>> \in d.names

\* Markdown.md: "raising ValidationError if any target does not exist, so a
\* save can't persist a dangling link".
NoDanglingLink == \A p \in Pages : text[p] \subseteq Rows
=============================================================================
