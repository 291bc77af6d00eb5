----------------------------- MODULE PatchPlan -----------------------------
(***************************************************************************)
(* A data patch from its entries to its claims.  build_plan reads the      *)
(* database and compiles a patch's entries, in file order, into one plan:  *)
(* references resolve to committed rows or to a create further up, every   *)
(* entry is checked by itself and then against the others, and the plan    *)
(* is refused whole or not at all.  apply_plan, later and in its own       *)
(* transaction, creates the rows batch by batch, turns handles into keys,  *)
(* drops the assertions the source already makes, and writes one change    *)
(* set per entry.  Nothing is locked in between.                           *)
(*                                                                         *)
(* A record has a name, a PROTECT reference to another record and tags     *)
(* that are records; Kids are the rows a delete takes along.  An entry     *)
(* carries one operation.  The rules on parent hierarchies and export      *)
(* markets are in RelationshipRules, citations in CitationSources.         *)
(***************************************************************************)
EXTENDS Integers, Sequences, FiniteSets

CONSTANTS Worlds,       \* what there is and what may be authored
          None

(* A world's records at the start, public ids no record has yet, cascade   *)
(* children of each record, names and kinds of entries, whether another    *)
(* actor may write between planning and applying, and its bounds.          *)
VARIABLE world

Committed == world.committed
New == world.new
Kids == world.kids
Names == world.names
Operations == world.operations
EditorMoves == world.editor
MaxEntries == world.entries
MaxPatches == world.patches
MaxEdits == world.edits

WorldsAssumption ==
    \A w \in Worlds : w.kids \in [w.committed \cup w.new -> SUBSET w.committed]

NoRef == "none"
Ids == Committed \cup New

VARIABLES
    rows,       \* the records
    claims,     \* active claims: [who, id, key, val]
    doc,        \* the entries of the patch being written
    plan,       \* None, or the accepted plan
    sets,       \* the change sets of the last patch applied: entry -> its claims and retractions
    patches, edits

vars == <<world, rows, claims, doc, plan, sets, patches, edits>>

-----------------------------------------------------------------------------
(* Claims and what they resolve to.  The patch source outranks the other   *)
(* actor, for a tag too: a removal that wins removes it.                   *)
Name == <<"name">>
Ref == <<"ref">>
Status == <<"status">>
Tag(x) == <<"tag", x>>

SaidIn(store, who, id, key) ==
    {c.val : c \in {d \in store : d.who = who /\ d.id = id /\ d.key = key}}

Said(who, id, key) == SaidIn(claims, who, id, key)

Winner(id, key) == IF Said("patch", id, key) # {} THEN Said("patch", id, key) ELSE Said("other", id, key)

Active(id) == id \in rows /\ "deleted" \notin Winner(id, Status)

RefersTo(id, x) == x \in Winner(id, Ref)

Tagged(id, x) == "yes" \in Winner(id, Tag(x))

(* soft_delete_walk: the record and its active cascade children, and the   *)
(* active records outside that point at one of them.                       *)
Footprint(id) == {id} \cup {k \in Kids[id] : Active(k)}

Blocked(id) ==
    \E r \in rows \ Footprint(id) : Active(r) /\ \E x \in Footprint(id) : RefersTo(r, x)

-----------------------------------------------------------------------------
(* Compiling one entry.                                                    *)
Entries ==
    [op : {"create"} \cap Operations, id : Ids, arg : Ids \cup {NoRef}, note : BOOLEAN] \cup
    [op : {"delete"} \cap Operations, id : Ids, arg : {NoRef}, note : BOOLEAN] \cup
    [op : {"name"} \cap Operations, id : Ids, arg : Names, note : BOOLEAN] \cup
    {e \in [op : {"ref", "add", "remove"} \cap Operations, id : Ids, arg : Ids, note : BOOLEAN] :
        e.arg # e.id} \cup
    [op : {"retract"} \cap Operations, id : Ids, arg : {Name, Ref}, note : BOOLEAN]

(* The registry before entry i: what the entries above create.             *)
Registered(i) == {doc[j].id : j \in {k \in 1 .. i - 1 : doc[k].op = "create"}}

Known(i, x) == x \in rows \cup Registered(i)

(* _no_such_record: an edit names a row or a create above it; retract and  *)
(* remove have nothing to act on in a record this patch creates.           *)
TargetFound(i) ==
    IF doc[i].op = "create" THEN doc[i].id \notin rows \cup Registered(i)
    ELSE IF doc[i].op \in {"delete", "retract", "remove"} THEN doc[i].id \in rows
    ELSE Known(i, doc[i].id)

(* Values and members name a row or a create above; a removal's member is  *)
(* a committed row.                                                        *)
ValueFound(i) ==
    CASE doc[i].op = "create" -> doc[i].arg = NoRef \/ Known(i, doc[i].arg)
      [] doc[i].op \in {"ref", "add"} -> Known(i, doc[i].arg)
      [] doc[i].op = "remove" -> doc[i].arg \in rows
      [] OTHER -> TRUE

(* A removal or a retraction of what this source does not claim writes     *)
(* nothing.                                                                *)
NoOp(i) ==
    \/ doc[i].op = "remove" /\ "yes" \notin Said("patch", doc[i].id, Tag(doc[i].arg))
    \/ doc[i].op = "retract" /\ Said("patch", doc[i].id, doc[i].arg) = {}

EntryAccepted(i) ==
    /\ TargetFound(i)
    /\ ValueFound(i)
    /\ doc[i].op = "delete" => ~Blocked(doc[i].id)
    /\ doc[i].note => ~NoOp(i)

Assertion(i, id, key, val) == [entry |-> i, id |-> id, key |-> key, val |-> val]

(* The assertions of one entry.                                            *)
Emitted(i) ==
    LET e == doc[i] IN
    CASE e.op = "create" -> {Assertion(i, e.id, Status, "active")} \cup
                            {Assertion(i, e.id, Ref, x) : x \in {e.arg} \ {NoRef}}
      [] e.op = "delete" -> {Assertion(i, x, Status, "deleted") : x \in Footprint(e.id)}
      [] e.op = "name" -> {Assertion(i, e.id, Name, e.arg)}
      [] e.op = "ref" -> {Assertion(i, e.id, Ref, e.arg)}
      [] e.op = "add" -> {Assertion(i, e.id, Tag(e.arg), "yes")}
      [] e.op = "remove" /\ ~NoOp(i) -> {Assertion(i, e.id, Tag(e.arg), "no")}
      [] OTHER -> {}

Retracted(i) ==
    {[entry |-> i, id |-> doc[i].id, key |-> key] :
        key \in {k \in {Name, Ref} : doc[i].op = "retract" /\ doc[i].arg = k /\ ~NoOp(i)}}

-----------------------------------------------------------------------------
(* The checks across entries.                                              *)
(* The claim slots an entry means to write, whether or not it will: the    *)
(* removals and retractions that turn out to be nothing included.          *)
Intended(i) ==
    {<<a.id, a.key>> : a \in Emitted(i)} \cup
    {<<doc[i].id, doc[i].arg>> : j \in {k \in {i} : doc[k].op = "retract"}} \cup
    {<<doc[i].id, Tag(doc[i].arg)>> : j \in {k \in {i} : doc[k].op = "remove"}}

(* Mutant: references and members are not compared.                        *)
WrittenSlots(i) == {<<a.id, a.key>> : a \in {b \in Emitted(i) : b.key \in {Name, Status}}}

DisjointSlotsWritten == \A i, j \in DOMAIN doc : i # j => WrittenSlots(i) \cap WrittenSlots(j) = {}

(* One slot, one entry.  (The code asks in five steps: fields, retracted   *)
(* fields, members, deferred members, removed members; then both ways.)    *)
DisjointClaims == \A i, j \in DOMAIN doc : i # j => Intended(i) \cap Intended(j) = {}

(* No other entry touches what a delete takes.                             *)
DeletesExclusive ==
    \A i, j \in DOMAIN doc :
        i # j /\ doc[i].op = "delete" =>
            (IF doc[j].op = "delete" THEN Footprint(doc[j].id) ELSE {doc[j].id})
                \cap Footprint(doc[i].id) = {}

(* No reference is set to what this patch deletes, cascade included.       *)
NothingReassignedOntoDeleted ==
    \A i, j \in DOMAIN doc :
        doc[i].op = "delete" /\ doc[i].id \in rows /\ doc[j].op \in {"create", "ref"} =>
            doc[j].arg \notin Footprint(doc[i].id)

Accepted ==
    /\ NothingReassignedOntoDeleted
    /\ \A i \in DOMAIN doc : EntryAccepted(i)
    /\ DisjointClaims
    /\ DeletesExclusive

-----------------------------------------------------------------------------
(* Applying.                                                               *)
CreatesOf(p) == {i \in DOMAIN p.doc : p.doc[i].op = "create"}

(* The handle a create waits for.                                          *)
Awaits(p, i) == {j \in CreatesOf(p) : j < i /\ p.doc[j].id = p.doc[i].arg /\ p.doc[i].arg \in p.handles}

(* _create_entities: a batch ends where a create refers into it.           *)
BatchOf(p, i) ==
    LET f[k \in 0 .. Len(p.doc)] ==
            IF k = 0 THEN [batch |-> 1, start |-> 1]
            ELSE IF k \in CreatesOf(p) /\ (\E j \in Awaits(p, k) : j >= f[k - 1].start)
                 THEN [batch |-> f[k - 1].batch + 1, start |-> k]
                 ELSE f[k - 1]
    IN f[i].batch

(* The apply engine's own validation of the plan.  A create comes with the *)
(* claims of what it sets,                                                 *)
EntitiesClaimed(p) ==
    \A i \in CreatesOf(p) :
        /\ Assertion(i, p.doc[i].id, Status, "active") \in p.asserts
        /\ p.doc[i].arg # NoRef => Assertion(i, p.doc[i].id, Ref, p.doc[i].arg) \in p.asserts

(* and refers only to creates above it;                                    *)
HandleRefsLookBack(p) ==
    \A i \in CreatesOf(p) : p.doc[i].arg \in p.handles =>
        \E j \in CreatesOf(p) : j < i /\ p.doc[j].id = p.doc[i].arg

(* whatever is written belongs to an entry, which gets its change set;     *)
EntriesStamped(p) == \A w \in p.asserts \cup p.retracts : w.entry \in DOMAIN p.doc

(* no handle is made twice, and an assertion is about a row or a handle,   *)
(* as is what it refers to.                                                *)
TargetsStand(p) ==
    /\ \A i, j \in CreatesOf(p) : p.doc[i].id = p.doc[j].id => i = j
    /\ \A a \in p.asserts :
          /\ a.id \in rows \cup p.handles
          /\ a.key = Ref => a.val \in rows \cup p.handles
          /\ \A x \in Ids : a.key = Tag(x) => x \in rows \cup p.handles

WellFormed(p) ==
    EntitiesClaimed(p) /\ HandleRefsLookBack(p) /\ EntriesStamped(p) /\ TargetsStand(p)

(* _create_entities reads the keys of the creates of earlier batches.      *)
HandlesResolve(p) == \A i \in CreatesOf(p) : \A j \in Awaits(p, i) : BatchOf(p, j) < BatchOf(p, i)

(* _diff_claims: an assertion the source already makes is dropped.         *)
Changes(p) == {a \in p.asserts : a.val \notin Said("patch", a.id, a.key)}

(* _process_retractions: what is still claimed.                            *)
Retractions(p) == {r \in p.retracts : Said("patch", r.id, r.key) # {}}

(* _check_empty_diff_entries: a note must ride a change; re-deletes may.   *)
NotesCarried(p) ==
    \A i \in DOMAIN p.doc :
        p.doc[i].note /\ p.doc[i].op # "delete" =>
            \E c \in Changes(p) \cup Retractions(p) : c.entry = i

Writable(p) ==
    /\ \A h \in p.handles : h \notin rows       \* the unique public id
    /\ WellFormed(p) /\ HandlesResolve(p)
    /\ NotesCarried(p)

Claim(who, id, key, val) == [who |-> who, id |-> id, key |-> key, val |-> val]

-----------------------------------------------------------------------------
Init ==
    /\ world \in Worlds
    /\ rows = Committed
    /\ \E id \in Committed, x \in Committed \cup {NoRef} :
          claims = {Claim("other", id, Ref, y) : y \in {x} \ {NoRef, id}}
    /\ doc = <<>> /\ plan = None /\ sets = <<>>
    /\ patches = 0 /\ edits = 0

(* The author goes on while the patch so far would be accepted: what is    *)
(* refused stays refused with more entries.                                *)
Write ==
    /\ plan = None /\ Len(doc) < MaxEntries /\ patches < MaxPatches
    /\ Accepted
    /\ \E e \in Entries : doc' = Append(doc, e)
    /\ UNCHANGED <<rows, claims, plan, sets, patches, edits>>

(* build_plan, every check and every read of it.                           *)
Build ==
    /\ plan = None /\ doc # <<>>
    /\ Accepted
    /\ plan' = [doc |-> doc,
                asserts |-> UNION {Emitted(i) : i \in DOMAIN doc},
                retracts |-> UNION {Retracted(i) : i \in DOMAIN doc},
                handles |-> {doc[i].id : i \in {j \in DOMAIN doc : doc[j].op = "create"}},
                undisturbed |-> TRUE]
    /\ doc' = <<>>
    /\ UNCHANGED <<rows, claims, sets, patches, edits>>

Refuse ==
    /\ plan = None /\ doc # <<>>
    /\ ~Accepted
    /\ doc' = <<>>
    /\ UNCHANGED <<rows, claims, plan, sets, patches, edits>>

(* apply_plan, a transaction that commits.                                 *)
Apply ==
    /\ plan # None /\ Writable(plan)
    /\ rows' = rows \cup plan.handles
    /\ claims' =
          {c \in claims : c.who = "patch" =>
              \A w \in Changes(plan) \cup Retractions(plan) : <<c.id, c.key>> # <<w.id, w.key>>}
          \cup {Claim("patch", a.id, a.key, a.val) : a \in Changes(plan)}
    /\ sets' = [i \in DOMAIN plan.doc |->
                  [claims |-> {a \in Changes(plan) : a.entry = i},
                   retractions |-> {r \in Retractions(plan) : r.entry = i}]]
    /\ plan' = None /\ patches' = patches + 1
    /\ UNCHANGED <<doc, edits>>

(* The transaction is rolled back, the run recorded as failed.             *)
Fail ==
    /\ plan # None /\ ~Writable(plan)
    /\ plan' = None /\ patches' = patches + 1
    /\ UNCHANGED <<rows, claims, doc, sets, edits>>

(* Another actor sets or clears a reference, or creates a record.          *)
Edit ==
    /\ edits < MaxEdits
    /\ plan # None => EditorMoves
    /\ doc = <<>>
    /\ \/ \E id \in rows, x \in rows \cup {NoRef} :
             /\ Active(id) /\ (x # NoRef => Active(x))
             /\ claims' = {c \in claims : c.who # "other" \/ c.id # id \/ c.key # Ref}
                          \cup {Claim("other", id, Ref, y) : y \in {x} \ {NoRef}}
             /\ UNCHANGED rows
       \/ \E id \in New \ rows :
             /\ rows' = rows \cup {id}
             /\ claims' = claims \cup {Claim("other", id, Status, "active")}
       \/ \E id \in rows, x \in rows, val \in {"yes", "no"} :
             /\ "add" \in Operations /\ Active(id) /\ x # id
             /\ Tagged(id, x) # (val = "yes")
             /\ claims' = {c \in claims : c.who # "other" \/ c.id # id \/ c.key # Tag(x)}
                          \cup {Claim("other", id, Tag(x), val)}
             /\ UNCHANGED rows
    /\ plan' = IF plan = None THEN plan ELSE [plan EXCEPT !.undisturbed = FALSE]
    /\ edits' = edits + 1
    /\ UNCHANGED <<doc, sets, patches>>

Next == (Write \/ Build \/ Refuse \/ Apply \/ Fail \/ Edit) /\ UNCHANGED world

Spec == Init /\ [][Next]_vars

-----------------------------------------------------------------------------
(* Every actor has at most one active claim per slot, and only on a        *)
(* record.                                                                 *)
TypeOK ==
    /\ rows \subseteq Ids
    /\ \A c, d \in claims :
          c.who = d.who /\ c.id = d.id /\ c.key = d.key => c = d
    /\ \A c \in claims : c.id \in rows

Applied == plan # None /\ plan' = None /\ sets' # sets

EntriesTakeEffect ==
    \A i \in DOMAIN plan.doc :
        LET e == plan.doc[i] IN
        /\ e.op = "name" => SaidIn(claims', "patch", e.id, Name) = {e.arg}
        /\ e.op = "ref" => SaidIn(claims', "patch", e.id, Ref) = {e.arg}
        /\ e.op = "add" => SaidIn(claims', "patch", e.id, Tag(e.arg)) = {"yes"}
        /\ e.op = "remove" => "yes" \notin SaidIn(claims', "patch", e.id, Tag(e.arg))
        /\ e.op = "delete" => SaidIn(claims', "patch", e.id, Status) = {"deleted"}
        /\ e.op = "retract" => SaidIn(claims', "patch", e.id, e.arg) = {}

(* What an entry of an accepted patch says is what the source claims when  *)
(* the patch is in: no entry loses its claim to another's, whatever was    *)
(* written between planning and applying.                                  *)
EveryEntryTakesEffect == [][Applied => EntriesTakeEffect]_vars

(* What build_plan accepts, apply_plan does not find malformed, and every  *)
(* row a create refers to is in an earlier batch.  (A public id taken      *)
(* since planning fails the plan, and so does a note on what the source    *)
(* already claims.)                                                        *)
AcceptedPlansAreSound == plan # None => WellFormed(plan) /\ HandlesResolve(plan)

NoReferrerLeft ==
    \A x \in rows, y \in rows' :
        Active(x) /\ ~Active(x)' => ~(Active(y)' /\ RefersTo(y, x)')

(* A patch planned and applied undisturbed, with no retraction in it,      *)
(* leaves no live record pointing at what it deletes.                      *)
DeletesLeaveNoReferrer ==
    [][Applied /\ plan.undisturbed /\ plan.retracts = {} => NoReferrerLeft]_vars

(* "It refuses while an active PROTECT referrer would be left dangling."   *)
DeletesRefuseReferrers == [][Applied /\ plan.undisturbed => NoReferrerLeft]_vars

(* "The resolver unions exists=true across sources": a member one source   *)
(* claims present stands whatever another removes.                         *)
MembersAreUnions ==
    \A id, x \in rows : "yes" \in Said("patch", id, Tag(x)) \cup Said("other", id, Tag(x)) => Tagged(id, x)

NotesRide ==
    \A i \in DOMAIN plan.doc :
        plan.doc[i].note /\ plan.doc[i].op # "delete" =>
            \/ sets'[i].retractions # {}
            \/ \E a \in sets'[i].claims : a.id = plan.doc[i].id

(* A note of an applied patch rides a change set with something in it.     *)
NotesRideChanges == [][Applied => NotesRide]_vars
=============================================================================
