------------------------------ MODULE CiteSlugs ------------------------------
(***************************************************************************)
(* Citation slugs.  A draft reserves a slug as soon as a citation is       *)
(* picked and mints the instance under it when it is saved; evidence and   *)
(* patches mint under slugs of their own.  Reservations and instances are  *)
(* two tables, each with its own unique index, and every path looks into   *)
(* the table it does not write before it writes the other one.             *)
(*                                                                         *)
(* An instance is immutable and found by its slug, so the slug also stands *)
(* for its pk: a stored marker [[cite:id:N]] is the slug of instance N.    *)
(***************************************************************************)
EXTENDS Naturals, FiniteSets

CONSTANTS
    Slugs,         \* what the generator can draw
    Users,
    Loader,        \* mints for a patch
    Workers,       \* concurrent requests and commands
    MaxAttempts,   \* _MINT_MAX_ATTEMPTS
    MaxRequests    \* bound: requests in a behaviour

CiteAssumption ==
    Slugs # {} /\ Loader \notin Users /\ MaxAttempts \in Nat \ {0} /\ MaxRequests \in Nat

VARIABLES
    reserved,    \* slug -> the user whose draft holds it
    instances,   \* slug -> who minted it
    log,         \* committed saves: what they consumed and what their text cites
    begun,       \* requests begun
    work         \* the request each worker is handling

vars == <<reserved, instances, log, begun, work>>

Pcs == {"idle", "draw", "insert", "plan", "lock", "mint", "evidence", "attach",
        "draw all", "insert all", "commit"}

\* fresh: slugs of uncommitted instances; solo: no other request overlapped
Request == [pc : Pcs, no : 0 .. MaxRequests, user : Users \cup {Loader},
            specs : SUBSET Slugs, text : SUBSET Slugs, stored : SUBSET Slugs,
            evidence : BOOLEAN, slug : Slugs, tries : 0 .. MaxAttempts - 1,
            fresh : SUBSET Slugs, solo : BOOLEAN]

Idle == [pc |-> "idle", no |-> 0, user |-> Loader, specs |-> {}, text |-> {},
         stored |-> {}, evidence |-> FALSE, slug |-> CHOOSE s \in Slugs : TRUE,
         tries |-> 0, fresh |-> {}, solo |-> FALSE]

TypeOK ==
    /\ DOMAIN reserved \subseteq Slugs /\ \A s \in DOMAIN reserved : reserved[s] \in Users
    /\ DOMAIN instances \subseteq Slugs
    /\ \A s \in DOMAIN instances : instances[s] \in Users \cup {Loader}
    /\ log \subseteq [no : 1 .. MaxRequests, user : Users, specs : SUBSET Slugs, cites : SUBSET Slugs]
    /\ begun \in 0 .. MaxRequests
    /\ work \in [Workers -> Request]

Init ==
    /\ reserved = [s \in {} |-> Loader]
    /\ instances = [s \in {} |-> Loader]
    /\ log = {}
    /\ begun = 0
    /\ work = [w \in Workers |-> Idle]

-----------------------------------------------------------------------------
Goto(w, r) == work' = [work EXCEPT ![w] = r]

Begin(w, r) ==
    LET alone == \A v \in Workers \ {w} : work[v].pc = "idle"
    IN  /\ work[w].pc = "idle"
        /\ begun < MaxRequests
        /\ begun' = begun + 1
        /\ work' = [v \in Workers |->
                      IF v = w THEN [r EXCEPT !.no = begun + 1, !.solo = alone]
                      ELSE [work[v] EXCEPT !.solo = FALSE]]
        /\ UNCHANGED <<reserved, instances, log>>

\* An error response, or a lost worker: the open transaction rolls back
Fail(w) ==
    /\ work[w].pc # "idle"
    /\ Goto(w, Idle)
    /\ UNCHANGED <<reserved, instances, log, begun>>

\* Another transaction has inserted an instance of slug s, or locked or
\* deleted its reservation, and has not ended
Minting(w, s) == \E v \in Workers \ {w} : s \in work[v].fresh

Consuming(w, s) ==
    \E v \in Workers \ {w} :
        s \in work[v].specs /\ work[v].pc \in {"mint", "evidence", "attach", "commit"}

Retry(w, pc) ==
    LET r == work[w]
    IN  IF r.tries + 1 = MaxAttempts THEN Fail(w)
        ELSE /\ Goto(w, [r EXCEPT !.pc = pc, !.tries = @ + 1])
             /\ UNCHANGED <<reserved, instances, log, begun>>

-----------------------------------------------------------------------------
BeginReserve(w, u) == Begin(w, [Idle EXCEPT !.pc = "draw", !.user = u])

\* reserve_citation_slug: draw a candidate no instance holds ...
Draw(w) ==
    /\ work[w].pc = "draw"
    /\ \E s \in Slugs :
          \/ s \in DOMAIN instances /\ Retry(w, "draw")
          \/ /\ s \notin DOMAIN instances
             /\ Goto(w, [work[w] EXCEPT !.pc = "insert", !.slug = s])
             /\ UNCHANGED <<reserved, instances, log, begun>>

\* ... and let the table's unique constraint decide between reservers
Reserve(w) ==
    LET r == work[w]
    IN  /\ r.pc = "insert"
        /\ ~Consuming(w, r.slug)
        /\ \/ r.slug \in DOMAIN reserved /\ Retry(w, "draw")
           \/ /\ r.slug \notin DOMAIN reserved
              /\ reserved' = [s \in DOMAIN reserved \cup {r.slug} |->
                                IF s = r.slug THEN r.user ELSE reserved[s]]
              /\ Goto(w, Idle)
              /\ UNCHANGED <<instances, log, begun>>

-----------------------------------------------------------------------------
\* A PATCH with the text's markers and the specs of its pending citations
BeginSave(w, u, specs, text, evidence) ==
    Begin(w, [Idle EXCEPT !.pc = "plan", !.user = u, !.specs = specs, !.text = text,
                !.evidence = evidence])

\* convert_authoring_to_storage: a marker of an instance is stored, one whose
\* spec came along is deferred, any other fails the save
Plan(w) ==
    LET r == work[w]
        stored == r.text \cap DOMAIN instances
    IN  /\ r.pc = "plan"
        /\ \/ ~(r.text \subseteq stored \cup r.specs) /\ Fail(w)
           \/ /\ r.text \subseteq stored \cup r.specs
              /\ Goto(w, [r EXCEPT !.pc = "lock", !.stored = stored])
              /\ UNCHANGED <<reserved, instances, log, begun>>

\* Each of the slugs is a live reservation of u
Holds(u, S) == \A s \in S : s \in DOMAIN reserved /\ reserved[s] = u

\* _mint_inline_citations: SELECT ... FOR UPDATE, then each slug must be a live
\* reservation of this user
Lock(w) ==
    LET r == work[w]
    IN  /\ r.pc = "lock"
        /\ \A s \in r.specs : ~Consuming(w, s)
        /\ \/ ~Holds(r.user, r.specs) /\ Fail(w)
           \/ /\ Holds(r.user, r.specs)
              /\ Goto(w, [r EXCEPT !.pc = "mint"])
              /\ UNCHANGED <<reserved, instances, log, begun>>

\* Mutant: specs without a marker are minted too
NoneUnreferenced(r) == {}

\* Specs that no deferred marker of the text names
Unreferenced(r) == r.specs \ (r.text \ r.stored)

\* The instances are inserted, the reservations deleted, the deferred markers
\* rewritten; a spec no deferred marker names fails the save
Mint(w) ==
    LET r == work[w]
    IN  /\ r.pc = "mint"
        /\ \A s \in r.specs : ~Minting(w, s)
        /\ \/ (r.specs \cap DOMAIN instances # {} \/ Unreferenced(r) # {}) /\ Fail(w)
           \/ /\ r.specs \cap DOMAIN instances = {} /\ Unreferenced(r) = {}
              /\ Goto(w, [r EXCEPT !.pc = IF r.evidence THEN "evidence" ELSE "commit",
                                   !.fresh = r.specs])
              /\ UNCHANGED <<reserved, instances, log, begun>>

\* _attach_citations, CitationInstance.save: a drawn slug that no reservation
\* holds (its own are deleted already) ...
DrawEvidence(w) ==
    LET r == work[w]
    IN  /\ r.pc = "evidence"
        /\ \E s \in Slugs :
              \/ s \in DOMAIN reserved \ r.specs /\ Retry(w, "evidence")
              \/ /\ s \notin DOMAIN reserved \ r.specs
                 /\ Goto(w, [r EXCEPT !.pc = "attach", !.slug = s])
                 /\ UNCHANGED <<reserved, instances, log, begun>>

\* ... and no second try when an instance has it
Attach(w) ==
    LET r == work[w]
    IN  /\ r.pc = "attach"
        /\ ~Minting(w, r.slug)
        /\ \/ r.slug \in DOMAIN instances \cup r.fresh /\ Fail(w)
           \/ /\ r.slug \notin DOMAIN instances \cup r.fresh
              /\ Goto(w, [r EXCEPT !.pc = "commit", !.fresh = @ \cup {r.slug}])
              /\ UNCHANGED <<reserved, instances, log, begun>>

MintedBy(r) ==
    [s \in DOMAIN instances \cup r.fresh |-> IF s \in r.fresh THEN r.user ELSE instances[s]]

\* execute_claims: the claims, the instances and the consumed reservations
CommitSave(w) ==
    LET r == work[w]
    IN  /\ r.pc = "commit" /\ r.user \in Users
        /\ instances' = MintedBy(r)
        /\ reserved' = [s \in DOMAIN reserved \ r.specs |-> reserved[s]]
        /\ log' = log \cup {[no |-> r.no, user |-> r.user, specs |-> r.specs, cites |-> r.text]}
        /\ Goto(w, Idle)
        /\ UNCHANGED begun

-----------------------------------------------------------------------------
BeginPatch(w) == Begin(w, [Idle EXCEPT !.pc = "draw all"])

\* mint_many: new slugs for the batch until no reservation holds one ...
DrawBatch(w) ==
    LET r == work[w]
    IN  /\ r.pc = "draw all"
        /\ \E s \in Slugs :
              \/ s \in DOMAIN reserved /\ Retry(w, "draw all")
              \/ /\ s \notin DOMAIN reserved
                 /\ Goto(w, [r EXCEPT !.pc = "insert all", !.slug = s])
                 /\ UNCHANGED <<reserved, instances, log, begun>>

\* ... and bulk_create in a savepoint: a collision draws the batch again
InsertBatch(w) ==
    LET r == work[w]
    IN  /\ r.pc = "insert all"
        /\ ~Minting(w, r.slug)
        /\ \/ r.slug \in DOMAIN instances /\ Retry(w, "draw all")
           \/ /\ r.slug \notin DOMAIN instances
              /\ Goto(w, [r EXCEPT !.pc = "commit", !.fresh = {r.slug}])
              /\ UNCHANGED <<reserved, instances, log, begun>>

CommitPatch(w) ==
    LET r == work[w]
    IN  /\ r.pc = "commit" /\ r.user = Loader
        /\ instances' = MintedBy(r)
        /\ Goto(w, Idle)
        /\ UNCHANGED <<reserved, log, begun>>

-----------------------------------------------------------------------------
Next ==
    \E w \in Workers :
        \/ \E u \in Users :
              \/ BeginReserve(w, u)
              \/ \E specs, text \in SUBSET Slugs, e \in BOOLEAN :
                    text # {} /\ BeginSave(w, u, specs, text, e)
        \/ BeginPatch(w)
        \/ Draw(w) \/ Reserve(w)
        \/ Plan(w) \/ Lock(w) \/ Mint(w) \/ DrawEvidence(w) \/ Attach(w) \/ CommitSave(w)
        \/ DrawBatch(w) \/ InsertBatch(w) \/ CommitPatch(w)
        \/ Fail(w)

Spec == Init /\ [][Next]_vars

-----------------------------------------------------------------------------
\* Every citation a committed text shows exists, and every instance minted
\* under a reserved slug is cited by the text it was saved with: a failed save
\* leaves neither a dangling marker nor an orphan (execute_claims).
TextAndInstancesAgree ==
    \A e \in log : e.specs \subseteq e.cites /\ e.cites \subseteq DOMAIN instances

\* However often a save is sent again, from however many tabs, each reserved
\* slug is consumed by one save (_mint_inline_citations).
ConsumedOnce ==
    \A e, f \in log : e.no # f.no => e.specs \cap f.specs = {}

\* What a committed save leaves: its citations resolve and are its own.
SavedCitesResolve == TextAndInstancesAgree /\ ConsumedOnce

\* A reservation ends only in a save of its holder, together with the instance
\* and the text that cites it: nobody can squat or steal a draft's slug.
ReservationsEndInTheirSave ==
    [][\A s \in DOMAIN reserved \ DOMAIN reserved' :
          /\ s \in DOMAIN instances' \ DOMAIN instances
          /\ \E e \in log' \ log : e.user = reserved[s] /\ s \in e.specs]_vars

Doomed == DOMAIN reserved \cap DOMAIN instances

\* A slug that is reserved although an instance has it dooms the draft that
\* holds it.  Only requests that overlap can bring that about: each looks in
\* the other's table before it writes its own (reserve_citation_slug,
\* mint_many, CitationInstance.save).
SoloRequestsDoomNoDraft ==
    [][\A w \in Workers :
          work[w].solo /\ work[w].pc # "idle" /\ work'[w] # work[w] => Doomed' \subseteq Doomed]_vars

\* What a draft can count on between its reservation and its save.
DraftsKeepTheirSlugs == ReservationsEndInTheirSave /\ SoloRequestsDoomNoDraft
=============================================================================
