# Flipcommons in TLA+

Flipcommons is a pinball catalogue that anyone can edit. Its central idea
(`docs/DataArchitecture.md`) is that nobody writes the catalogue: users and
sources write *claims* — "this actor says this field of this entity has this
value" — into a log that is never edited, and the rows everyone reads are a
*view* that resolution computes from the active claims. Around that sit the
record lifecycle (create, soft delete, undo, restore), relationship editors, a
patch ingest that applies numbered YAML files in production, citations and their
sources, uploaded media, a read-through response cache, listings with facets,
signup, kiosks and rate limits.

This directory is a model of those parts: TLA+ modules translated from the
source, TLC configurations that check them on small instances, and theorems
that TLAPS proves for instances of any size. `PROJECT.json` maps every
definition to the lines it stands for and lists the components, the runs, the
mutants (a plausible bug for each property that makes TLC reject it), the
findings, the hazards and the theorems.

Contents: [the system](#the-system), [modules](#the-modules),
[runs](#the-runs), [bounds](#bounds-and-why-they-are-enough),
[fairness](#fairness), [proofs](#what-is-proved),
[disagreements](#where-the-code-and-its-documents-disagree),
[abstractions](#abstractions-to-keep-in-mind), [what is left out](#what-is-not-modelled), [plan](#plan).

## The system

Paths are under `src/backend/apps/` unless they start with `src/`.

### Claim log — `provenance/`

*State*: `ChangeSet` rows (who, which action), `Claim` rows (actor, subject,
claim key, value, `is_active`, `retracted_by_changeset`). *Operations*:
`_assert_claim` (deactivate the actor's active claim of the slot, insert the new
one), `execute_revert` (deactivate one user claim, stamp it, reactivate the
newest of its slot that was superseded and not retracted),
`execute_undo_changeset` (the same for all claims of one's own delete),
the bulk supersede/retract/create of an ingest. *Guards in the database*: a
partial unique index — one active claim per (actor, subject, key) — and a check
constraint — a retracted claim is inactive.

*Hard*: reverts of reverts by several people; a revert reads its target before
its transaction; two transactions that write one slot; the predecessor found by
one transaction and retracted by another.

*Correct when*: each (actor, subject, key) behaves as an undo stack of its own;
nothing retracted returns; nobody's write silences a rival's claim; history is
never rewritten, whatever interleaves.

### History pages — `provenance/history.py`, `page_endpoints.py`, `pagination.py`

No state of their own: a record's edit history, one changeset's page and the feed
of changes are computed from the log on every request, with what each change
replaced, which one wins, and what was withdrawn by whom. *Hard*: the old value
comes from any author's claim while the winner is one actor's; the feed grows and
loses nothing between two pages of one reader. *Correct when*: they tell the
whole log and agree with each other, and a page once read stays what it was.

### Resolution — `catalog/resolve/`, `provenance/resolution/`

*State*: the catalogue rows. *Operations*: `pick_winners` (highest priority,
then newest, among the active claims of actors that are not suppressed),
`resolve_entity` (every column, a blank or preserved fallback, `obj.save()`),
the relationship resolvers (members), all called by `resolve_after_mutation` in
the writer's transaction.

*Hard*: a save writes *all* columns from the claims one transaction could see;
columns that must keep a value when nothing claims them; the kill switch of a
source changes what wins without resolving anything; a unique column fails after
the claims were written.

*Correct when*: the rows are always what the log resolves to.

### Interactive writes — `claim_edit/`

`plan_*` and `execute_claims`: validate, open the transaction, record a
changeset, assert, resolve. Used by every editing endpoint.

### Record lifecycle — `catalog/api/titles.py`, `machine_models.py`, `catalog/engine/entity_api/`, `core/soft_delete.py`

*State*: the `status`, parent and self references of the rows. *Operations*:
create, PATCH, delete (cascades to the models of a title and is blocked by
live referrers outside the cascade), restore, undo, revert. Every check — is the
name free, what cascades, who blocks, would this make a variant of a variant —
is a query *before* the write's transaction.

*Correct when*: a delete leaves no live referrer behind, an undo brings back
all of what a delete took, variants stay flat, live titles have distinct names.

What cascades, what blocks and what a delete ignores is *declared* per model and
checked against the inbound relations when the server starts (`core/checks.py`).
*Correct when*: no set of declarations the check accepts can leave a live record
pointing at a deleted one.

### Patch ingest — `catalog/management/commands/ingest_patches.py`, `claim_ingest/apply/`

*State*: `IngestRun` rows with a partial unique index on successes. A command
goes through the patch files in order: look in the ledger, plan, commit a
*running* run, then apply claims and flip the run to *success* in one
transaction; a failure is marked in a second transaction and ends the command;
an `IntegrityError` is followed by a look whether another command was faster.
The response cache is flushed once, at the end.

*Hard*: overlapping commands, kills between any two statements, waiting at the
index. *Correct when*: each patch is applied once, in order, and the ledger says
exactly what is in the database.

### Relationships, hierarchies, locations — `catalog/api/edit_claims.py`, `catalog/resolve/_relationships.py`, `catalog/models/location.py`

*State*: rows of through tables, derived from member claims; trees of themes,
features and locations. *Operations*: a form's list is diffed against the rows
of its page load, claims are written, and the namespace is reconciled: winners
read, rows read, difference written. *Rules no constraint states*: parents are
acyclic, an export-market row without a country is its model's only one, a
location's path is its ancestry. *Hard*: reads, checks and writes are apart, and
reverts check nothing.

### Validation and batch resolution — `provenance/validation.py`, `catalog/resolve/_entities.py`, `_helpers.py`

What a writer may claim is decided from the declaration of a through table; what
the resolver must then make of it from the table's own constraints; a check at
startup (`provenance/model_bases/checks.py`) compares the two. The batch
resolver settles contested slugs and external ids in memory before one bulk
write. *Correct when*: whatever was accepted can be shown and taken back, and
no batch hands a rightful owner's slug to another row.

### Patch parsing and planning — `claim_ingest/patches/`

An authored file becomes entries, entries become one plan built from reads
outside the transaction that applies it. *Correct when*: nothing authored is
lost, each entry takes effect or the patch is refused, a member is one claim
however it is spelled, evidence is attached to what it supports.

### Citations — `citation/`

*State*: sources in a tree, their links, recognition rows (host and path),
reserved slugs and instances, cached drafts. *Operations*: recognise a pasted
address, found a site, mint a page or a record, declare sources by patch, look a
page up over the network. *Hard*: every path looks before it inserts, and only
some of the tables have a unique index to catch the second of two.

### Media — `media/`

*State*: rows in the database, files in an object store, claims that attach
images. *Hard*: the two stores share no transaction; a promotion demotes what it
read.

### Signup, kiosks, links in texts — `accounts/`, `kiosk/`, `core/markdown/`

Sessions and rows are loaded whole and saved whole; a text and its reference
rows are two writes. The kiosk's form (`src/frontend/src/routes/kiosk/edit/`)
saves itself, one request in flight at a time.

### Listings — `catalog/api/_game_rows.py`, `_game_facets.py`, `_manufacturer_facets.py`

The cards of a listing and the numbers beside the options of its sidebar come
from two computations that must agree under every filter.

### Response cache — `catalog/cache.py`, `catalog/signals.py`, `core/response_cache.py`

*State*: one payload per endpoint and audience, without expiry. *Operations*:
a miss reads the display rank, then the rows, then stores; a save of a listed
model flushes inside its transaction and once more after the commit; an ingest
flushes at its end; a policy change flushes after it. A flush deletes one key
after the other.

*Correct when*: what is cached is what would be computed now.

### Rate limiters — `provenance/rate_limits.py`, `core/rate_limits.py`

*State*: a list of timestamps in the shared file cache. *Operation*: read, prune,
refuse or append, write back; nothing is held in between, and the cache may drop
any entry.

### How they interact

Interactive endpoints consult the rate limiter, run their checks, then call
`execute_claims` (or revert/undo), which writes the log, mints the citation
instances its texts reserved and resolves, in one transaction; saving the rows
triggers the cache's signals, and the commit hook of
`provenance/resolution/_dispatch.py` flushes again. The ingest command writes
the same log through the bulk writers and the same resolvers, mints sources and
instances, and flushes the cache itself. Uploads and deletes write claims in
their transaction and objects outside it. The admin toggles sources (which
resolution reads) and edits licences (which the cached export reads). Shared
state is only the database (PostgreSQL, READ COMMITTED), the object store and
the file cache; there are no in-process callbacks between requests. Several
workers and a command may run at once.

## The modules

Paths are under `src/backend/apps/`.

| Module | What it is | Code |
|---|---|---|
| `ClaimLog` | the log: changesets, claims, the active ones, retractions; the writers as operators; the pages that tell it | `provenance/claim_writer.py`, `revert.py`, `history.py`, `page_endpoints.py`, `pagination.py`, `claim_ingest/apply/persist.py` |
| `ClaimStore` | `ClaimLog` with rows: create, edit, revert, ingest, kill switch, each a whole transaction | `claim_edit/claim_write.py`, `revert.py`, `claim_ingest/apply/`, `catalog/resolve/` |
| `EditStacks` | *abstract*: an undo stack per user slot, a register per source slot; `ClaimStore` implements it | — |
| `ClaimTxn` | edits and reverts of one entity, statement by statement, under READ COMMITTED | `claim_write.py`, `claim_writer.py`, `revert.py`, `catalog/resolve/_entities.py` |
| `ClaimValidation` | which through tables pass the startup check, which relationship claims are accepted, and what resolution makes of them under the table's unique rules | `provenance/validation.py`, `model_bases/checks.py` |
| `BulkResolve` | the batch resolver: contested slugs, external ids, flat self references | `catalog/resolve/_entities.py`, `_helpers.py` |
| `Relationships` | the diff of a form's list and the reconcile loop, statement by statement | `catalog/api/edit_claims.py`, `catalog/resolve/_relationships.py`, `_engine.py` |
| `RelationshipRules` | acyclic parents and lone market rows under edits, patches and reverts | `edit_claims.py`, `claim_ingest/patches/planning.py` |
| `Lifecycle` | titles and models over `ClaimLog`: create, PATCH, delete, restore, undo, revert; soft delete over any declared relations | `catalog/api/titles.py`, `machine_models.py`, `core/soft_delete.py`, `core/checks.py`, `revert.py` |
| `LifecycleRequests` | the same requests split at their checks, overlapping | `entity_api/create/persist.py`, `delete/soft_delete.py`, `titles.py` |
| `Locations` | the tree of places: paths, browsing, counts, sitemap | `catalog/models/location.py`, `catalog/api/locations*.py` |
| `PatchParse`, `PatchPlan`, `PatchMembers`, `PatchCites` | a patch from its grammar to its plan, its members, its evidence | `claim_ingest/patches/`, `claim_ingest/apply/` |
| `PatchLedger` | overlapping `ingest_patches` commands | `ingest_patches.py`, `claim_ingest/apply/orchestrate.py` |
| `CiteSlugs` | slugs reserved, minted, consumed, retried | `citation/models.py`, `claim_write.py` |
| `Recognition` | which site an address belongs to | `citation/hosts.py`, `extractors.py`, `api.py` |
| `CitationSources`, `SourceSeeding` | sources minted by cites, declared by patches | `citation/api.py`, `extractors.py`, `source_upsert.py` |
| `Extraction` | looking a pasted citation up over the network | `citation/url_extraction.py`, `extraction.py`, `safe_fetch.py` |
| `MediaStorage`, `MediaGallery` | files and rows; which image shows first | `media/api.py`, `media/storage.py`, `catalog/resolve/_media.py` |
| `MarkdownLinks` | links in texts and the reference rows | `core/markdown/`, `core/wikilinks/` |
| `Kiosk`, `KioskEditor` | the resource API; the autosaving form | `kiosk/api/`, `src/frontend/src/routes/kiosk/edit/` |
| `Signup` | tabs of one session, handles and operators' rows | `accounts/api/` |
| `GameListing`, `ManufacturerList` | listings, facets, sliders, search tiers | `catalog/api/_game_rows.py`, `_game_facets.py`, `_manufacturer_facets.py` |
| `ResponseCache` | readers that fill, writers that flush, processes that die | `catalog/cache.py`, `signals.py`, `core/response_cache.py` |
| `RateLimit` | one bucket and overlapping requests | `provenance/rate_limits.py`, `core/rate_limits.py` |
| `*Proofs` | theorems about the module of that name; `ResolutionProofs` about `ClaimTxn`, `BulkResolve` and `Relationships`, `RequestsProofs` about `LifecycleRequests`, `CiteSlugs`, `RateLimit`, `CitationSources`, `Extraction`, `PatchCites` and `SourceSeeding`, `LifecycleProofs` also about `RelationshipRules` and `Locations`, `IngestProofs` about `PatchLedger`, `PatchPlan` and `PatchMembers`, `PagesProofs` about `ResponseCache`, `GameListing` and `ManufacturerList`, `SiteProofs` about `MediaStorage`, `MediaGallery`, `Kiosk` and `MarkdownLinks` | — |
| `MC*` | the instances TLC checks, several components to a module | — |

`ClaimStore` and `Lifecycle` both extend `ClaimLog`: they write through the same
operators (`RecordChangeset`, `AssertClaims`, `RevertClaims`, `PersistIngest`)
and differ in what the rows are. `ClaimTxn` opens up one step of `ClaimStore`
into its statements; `LifecycleRequests` does the same for the checks of
`Lifecycle`, leaving the claims out. `Relationships` reconciles rows that
`RelationshipRules` takes as reconciled; `PatchPlan` leaves members to
`PatchMembers`, evidence to `PatchCites` and the file to `PatchParse`;
`CitationSources` and `SourceSeeding` take from `Recognition` that a page has
one site.

**Scenes.** An `MC` module puts components side by side that one question is
asked of. Each has variables of its own; a variable `scene` says which of them
moves in a behaviour while the others rest in their initial state. The
components share nothing, so the product of them would have more states and no
more behaviours. Where a component is asked about under several choices of its
parameters, they are the members of one constant and a variable that no step
changes says which one a behaviour has (`Sidebars`, `Worlds`, `Families`,
`Graphs`). An invariant of a component is stated for its scene, an action property of all, which holds of a component at rest.

### How state corresponds

* A **claim** is a record `[cs, actor, subject, key, value]`; `cs` is the place
  of its changeset in the log, and orders claims as `(created_at, pk)` does.
  `active` and `retractedBy` are its two mutable columns. A slot is a triple
  (actor, subject, key), the columns of the unique index.
* A **row** maps keys to values. In `ClaimStore` scalar keys are columns, member
  keys are rows of a relationship's through table; `Cleared` is the claim value
  that clears a field or a tombstone, `Blank` what it materialises as.
* `suppressed` is `Actor.resolution_status` of the sources the admin may switch.
* In `ClaimTxn` a transaction keeps its uncommitted writes in `tx[w].writes`;
  a statement sees the committed claims overlaid with them; an update of a row
  that another transaction wrote waits and then re-reads it; an insert waits for
  another transaction that touched the slot and then succeeds or fails at the
  index. `Fail` is every way to roll back, deadlock included.
* In `LifecycleRequests` `pc` names the next statement: `scan` (name), `slug`,
  `walk` (cascade), `blockers`, `write`. `checked` and `overtaken` are
  auxiliary: they record whether another request came between a check and the
  write that relied on it.
* In `PatchLedger` a shelf is a patch directory — number to content — and the
  log is the list of committed batches; `flipped` is inside the transaction,
  after the run was marked and before the commit.
* In `ResponseCache` the catalogue and the policy are counters of their changes
  and a payload is what its builder read of them. `overlapped` (auxiliary) marks
  a payload whose builder was overtaken by a change, `lost` (auxiliary) the slots
  whose flush died with its process.
* In `RateLimit` `granted` is the history of accepted requests; `kept`
  (auxiliary) says that no other request overlapped this one and the cache was
  not culled since.

Each action is one handler (or, in the statement-level modules, one statement)
with its early returns as guards; what the handler calls at its end — the
resolution, the flush — is part of it. Operators commented "Mutant" are plausible
bugs used to show that a property can fail; no action uses them.


## The runs

`tlc -workers 2 -config <cfg> <module>`. States are distinct states.

| Run | Module / cfg | What it asks | States |
|---|---|---|---|
| `claimstore` | `MCClaimStore` / `ClaimStore` | is the log a set of undo stacks and registers (`ImplementsEditStacks`), and are the rows always what it resolves to (`RowIsResolution`)? | 55 k |
| `claimfields` | `MCClaimStore` / `ClaimFields` | with a source switched on and off at any time: do the history pages tell the log, each claim and each retraction once and by who may make it, with old values that lead back and one winner (`HistoryIsWhole`), and does every write leave its subject's columns as the log resolves (`WriterResolvesColumns`)? | 303 k |
| `resolution` | `MCResolution` / `Resolution` | from claims to rows: what the validators accept can be resolved and taken back (`AcceptedClaimsResolve`); overlapping transactions keep slots stacks (`SlotsStayStacks`) and a write that nothing disturbed repairs the row (`UndisturbedWriteRepairs`); a relationship save alone leaves what the claims ask for (`SavesConverge`); batches leave rightful owners their slugs and ids and make no chains (`BatchesKeepOwners`) | 603 k |
| `records` | `MCRecords` / `Records` | titles and models (`RowsFollowLog`, `DeleteLeavesNoReferrer`, `WritesMakeNoChain`), the rules over relationships (`WritesKeepTheRules`), the tree of places and soft delete under every declaration the startup check accepts (`NothingDangles`) | 794 k |
| `requests` | `MCRequests` / `Requests` | overlapping requests: names (`CheckedNamesAreDistinct`) and trees (`TreesStayWhole`), citation slugs (`SavedCitesResolve`), the limiter (`AtMostLimit`, `RetryAfterIsHonoured`) | 1.15 M |
| `site` | `MCSite` / `Site` | files and rows (`StoreFollowsRows`), galleries (`GalleriesObeyTheLastEdit`), kiosks (`OneList`), links between texts (`EdgesMatchText`), addresses and their sites (`AddressesHaveOneSite`) | 1.17 M |
| `patches` | `MCPatches` / `Patches` | commands that share a ledger (`AppliedOnce`, `LedgerIsTruth`), plans against records another editor may change (`PlansTakeEffect`), members however they are spelled (`MembersStandAlone`) | 1.46 M |
| `citing` | `MCCiting` / `Citing` | the grammar (`NothingAuthoredIsLost`), evidence (`CitesLandOnce`, `CitesFindTheirSources`), sources (`SourcesStayOne`), lookups (`NoSourceIsForked`, which is about minted sources too) | 1.10 M |
| `pages` | `MCPages` / `Pages` | the response cache (`UnovertakenIsFresh`), the games listing and its sidebar (`GamesMatchTheSidebar`), the manufacturers, their sidebar and their search (`MakersMatchTheSidebar`) | 665 k |
| `progress` | `MCProgress` / `Progress` | liveness: `CommandsEnd`, `SubmitsSettle`, `EditsSettle`, `EveryLookupAnswered` | 78 k |

Each run takes between one and four minutes with two workers. A property named
here that is not in a component's module is a conjunction in the `MC` module of
the component's own properties, one per question; the parts are stated and
explained where their component is. For every property `PROJECT.json` has a
mutant — a plausible bug in a mapped definition — under which the run fails.

Component modules state further properties that no run lists: those that a
theorem proves (`LogOnlyGrows`, `OnlyOwnClaimsChange`, `PreservedNeverBlank`,
the type invariants), and those the code does not keep, which the findings refer
to (`RevertsDoNotCollide`, `NoDanglingLink`, `OnePrimary`, …).

Several properties are stated *with* their exception (`~overtaken`, `kept`,
`solo`, `overlapped`, `lost`, `fresh`): the code leaves those races open, some on
purpose ("best-effort"), and the property says that nothing *else* breaks the
promise.

### Bounds, and why they are enough

Every bound is a named constant; the counters it caps only number events.

* `claimstore`: 2 users, 1 source; in "records" two subjects that compete for a
  slug over 5 changesets — create, two edits by different users, a revert of
  each; in "fields" a column and a member over 4. Where two users and a source
  are of equal rank recency decides between them, the harder case.
* `claimfields`: one subject with a preserved column, a plain one and a member;
  4 changesets and any number of toggles: a claim, a rival's, and two reverts or
  edits on top, so that an old value crosses authors and a retraction is read.
* `resolution`: the transactions start from a slot with three claims, two
  superseded, so that a revert can find a predecessor that another revert is
  retracting, and a second column; two workers, three requests. Claims: every mix
  of missing, null, ill-typed and right keys in three bindings that differ in
  identity, nullability, alternatives and payload, two claims to an edge, under
  each table's own unique rules, partial ones among them.
  Relationship saves: two workers, in a namespace of each kind: three members of
  one subject (one dead), a type resolved whole, and rows two subjects contest.
  Batches: three rows, every stored table and
  every set of winners, one column varying at a time; a conflict of a conflict
  needs three.
* `records`: two titles, three models, a variant at the start; deleting,
  restoring and undoing takes three writes, joining and moving edges three
  models. Parents: three records (a cycle of three), three claims; markets: two
  countries and the label, four claims (the two members of `MCGraphs`). Places: two slugs, one the beginning of
  the other, three levels, four edits, and in each behaviour one kind of edit from
  outside the pages (`MCFaultSets`), since together they exceed the run; the
  theorem is about any set of them. Declarations: every two
  relations that a model may have, over three records, so that a cascade has a
  second step and a referrer is inside it or outside.
* `requests`: two overlapping requests, six in all, two titles, models and names:
  create twice, rename, delete, restore, with a race. Slugs: two to draw from, so
  that draws collide, and two attempts. Limiter: limit 2, window 3, six ticks:
  the window passes twice and entries expire.
* `site`: two uploads of three renditions, so that a failure can come first, in
  between and last. Galleries: two tabs of one user, two categories, two images
  and four claims; then two users one after the other in one category, three
  images and five claims, so that a promotion has two others to demote or none
  and a revert something to bring back. Links: three records, two of them old.
  Addresses: twelve URLs and nine declarations chosen for label and segment
  boundaries, three records at a time.
* `patches`: two commands at a time, three in all, two patches, directories that
  differ in length and content. Plans: two worlds (`MCWorlds`). Two entries over three
  records, one a cascade child, two new ids; and, with an editor moving in between,
  two patches and one foreign edit. Members: two to three per entry, two entries, two patches, in
  four families by their kinds (`MCFamilies`).
* `citing`: two entries of three keys; two cites out of fourteen forms chosen by
  the equalities the code has between them; two workers and four cites of one
  site's page and its copy; five blocks of sources that collide in name, type,
  ISBN, slug and host, with two edits by users in between; three pages, one ISBN.
* `pages`: two audiences, one reader, two writers, a patch, two changes of each
  kind — one to overtake the reader and one to follow its store; the writers that
  die are edits and ingests (the theorem about this property has any set of them). Listings: two
  titles and three models, a variant among them, two edits, two selections;
  dimensions of every shape, in two sidebars (`MCSidebars`).
* `progress`: two commands; two tabs and browsers of one person; three texts; one
  lookup with five redirects.

Symmetry is used for users of equal standing, workers, slugs and keys that no
definition chooses among, never in `progress`. `CHECK_DEADLOCK FALSE` is set
because every behaviour stops when its bound is used up.

### Fairness

Only `progress` has liveness, each part under weak fairness of what is already
running:

* `PatchLedger`: a running command executes its next statement. It is a
  sequential process, and when it waits at the index for another transaction
  that one is running too. Nobody is obliged to start, restart or kill one.
* `Signup`: a request that a worker took is handled. Tabs need not submit.
* `KioskEditor`: a save that was sent is served and answered. `Offline` is FALSE:
  a fetch that rejects is a finding, not a promise kept. The user need not type.
* `Extraction`: a lookup takes its own next step, each of which a timeout bounds.

The other components serve requests that may fail or never come: what they
promise is safety, and no fairness is assumed.

## What is proved

Checked by TLAPS for every value of the constants: any number of actors,
entities, keys, requests, processes, uploads, renditions, and no bound on a
behaviour but an arbitrary natural number.

| Theorem | Module | Assumes | Property |
|---|---|---|---|
| `StoreTypeOK` | `ClaimStoreProofs` | | `TypeOK` |
| `SlotsAreStacks` | | | `UniqueActive`, `ActiveIsNewest`, `UserSlotSpeaks` |
| `RetractionIsSound` | | | `RetractedIsInactive`, `RetractionAuthority` |
| `PreservedStay` | | | `PreservedNeverBlank` |
| `HistoryIsKept` | | | `LogOnlyGrows` |
| `WritesAreAttributed` | | | `Attributed` |
| `HistoryStaysWhole` | | | `HistoryIsWhole` |
| `FeedKeepsItsPlace` | | | `PagesStay` |
| `RivalsAreNotSilenced` | | | `OnlyOwnClaimsChange` |
| `WritersRepairColumns` | | | `WriterResolvesColumns` |
| `RowsAreAView` | | `Switchable = {}` | `RowIsResolution` |
| `StoreImplementsStacks` | | | `ImplementsEditStacks` (refinement of `EditStacks`) |
| `SlotsStaySound` | `ResolutionProofs` | | `SlotsStayStacks` |
| `SoloWritesRepair` | | | `UndisturbedWriteRepairs` |
| `BatchesAreFair`, `ScenesKeepOwners` | | | `BatchesKeepOwners` |
| `SavesAlwaysConverge` | | | `SavesConverge` |
| `ClaimsAlwaysResolve` | | | `AcceptedClaimsResolve` |
| `LifecycleTypeOK`, `RowsAlwaysFollowLog` | `LifecycleProofs` | | `TypeOK`, `RowsFollowLog` |
| `DeletesAreClean` | | `UsersOnTop` | `DeleteLeavesNoReferrer` |
| `WritesStayFlat` | | `UsersOnTop` | `WritesMakeNoChain` |
| `DeclarationsSuffice` | | | `DeclarationsAreSafe` |
| `RulesAreKept`, `RulesKeepTypes` | | `RulesAssumption` | `WritesKeepTheRules`, `TypeOK` of `RelationshipRules` |
| `NothingEverDangles`, `PlacesKeepTypes` | | `PlacesAssumption` | `NothingDangles`, `TypeOK` of `Locations` |
| `RequestsTypeOK`, `NamesNeedARace` | `RequestsProofs` | `Bounds` | `TypeOK`, `CheckedNamesAreDistinct` |
| `TreesAreWhole` | | `Bounds` | `TreesStayWhole` |
| `SavedTextsResolve`, `ReservationsAreKept` | | | `SavedCitesResolve`, `DraftsKeepTheirSlugs` |
| `WindowsStayLimited`, `WaitersGetIn` | | | `AtMostLimit`, `RetryAfterIsHonoured` |
| `SourcesAreNeverForked` | | `CitingAssumption` | `NoSourceIsForked` |
| `CitesAlwaysLandOnce` | | | `CitesLandOnce` |
| `CitesAlwaysFindTheirSources` | | `CitingAssumption` | `CitesFindTheirSources` |
| `CacheIsFresh` | `PagesProofs` | `Bounds` | `UnovertakenIsFresh` |
| `GamesAlwaysMatch` | | `GamesAssumption`, `CrossTitle = FALSE` | `GamesMatchTheSidebar` |
| `MakersAlwaysMatch` | | `MakersAssumption` | `MakersMatchTheSidebar` |
| `PatchesApplyOnce`, `LedgerTellsTheTruth` | `IngestProofs` | `Filing` | `AppliedOnce`, `LedgerIsTruth` |
| `PlansAlwaysTakeEffect` | | `PatchesAssumption` | `PlansTakeEffect` |
| `MembersAlwaysStandAlone`, `RemovedStaysGone` | | `PatchesAssumption` | `MembersStandAlone`, `RemovedIsGone` |
| `StoreIsSound` | `SiteProofs` | `AfterCommitFails = FALSE` | `StoreFollowsRows` |
| `GalleriesStayAsEdited` | | | `GalleriesObeyTheLastEdit` |
| `ListsStayWhole`, `EdgesStayWithTexts` | | | `OneList`, `EdgesMatchText` |

`RowsAreAView` needs `Switchable = {}` because the kill switch changes winners
without resolving; `WritersRepairColumns` holds with it. `UsersOnTop` says that no
source outranks a user, as the default priorities do: otherwise a source's claim
may win over the `deleted` a user just wrote, and the record stays alive. `Bounds`
says that the bounds are naturals and the sets not empty; `Filing` that patch
directories hold patches and that every set of patches has a first one.
`AfterCommitFails = FALSE` says that nothing raises after a commit: with it the
property is false, see below. Every module's own `ASSUME`s (disjoint sets, which
keys are columns, a history of earlier edits, distinct renditions, enough slugs
for a table's rows) are used as well; TLC evaluates them in each run. Those of
`ClaimValidation` are the checks a declaration must pass when it is registered and
when the application starts (`WellFormed`, `Declared`) and what these leave to the
models (`Mirrored`): columns declared once, foreign keys that identify, a required
payload where the column is not null, a target constraint that mirrors the
alternatives, unique rules over the whole identity. Each of the modelled
declarations has them. Galleries, kiosks, links, citation slugs, the limiter,
batches, relationship saves and the claim boundary are proved about as `MCSite`,
`MCRequests` and `MCResolution` instantiate them: those modules take the
components' parameters as constants, which only their configurations give values,
so a theorem about `SceneSpec` is one for all values too. It follows from a
theorem about the component's own specification, of which each scene's behaviours
are (`ScenesEditGalleries`, `ScenesShowKiosks`, `ScenesEditTexts`, `ScenesCite`,
`ScenesLimit`, `ScenesSave`). Plans are proved about whatever world they are
planned in: `PatchPlan` keeps the records, fields and entries a behaviour may use
in a variable `world` that no step changes, which starts as any member of the
constant `Worlds`. In the same way `PatchMembers` keeps the schemas and spellings
of a namespace in `family`, one of `Families`, and `RelationshipRules` a
hierarchy or a market with those who write it in `graph`, one of `Graphs`, and
`Locations` the edits that reach it from outside its pages in `faults`, one of
`FaultSets`: the theorems hold for every set of them. `PlacesAssumption` asks that
slugs are sequences without a slash and not empty, as the slug field has them. Sources and lookups are instantiated by `MCCiting` with its own
constants, so that the theorem holds for every site, record, page and limit; evidence and
blocks of sources are proved about for the forms of cites and the blocks that
`MCCiting` names, and every history of patches, edits and links;
`PatchesAssumption`, `CitingAssumption` and `RulesAssumption` say only how these
sets relate (ids apart from the absent value, a page's site among the sites,
limits natural, a graph finite, the patch source no user). The listings are proved
about for every sidebar of games in `Sidebars` (which dimensions there are, of what
shape, whether a click replaces or accumulates, the trees of values, the catalog)
and every `Register` of manufacturers. `GamesAssumption` asks of a sidebar that it
is finite and that a dimension's settings fit its shape as the registry's do
(`DimensionFits`), and of its first catalog that variants are flat and under their
parent's title; `MakersAssumption` that records are finite, that a place's parent
is a place, and that pks and years are numbers apart from the absent value.

### The argument

* **Log** (`ClaimLogProofs`). `LogInv` joins the type invariant with
  `OnePerChangeset` (a changeset has at most one claim per slot), `UniqueActive`,
  `RetractedIsInactive`, `ActiveIsNewest`, `UserSlotSpeaks` and
  `RetractionAuthority`. They are inductive only together: that the claim a
  revert reactivates is the newest unretracted one needs `UserSlotSpeaks` (an
  active claim exists above every superseded one) and `OnePerChangeset` (claims
  of a slot are ordered strictly). One lemma per writer shows that it keeps
  `LogInv`; `ClaimStore` and `Lifecycle` both cite them.
* **Store**. `Inv` adds the rows' types, that claims are about existing rows
  and never clear a create key, and `PreservedNeverBlank`. `ResolveKeepsInv` is
  the one lemma about resolution all writers share. `RowsAreAView` goes over a
  second invariant, since a write re-resolves only one subject and leaves the
  members alone when none was touched.
* **Pages**. `HistoryIsWhole` is a consequence of `LogInv` and of `Attributed`,
  the one new invariant: a claim's actor is its changeset's, so that a changeset
  has at most one claim on a key of a subject. With it the claims of *all* authors
  on a key are in one strict order, so each but the first has one predecessor and
  no two the same (`ChainsLeadBack`). That somebody wins where anybody may
  (`OneWinner`) needs a greatest element of a finite set; it is had from the
  well-ordering of the changeset numbers (`LeastNumber`, `GreatestNumber`). That a
  page is never longer than asked for is counted from its lowest entry: all above
  it are on the page (`PageFacts`). `FeedKeepsItsPlace` is an action property: a
  write adds a changeset above every cursor that was handed out, so what follows
  the cursor is the same before and after.
* **Store implements `EditStacks`**. The stack of a slot is the set of its claims
  that still stand, each with its changeset; `EditStacks` is stated over such
  sets, so that no list has to be sorted and the mapping is within the provers'
  reach. `TopIsActive` shows from `LogInv` that the top of that set is the active
  claim; `AssertPushes`, `RevertPops` and `IngestLoads` map the three writers, and a toggle
  stutters.
* **Transactions** (`ClaimTxn`). The proof is a mutual exclusion. A transaction
  *holds* its slot once it has written a claim that is active before or after the
  write; two ways lead there — the row lock on the active claim and the unique
  index on an insertion — and `Apart` says that between them no two hold one slot
  nor write one claim. Per stage of a transaction (`Sound`) the invariant says
  what it has written and that what is committed meanwhile cannot outdate it:
  in particular the predecessor a revert chose stays the newest unretracted claim
  below its target while the target is active. A commit then swaps one good slot
  for another. For the repair, `Undisturbed` says that a transaction whose
  `solo` still stands has seen all that is committed, so the row it saves is what
  the claims resolve to after it.
* **Batches**. `BatchInv` follows the two passes. While slugs are decided
  (`SlugsOwned`), every row seen that keeps its stored slug owns it; while ids are
  (`IdsOwned`), every id that a row seen asked for has an owner, and every row seen
  that has an id is that owner. The second pass reads what the first left
  alone, and what remains — that a batch is refused exactly when it makes a chain
  of live rows — looks at one table. The theorem starts from any table with
  distinct slugs and any winners, more than the run can enumerate; a corollary
  says that the run's starts are among them.
* **Relationship saves**. The theorem is about every set of namespaces
  (`KindsAssumption`: their subjects and members are finite and no payload is the
  absent one), whole-type or not, shared or not. `SaveInv` says of the table that
  primary keys and the unique key each name one row and that new keys are above all
  old ones (`AfterApart`: a write keeps that whatever has committed beside it), and
  of a request that what it has read still is so while nobody commits beside it
  (`Current`). `AfterConverges` then compares what it read with what it writes: a
  row left standing is wanted with its payload, what is wanted and was not there
  is created or meets a row of its key, and an update keeps the key. That the
  members a form left alone keep their claims needs no solitude: a save writes
  claims for the others only.
* **Claim boundary**. `ClaimsInv` says that every claim stored was accepted once and
  that the rows are what the claims resolve to now. A write resolves the one
  subject and namespace it speaks of; that the claims of all others are as they
  were (`Kept`) is what a claim key is good for: equal keys are of one namespace
  (`KeysNameEdges`), so nothing is superseded or reactivated elsewhere. A deleted
  target had no row, so no winning claim named it (`DeleteTargetStands`). What is
  promised is then about one set of accepted claims: a claim key tells apart what the
  identity members do, null from every number and text from text; a positive claim
  has all its members, typed, so its row fills its columns, sets the targets its
  alternatives allow (`TargetFacts`) and collides with no other, because each
  unique rule is over the whole identity (`TableTakesRows`); and what a tombstone
  carries a positive claim had (`TombstonesAreAccepted`).
* **Lifecycle**. `Inv` adds `RowsFollowLog`. The two action properties follow
  from it: on a delete the new row of every record in the cascade is resolved
  from a log whose newest top-ranked claim says `deleted`, and the guard says
  that no record outside refers to one inside. For the declarations
  (`DeclarationsSuffice`), the cascade is the least set with the root that is
  closed under the cascading relations (`CascadeIsClosed`); a live reference into it
  from outside is, by the cases of the check (`AcceptedRelations`), one that
  cascades, and then the referrer is inside, or one that blocks; rows without a
  status of their own live and die with their owner.
* **Requests**. A title whose name was checked and a request about to write a
  checked name never agree unless the request was overtaken (`NamesStayFree`);
  the slug's uniqueness keeps insertions apart from existing rows. `TreeInv` adds
  that the plan of a delete nothing overtook holds all live models of its title,
  and the parent of a create nothing overtook is live.
* **Citation slugs**. `CiteInv` says what a request knows of the two tables from
  its stage (`CiteOk`): from its lock on, a save holds live reservations of its
  own user; what it has inserted is in no committed table. `CitesApart` is the
  mutual exclusion — the row locks keep two saves from consuming one reservation,
  the unique index keeps two from inserting one slug. The new instances of a commit
  are therefore nobody else's, which gives both properties at once. Where no lock
  helps, a request that looks into one table and writes the other, the invariant
  is about requests nothing overlapped only (`SoloLooks`): beside one of them all
  other workers are idle, so what it looked up is still so.
* **Limiter**. A grant that nothing overlapped and no culling dropped stays in the
  cached list for as long as it may count (`LimitInv`): whoever writes the list back
  has read it there, since the entry outlives what is in it by the fudge, and no
  request is longer about it than that. A request that nothing overlaps therefore
  counts all of them. For Retry-After, `Promised` says that until somebody is let
  through nothing is on the list but what the refused request saw, and its oldest
  has left by the time it named.
* **Cache**. A builder that was not overtaken has read the current rank and rows
  (`BuildersAreCurrent`), and an ingest owes its flush to every slot until it
  ends (`IngestFlushesLast`).
* **Ledger**. At most one open transaction has flipped a run of a patch, and
  none when a success is committed (`FlipIsExclusive`); log and successful runs
  then grow together (`Backed`, `Landed`). That a command gets past applied patches
  only (`PassedIsApplied`) needs what a transaction flips to be the patch its
  command is at (`TxOnCurrent`).
* **Plans**. `PlanInv` says what a plan is between planning and applying: every
  slot it asserts is asserted once and by one entry, since the slots that entries
  intend are disjoint; what it does not touch was so when it was planned. While
  nobody edits, footprints and blockers stay as planned, and only the patch
  source writes its own claims. Application then leaves the slots it asserts with
  what was asserted, the retracted ones empty, and the claims of all others as they
  were (`RetractedIsUnsaid` and its siblings).
* **Members**. A member's claim key and the fact it stands for determine each
  other (`IdentityIsFact`), so that a duplicate is found whatever its spelling, and
  in whichever entry it is, since the id of a create was no record's before.
  `MembersInv` says that the claims of markets and parents are as the applied
  patches left them. What lies above a record is the least set with it that is
  closed under the edges (`AboveIsLeast`): a way back along old edges uses a new
  one, and was seen when that was checked (`NoNewCycle`).
* **Rules**. The winner of a slot that a user claims is the user's new claim, and a
  slot that nothing claims shows what it did (`AssertedRows`). So the rows after a
  save are the other subjects' with the saved list, and a patch's are at most the
  standing ones and those it adds, whatever losing claims lie beneath; both were
  judged on just these rows (`SavedListIsFine`, `PatchedRowsAreFine`). That the
  list was weighed on the rows as they still are is `EditIsFresh`; that a step
  which brings an old claim back shows as a revert needs that no active claim has
  been taken back (`LogIsTyped`).
* **Places**. A location's path is what its parent's was when it was created, so
  it cannot change its mind about what is above it; a revert can change the parent.
  Until then the parents are the beginnings of the path (`ChainIsBelow`: what a
  location is strictly below, its parent is at or below, since no slug has a
  slash), and the sitemap's comparison of texts is the pages' climb. That a climb
  ends in a country is an induction on the depth, which falls from each location to
  its parent, reverted or not (`ClimbExists`). What else `PlacesInv` says, it says
  of the edits that do not happen: without an undo or a patch's orphan every live
  location has a live parent, so that the page and the create read the type of a
  child off the same country (`OfferIsGiven`); without a patch's stray entity live
  entities have live manufacturers, so that counts are the lengths of lists.
* **Sources**. What a request found out holds until it commits (`MintOk`), because
  owners and rows only grow. Two founders that have not committed never share a
  site: the row's unique index makes the second wait for the first (`FoundersOk`).
  So every cited page hangs under its site's owner, and all links of a record are
  at its one row (`SourcesOk`). A request that nothing overlaps has all others idle,
  so a page it found to be missing is missing still when it mints it (`SoloInv`).
* **Evidence**. `FormsInv` and `VideosInv` say that an instance is joined to claims
  of one change set only, that two instances of one change set differ, and that
  each is of a cite that parses. A patch puts its change sets, claims and instances
  behind all there are, so what was said of the old ones stands (`LandingKeeps`),
  and its shares are listed without repetition, one per change set and evidence
  (`SharesAreRows`); every claim of an entry finds each of the entry's shares there
  (`LandingReaches`). Different instances are of different things because a
  reference has one spelling when it is resolved (`FormsAreThings`). The text's
  markers are numbered in their order and its instances minted in that order
  (`Ranks`), so the slug at a marker is that of its note (`VideosMark`).
* **Blocks of sources**. `Grown` says that what a transaction holds keeps every row,
  link and slice it began with. Each way to ensure a node keeps it (`NodesGrow`);
  that both passes over a block do is an induction on the nodes ensured so far
  (`PassesGrow`), and a raise leaves the tables as they were.
* **Lookups**. `RequestOk` says that a lookup whose source is known is on its way to
  being matched to it and drafts no copy, and that a hop has the time its pieces
  need: the time spent and a timeout per remaining piece stay within
  `MaxReads * Timeout`. A failed lookup leaves nothing behind
  (`FailuresAreForgotten`).
* **Files and rows**. Only a cleanup deletes a file, so no cleanup may hold a
  file of an asset that is or can become a row: an upload's asset is in nobody
  else's hands (`Apart`), a cleanup's assets are drawn and not rows (`WorkOk`).
  That an upload is complete at its commit is counted by its keys, which needs
  renditions to be distinct. For `NoSilentLeak` the invariant (`Accounted`) is
  stronger than the property: a detach that has not committed answers for nothing,
  since it may fail.
* **Galleries**. What a request that nothing committed past has read still is so
  (`GalleryInv`, `StillSo`): the asset is attached, in that category, and the
  priors are all the others that are primary there. Its promotion writes one claim
  per prior and one of its own at the end of the log, each the winner of its asset
  (`PromoteFacts`, `WinnerIs`), and leaves the winners of all other assets where
  they were (`OthersKeepTheirWinner`): so one primary is left, which is shown. A
  detached asset has no row whatever its claims say (`RowsAreAssets`); an upload
  draws the highest id and is not primary, so it is last to be shown.
* **Kiosks**. A request that has updated a configuration's row holds its lock to
  the commit, so what it read of the items before it deletes and inserts them is
  all there is (`KioskInv`).
* **Links**. Two saves of one page are never both past their update of the row,
  whose lock is held to the commit (`LinkInv`); so the edges a save has read are
  still the table's when it reconciles them. Renames and creations change keys,
  never a text nor an edge.
* **Games**. The sidebar never runs the listing: it counts cells of models per
  title. A count is right because, first, a model stands under an option exactly
  when the filter with that option keeps it (`OptionIsRow`, `ClickIsRows`), whatever
  the shape of the dimension: for a taxonomy the facet walks up from what a model
  has and the filter down from what is chosen, and the two closures are mirrors
  of each other, as the complement of one is closed for the other (`WalksMirror`).
  Then the titles whose models are all in the cells are the title cards
  (`UnanimousIsTitles`), and what neither its title nor its parent absorbs is a
  card of its own (`TallyIsCards`). An empty title is unanimous only while no
  dimension of models is active, which `_vacuous_title_cells` says again. That
  variants stay flat is needed throughout and inductive with the types (`GameInv`):
  absorbed by a parent that is itself absorbed, a match would be on no card.
* **Manufacturers**. The types are all the invariant there is: each property is of
  one state. The counts walk up from a place to its ancestors where the filter
  compares the beginnings of paths; an induction on the length of the path shows
  these to be the same (`AncestorsArePrefixes`), and a search by a place's name is
  then as wide as choosing it (`MakersFree`). A finite set of years has ends
  (`EndsExist`), which some counted model reaches, so sliders and pages agree with
  the two bounds that different models may meet (`MakersReachTheEnds`,
  `MakersSpan`). A strict order lists a finite set, an element's place being the
  number of those before it (`SortedExists`); so the search's two tiers are lists
  without repetition, apart, and cut only when there are more (`MakersComplete`).

### Only model-checked

* *Liveness under fairness*: `CommandsEnd`, `SubmitsSettle`, `EditsSettle`,
  `EveryLookupAnswered`; temporal proofs with fairness need ENABLED, which the
  prover does not have.
* *What recursion over data computes*: patches' grammar (`NothingAuthoredIsLost`),
  what a block of sources comes to beyond adding to what there is
  (`SourcesStayOne`), the folding of the rows above an address
  (`AddressesHaveOneSite`).

## Where the code and its documents disagree

`PROJECT.json` has each of these with its line, the quotation it contradicts and
the property that fails when a run is given the steps. None has a run of its own:
the checked properties name the exception instead, or leave the step out.

*Races of requests that read, check and then write.*

* Two overlapping edits of different columns of one entity: `obj.save()` in
  `resolve_entity` writes every column from what its transaction saw, so the later
  save takes the earlier edit back from the row while the log keeps it, until the
  next write (`UndisturbedWriteRepairs` says that one repairs it).
* A delete's cascade is computed before its transaction: a model created in
  between stays live under a deleted title.
* `reconcile` reads claims and rows in two statements and undoes what commits
  between them.
* Two saves that each pass the parents' check together make a cycle.
* Two promotions leave two primaries; two cites make two pages of one URL; two
  kiosk patches undo each other's fields, and a patch in flight recreates a
  deleted kiosk.
* A payload read before a commit may be stored after the commit's flush, and does
  not expire.

*Paths that skip a check others make.*

* `restore_title` does not look at names; an undo of a delete does not look at the
  parent; a revert looks at no rule at all (parents, markets, a location's parent).
* A text's markers in storage form are saved unchecked.
* A padded parent is a stranger to the cycle guard; a retraction can uncover a
  reference the delete's check did not see; a higher-ranked removal drops another
  source's member.
* Spellings of one identifier are two pieces of evidence; a URL cite's start time
  is never checked; a leading zero makes an octal number.
* A foreign key may name a deleted record.

*Failures taken for something else.*

* An exception after the commit makes `upload_media` delete the files of the rows
  it has just committed.
* Any `IntegrityError` of a signup is "username taken"; a check in flight during a
  cancel writes the session back.
* A rejected fetch leaves the kiosk's form saving for ever.
* A node with an ISBN and a homepage, whose ISBN a user has given to a child
  source, fails the patch and with it the queue
  (`citation/source_upsert.py`). No block of the run `citing` has
  such a node: its properties are about the others.
* Errors of `http.client` reach the user; the wall clock of a fetch bounds each
  operation, not their sum.

*Rules that do not hold of the data.* The loser of a contested slug is sent to a
slug another row is taking; a variant whose parent's title is filtered away is
counted and not shown; the revert of one claim of a promotion leaves the other.

Seen while modelling, and expressed as exceptions:

* Switching a source off re-resolves nothing (`actors/models/base.py:59`).
* An undo is accepted when another user restored one of the records in between
  (`provenance/revert.py:188`; `docs/RecordLifecycle.md:74`).
* Restores record the action `edit` (`catalog/api/titles.py:876`).
* Editing a source's licence (`provenance/admin.py:30`) flushes no payload.
* An ingest that dies between commit and flush leaves the cache, and its rerun,
  with nothing to apply, does not flush; hence `lost`.
* After losing the race for a patch the command looks only whether it is applied
  (`ingest_patches.py:201`), not whether its content was the same.
* Overlapping requests can exceed a rate limit (`provenance/rate_limits.py:148`).

## Abstractions to keep in mind

* `ClaimTxn` orders claims by id, where the code uses `(created_at, pk)`: the two
  agree unless clocks of workers differ. Its users have equal priority, and undo
  is not among its requests.
* `ClaimStore` and `Lifecycle` run transactions one after the other.
  `FeedKeepsItsPlace` in particular: of two that overlap, the one with the earlier
  `created_at` may commit second, and behind a cursor already handed out.
* The history pages leave out parked source fields, changesets without claims and
  entries whose record has no link. `PagesAgree` is about changesets of one record:
  the page of a cascading delete reads all its claims against the chains of its
  first record, so those of the others are shown without old values, although
  `build_changes` takes it that "all claims here belong to one entity"
  (`provenance/history.py`).
* In `ClaimValidation` the foreign key to the subject has its kind for a name.
* `LifecycleRequests` keeps one status per row instead of its claims, and leaves
  model names and the variant references out. Deletions of rows by an
  administrator are nowhere modelled.
* In `RateLimit` time is monotone, and a request is through with the cache
  within the cache's one-tick allowance beyond the window of reading the clock; a
  timestamp on the list is the number of the request that was let through with it.
* In `PatchLedger` a patch's claims are one entry of a log, its fingerprint one of
  two contents; bulk insertion is one step.
* `ClaimStore` has one namespace of members. As in the code, an ingest resolves it
  again only if a member's claim changed.
* In `MarkdownLinks` rows are renamed and created. A deleted record keeps its row
  and its public id, and the lookups still find it; only an administrator's hard
  deletion would take the row away.
* In `BulkResolve` a claim on the external id can be absent, name an id or clear it
  (`Cleared`); one column varies at a time, and a row of the batch starts
  live: nothing reads its stored status.
* In `MediaStorage` a request's reports are one set, and the one event at the end
  of a cleanup is spread over its keys. An upload draws a uuid no upload drew.
* In `CitationSources` the `.first()` of sources with equal names is the one with
  the lowest key, as PostgreSQL returns it in practice.
* Deliverers, ISBNs, public suffixes and shared hosts are constants: what the
  tables and grammars say, not how they are written.
* `GameListing` takes `variant_of` within one title (`CrossTitle = FALSE`), as the
  model's comment has it ("variant_of is same-title by nature",
  `catalog/api/titles.py:133`); across titles a finding applies, and the theorem
  does not. Listings are edited as a whole between two requests, never during one.

## What is not modelled

* *Claim validation*: rules that only a planner enforces (they are in
  `RelationshipRules` or the planners), direct claims on aliases, media and scalar
  foreign keys.
* *Patch parsing*: the shape checks of sources nodes, the fingerprint, the wording
  of errors. *Fetching* (`r2_pull.py`): a directory from object storage.
* *Resolution*: image projections and extra data.
* *Places*: names and aliases, export markets, the fill of the cached tree.
* *Games*: years and sort, hydration, the description tier of the search, typed
  edges, edits of taxonomies. *Manufacturers*: thumbnails, the operating-status
  roll-up, paging, edits of the tree of places.
* *Citations*: search and serialisation. *Media*: image processing and the upload
  limit, best-effort by its own comment.
* *Markdown rendering, autocomplete, authorisation tables, sitemap, export, detail
  pages, taxonomy and people editors*: sequential functions, or registrations of
  the same handlers for record types without a tree.
* *Front end*: everything but the kiosk's form: search drafts, the paginated
  loader, streamed results, pages that only show data.
* WorkOS, object storage, the CDN: external services.

## Plan

Done: every component above that has state, on small instances; proofs of the
log, the store and its refinement, transactions, batches, relationship saves,
the claim boundary, lifecycle, relationship rules, plans, members, sources,
lookups, evidence, overlapping requests, citation slugs, limiter,
ledger, cache, games and manufacturers, files, galleries, kiosks and links; history
pages and soft-delete declarations.

Next: undo in `ClaimTxn` (several claims updated in no fixed order, so two
transactions can wait for each other).
