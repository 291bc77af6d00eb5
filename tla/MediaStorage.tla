---------------------------- MODULE MediaStorage ----------------------------
(***************************************************************************)
(* Uploaded media: rows in the database, files in the object store.        *)
(*                                                                         *)
(* An upload puts one object per rendition, one request each, and then     *)
(* commits the asset, its renditions and its attachment in one             *)
(* transaction; a detach commits first and then deletes the objects.  The  *)
(* two stores share no transaction: a put, a commit and a delete may each  *)
(* fail, and the process may die between any two of them.  What a cleanup  *)
(* cannot delete it reports (MediaStorageLeakError).                       *)
(*                                                                         *)
(* The resolver registers the response cache's invalidation to run after   *)
(* the commit.  AfterCommitFails lets it raise (or the acknowledgement of  *)
(* the commit get lost): the exception then leaves transaction.atomic(),   *)
(* and the handlers treat a committed transaction as a failed one.         *)
(***************************************************************************)
EXTENDS Naturals, Sequences, SequencesExt, FiniteSets

CONSTANTS Assets,           \* bound: the uuids uploads may draw
          Parts,            \* the renditions in the order they are uploaded
          Workers,
          AfterCommitFails

ASSUME PartsAssumption == Parts \in Seq(STRING) /\ Parts # <<>> /\ IsInjective(Parts)
ASSUME AfterCommitAssumption == AfterCommitFails \in BOOLEAN

VARIABLES
    objects,    \* the store: a set of keys
    rows,       \* assets committed, each with a rendition per part
    drawn,      \* uuids drawn so far
    reported,   \* keys reported as leaked
    abandoned,  \* keys whose owner died while it held them
    work        \* what each worker is doing

vars == <<objects, rows, drawn, reported, abandoned, work>>

Keys == Assets \X ToSet(Parts)
KeysOf(a) == {a} \X ToSet(Parts)
Idle == [at |-> "idle"]
Steps == {"put", "commit", "detach", "clean"}

TypeOK ==
    /\ objects \subseteq Keys /\ reported \subseteq Keys /\ abandoned \subseteq Keys
    /\ rows \subseteq drawn /\ drawn \subseteq Assets
    /\ work \in [Workers -> {Idle} \cup
                 [at : Steps, asset : Assets, keys : SUBSET Keys]]

Init ==
    /\ objects = {} /\ rows = {} /\ drawn = {} /\ reported = {} /\ abandoned = {}
    /\ work = [w \in Workers |-> Idle]

Goto(w, at, keys) == work' = [work EXCEPT ![w].at = at, ![w].keys = keys]

(* Nothing to delete: the request ends here.                               *)
CleanUp(w, keys) ==
    IF keys = {} THEN work' = [work EXCEPT ![w] = Idle] ELSE Goto(w, "clean", keys)

(* The next key of the upload; keys holds those it has put.                *)
NextKey(w) == <<work[w].asset, Parts[Cardinality(work[w].keys) + 1]>>

(* An upload that passed its checks draws a uuid and starts uploading.     *)
Upload(w, a) ==
    /\ work[w] = Idle /\ a \in Assets \ drawn
    /\ drawn' = drawn \cup {a}
    /\ work' = [work EXCEPT ![w] = [at |-> "put", asset |-> a, keys |-> {}]]
    /\ UNCHANGED <<objects, rows, reported, abandoned>>

Put(w) ==
    /\ work[w].at = "put"
    /\ objects' = objects \cup {NextKey(w)}
    /\ LET done == work[w].keys \cup {NextKey(w)}
       IN Goto(w, IF done = KeysOf(work[w].asset) THEN "commit" ELSE "put", done)
    /\ UNCHANGED <<rows, drawn, reported, abandoned>>

(* uploaded_keys: what a failed upload deletes.                            *)
Uploaded(w) == work[w].keys

(* Mutant: the error is logged and the upload goes on.                     *)
PutFailsIgnored(w) ==
    /\ work[w].at = "put"
    /\ LET done == work[w].keys \cup {NextKey(w)}
       IN Goto(w, IF done = KeysOf(work[w].asset) THEN "commit" ELSE "put", done)
    /\ UNCHANGED <<objects, rows, drawn, reported, abandoned>>

(* The store refuses an object (or stored it under another name, which is  *)
(* deleted at once).                                                       *)
PutFails(w) ==
    /\ work[w].at = "put"
    /\ CleanUp(w, Uploaded(w))
    /\ UNCHANGED <<objects, rows, drawn, reported, abandoned>>

(* Whether the cache's invalidation raises.                                *)
AfterCommit == IF AfterCommitFails THEN BOOLEAN ELSE {FALSE}

(* The transaction of an upload: asset, renditions, claim, attachment.     *)
CommitRows(w) ==
    /\ work[w].at = "commit"
    /\ rows' = rows \cup {work[w].asset}
    /\ \E raised \in AfterCommit : CleanUp(w, IF raised THEN Uploaded(w) ELSE {})
    /\ UNCHANGED <<objects, drawn, reported, abandoned>>

(* It rolls back: a constraint, a validation, a lost connection.           *)
CommitFails(w) ==
    /\ work[w].at = "commit"
    /\ CleanUp(w, Uploaded(w))
    /\ UNCHANGED <<objects, rows, drawn, reported, abandoned>>

(* A detach found its asset and its attachment.                            *)
Detach(w, a) ==
    /\ work[w] = Idle /\ a \in rows
    /\ work' = [work EXCEPT ![w] = [at |-> "detach", asset |-> a, keys |-> KeysOf(a)]]
    /\ UNCHANGED <<objects, rows, drawn, reported, abandoned>>

(* storage_keys: what a detach deletes once it has committed.              *)
Doomed(w) == work[w].keys

(* Tombstone, row and renditions go in one transaction, whose callbacks    *)
(* then run in order: the cache's invalidation (if the attachment was      *)
(* still there), then the cleanup.  A row another request deleted in the   *)
(* meantime changes nothing.                                               *)
DeleteRows(w) ==
    /\ work[w].at = "detach"
    /\ rows' = rows \ {work[w].asset}
    /\ \E raised \in AfterCommit :
         CleanUp(w, IF raised /\ work[w].asset \in rows THEN {} ELSE Doomed(w))
    /\ UNCHANGED <<objects, drawn, reported, abandoned>>

DeleteFails(w) ==
    /\ work[w].at = "detach"
    /\ work' = [work EXCEPT ![w] = Idle]
    /\ UNCHANGED <<objects, rows, drawn, reported, abandoned>>

(* What the cleanup still has to try after one key.                        *)
LeftToClean(w, k, deleted) == work[w].keys \ {k}

(* One key of the cleanup: deleted, or kept by a store that fails and      *)
(* reported.  (One event reports all of a cleanup's keys at its end; a     *)
(* crash before the end is accounted for in abandoned.)                    *)
Clean(w) ==
    /\ work[w].at = "clean"
    /\ \E k \in work[w].keys : \E deleted \in BOOLEAN :
         /\ objects' = IF deleted THEN objects \ {k} ELSE objects
         /\ reported' = IF deleted THEN reported ELSE reported \cup {k}
         /\ CleanUp(w, LeftToClean(w, k, deleted))
    /\ UNCHANGED <<rows, drawn, abandoned>>

(* The process dies with keys in hand: put and not committed, or doomed.   *)
Crash(w) ==
    /\ work[w].at \in {"put", "commit", "clean"}
    /\ abandoned' = abandoned \cup work[w].keys
    /\ work' = [work EXCEPT ![w] = Idle]
    /\ UNCHANGED <<objects, rows, drawn, reported>>

Next ==
    \E w \in Workers :
        \/ \E a \in Assets : Upload(w, a) \/ Detach(w, a)
        \/ Put(w) \/ PutFails(w) \/ CommitRows(w) \/ CommitFails(w)
        \/ DeleteRows(w) \/ DeleteFails(w) \/ Clean(w) \/ Crash(w)

Spec == Init /\ [][Next]_vars

-----------------------------------------------------------------------------
(* Every committed asset has all its files, whatever failed or died, and   *)
(* whoever is cleaning up (upload_media, _cleanup_storage): a page never   *)
(* links to an image that is not there.                                    *)
RowsHaveObjects == \A a \in rows : KeysOf(a) \subseteq objects

(* A file without rows is on its way (some request still holds it), was    *)
(* reported, or was left by a process that died: no failure of the store   *)
(* or the database leaks one in silence (MediaStorageLeakError).           *)
NoSilentLeak ==
    \A k \in objects :
        \/ k[1] \in rows \/ k \in reported \/ k \in abandoned
        \/ \E w \in Workers : work[w] # Idle /\ k \in work[w].keys

(* A committed asset has every object it names, and no object is left over *)
(* that nobody holds or reported.                                          *)
StoreFollowsRows == RowsHaveObjects /\ NoSilentLeak
=============================================================================
