------------------------------- MODULE Kiosk -------------------------------
(***************************************************************************)
(* The kiosk resource API: rows of KioskConfig and their KioskConfigItems. *)
(*                                                                         *)
(* A patch loads the row before its transaction and writes back either the *)
(* whole loaded row (a scalar changed) or its audit columns; that UPDATE   *)
(* takes the row's lock, under which the items are deleted and inserted    *)
(* again.  Saving a whole row that is gone inserts it.                     *)
(*                                                                         *)
(* A statement sees what was committed when it started: the DELETE of the  *)
(* items is split into its snapshot and its effect, as another transaction *)
(* may insert in between unless the lock keeps it out.                     *)
(***************************************************************************)
EXTENDS Naturals, FiniteSets

CONSTANTS Configs, Workers, Titles, Positions, Headings, IdleSeconds, None,
          Lists        \* the item lists that are sent

NoneAssumption == None \notin Headings \cup IdleSeconds \cup Workers

VARIABLES
    configs,    \* committed rows: id -> [heading, idle], of the ids that exist
    items,      \* committed items: id -> set of [title, position]
    born,       \* the ids ever given out: an autoincrementing key
    titles,     \* the titles that exist
    lock,       \* id -> the transaction that has updated its row
    work,       \* the requests being handled
    sent,       \* history: id -> the list the last accepted replacement carried
    deleted     \* history: the ids a DELETE answered 204 for

vars == <<configs, items, born, titles, lock, work, sent, deleted>>

Row == [heading : Headings, idle : IdleSeconds]
Item == [title : Titles, position : Positions]
Idle == [op |-> "idle"]
Blank == [heading |-> CHOOSE h \in Headings : TRUE, idle |-> CHOOSE n \in IdleSeconds : TRUE]

(* KioskConfigPatchSchema: what is absent is None.                         *)
Patches == [heading : Headings \cup {None}, idle : IdleSeconds \cup {None},
            items : Lists \cup {None}]

TypeOK ==
    /\ DOMAIN configs \subseteq born /\ born \subseteq Configs
    /\ \A c \in DOMAIN configs : configs[c] \in Row
    /\ items \in [Configs -> SUBSET Item]
    /\ \A c \in Configs \ DOMAIN configs : items[c] = {}
    /\ \A c \in Configs : \A i \in items[c] : i.title \in titles
    /\ \A c \in Configs : \A i, j \in items[c] :
         i # j => i.title # j.title /\ i.position # j.position
    /\ lock \in [Configs -> Workers \cup {None}]
    /\ \A w \in Workers : work[w].op \in {"idle", "loaded", "locked", "deleting"}

Init ==
    /\ configs = [c \in {} |-> Blank]
    /\ items = [c \in Configs |-> {}]
    /\ born = {}
    /\ titles = Titles
    /\ lock = [c \in Configs |-> None]
    /\ work = [w \in Workers |-> Idle]
    /\ sent = [c \in Configs |-> {}]
    /\ deleted = {}

Create ==
    /\ \E c \in Configs \ born :
         /\ configs' = [x \in DOMAIN configs \cup {c} |->
                          IF x = c THEN Blank ELSE configs[x]]
         /\ born' = born \cup {c}
    /\ UNCHANGED <<items, titles, lock, work, sent, deleted>>

(* get_object_or_404, outside the transaction.                             *)
Load(w) ==
    /\ work[w] = Idle
    /\ \E c \in DOMAIN configs, p \in Patches :
         work' = [work EXCEPT ![w] = [op |-> "loaded", id |-> c, row |-> configs[c], patch |-> p]]
    /\ UNCHANGED <<configs, items, born, titles, lock, sent, deleted>>

Merged(row, p) == [heading |-> IF p.heading = None THEN row.heading ELSE p.heading,
                   idle |-> IF p.idle = None THEN row.idle ELSE p.idle]

(* The row a patch writes: all of the one it loaded if a scalar differs    *)
(* from it, or nothing but the audit columns.                              *)
Written(job) ==
    LET new == Merged(job.row, job.patch)
    IN IF new # job.row THEN new ELSE None

(* What an UPDATE of the row keeps others out of until the commit.         *)
NoLock(job) == None     \* mutant: an items-only patch does not touch the row
Locked(job) == job.id

(* config.save().  Updating the audit columns of a row that is gone raises *)
(* DatabaseError; saving a whole one falls back to an INSERT, which fails  *)
(* against another that got there first.                                   *)
Save(w) ==
  LET job == work[w] IN
    /\ job.op = "loaded"
    /\ lock[job.id] = None \/ job.id \notin DOMAIN configs
    /\ IF job.id \notin DOMAIN configs /\ (Written(job) = None \/ lock[job.id] # None)
       THEN work' = [work EXCEPT ![w] = Idle] /\ UNCHANGED lock
       ELSE /\ lock' = [c \in Configs |-> IF c = Locked(job) THEN w ELSE lock[c]]
            /\ work' = [work EXCEPT ![w] =
                 [op |-> "locked", id |-> job.id, write |-> Written(job),
                  patch |-> job.patch]]
    /\ UNCHANGED <<configs, items, born, titles, sent, deleted>>

Known(list) == {i.title : i \in list} \subseteq titles
Unlocked(w) == [c \in Configs |-> IF lock[c] = w THEN None ELSE lock[c]]

RowsAfter(w) ==
  LET job == work[w] IN
    IF job.write = None THEN configs
    ELSE [c \in DOMAIN configs \cup {job.id} |-> IF c = job.id THEN job.write ELSE configs[c]]

(* A patch without items commits; one with an unknown title is refused and *)
(* rolled back; any other starts to delete the items.                      *)
Resolve(w) ==
  LET job == work[w] IN
    /\ job.op = "locked"
    /\ \/ /\ job.patch.items = None
          /\ configs' = RowsAfter(w)
          /\ work' = [work EXCEPT ![w] = Idle]
          /\ lock' = Unlocked(w)
       \/ /\ job.patch.items # None
          /\ ~Known(job.patch.items)
          /\ work' = [work EXCEPT ![w] = Idle]
          /\ lock' = Unlocked(w)
          /\ UNCHANGED configs
       \/ /\ job.patch.items # None
          /\ Known(job.patch.items)
          /\ work' = [work EXCEPT ![w] =
               [op |-> "deleting", id |-> job.id, write |-> job.write,
                patch |-> job.patch, seen |-> items[job.id]]]
          /\ UNCHANGED <<configs, lock>>
    /\ UNCHANGED <<items, born, titles, sent, deleted>>

(* The unique constraints of KioskConfigItem, over what is left.           *)
Unique(rows, list) ==
    \A i \in list : /\ \A j \in list \ {i} : i.title # j.title /\ i.position # j.position
                    /\ \A j \in rows : i.title # j.title /\ i.position # j.position

(* The seen items are deleted, the list inserted and all of it committed;  *)
(* an IntegrityError rolls back.                                           *)
Replace(w) ==
  LET job == work[w]
      left == items[job.id] \ job.seen
  IN
    /\ job.op = "deleting"
    /\ IF Known(job.patch.items) /\ Unique(left, job.patch.items)
       THEN /\ items' = [items EXCEPT ![job.id] = left \cup job.patch.items]
            /\ configs' = RowsAfter(w)
            /\ sent' = [sent EXCEPT ![job.id] = job.patch.items]
       ELSE UNCHANGED <<items, configs, sent>>
    /\ work' = [work EXCEPT ![w] = Idle]
    /\ lock' = Unlocked(w)
    /\ UNCHANGED <<born, titles, deleted>>

(* config.delete(): waits for the row's lock; its items go with it.        *)
Delete ==
    /\ \E c \in DOMAIN configs :
         /\ lock[c] = None
         /\ configs' = [x \in DOMAIN configs \ {c} |-> configs[x]]
         /\ items' = [items EXCEPT ![c] = {}]
         /\ sent' = [sent EXCEPT ![c] = {}]
         /\ deleted' = deleted \cup {c}
    /\ UNCHANGED <<born, titles, lock, work>>

(* A title is deleted for good: its slots cascade.                         *)
DropTitle ==
    /\ \E t \in titles :
         /\ titles' = titles \ {t}
         /\ items' = [c \in Configs |-> {i \in items[c] : i.title # t}]
    /\ UNCHANGED <<configs, born, lock, work, sent, deleted>>

Next ==
    \/ Create \/ Delete \/ DropTitle
    \/ \E w \in Workers : Load(w) \/ Save(w) \/ Resolve(w) \/ Replace(w)

Spec == Init /\ [][Next]_vars

(***************************************************************************)
(* Properties                                                              *)
(***************************************************************************)

(* Whatever patches overlap, the items of a kiosk are those of one list    *)
(* that was sent, less the titles deleted since: never a mix of two lists, *)
(* although each patch deletes only what it saw (update_config).           *)
OneList ==
    \A c \in Configs : items[c] = {i \in sent[c] : i.title \in titles}

(* A partial update leaves the fields it omits alone: what a patch commits *)
(* differs from the row before it only in fields it names                  *)
(* (KioskConfigPatchSchema).                                               *)
Keeps(p, old, new) == /\ p.heading = None => new.heading = old.heading
                      /\ p.idle = None => new.idle = old.idle
OmittedFieldsKept ==
    [][\A w \in Workers :
         work[w] # Idle /\ work'[w] = Idle /\ work[w].id \in DOMAIN configs
         => Keeps(work[w].patch, configs[work[w].id], configs'[work[w].id])]_vars

(* A deleted kiosk stays deleted (the editor: "This cannot be undone.").   *)
DeletedStaysDeleted == deleted \cap DOMAIN configs = {}
=============================================================================
