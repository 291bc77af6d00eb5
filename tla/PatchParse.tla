---------------------------- MODULE PatchParse ----------------------------
(***************************************************************************)
(* The grammar of a data patch's claims.  An author writes entries, each a *)
(* record's reference with a body: directives and fields.  A group spells  *)
(* several change sets of one record under one header.  load_patch brings  *)
(* every file to a flat list of entries of three kinds, or refuses it; the *)
(* carrier rule of planning then refuses evidence with nothing to ride on. *)
(*                                                                         *)
(* A body is [dirs, flds]: directives with their values, and fields whose  *)
(* values are numerals, as digits.  Cites are in PatchCites, what planning *)
(* makes of the entries in PatchPlan and PatchMembers.                     *)
(***************************************************************************)
EXTENDS Integers, Sequences, FiniteSets

CONSTANTS Refs,         \* references of records
          Fields,
          Numerals,     \* the numerals authored: sequences of digits
          Directives,   \* the directives authored: <<key, value>>
          MaxEntries, MaxItems, MaxKeys

VARIABLE file           \* [ref, body, grouped, items]

Blank == [dirs |-> << >>, flds |-> << >>]
Keys == {d[1] : d \in Directives}

-----------------------------------------------------------------------------
(* The loader's resolvers take [0-9]+ for an integer, and PyYAML reads one *)
(* with a leading zero in base eight: a digit above seven is an error.     *)
Value(base, digits) ==
    LET f[n \in 0 .. Len(digits)] == IF n = 0 THEN 0 ELSE base * f[n - 1] + digits[n] IN f[Len(digits)]

Octal(digits) == Len(digits) > 1 /\ digits[1] = 0
Read(digits) == Value(IF Octal(digits) THEN 8 ELSE 10, digits)
Readable(digits) == Octal(digits) => \A n \in DOMAIN digits : digits[n] < 8

(* A mapping with a key twice never gets here: the loader refuses it.      *)
Has(body, key) == key \in DOMAIN body.dirs
Get(body, key, default) == IF Has(body, key) THEN body.dirs[key] ELSE default
On(body, key) == Get(body, key, "false") = "true"

(* _require_bool, _require_str, _parse_retract, _parse_remove.             *)
WellTyped(body) ==
    /\ \A key \in DOMAIN body.dirs : body.dirs[key] # "ill"
    /\ \A f \in DOMAIN body.flds : Readable(body.flds[f])

(* The entry classes: a kind carries what is legal for it.                 *)
Entry(ref, kind, body) ==
    [ref |-> ref, kind |-> kind,
     note |-> Get(body, "note", ""), cite |-> Get(body, "cite", ""),
     retract |-> Get(body, "retract", ""), remove |-> Get(body, "remove", ""),
     fields |-> [f \in DOMAIN body.flds |-> Read(body.flds[f])]]

Kind(body) == IF On(body, "delete") THEN "delete" ELSE IF On(body, "create") THEN "create" ELSE "edit"

(* _parse_entry_body.                                                      *)
Legal(body) ==
    /\ WellTyped(body)
    /\ ~(On(body, "create") /\ On(body, "delete"))
    /\ Kind(body) # "edit" => ~Has(body, "retract") /\ ~Has(body, "remove")
    /\ Kind(body) = "delete" => DOMAIN body.flds = {}

(* Mutant: only fields and a lifecycle make a header an entry.             *)
CarriersOfFields(body) == (DOMAIN body.dirs \cap {"create", "delete"}) \cup DOMAIN body.flds

(* What can anchor a change set.                                           *)
Carriers(body) == (DOMAIN body.dirs \ {"expect", "note", "cite"}) \cup DOMAIN body.flds
Provenance(body) == DOMAIN body.dirs \cap {"note", "cite"}

HeaderOK(body) ==
    /\ Provenance(body) # {} => Carriers(body) # {}
    /\ Carriers(body) # {} => Legal(body) /\ Kind(body) # "delete"

ItemOK(body) == ~Has(body, "create") /\ ~Has(body, "delete") /\ Legal(body)

(* _parse_claim.                                                           *)
ClaimOK(raw) ==
    IF raw.grouped
    THEN HeaderOK(raw.body) /\ raw.items # <<>> /\ \A k \in DOMAIN raw.items : ItemOK(raw.items[k])
    ELSE Legal(raw.body)

Bodies(raw) ==
    IF raw.grouped THEN (IF Carriers(raw.body) # {} THEN <<raw.body>> ELSE <<>>) \o raw.items
    ELSE <<raw.body>>

Entries(raw) ==
    LET bodies == Bodies(raw) IN [k \in DOMAIN bodies |-> Entry(raw.ref, Kind(bodies[k]), bodies[k])]

(* Lists, one after another.                                               *)
Chained(lists) ==
    LET upto[n \in 0 .. Len(lists)] == IF n = 0 THEN <<>> ELSE upto[n - 1] \o lists[n]
    IN  upto[Len(lists)]

(* load_patch.                                                             *)
Loads(f) == f # <<>> /\ \A i \in DOMAIN f : ClaimOK(f[i])
Doc(f) == Chained([i \in DOMAIN f |-> Entries(f[i])])

(* _check_provenance_carrier, for claims that are all new: a note rides a  *)
(* create, a delete, a field, a removal or a retraction; a cite a field, a *)
(* removal or a delete.                                                    *)
Carried(e) ==
    LET writes == e.kind = "delete" \/ e.fields # << >> \/ e.remove # "" IN
    /\ e.cite # "" => writes
    /\ e.note # "" => writes \/ e.kind = "create" \/ e.retract # ""

Accepted(f) == Loads(f) /\ LET d == Doc(f) IN \A k \in DOMAIN d : Carried(d[k])

-----------------------------------------------------------------------------
Init == file = <<>>

Top == Len(file)
InItem == file[Top].grouped /\ file[Top].items # <<>>
Here == IF InItem THEN file[Top].items[Len(file[Top].items)] ELSE file[Top].body

Place(body) ==
    IF InItem THEN file' = [file EXCEPT ![Top].items[Len(file[Top].items)] = body]
    ELSE file' = [file EXCEPT ![Top].body = body]

KeysAt(i, k, body) == {<<i, k, key>> : key \in DOMAIN body.dirs \cup DOMAIN body.flds}
Size ==
    Cardinality(UNION {KeysAt(i, 0, file[i].body) : i \in DOMAIN file}) +
    Cardinality(UNION {UNION {KeysAt(i, k, file[i].items[k]) : k \in DOMAIN file[i].items} : i \in DOMAIN file})

AddEntry ==
    /\ Top < MaxEntries
    /\ \E r \in Refs : file' = Append(file, [ref |-> r, body |-> Blank, grouped |-> FALSE, items |-> <<>>])

Group ==
    /\ file # <<>> /\ ~file[Top].grouped
    /\ file' = [file EXCEPT ![Top].grouped = TRUE]

AddItem ==
    /\ file # <<>> /\ file[Top].grouped /\ Len(file[Top].items) < MaxItems
    /\ file' = [file EXCEPT ![Top].items = Append(@, Blank)]

Direct ==
    /\ file # <<>> /\ Size < MaxKeys
    /\ \E d \in Directives :
          /\ ~Has(Here, d[1])
          /\ Place([Here EXCEPT !.dirs = [k \in DOMAIN @ \cup {d[1]} |-> IF k = d[1] THEN d[2] ELSE @[k]]])

Assign ==
    /\ file # <<>> /\ Size < MaxKeys
    /\ \E g \in Fields, n \in Numerals :
          /\ g \notin DOMAIN Here.flds
          /\ Place([Here EXCEPT !.flds = [k \in DOMAIN @ \cup {g} |-> IF k = g THEN n ELSE @[k]]])

Next == AddEntry \/ Group \/ AddItem \/ Direct \/ Assign

Spec == Init /\ [][Next]_file

-----------------------------------------------------------------------------
(* What is authored at a place, read off without the grammar.              *)
Says(body) == {k \in DOMAIN body.dirs : k # "expect" /\ body.dirs[k] # "false"} \cup DOMAIN body.flds
Places == Chained([i \in DOMAIN file |->
              [k \in 1 .. 1 + Len(file[i].items) |->
                  [ref |-> file[i].ref, body |-> IF k = 1 THEN file[i].body ELSE file[i].items[k - 1]]]])
Authored == SelectSeq(Places, LAMBDA p : Says(p.body) # {})

Mute(e) == e.kind = "edit" /\ e.note = "" /\ e.cite = "" /\ e.retract = "" /\ e.remove = "" /\ e.fields = << >>

(* "Entries come back in file order ... byte-identical to the flat         *)
(* multi-entry equivalent": an accepted file is one change set per place   *)
(* that says something, in file order, each with exactly what is said      *)
(* there.  No note, cite or directive falls between a header and an item.  *)
NothingAuthoredIsLost ==
    Accepted(file) =>
        LET said == Authored IN
        SelectSeq(Doc(file), LAMBDA e : ~Mute(e)) =
        [n \in DOMAIN said |-> Entry(said[n].ref, Kind(said[n].body), said[n].body)]

Flat ==
    LET places == Places IN
    [n \in DOMAIN places |-> [ref |-> places[n].ref, body |-> places[n].body, grouped |-> FALSE, items |-> <<>>]]

(* A group is refused for what its flat spelling would be, an empty list   *)
(* and a lifecycle among several change sets apart.                        *)
GroupsCostNothing ==
    /\ \A i \in DOMAIN file : file[i].grouped =>
          /\ file[i].items # <<>>
          /\ ~On(file[i].body, "delete")
          /\ \A k \in DOMAIN file[i].items : ~Has(file[i].items[k], "create") /\ ~Has(file[i].items[k], "delete")
    /\ Accepted(Flat)
    => Accepted(file)

(* "changesets: makes that ordering structural": of one group's entries    *)
(* only the first creates, and a delete has no company.                    *)
LifecycleFirst ==
    \A i \in DOMAIN file : ClaimOK(file[i]) =>
        LET entries == Entries(file[i]) IN
        \A k \in DOMAIN entries :
            /\ entries[k].kind = "create" => k = 1
            /\ entries[k].kind = "delete" => Len(entries) = 1

(* "JSON semantics, no YAML 1.1 surprises": a number is read in ten.       *)
NumeralsReadInTen ==
    Accepted(file) =>
        \A n \in DOMAIN Authored : \A g \in DOMAIN Authored[n].body.flds :
            \E k \in DOMAIN Doc(file) :
                /\ Doc(file)[k].ref = Authored[n].ref /\ g \in DOMAIN Doc(file)[k].fields
                /\ Doc(file)[k].fields[g] = Value(10, Authored[n].body.flds[g])
=============================================================================
