----------------------------- MODULE SiteProofs -----------------------------
(***************************************************************************)
(* What the site keeps besides claims: first StoreFollowsRows of           *)
(* MediaStorage for every set of assets and workers and every sequence of  *)
(* renditions, when nothing raises after a commit; then kiosks, links      *)
(* between texts, and galleries, each with its invariant.                  *)
(*                                                                         *)
(* Inv is inductive.  A file is deleted only by a cleanup, so what has to  *)
(* be shown is that no cleanup ever holds a file of an asset that is or    *)
(* can still become a row: an upload's asset is in nobody else's hands     *)
(* (Apart), and a cleanup's assets are drawn and gone (WorkOk).            *)
(***************************************************************************)
EXTENDS MCSite, FiniteSetTheorems, SequenceTheorems, WellFoundedInduction, TLAPS

Task == [at : Steps, asset : Assets, keys : SUBSET Keys]

\* The keys of an upload that has put n renditions
FirstKeys(a, n) == {<<a, Parts[i]>> : i \in 1 .. n}

Uploading(x) == x.at \in {"put", "commit"}

\* What a worker does fits the objects o, the rows r and the drawn uuids d
WorkOk(o, r, d, x) ==
    /\ Uploading(x) => x.asset \in d \ r /\ x.keys \subseteq o /\ x.keys \subseteq KeysOf(x.asset)
    /\ x.at = "put" => \E n \in 0 .. Len(Parts) - 1 : x.keys = FirstKeys(x.asset, n)
    /\ x.at = "commit" => x.keys = KeysOf(x.asset)
    /\ x.at = "clean" => \A k \in x.keys : k[1] \in d \ r
    /\ x.at = "detach" => x.asset \in d /\ x.keys = KeysOf(x.asset)

\* The files of asset a are or will be in x's hands
Touches(x, a) ==
    \/ x.at \in {"put", "commit", "detach"} /\ x.asset = a
    \/ x.at = "clean" /\ \E k \in x.keys : k[1] = a

\* Nobody else has to do with an asset that is being uploaded
Apart(x, y) == Uploading(x) => ~Touches(y, x.asset)

\* NoSilentLeak, where a detach that has not committed answers for nothing yet
Accounted ==
    \A k \in objects :
        \/ k[1] \in rows \/ k \in reported \/ k \in abandoned
        \/ \E w \in Workers : work[w].at \in {"put", "commit", "clean"} /\ k \in work[w].keys

Inv ==
    /\ TypeOK
    /\ \A w \in Workers : WorkOk(objects, rows, drawn, work[w])
    /\ \A v, w \in Workers : v # w => Apart(work[v], work[w])
    /\ RowsHaveObjects
    /\ Accounted

-----------------------------------------------------------------------------
\* Renditions are distinct, so the keys put so far count the puts.
LEMMA FirstKeysCount ==
    ASSUME NEW a, NEW n \in 0 .. Len(Parts)
    PROVE  Cardinality(FirstKeys(a, n)) = n
<1> DEFINE f == [i \in 1 .. n |-> <<a, Parts[i]>>]
           S == FirstKeys(a, n)
<1>1. Len(Parts) \in Nat /\ DOMAIN Parts = 1 .. Len(Parts)
  BY PartsAssumption
<1>2. \A i, j \in 1 .. n : <<a, Parts[i]>> = <<a, Parts[j]>> => i = j
  <2>1. \A i, j \in 1 .. n : i \in DOMAIN Parts /\ j \in DOMAIN Parts
    BY <1>1
  <2> QED
    BY <2>1, PartsAssumption DEF IsInjective
<1>3. f \in [1 .. n -> S] /\ \A s \in S : \E i \in 1 .. n : f[i] = s
  BY DEF FirstKeys
<1>4. f \in Bijection(1 .. n, S)
  <2>1. IsInjective(f)
    BY <1>2 DEF IsInjective
  <2> HIDE DEF f, S
  <2> QED
    BY <1>3, <2>1 DEF Bijection, Injection, Surjection
<1>5. ExistsBijection(1 .. n, S)
  BY <1>4 DEF ExistsBijection
<1> QED
  BY <1>1, <1>5, FS_CountingElements

LEMMA PartFacts ==
    /\ Len(Parts) \in Nat \ {0} /\ DOMAIN Parts = 1 .. Len(Parts)
    /\ \A i \in 1 .. Len(Parts) : Parts[i] \in ToSet(Parts)
    /\ \A a : FirstKeys(a, 0) = {} /\ FirstKeys(a, Len(Parts)) = KeysOf(a)
    /\ \A a : \A n \in 0 .. Len(Parts) : FirstKeys(a, n) \subseteq KeysOf(a)
    /\ \A a : KeysOf(a) # {}
<1>1. Len(Parts) \in Nat \ {0} /\ DOMAIN Parts = 1 .. Len(Parts)
  BY PartsAssumption
<1>2. ToSet(Parts) = {Parts[i] : i \in 1 .. Len(Parts)}
  BY <1>1 DEF ToSet
<1>3. ASSUME NEW a PROVE FirstKeys(a, 0) = {}
  <2>1. 1 .. 0 = {}
    OBVIOUS
  <2> QED
    BY <2>1 DEF FirstKeys
<1>4. ASSUME NEW a, NEW n \in 0 .. Len(Parts) PROVE FirstKeys(a, n) \subseteq KeysOf(a)
  <2>1. 1 .. n \subseteq 1 .. Len(Parts)
    BY <1>1
  <2> QED
    BY <1>2, <2>1 DEF FirstKeys, KeysOf
<1>5. ASSUME NEW a PROVE FirstKeys(a, Len(Parts)) = KeysOf(a)
  BY <1>2 DEF FirstKeys, KeysOf
<1>6. ASSUME NEW a PROVE KeysOf(a) # {}
  <2>1. Parts[1] \in ToSet(Parts)
    BY <1>1, <1>2
  <2>2. <<a, Parts[1]>> \in KeysOf(a)
    BY <2>1 DEF KeysOf
  <2> QED
    BY <2>2
<1>7. \A i \in 1 .. Len(Parts) : Parts[i] \in ToSet(Parts)
  BY <1>2
<1> QED
  BY <1>1, <1>3, <1>4, <1>5, <1>6, <1>7

\* Every key is of one asset.
LEMMA KeyFacts ==
    /\ \A a : \A k \in KeysOf(a) : k[1] = a
    /\ \A k \in Keys : k[1] \in Assets /\ k \in KeysOf(k[1])
    /\ \A a \in Assets : KeysOf(a) \subseteq Keys
  BY DEF KeysOf, Keys

\* The next key is one the upload has not put; with the last the upload is whole.
LEMMA NextKeyFacts ==
    ASSUME NEW w \in Workers, NEW n \in 0 .. Len(Parts) - 1,
           work[w].keys = FirstKeys(work[w].asset, n)
    PROVE  /\ NextKey(w) = <<work[w].asset, Parts[n + 1]>>
           /\ NextKey(w) \in KeysOf(work[w].asset)
           /\ work[w].keys \cup {NextKey(w)} = FirstKeys(work[w].asset, n + 1)
           /\ n + 1 \in 1 .. Len(Parts)
<1>1. n \in 0 .. Len(Parts) /\ n + 1 \in 1 .. Len(Parts) /\ n \in Nat
  BY PartFacts
<1>2. Cardinality(work[w].keys) = n
  BY <1>1, FirstKeysCount
<1>3. NextKey(w) = <<work[w].asset, Parts[n + 1]>>
  BY <1>2 DEF NextKey
<1>4. 1 .. (n + 1) = 1 .. n \cup {n + 1}
  BY <1>1
<1> QED
  BY <1>1, <1>3, <1>4, PartFacts DEF FirstKeys, KeysOf

\* A task whose step and keys change.
LEMMA GotoFacts ==
    ASSUME TypeOK, NEW w \in Workers, work[w] \in Task, NEW at \in Steps,
           NEW keys \in SUBSET Keys, Goto(w, at, keys)
    PROVE  \E x \in Task : /\ work' = [work EXCEPT ![w] = x]
                           /\ x.at = at /\ x.keys = keys /\ x.asset = work[w].asset
<1> DEFINE x == [work[w] EXCEPT !.at = at, !.keys = keys]
<1>1. work' = [work EXCEPT ![w] = x]
  BY DEF Goto, TypeOK
<1>2. x \in Task /\ x.at = at /\ x.keys = keys /\ x.asset = work[w].asset
  BY DEF Task
<1> QED
  BY <1>1, <1>2

\* A task that turns to cleaning up, or ends when there is nothing to delete.
LEMMA CleanUpFacts ==
    ASSUME TypeOK, NEW w \in Workers, work[w] \in Task,
           NEW keys \in SUBSET Keys, CleanUp(w, keys)
    PROVE  \E x \in Task \cup {Idle} :
              /\ work' = [work EXCEPT ![w] = x]
              /\ keys = {} => x = Idle
              /\ keys # {} => x \in Task /\ x.at = "clean" /\ x.keys = keys
<1>1. CASE keys = {}
  BY <1>1 DEF CleanUp
<1>2. CASE keys # {}
  <2>1. Goto(w, "clean", keys) /\ "clean" \in Steps
    BY <1>2 DEF CleanUp, Steps
  <2> QED
    BY <1>2, <2>1, GotoFacts
<1> QED
  BY <1>1, <1>2

LEMMA TaskFacts ==
    ASSUME Inv, NEW w \in Workers
    PROVE  /\ TypeOK /\ work \in [Workers -> {Idle} \cup Task]
           /\ work[w].at \in Steps => work[w] \in Task
           /\ work[w] \in Task => work[w].asset \in Assets /\ work[w].keys \in SUBSET Keys
           /\ WorkOk(objects, rows, drawn, work[w])
           /\ \A v \in Workers \ {w} : Apart(work[v], work[w]) /\ Apart(work[w], work[v])
  BY DEF Inv, TypeOK, Task, Idle, Steps

LEMMA IdleFacts ==
    /\ Idle.at = "idle"
    /\ \A o, r, d : WorkOk(o, r, d, Idle)
    /\ \A x : Apart(x, Idle) /\ Apart(Idle, x)
  BY DEF Idle, WorkOk, Apart, Touches, Uploading

\* What is left to show of one worker's step.
LEMMA StepKeeps ==
    ASSUME Inv, NEW w \in Workers, NEW x \in Task \cup {Idle},
           work' = [work EXCEPT ![w] = x],
           objects' \subseteq Keys, reported' \subseteq Keys, abandoned' \subseteq Keys,
           rows' \subseteq drawn', drawn' \subseteq Assets,
           WorkOk(objects', rows', drawn', x),
           \A v \in Workers \ {w} : WorkOk(objects', rows', drawn', work[v]),
           \A v \in Workers \ {w} : Apart(x, work[v]) /\ Apart(work[v], x),
           RowsHaveObjects', Accounted'
    PROVE  Inv'
<1>1. work \in [Workers -> {Idle} \cup Task]
  BY TaskFacts
<1>2. /\ work' \in [Workers -> {Idle} \cup Task]
      /\ work'[w] = x /\ \A v \in Workers \ {w} : work'[v] = work[v]
  BY <1>1
<1>3. TypeOK'
  BY <1>2 DEF TypeOK, Task
<1>4. \A v \in Workers : WorkOk(objects', rows', drawn', work'[v])
  BY <1>2
<1>5. \A u, v \in Workers : u # v => Apart(work'[u], work'[v])
  BY <1>2 DEF Inv
<1> QED
  BY <1>3, <1>4, <1>5 DEF Inv

-----------------------------------------------------------------------------
LEMMA UploadKeeps ==
    ASSUME Inv, NEW w \in Workers, NEW a \in Assets, Upload(w, a)
    PROVE  Inv'
<1> DEFINE x == [at |-> "put", asset |-> a, keys |-> {}]
<1>1. x \in Task /\ x.at = "put" /\ x.asset = a /\ x.keys = {}
  BY DEF Task, Steps
<1>2. /\ work' = [work EXCEPT ![w] = x] /\ work[w] = Idle /\ drawn' = drawn \cup {a}
      /\ a \notin drawn /\ UNCHANGED <<objects, rows, reported, abandoned>>
  BY DEF Upload
<1> HIDE DEF x
<1>3. /\ objects \subseteq Keys /\ reported \subseteq Keys /\ abandoned \subseteq Keys
      /\ rows \subseteq drawn /\ drawn \subseteq Assets
  BY DEF Inv, TypeOK
<1>4. WorkOk(objects', rows', drawn', x)
  <2>1. 0 \in 0 .. Len(Parts) - 1 /\ FirstKeys(a, 0) = {}
    BY PartFacts
  <2> QED
    BY <1>1, <1>2, <1>3, <2>1 DEF WorkOk, Uploading
<1>5. \A v \in Workers \ {w} : WorkOk(objects', rows', drawn', work[v])
  BY <1>2, TaskFacts DEF WorkOk, Uploading
<1>6. \A v \in Workers \ {w} : Apart(x, work[v]) /\ Apart(work[v], x)
  BY <1>1, <1>2, <1>3, TaskFacts DEF WorkOk, Uploading, Apart, Touches
<1>7. RowsHaveObjects'
  BY <1>2 DEF Inv, RowsHaveObjects
<1>8. Accounted'
  <2>1. \A v \in Workers : work[v].at \in {"put", "commit", "clean"} => v # w /\ work'[v] = work[v]
    BY <1>2, IdleFacts, TaskFacts
  <2> QED
    BY <1>2, <2>1 DEF Inv, Accounted
<1> QED
  BY <1>1, <1>2, <1>3, <1>4, <1>5, <1>6, <1>7, <1>8, StepKeeps

LEMMA DetachKeeps ==
    ASSUME Inv, NEW w \in Workers, NEW a \in Assets, Detach(w, a)
    PROVE  Inv'
<1> DEFINE x == [at |-> "detach", asset |-> a, keys |-> KeysOf(a)]
<1>1. x \in Task /\ x.at = "detach" /\ x.asset = a /\ x.keys = KeysOf(a)
  BY KeyFacts DEF Task, Steps
<1>2. /\ work' = [work EXCEPT ![w] = x] /\ work[w] = Idle /\ a \in rows
      /\ UNCHANGED <<objects, rows, drawn, reported, abandoned>>
  BY DEF Detach
<1> HIDE DEF x
<1>3. /\ objects \subseteq Keys /\ reported \subseteq Keys /\ abandoned \subseteq Keys
      /\ rows \subseteq drawn /\ drawn \subseteq Assets
  BY DEF Inv, TypeOK
<1>4. WorkOk(objects', rows', drawn', x)
  BY <1>1, <1>2, <1>3 DEF WorkOk, Uploading
<1>5. \A v \in Workers \ {w} : WorkOk(objects', rows', drawn', work[v])
  BY <1>2, TaskFacts
<1>6. \A v \in Workers \ {w} : Apart(x, work[v]) /\ Apart(work[v], x)
  BY <1>1, <1>2, TaskFacts DEF WorkOk, Uploading, Apart, Touches
<1>7. RowsHaveObjects'
  BY <1>2 DEF Inv, RowsHaveObjects
<1>8. Accounted'
  <2>1. \A v \in Workers : work[v].at \in {"put", "commit", "clean"} => v # w /\ work'[v] = work[v]
    BY <1>2, IdleFacts, TaskFacts
  <2> QED
    BY <1>2, <2>1 DEF Inv, Accounted
<1> QED
  BY <1>1, <1>2, <1>3, <1>4, <1>5, <1>6, <1>7, <1>8, StepKeeps

LEMMA PutKeeps ==
    ASSUME Inv, NEW w \in Workers, Put(w)
    PROVE  Inv'
<1> DEFINE a == work[w].asset
           done == work[w].keys \cup {NextKey(w)}
           at == IF done = KeysOf(a) THEN "commit" ELSE "put"
<1>1. /\ work[w].at = "put" /\ objects' = objects \cup {NextKey(w)} /\ Goto(w, at, done)
      /\ UNCHANGED <<rows, drawn, reported, abandoned>>
  BY DEF Put
<1>2. work[w] \in Task /\ a \in Assets /\ work[w].keys \subseteq Keys
  BY <1>1, TaskFacts DEF Steps
<1>3. PICK n \in 0 .. Len(Parts) - 1 : work[w].keys = FirstKeys(a, n)
  BY <1>1, TaskFacts DEF WorkOk
<1>4. /\ NextKey(w) \in KeysOf(a) /\ done = FirstKeys(a, n + 1) /\ n + 1 \in 1 .. Len(Parts)
  BY <1>3, NextKeyFacts
<1>5. done \subseteq Keys /\ NextKey(w) \in Keys /\ NextKey(w)[1] = a
  BY <1>2, <1>4, KeyFacts
<1>6. PICK x \in Task : /\ work' = [work EXCEPT ![w] = x]
                        /\ x.at = at /\ x.keys = done /\ x.asset = a
  <2>1. at \in Steps /\ done \in SUBSET Keys /\ TypeOK
    BY <1>5, TaskFacts DEF Steps
  <2> HIDE DEF done, at
  <2> QED
    BY <1>1, <1>2, <2>1, GotoFacts
<1>7. /\ objects \subseteq Keys /\ reported \subseteq Keys /\ abandoned \subseteq Keys
      /\ rows \subseteq drawn /\ drawn \subseteq Assets
  BY DEF Inv, TypeOK
<1>8. /\ a \in drawn \ rows /\ work[w].keys \subseteq objects /\ work[w].keys \subseteq KeysOf(a)
  BY <1>1, TaskFacts DEF WorkOk, Uploading
<1>9. /\ x.at \in {"put", "commit"} /\ (x.at = "commit" => done = KeysOf(a))
      /\ (x.at = "put" => done # KeysOf(a))
  BY <1>6
<1>10. x.at = "put" => n + 1 \in 0 .. Len(Parts) - 1
  <2>1. FirstKeys(a, Len(Parts)) = KeysOf(a) /\ Len(Parts) \in Nat
    BY PartFacts
  <2> HIDE DEF done, a
  <2>2. n + 1 = Len(Parts) => done = KeysOf(a)
    BY <1>4, <2>1
  <2> QED
    BY <1>4, <1>9, <2>1, <2>2
<1>11. done \subseteq objects' /\ done \subseteq KeysOf(a)
  BY <1>1, <1>4, <1>8
<1> HIDE DEF done, at
<1>12. WorkOk(objects', rows', drawn', x)
  <2>1. x.at = "put" => \E m \in 0 .. Len(Parts) - 1 : x.keys = FirstKeys(x.asset, m)
    BY <1>4, <1>6, <1>10
  <2> QED
    BY <1>1, <1>6, <1>8, <1>9, <1>11, <2>1 DEF WorkOk, Uploading
<1>13. \A v \in Workers \ {w} : WorkOk(objects', rows', drawn', work[v])
  BY <1>1, TaskFacts DEF WorkOk, Uploading
<1>14. \A v \in Workers \ {w} : Apart(x, work[v]) /\ Apart(work[v], x)
  BY <1>1, <1>6, <1>9, TaskFacts DEF Uploading, Apart, Touches
<1>15. RowsHaveObjects'
  BY <1>1 DEF Inv, RowsHaveObjects
<1>16. Accounted'
  <2>1. work'[w] = x /\ \A v \in Workers \ {w} : work'[v] = work[v]
    BY <1>6, TaskFacts
  <2>2. work[w].keys \subseteq done /\ NextKey(w) \in done
    BY DEF done
  <2> QED
    BY <1>1, <1>6, <1>9, <2>1, <2>2 DEF Inv, Accounted
<1> QED
  BY <1>1, <1>5, <1>6, <1>7, <1>12, <1>13, <1>14, <1>15, <1>16, StepKeeps

\* An upload that fails deletes what it put.
LEMMA UploadFailsKeeps ==
    ASSUME Inv, NEW w \in Workers, Uploading(work[w]), CleanUp(w, work[w].keys),
           UNCHANGED <<objects, rows, drawn, reported, abandoned>>
    PROVE  Inv'
<1> DEFINE a == work[w].asset
<1>1. work[w] \in Task /\ TypeOK /\ work[w].keys \in SUBSET Keys
  BY TaskFacts DEF Uploading, Steps
<1>2. PICK x \in Task \cup {Idle} :
         /\ work' = [work EXCEPT ![w] = x]
         /\ work[w].keys = {} => x = Idle
         /\ work[w].keys # {} => x \in Task /\ x.at = "clean" /\ x.keys = work[w].keys
  BY <1>1, CleanUpFacts
<1>3. /\ a \in drawn \ rows /\ work[w].keys \subseteq KeysOf(a)
      /\ \A k \in work[w].keys : k[1] = a
  BY TaskFacts, KeyFacts DEF WorkOk
<1>4. /\ objects \subseteq Keys /\ reported \subseteq Keys /\ abandoned \subseteq Keys
      /\ rows \subseteq drawn /\ drawn \subseteq Assets
  BY DEF Inv, TypeOK
<1>5. WorkOk(objects', rows', drawn', x)
  BY <1>2, <1>3, IdleFacts DEF WorkOk, Uploading
<1>6. \A v \in Workers \ {w} : WorkOk(objects', rows', drawn', work[v])
  BY TaskFacts
<1>7. \A v \in Workers \ {w} : Apart(x, work[v]) /\ Apart(work[v], x)
  <2> SUFFICES ASSUME NEW v \in Workers \ {w}
               PROVE  Apart(x, work[v]) /\ Apart(work[v], x)
    OBVIOUS
  <2>1. CASE work[w].keys = {}
    BY <1>2, <2>1, IdleFacts
  <2>2. CASE work[w].keys # {}
    <3>1. \A b : Touches(x, b) => Touches(work[w], b)
      BY <1>2, <1>3, <2>2 DEF Touches, Uploading
    <3> QED
      BY <1>2, <2>2, <3>1, TaskFacts DEF Apart, Uploading
  <2> QED
    BY <2>1, <2>2
<1>8. RowsHaveObjects'
  BY DEF Inv, RowsHaveObjects
<1>9. Accounted'
  <2>1. work'[w] = x /\ \A v \in Workers \ {w} : work'[v] = work[v]
    BY <1>2, TaskFacts
  <2> QED
    BY <1>2, <2>1 DEF Inv, Accounted
<1> QED
  BY <1>2, <1>4, <1>5, <1>6, <1>7, <1>8, <1>9, StepKeeps

\* Nothing raises after the commit, so an upload that commits is over.
LEMMA CommitRowsKeeps ==
    ASSUME Inv, AfterCommitFails = FALSE, NEW w \in Workers, CommitRows(w)
    PROVE  Inv'
<1> DEFINE a == work[w].asset
<1>1. /\ work[w].at = "commit" /\ rows' = rows \cup {a}
      /\ UNCHANGED <<objects, drawn, reported, abandoned>>
      /\ work' = [work EXCEPT ![w] = Idle]
  BY DEF CommitRows, AfterCommit, CleanUp
<1>2. Uploading(work[w]) /\ work[w].at \in Steps
  BY <1>1 DEF Uploading, Steps
<1>3. /\ a \in drawn /\ KeysOf(a) \subseteq objects /\ work[w].keys = KeysOf(a)
      /\ \A k \in KeysOf(a) : k[1] = a
  BY <1>1, <1>2, TaskFacts, KeyFacts DEF WorkOk
<1>4. /\ objects \subseteq Keys /\ reported \subseteq Keys /\ abandoned \subseteq Keys
      /\ rows \subseteq drawn /\ drawn \subseteq Assets
  BY DEF Inv, TypeOK
<1>5. \A v \in Workers \ {w} : WorkOk(objects', rows', drawn', work[v])
  <2> SUFFICES ASSUME NEW v \in Workers \ {w}
               PROVE  WorkOk(objects', rows', drawn', work[v])
    OBVIOUS
  <2>1. WorkOk(objects, rows, drawn, work[v]) /\ ~Touches(work[v], a)
    BY <1>2, TaskFacts DEF Apart
  <2> QED
    BY <1>1, <2>1 DEF WorkOk, Touches, Uploading
<1>6. WorkOk(objects', rows', drawn', Idle)
  BY IdleFacts
<1>7. \A v \in Workers \ {w} : Apart(Idle, work[v]) /\ Apart(work[v], Idle)
  BY IdleFacts
<1>8. RowsHaveObjects'
  BY <1>1, <1>3 DEF Inv, RowsHaveObjects
<1>9. Accounted'
  <2>1. \A v \in Workers \ {w} : work'[v] = work[v]
    BY <1>1, TaskFacts
  <2> QED
    BY <1>1, <1>3, <2>1 DEF Inv, Accounted
<1> QED
  BY <1>1, <1>3, <1>4, <1>5, <1>6, <1>7, <1>8, <1>9, StepKeeps

\* Nor does a detach lose its cleanup.
LEMMA DeleteRowsKeeps ==
    ASSUME Inv, AfterCommitFails = FALSE, NEW w \in Workers, DeleteRows(w)
    PROVE  Inv'
<1> DEFINE a == work[w].asset
<1>1. /\ work[w].at = "detach" /\ rows' = rows \ {a} /\ CleanUp(w, work[w].keys)
      /\ UNCHANGED <<objects, drawn, reported, abandoned>>
  BY DEF DeleteRows, AfterCommit, Doomed
<1>2. work[w] \in Task /\ TypeOK /\ work[w].keys \in SUBSET Keys
  BY <1>1, TaskFacts DEF Steps
<1>3. /\ a \in drawn /\ work[w].keys = KeysOf(a) /\ work[w].keys # {}
      /\ \A k \in KeysOf(a) : k[1] = a
      /\ \A k \in Keys : k[1] = a => k \in KeysOf(a)
  BY <1>1, TaskFacts, KeyFacts, PartFacts DEF WorkOk
<1>4. PICK x \in Task :
         work' = [work EXCEPT ![w] = x] /\ x.at = "clean" /\ x.keys = work[w].keys
  BY <1>1, <1>2, <1>3, CleanUpFacts
<1>5. /\ objects \subseteq Keys /\ reported \subseteq Keys /\ abandoned \subseteq Keys
      /\ rows \subseteq drawn /\ drawn \subseteq Assets
  BY DEF Inv, TypeOK
<1>6. WorkOk(objects', rows', drawn', x)
  BY <1>1, <1>3, <1>4 DEF WorkOk, Uploading
<1>7. \A v \in Workers \ {w} : WorkOk(objects', rows', drawn', work[v])
  BY <1>1, TaskFacts DEF WorkOk
<1>8. \A v \in Workers \ {w} : Apart(x, work[v]) /\ Apart(work[v], x)
  <2>1. \A b : Touches(x, b) => Touches(work[w], b)
    BY <1>1, <1>3, <1>4 DEF Touches
  <2> QED
    BY <1>4, <2>1, TaskFacts DEF Apart, Uploading
<1>9. RowsHaveObjects'
  BY <1>1 DEF Inv, RowsHaveObjects
<1>10. Accounted'
  <2>1. work'[w] = x /\ \A v \in Workers \ {w} : work'[v] = work[v]
    BY <1>4, TaskFacts
  <2> QED
    BY <1>1, <1>3, <1>4, <1>5, <2>1 DEF Inv, Accounted
<1> QED
  BY <1>1, <1>4, <1>5, <1>6, <1>7, <1>8, <1>9, <1>10, StepKeeps

LEMMA DeleteFailsKeeps ==
    ASSUME Inv, NEW w \in Workers, DeleteFails(w)
    PROVE  Inv'
<1>1. /\ work[w].at = "detach" /\ work' = [work EXCEPT ![w] = Idle]
      /\ UNCHANGED <<objects, rows, drawn, reported, abandoned>>
  BY DEF DeleteFails
<1>2. /\ objects \subseteq Keys /\ reported \subseteq Keys /\ abandoned \subseteq Keys
      /\ rows \subseteq drawn /\ drawn \subseteq Assets
  BY DEF Inv, TypeOK
<1>3. Accounted'
  <2>1. \A v \in Workers \ {w} : work'[v] = work[v]
    BY <1>1, TaskFacts
  <2> QED
    BY <1>1, <2>1 DEF Inv, Accounted
<1>4. RowsHaveObjects' /\ \A v \in Workers : WorkOk(objects', rows', drawn', work[v])
  BY <1>1, TaskFacts DEF Inv, RowsHaveObjects
<1> QED
  BY <1>1, <1>2, <1>3, <1>4, IdleFacts, StepKeeps

\* No row and no upload needs a key that a cleanup holds.
LEMMA CleanKeeps ==
    ASSUME Inv, NEW w \in Workers, Clean(w)
    PROVE  Inv'
<1>1. PICK k \in work[w].keys, removed \in BOOLEAN :
         /\ objects' = IF removed THEN objects \ {k} ELSE objects
         /\ reported' = IF removed THEN reported ELSE reported \cup {k}
         /\ CleanUp(w, work[w].keys \ {k})
  BY DEF Clean, LeftToClean
<1>2. work[w].at = "clean" /\ UNCHANGED <<rows, drawn, abandoned>>
  BY DEF Clean
<1>3. work[w] \in Task /\ TypeOK /\ work[w].keys \in SUBSET Keys
  BY <1>2, TaskFacts DEF Steps
<1>4. \A j \in work[w].keys : j[1] \in drawn \ rows
  BY <1>2, TaskFacts DEF WorkOk
<1>5. PICK x \in Task \cup {Idle} :
         /\ work' = [work EXCEPT ![w] = x]
         /\ work[w].keys \ {k} = {} => x = Idle
         /\ work[w].keys \ {k} # {} => x \in Task /\ x.at = "clean" /\ x.keys = work[w].keys \ {k}
  <2>1. work[w].keys \ {k} \in SUBSET Keys
    BY <1>3
  <2> QED
    BY <1>1, <1>3, <2>1, CleanUpFacts
<1>6. /\ objects' \subseteq Keys /\ reported' \subseteq Keys /\ abandoned \subseteq Keys
      /\ rows \subseteq drawn /\ drawn \subseteq Assets
  <2>1. /\ objects \subseteq Keys /\ reported \subseteq Keys /\ abandoned \subseteq Keys
        /\ rows \subseteq drawn /\ drawn \subseteq Assets
    BY DEF Inv, TypeOK
  <2> QED
    BY <1>1, <1>3, <2>1
<1>7. WorkOk(objects', rows', drawn', x)
  BY <1>2, <1>4, <1>5, IdleFacts DEF WorkOk, Uploading
<1>8. \A v \in Workers \ {w} : WorkOk(objects', rows', drawn', work[v])
  <2> SUFFICES ASSUME NEW v \in Workers \ {w}
               PROVE  WorkOk(objects', rows', drawn', work[v])
    OBVIOUS
  <2>1. WorkOk(objects, rows, drawn, work[v]) /\ Apart(work[v], work[w])
    BY TaskFacts
  <2>2. Touches(work[w], k[1])
    BY <1>2 DEF Touches
  <2>3. Uploading(work[v]) => work[v].keys \subseteq objects'
    <3>1. Uploading(work[v]) => work[v].asset # k[1] /\ work[v].keys \subseteq KeysOf(work[v].asset)
      BY <2>1, <2>2 DEF Apart, WorkOk
    <3>2. Uploading(work[v]) => k \notin work[v].keys
      BY <3>1, KeyFacts
    <3> QED
      BY <1>1, <2>1, <3>2 DEF WorkOk
  <2> QED
    BY <1>2, <2>1, <2>3 DEF WorkOk
<1>9. \A v \in Workers \ {w} : Apart(x, work[v]) /\ Apart(work[v], x)
  <2>1. \A b : Touches(x, b) => Touches(work[w], b)
    BY <1>2, <1>5, IdleFacts DEF Touches
  <2>2. ~Uploading(x)
    BY <1>5, IdleFacts DEF Uploading
  <2> QED
    BY <2>1, <2>2, TaskFacts DEF Apart
<1>10. RowsHaveObjects'
  <2>1. \A a \in rows : k \notin KeysOf(a)
    BY <1>4, KeyFacts
  <2> QED
    BY <1>1, <1>2, <2>1 DEF Inv, RowsHaveObjects
<1>11. Accounted'
  <2>1. work'[w] = x /\ \A v \in Workers \ {w} : work'[v] = work[v]
    BY <1>5, TaskFacts
  <2>2. objects' \subseteq objects /\ reported \subseteq reported' /\ (k \in objects' => k \in reported')
    BY <1>1
  <2>3. \A j \in work[w].keys \ {k} : work'[w].at = "clean" /\ j \in work'[w].keys
    BY <1>5, <2>1
  <2> QED
    BY <1>2, <2>1, <2>2, <2>3 DEF Inv, Accounted
<1> QED
  BY <1>2, <1>5, <1>6, <1>7, <1>8, <1>9, <1>10, <1>11, StepKeeps

LEMMA CrashKeeps ==
    ASSUME Inv, NEW w \in Workers, Crash(w)
    PROVE  Inv'
<1>1. /\ work[w].at \in {"put", "commit", "clean"} /\ abandoned' = abandoned \cup work[w].keys
      /\ work' = [work EXCEPT ![w] = Idle]
      /\ UNCHANGED <<objects, rows, drawn, reported>>
  BY DEF Crash
<1>2. work[w] \in Task /\ work[w].keys \in SUBSET Keys
  BY <1>1, TaskFacts DEF Steps
<1>3. /\ objects \subseteq Keys /\ reported \subseteq Keys /\ abandoned' \subseteq Keys
      /\ rows \subseteq drawn /\ drawn \subseteq Assets
  BY <1>1, <1>2 DEF Inv, TypeOK
<1>4. Accounted'
  <2>1. \A v \in Workers \ {w} : work'[v] = work[v]
    BY <1>1, TaskFacts
  <2> QED
    BY <1>1, <2>1 DEF Inv, Accounted
<1>5. RowsHaveObjects' /\ \A v \in Workers : WorkOk(objects', rows', drawn', work[v])
  BY <1>1, TaskFacts DEF Inv, RowsHaveObjects
<1> QED
  BY <1>1, <1>3, <1>4, <1>5, IdleFacts, StepKeeps

LEMMA InitHolds == Init => Inv
<1> SUFFICES ASSUME Init PROVE Inv
  OBVIOUS
<1>1. TypeOK /\ \A w \in Workers : work[w] = Idle
  BY DEF Init, TypeOK
<1>2. RowsHaveObjects /\ Accounted
  BY DEF Init, RowsHaveObjects, Accounted
<1> QED
  BY <1>1, <1>2, IdleFacts DEF Inv

LEMMA NextKeeps == AfterCommitFails = FALSE /\ Inv /\ [Next]_vars => Inv'
<1> SUFFICES ASSUME AfterCommitFails = FALSE, Inv, [Next]_vars PROVE Inv'
  OBVIOUS
<1>1. ASSUME NEW w \in Workers, NEW a \in Assets, Upload(w, a) PROVE Inv'
  BY <1>1, UploadKeeps
<1>2. ASSUME NEW w \in Workers, NEW a \in Assets, Detach(w, a) PROVE Inv'
  BY <1>2, DetachKeeps
<1>3. ASSUME NEW w \in Workers, Put(w) PROVE Inv'
  BY <1>3, PutKeeps
<1>4. ASSUME NEW w \in Workers, PutFails(w) PROVE Inv'
  BY <1>4, UploadFailsKeeps DEF PutFails, Uploading, Uploaded
<1>5. ASSUME NEW w \in Workers, CommitRows(w) PROVE Inv'
  BY <1>5, CommitRowsKeeps
<1>6. ASSUME NEW w \in Workers, CommitFails(w) PROVE Inv'
  BY <1>6, UploadFailsKeeps DEF CommitFails, Uploading, Uploaded
<1>7. ASSUME NEW w \in Workers, DeleteRows(w) PROVE Inv'
  BY <1>7, DeleteRowsKeeps
<1>8. ASSUME NEW w \in Workers, DeleteFails(w) PROVE Inv'
  BY <1>8, DeleteFailsKeeps
<1>9. ASSUME NEW w \in Workers, Clean(w) PROVE Inv'
  BY <1>9, CleanKeeps
<1>10. ASSUME NEW w \in Workers, Crash(w) PROVE Inv'
  BY <1>10, CrashKeeps
<1>11. CASE UNCHANGED vars
  BY <1>11 DEF vars, Inv, TypeOK, RowsHaveObjects, Accounted, Task
<1> QED
  BY <1>1, <1>2, <1>3, <1>4, <1>5, <1>6, <1>7, <1>8, <1>9, <1>10, <1>11 DEF Next

LEMMA InvSuffices == Inv => StoreFollowsRows
<1>1. Accounted => NoSilentLeak
  BY IdleFacts DEF Accounted, NoSilentLeak
<1> QED
  BY <1>1 DEF Inv, StoreFollowsRows

-----------------------------------------------------------------------------
(* A committed asset has every object it names, and no object is left over *)
(* unheld and unreported, for every number of workers, assets and          *)
(* renditions: upload_media, the detach and _cleanup_storage, whatever the *)
(* store and the database refuse and wherever a process dies, as long as   *)
(* no callback raises after a commit (with AfterCommitFails it is false).  *)
THEOREM StoreIsSound == AfterCommitFails = FALSE => (Spec => []StoreFollowsRows)
<1>1. AfterCommitFails = FALSE => (Inv /\ [Next]_vars => Inv')
  BY NextKeeps
<1>2. ASSUME AfterCommitFails = FALSE PROVE Spec => []StoreFollowsRows
  <2>1. Inv /\ [Next]_vars => Inv'
    BY <1>1, <1>2
  <2> QED
    BY InitHolds, <2>1, InvSuffices, PTL DEF Spec
<1> QED
  BY <1>2

-----------------------------------------------------------------------------
(***************************************************************************)
(* OneList of Kiosk, for every set of configurations, requests, titles and *)
(* lists: whatever requests overlap statement by statement, the items of a *)
(* configuration are one request's list.  What carries it is the row lock  *)
(* that the UPDATE takes and holds to the commit.                          *)
(***************************************************************************)
Holding == {"locked", "deleting"}

\* A request that has updated a row holds its lock, no other does, and what it
\* saw of the items is all there is
KioskInv ==
    /\ items = [c \in Configs |-> items[c]] /\ sent = [c \in Configs |-> sent[c]]
    /\ lock = [c \in Configs |-> lock[c]] /\ DOMAIN configs \subseteq Configs
    /\ requests = [w \in Workers |-> requests[w]]
    /\ \A w \in Workers : requests[w].op \in {"idle", "loaded"} \cup Holding
    /\ \A w \in Workers : requests[w].op # "idle" => requests[w].id \in Configs
    /\ \A w \in Workers : requests[w].op \in Holding => lock[requests[w].id] = w
    /\ \A w \in Workers : requests[w].op = "deleting" =>
          items[requests[w].id] \subseteq requests[w].seen
    /\ Kiosks!OneList

LEMMA KioskStep ==
    ASSUME Kiosks!NoneAssumption, KioskInv, Kiosks!Next
    PROVE  KioskInv'
<1> USE DEF Holding
<1>1. None \notin Workers
  BY DEF Kiosks!NoneAssumption
<1>2. CASE Kiosks!Create
  <2>1. /\ UNCHANGED <<items, titles, lock, requests, sent>>
        /\ DOMAIN configs' \subseteq DOMAIN configs \cup Configs
    BY <1>2 DEF Kiosks!Create
  <2> QED
    BY <2>1 DEF KioskInv, Kiosks!OneList
<1>3. CASE Kiosks!Delete
  <2>1. PICK c \in DOMAIN configs :
           /\ lock[c] = None
           /\ items' = [items EXCEPT ![c] = {}] /\ sent' = [sent EXCEPT ![c] = {}]
           /\ configs' = [x \in DOMAIN configs \ {c} |-> configs[x]]
           /\ UNCHANGED <<titles, lock, requests>>
    BY <1>3 DEF Kiosks!Delete
  <2>2. \A d \in Configs : /\ items'[d] = IF d = c THEN {} ELSE items[d]
                          /\ sent'[d] = IF d = c THEN {} ELSE sent[d]
    BY <2>1 DEF KioskInv
  <2>3. Kiosks!OneList'
    BY <2>1, <2>2 DEF KioskInv, Kiosks!OneList
  <2>4. \A w \in Workers : requests[w].op = "deleting" => items'[requests[w].id] \subseteq requests[w].seen
    BY <2>2 DEF KioskInv
  <2> QED
    BY <2>1, <2>3, <2>4 DEF KioskInv
<1>4. CASE Kiosks!DropTitle
  <2>1. PICK t \in titles :
           /\ titles' = titles \ {t}
           /\ items' = [c \in Configs |-> {i \in items[c] : i.title # t}]
           /\ UNCHANGED <<configs, lock, requests, sent>>
    BY <1>4 DEF Kiosks!DropTitle
  <2>2. Kiosks!OneList'
    BY <2>1 DEF KioskInv, Kiosks!OneList
  <2> QED
    BY <2>1, <2>2 DEF KioskInv
<1>5. ASSUME NEW w \in Workers, Kiosks!Load(w) PROVE KioskInv'
  <2>1. PICK c \in DOMAIN configs, p \in Kiosks!Patches :
           requests' = [requests EXCEPT ![w] =
              [op |-> "loaded", id |-> c, row |-> configs[c], patch |-> p]]
    BY <1>5 DEF Kiosks!Load
  <2>2. UNCHANGED <<configs, items, titles, lock, sent>>
    BY <1>5 DEF Kiosks!Load
  <2>3. \A v \in Workers : v # w => requests'[v] = requests[v]
    BY <2>1 DEF KioskInv
  <2>4. requests'[w].op = "loaded" /\ requests'[w].id \in Configs
    BY <2>1 DEF KioskInv
  <2>5. requests' = [v \in Workers |-> requests'[v]]
    BY <2>1 DEF KioskInv
  <2> QED
    BY <2>2, <2>3, <2>4, <2>5 DEF KioskInv, Kiosks!OneList
<1>6. ASSUME NEW w \in Workers, Kiosks!Save(w) PROVE KioskInv'
  <2> DEFINE job == requests[w]
  <2>1. job.op = "loaded" /\ UNCHANGED <<configs, items, titles, sent>> /\ job.id \in Configs
    BY <1>6 DEF Kiosks!Save, KioskInv
  <2>2. CASE requests' = [requests EXCEPT ![w] = Kiosks!Idle] /\ lock' = lock
    <3>1. requests'[w].op = "idle" /\ (\A v \in Workers : v # w => requests'[v] = requests[v])
          /\ requests' = [v \in Workers |-> requests'[v]]
      BY <2>2 DEF KioskInv, Kiosks!Idle
    <3> QED
      BY <2>1, <2>2, <3>1 DEF KioskInv, Kiosks!OneList
  <2>3. CASE /\ lock[job.id] = None
             /\ lock' = [c \in Configs |-> IF c = job.id THEN w ELSE lock[c]]
             /\ requests' = [requests EXCEPT ![w] =
                  [op |-> "locked", id |-> job.id, write |-> Kiosks!Written(job), patch |-> job.patch]]
    <3>1. /\ requests'[w].op = "locked" /\ requests'[w].id = job.id
          /\ \A v \in Workers : v # w => requests'[v] = requests[v]
          /\ requests' = [v \in Workers |-> requests'[v]]
      BY <2>3 DEF KioskInv
    <3>2. \A v \in Workers : requests'[v].op \in Holding => lock'[requests'[v].id] = v
      BY <1>1, <2>1, <2>3, <3>1 DEF KioskInv
    <3> QED
      BY <2>1, <2>3, <3>1, <3>2 DEF KioskInv, Kiosks!OneList
  <2> QED
    BY <1>6, <2>2, <2>3 DEF Kiosks!Save, Kiosks!Locked
\* A request that ends gives its lock back; the other locks stay with their holders
<1>7. ASSUME NEW w \in Workers, requests[w].op \in Holding,
             requests' = [requests EXCEPT ![w] = Kiosks!Idle], lock' = Kiosks!Unlocked(w)
      PROVE  /\ requests'[w].op = "idle"
             /\ \A v \in Workers : v # w => requests'[v] = requests[v]
             /\ requests' = [v \in Workers |-> requests'[v]]
             /\ lock' = [c \in Configs |-> lock'[c]]
             /\ \A v \in Workers : requests'[v].op \in Holding => lock'[requests'[v].id] = v
  <2>1. /\ requests'[w].op = "idle"
        /\ \A v \in Workers : v # w => requests'[v] = requests[v]
        /\ requests' = [v \in Workers |-> requests'[v]]
    BY <1>7 DEF KioskInv, Kiosks!Idle
  <2>2. lock' = [c \in Configs |-> IF lock[c] = w THEN None ELSE lock[c]]
    BY <1>7 DEF Kiosks!Unlocked
  <2> QED
    BY <1>1, <2>1, <2>2 DEF KioskInv
<1>8. ASSUME NEW w \in Workers, Kiosks!Resolve(w) PROVE KioskInv'
  <2> DEFINE job == requests[w]
  <2>1. job.op = "locked" /\ UNCHANGED <<items, titles, sent>> /\ job.id \in Configs
    BY <1>8 DEF Kiosks!Resolve, KioskInv
  <2>2. CASE /\ requests' = [requests EXCEPT ![w] = Kiosks!Idle] /\ lock' = Kiosks!Unlocked(w)
             /\ configs' = configs \/ configs' = Kiosks!RowsAfter(w)
    <3>1. DOMAIN configs' \subseteq Configs
      BY <2>1, <2>2 DEF KioskInv, Kiosks!RowsAfter
    <3> QED
      BY <1>7, <2>1, <2>2, <3>1 DEF KioskInv, Kiosks!OneList
  <2>3. CASE /\ requests' = [requests EXCEPT ![w] =
                  [op |-> "deleting", id |-> job.id, write |-> job.write,
                   patch |-> job.patch, seen |-> items[job.id]]]
             /\ UNCHANGED <<configs, lock>>
    <3>1. /\ requests'[w].op = "deleting" /\ requests'[w].id = job.id
          /\ requests'[w].seen = items[job.id]
          /\ \A v \in Workers : v # w => requests'[v] = requests[v]
          /\ requests' = [v \in Workers |-> requests'[v]]
      BY <2>3 DEF KioskInv
    <3> QED
      BY <2>1, <2>3, <3>1 DEF KioskInv, Kiosks!OneList
  <2> QED
    BY <1>8, <2>2, <2>3 DEF Kiosks!Resolve
<1>9. ASSUME NEW w \in Workers, Kiosks!Replace(w) PROVE KioskInv'
  <2> DEFINE job == requests[w]
  <2>1. /\ job.op = "deleting" /\ job.id \in Configs /\ items[job.id] \ job.seen = {}
        /\ requests' = [requests EXCEPT ![w] = Kiosks!Idle] /\ lock' = Kiosks!Unlocked(w)
        /\ titles' = titles
    BY <1>9 DEF Kiosks!Replace, KioskInv
  <2>2. /\ requests'[w].op = "idle"
        /\ \A v \in Workers : v # w => requests'[v] = requests[v]
        /\ requests' = [v \in Workers |-> requests'[v]]
        /\ lock' = [c \in Configs |-> lock'[c]]
        /\ \A v \in Workers : requests'[v].op \in Holding => lock'[requests'[v].id] = v
    BY <1>7, <2>1
  <2>3. CASE UNCHANGED <<items, configs, sent>>
    BY <2>1, <2>2, <2>3 DEF KioskInv, Kiosks!OneList
  <2>4. CASE /\ Kiosks!Known(job.patch.items)
             /\ items' = [items EXCEPT ![job.id] = (items[job.id] \ job.seen) \cup job.patch.items]
             /\ configs' = Kiosks!RowsAfter(w)
             /\ sent' = [sent EXCEPT ![job.id] = job.patch.items]
    <3>1. DOMAIN configs' \subseteq Configs
      BY <2>1, <2>4 DEF KioskInv, Kiosks!RowsAfter
    <3>2. \A c \in Configs :
             /\ items'[c] = IF c = job.id THEN job.patch.items ELSE items[c]
             /\ sent'[c] = IF c = job.id THEN job.patch.items ELSE sent[c]
      BY <2>1, <2>4 DEF KioskInv
    <3>3. \A i \in job.patch.items : i.title \in titles
      BY <2>4 DEF Kiosks!Known
    <3>4. Kiosks!OneList'
      BY <2>1, <3>2, <3>3 DEF KioskInv, Kiosks!OneList
    <3>5. \A v \in Workers : v # w /\ requests[v].op \in Holding => requests[v].id # job.id
      BY <2>1 DEF KioskInv
    <3>6. \A v \in Workers : requests'[v].op = "deleting" => items'[requests'[v].id] \subseteq requests'[v].seen
      <4> SUFFICES ASSUME NEW v \in Workers, requests'[v].op = "deleting"
                   PROVE  items'[requests'[v].id] \subseteq requests'[v].seen
        OBVIOUS
      <4>1. v # w /\ requests'[v] = requests[v]
        BY <2>2
      <4>2. requests[v].id \in Configs /\ items[requests[v].id] \subseteq requests[v].seen
        BY <4>1 DEF KioskInv
      <4> QED
        BY <3>2, <3>5, <4>1, <4>2
    <3>7. /\ items' = [c \in Configs |-> items'[c]] /\ sent' = [c \in Configs |-> sent'[c]]
      BY <2>4 DEF KioskInv
    <3> QED
      BY <2>2, <3>1, <3>4, <3>6, <3>7 DEF KioskInv
  <2> QED
    BY <1>9, <2>3, <2>4 DEF Kiosks!Replace
<1> QED
  BY <1>2, <1>3, <1>4, <1>5, <1>6, <1>8, <1>9 DEF Kiosks!Next

\* A kiosk shows one list that was sent, whatever patches overlap, although each
\* deletes only the items it saw: the row's lock keeps their replacements apart
\* (update_config).
THEOREM KiosksShowOneList ==
    Kiosks!NoneAssumption /\ Kiosks!Spec => []Kiosks!OneList
<1>1. Kiosks!Init => KioskInv
  BY DEF Kiosks!Init, KioskInv, Kiosks!OneList, Kiosks!Idle, Holding
<1>2. Kiosks!NoneAssumption /\ KioskInv /\ [Kiosks!Next]_kioskVars => KioskInv'
  <2>1. KioskInv /\ UNCHANGED kioskVars => KioskInv'
    BY SMTT(60) DEF KioskInv, kioskVars, Kiosks!OneList, Holding
  <2> QED
    BY <2>1, KioskStep
<1>3. KioskInv => Kiosks!OneList
  BY DEF KioskInv
<1>4. CASE Kiosks!NoneAssumption
  BY <1>1, <1>2, <1>3, <1>4, PTL DEF Kiosks!Spec, Kiosks!vars, kioskVars
<1>5. CASE ~Kiosks!NoneAssumption
  BY <1>5
<1> QED
  BY <1>4, <1>5

-----------------------------------------------------------------------------
(***************************************************************************)
(* EdgesMatchText and UntouchedTextRoundTrips of MarkdownLinks, for every  *)
(* set of pages, records, public ids and editors.  A saved text names      *)
(* records by key, so a rename or a deletion of a target changes neither   *)
(* the text nor its reference rows; the editor's form is put back to the   *)
(* same keys because two public ids never name one record.                 *)
(***************************************************************************)
Saving == {"sync", "apply"}

\* A save that has written the page keeps others out, so the edges it read are
\* still all there are; an untouched draft is the text that was loaded
LinkInv ==
    /\ Links!TypeOK
    /\ \A e, f \in Workers : desk[e].pc \in Saving /\ desk[f].pc \in Saving /\ e # f =>
          desk[e].page # desk[f].page
    /\ \A e \in Workers : desk[e].pc = "apply" => desk[e].before = refs[desk[e].page]
    /\ \A e \in Workers : desk[e].pc = "edit" /\ ~desk[e].touched =>
          /\ desk[e].draft.keys = {n[2] : n \in desk[e].names}
          /\ \A n \in desk[e].names : n[1] \in desk[e].loaded
          /\ desk[e].draft.ids \subseteq desk[e].loaded
          /\ \A q \in desk[e].loaded \ desk[e].draft.ids : \E k : <<q, k>> \in desk[e].names
    /\ Links!EdgesMatchText

LEMMA LinkStep ==
    ASSUME Links!LinkAssumption, LinkInv, Links!Next
    PROVE  LinkInv'
<1> USE DEF Saving
\* Rows only come; what an editor does to its own desk leaves the others'
<1>1. ASSUME NEW r \in Records, NEW k \in PublicIds, Links!Rename(r, k) \/ Links!Create(r, k)
      PROVE  LinkInv'
  <2>1. UNCHANGED <<text, refs, desk>>
    BY <1>1 DEF Links!Rename, Links!Create
  <2>2. /\ DOMAIN key' \subseteq Records /\ DOMAIN key \subseteq DOMAIN key'
        /\ \A q \in DOMAIN key' : key'[q] = IF q = r THEN k ELSE key[q]
        /\ \A q \in DOMAIN key' : q = r \/ q \in DOMAIN key
        /\ \A q \in DOMAIN key : key[q] # k
    <3>1. CASE Links!Rename(r, k)
      BY <3>1 DEF Links!Rename, Links!Rows, Links!Free, LinkInv, Links!TypeOK
    <3>2. CASE Links!Create(r, k)
      BY <3>2 DEF Links!Create, Links!Rows, Links!Free, LinkInv, Links!TypeOK
    <3> QED
      BY <1>1, <3>1, <3>2
  <2>3. Links!TypeOK'
    BY <2>1, <2>2 DEF LinkInv, Links!TypeOK, Links!Rows
  <2> QED
    BY <2>1, <2>3 DEF LinkInv, Links!EdgesMatchText
\* What an editor does to its own desk leaves the others'
<1>2. ASSUME NEW e \in Workers, NEW d \in Links!Desk, desk' = [desk EXCEPT ![e] = d],
             UNCHANGED <<key, text, refs>>,
             d.pc \in Saving => \A f \in Workers \ {e} :
                desk[f].pc \in Saving => desk[f].page # d.page,
             d.pc = "apply" => d.before = refs[d.page],
             d.pc = "edit" /\ ~d.touched =>
                /\ d.draft.keys = {n[2] : n \in d.names}
                /\ \A n \in d.names : n[1] \in d.loaded
                /\ d.draft.ids \subseteq d.loaded
                /\ \A q \in d.loaded \ d.draft.ids : \E k : <<q, k>> \in d.names
      PROVE  LinkInv'
  <2>1. /\ desk'[e] = d /\ desk' \in [Workers -> Links!Desk]
        /\ \A f \in Workers \ {e} : desk'[f] = desk[f]
    BY <1>2 DEF LinkInv, Links!TypeOK
  <2>2. Links!TypeOK'
    BY <1>2, <2>1 DEF LinkInv, Links!TypeOK, Links!Rows
  <2>3. \A f, g \in Workers : desk'[f].pc \in Saving /\ desk'[g].pc \in Saving /\ f # g =>
           desk'[f].page # desk'[g].page
    BY <1>2, <2>1 DEF LinkInv
  <2>4. \A f \in Workers : desk'[f].pc = "apply" => desk'[f].before = refs[desk'[f].page]
    BY <1>2, <2>1 DEF LinkInv
  <2>5. \A f \in Workers : desk'[f].pc = "edit" /\ ~desk'[f].touched =>
          /\ desk'[f].draft.keys = {n[2] : n \in desk'[f].names}
          /\ \A n \in desk'[f].names : n[1] \in desk'[f].loaded
          /\ desk'[f].draft.ids \subseteq desk'[f].loaded
          /\ \A q \in desk'[f].loaded \ desk'[f].draft.ids : \E k : <<q, k>> \in desk'[f].names
    BY <1>2, <2>1 DEF LinkInv
  <2> QED
    BY <1>2, <2>1, <2>2, <2>3, <2>4, <2>5 DEF LinkInv, Links!EdgesMatchText
\* A desk nobody sits at
<1>3. /\ Links!Away \in Links!Desk /\ Links!Away.pc = "away"
      /\ Links!Away = [pc |-> "away", page |-> Links!Away.page,
                       draft |-> [keys |-> {}, ids |-> {}], touched |-> FALSE,
                       loaded |-> {}, names |-> {}, content |-> {}, before |-> {}]
      /\ Links!Away.page \in Pages
  BY DEF Links!Away, Links!Desk, Links!Draft, Links!Pcs, Links!LinkAssumption
<1>4. ASSUME NEW e \in Workers, NEW p \in Pages, Links!Load(e, p) PROVE LinkInv'
  <2> DEFINE d == [Links!Away EXCEPT !.pc = "edit", !.page = p, !.draft = Links!Authoring(text[p]),
                     !.loaded = text[p], !.names = {<<r, key[r]>> : r \in text[p] \cap Links!Rows}]
  <2>1. desk' = [desk EXCEPT ![e] = d] /\ UNCHANGED <<key, text, refs>>
    BY <1>4 DEF Links!Load, Links!Set
  <2>2. /\ d.pc = "edit" /\ d.page = p /\ d.loaded = text[p]
        /\ d.names = {<<r, key[r]>> : r \in text[p] \cap Links!Rows}
        /\ d.draft = Links!Authoring(text[p])
    BY <1>3
  <2>3. /\ d.draft.keys = {key[r] : r \in text[p] \cap Links!Rows}
        /\ d.draft.ids = text[p] \ Links!Rows
    BY <2>2 DEF Links!Authoring
  <2>4. d.draft.keys = {n[2] : n \in d.names}
    <3> HIDE DEF d
    <3>1. \A k \in d.draft.keys : \E n \in d.names : k = n[2]
      <4> SUFFICES ASSUME NEW r \in text[p] \cap Links!Rows
                   PROVE  \E n \in d.names : key[r] = n[2]
        BY <2>3
      <4>1. <<r, key[r]>> \in d.names /\ key[r] = <<r, key[r]>>[2]
        BY <2>2
      <4> QED
        BY <4>1
    <3>2. \A n \in d.names : n[2] \in d.draft.keys
      BY <2>2, <2>3
    <3> QED
      BY <3>1, <3>2
  <2>5. /\ \A n \in d.names : n[1] \in d.loaded
        /\ d.draft.ids \subseteq d.loaded
        /\ \A q \in d.loaded \ d.draft.ids : <<q, key[q]>> \in d.names
    BY <2>2, <2>3
  <2>6. Links!Authoring(text[p]) \in Links!Draft
    BY DEF Links!Authoring, Links!Draft, LinkInv, Links!TypeOK, Links!Rows
  <2>7. /\ text[p] \in SUBSET Records
        /\ {<<r, key[r]>> : r \in text[p] \cap Links!Rows} \in SUBSET (Records \X PublicIds)
    BY DEF LinkInv, Links!TypeOK, Links!Rows
  <2>8. d \in Links!Desk
    BY <1>3, <2>6, <2>7 DEF Links!Desk, Links!Pcs
  <2> HIDE DEF d
  <2> QED
    BY <1>2, <2>1, <2>2, <2>4, <2>5, <2>8
<1>5. ASSUME NEW e \in Workers, NEW keys \in SUBSET PublicIds, NEW ids \in SUBSET Records,
             Links!Edit(e, keys, ids)
      PROVE  LinkInv'
  <2> DEFINE d == [desk[e] EXCEPT !.draft = [keys |-> keys, ids |-> ids], !.touched = TRUE]
  <2>1. /\ desk' = [desk EXCEPT ![e] = d] /\ desk[e].pc = "edit"
        /\ UNCHANGED <<key, text, refs>>
    BY <1>5 DEF Links!Edit, Links!Set, Links!At
  <2>2. d \in Links!Desk /\ d.pc = "edit" /\ d.touched
    <3>1. desk[e] \in Links!Desk
      BY DEF LinkInv, Links!TypeOK
    <3>2. [keys |-> keys, ids |-> ids] \in Links!Draft
      BY DEF Links!Draft
    <3> QED
      BY <2>1, <3>1, <3>2 DEF Links!Desk
  <2> HIDE DEF d
  <2> QED
    BY <1>2, <2>1, <2>2
<1>6. ASSUME NEW e \in Workers, Links!Submit(e) PROVE LinkInv'
  <2> DEFINE d == [Links!Away EXCEPT !.pc = "write", !.page = desk[e].page,
                     !.content = Links!Storage(desk[e].draft)]
  <2>1. desk' = [desk EXCEPT ![e] = d] /\ UNCHANGED <<key, text, refs>>
    BY <1>6 DEF Links!Submit, Links!Set
  <2>2. desk[e].page \in Pages /\ Links!Storage(desk[e].draft) \in SUBSET Records
    BY DEF LinkInv, Links!TypeOK, Links!Desk, Links!Draft, Links!Storage, Links!Named
  <2>3. d \in Links!Desk /\ d.pc = "write"
    BY <1>3, <2>2 DEF Links!Desk, Links!Pcs
  <2> HIDE DEF d
  <2> QED
    BY <1>2, <2>1, <2>3
<1>7. ASSUME NEW e \in Workers, Links!Write(e) PROVE LinkInv'
  <2> DEFINE d == [desk[e] EXCEPT !.pc = "sync"]
  <2>1. /\ desk' = [desk EXCEPT ![e] = d] /\ UNCHANGED <<key, text, refs>>
        /\ \A f \in Workers \ {e} : desk[f].pc \in Saving => desk[f].page # desk[e].page
    BY <1>7 DEF Links!Write, Links!Set, Links!RowLocked
  <2>2. d \in Links!Desk /\ d.pc = "sync" /\ d.page = desk[e].page
    BY DEF LinkInv, Links!TypeOK, Links!Desk, Links!Pcs
  <2> HIDE DEF d
  <2> QED
    BY <1>2, <2>1, <2>2
<1>8. ASSUME NEW e \in Workers, Links!ReadEdges(e) PROVE LinkInv'
  <2> DEFINE d == [desk[e] EXCEPT !.pc = "apply", !.before = refs[desk[e].page]]
  <2>1. /\ desk' = [desk EXCEPT ![e] = d] /\ UNCHANGED <<key, text, refs>>
        /\ desk[e].pc = "sync"
    BY <1>8 DEF Links!ReadEdges, Links!Set, Links!At
  <2>2. refs[desk[e].page] \in SUBSET Records
    BY DEF LinkInv, Links!TypeOK, Links!Desk
  <2>3. d \in Links!Desk /\ d.pc = "apply" /\ d.page = desk[e].page /\ d.before = refs[desk[e].page]
    <3>1. desk[e] \in Links!Desk
      BY DEF LinkInv, Links!TypeOK
    <3> QED
      BY <2>2, <3>1 DEF Links!Desk, Links!Pcs
  <2>4. \A f \in Workers \ {e} : desk[f].pc \in Saving => desk[f].page # d.page
    BY <2>1, <2>3 DEF LinkInv
  <2> HIDE DEF d
  <2> QED
    BY <1>2, <2>1, <2>3, <2>4
<1>9. ASSUME NEW e \in Workers, Links!Leave(e) PROVE LinkInv'
  BY <1>2, <1>3, <1>9 DEF Links!Leave, Links!Set
<1>10. ASSUME NEW e \in Workers, Links!Apply(e) PROVE LinkInv'
  <2> DEFINE d == desk[e]
             p == d.page
             edges == (refs[p] \ Links!Stale(d)) \cup Links!Missing(d)
  <2>1. /\ d.pc = "apply" /\ key' = key
        /\ text' = [text EXCEPT ![p] = d.content] /\ refs' = [refs EXCEPT ![p] = edges]
        /\ desk' = [desk EXCEPT ![e] = Links!Away]
    BY <1>10 DEF Links!Apply, Links!Set, Links!At
  <2>2. p \in Pages /\ d.content \in SUBSET Records /\ d.before = refs[p]
    BY <2>1 DEF LinkInv, Links!TypeOK, Links!Desk
  <2>3. refs[p] \in SUBSET Links!Rows /\ Old \subseteq Links!Rows
    BY <2>2 DEF LinkInv, Links!TypeOK
  <2>4. edges \subseteq d.content /\ d.content \cap Old \subseteq edges /\ edges \in SUBSET Links!Rows
    BY <2>2, <2>3 DEF Links!Stale, Links!Missing
  <2> HIDE DEF edges
  <2>5. \A r \in Pages : /\ text'[r] = IF r = p THEN d.content ELSE text[r]
                         /\ refs'[r] = IF r = p THEN edges ELSE refs[r]
    BY <2>1 DEF LinkInv, Links!TypeOK
  <2>6. /\ desk'[e].pc = "away" /\ desk' \in [Workers -> Links!Desk]
        /\ \A f \in Workers \ {e} : desk'[f] = desk[f]
    BY <1>3, <2>1 DEF LinkInv, Links!TypeOK
  <2>7. Links!TypeOK'
    <3>1. text' \in [Pages -> SUBSET Records] /\ refs' \in [Pages -> SUBSET Links!Rows]
      BY <2>1, <2>2, <2>4 DEF LinkInv, Links!TypeOK
    <3> QED
      BY <2>1, <2>6, <3>1 DEF LinkInv, Links!TypeOK, Links!Rows
  <2>8. \A f \in Workers : desk'[f].pc \in Saving => f # e /\ desk'[f].page # p
    BY <2>1, <2>6 DEF LinkInv
  <2>9. \A f \in Workers : desk'[f].pc = "apply" => desk'[f].before = refs'[desk'[f].page]
    <3> SUFFICES ASSUME NEW f \in Workers, desk'[f].pc = "apply"
                 PROVE  desk'[f].before = refs'[desk'[f].page]
      OBVIOUS
    <3>1. f # e /\ desk'[f] = desk[f] /\ desk[f].page # p
      BY <2>6, <2>8
    <3>2. desk[f].page \in Pages /\ desk[f].before = refs[desk[f].page]
      BY <3>1 DEF LinkInv, Links!TypeOK, Links!Desk
    <3> QED
      BY <2>5, <3>1, <3>2
  <2>10. Links!EdgesMatchText'
    BY <2>4, <2>5 DEF LinkInv, Links!EdgesMatchText
  <2>11. \A f, g \in Workers : desk'[f].pc \in Saving /\ desk'[g].pc \in Saving /\ f # g =>
            desk'[f].page # desk'[g].page
    BY <2>6 DEF LinkInv
  <2>12. \A f \in Workers : desk'[f].pc = "edit" /\ ~desk'[f].touched =>
          /\ desk'[f].draft.keys = {n[2] : n \in desk'[f].names}
          /\ \A n \in desk'[f].names : n[1] \in desk'[f].loaded
          /\ desk'[f].draft.ids \subseteq desk'[f].loaded
          /\ \A q \in desk'[f].loaded \ desk'[f].draft.ids : \E k : <<q, k>> \in desk'[f].names
    BY <2>6 DEF LinkInv
  <2> QED
    BY <2>7, <2>9, <2>10, <2>11, <2>12 DEF LinkInv
<1> QED
  BY <1>1, <1>4, <1>5, <1>6, <1>7, <1>8, <1>9, <1>10 DEF Links!Next

\* A draft nobody touched comes back as it was loaded.
LEMMA UntouchedComesBack == LinkInv => Links!UntouchedTextRoundTrips
<1> SUFFICES ASSUME LinkInv, NEW e \in Workers, desk[e].pc = "edit", ~desk[e].touched,
                    Links!Resolves(desk[e].draft)
             PROVE  LET now == Links!Storage(desk[e].draft)
                    IN  /\ \A r \in now \ desk[e].loaded :
                              \E q \in desk[e].loaded : <<q, key[r]>> \in desk[e].names
                        /\ \A q \in desk[e].loaded \ now :
                              \E r \in Links!Rows : r # q /\ <<q, key[r]>> \in desk[e].names
  BY DEF Links!UntouchedTextRoundTrips
<1> DEFINE d == desk[e]
<1>1. /\ d.draft.keys = {n[2] : n \in d.names}
      /\ \A n \in d.names : n[1] \in d.loaded
      /\ d.draft.ids \subseteq d.loaded
      /\ \A q \in d.loaded \ d.draft.ids : \E k : <<q, k>> \in d.names
  BY DEF LinkInv
<1>2. \A n \in d.names : n = <<n[1], n[2]>>
  BY DEF LinkInv, Links!TypeOK, Links!Desk
<1>3. ASSUME NEW r \in Links!Storage(d.draft) \ d.loaded
      PROVE  \E q \in d.loaded : <<q, key[r]>> \in d.names
  <2>1. key[r] \in d.draft.keys
    BY <1>1, <1>3 DEF Links!Storage, Links!Named
  <2>2. PICK n \in d.names : key[r] = n[2]
    BY <1>1, <2>1
  <2> QED
    BY <1>1, <1>2, <2>2
<1>4. ASSUME NEW q \in d.loaded \ Links!Storage(d.draft)
      PROVE  \E r \in Links!Rows : r # q /\ <<q, key[r]>> \in d.names
  <2>1. q \notin d.draft.ids /\ q \notin Links!Named(d.draft.keys)
    BY <1>4 DEF Links!Storage
  <2>2. PICK k : <<q, k>> \in d.names
    BY <1>1, <1>4, <2>1
  <2>3. k \in d.draft.keys
    BY <1>1, <2>2
  <2>4. PICK r \in Links!Rows : key[r] = k
    BY <2>3 DEF Links!Resolves
  <2> QED
    BY <2>1, <2>2, <2>3, <2>4 DEF Links!Named
<1> QED
  BY <1>3, <1>4

\* The edges between texts are the stored texts', although two saves of one page
\* reconcile them from what each has read (sync_references), and a text that is
\* opened and saved unchanged keeps its links but for keys another row took over
\* (convert_storage_to_authoring and back).
THEOREM EdgesFollowTexts ==
    Links!LinkAssumption /\ Links!Spec
        => [](Links!TypeOK /\ Links!EdgesMatchText /\ Links!UntouchedTextRoundTrips)
<1>1. Links!LinkAssumption /\ Links!Init => LinkInv
  <2> SUFFICES ASSUME Links!LinkAssumption, Links!Init PROVE LinkInv
    OBVIOUS
  <2>1. Links!Away \in Links!Desk /\ Links!Away.pc = "away"
    BY DEF Links!Away, Links!Desk, Links!Draft, Links!Pcs, Links!LinkAssumption
  <2>2. Links!TypeOK
    BY <2>1 DEF Links!Init, Links!TypeOK, Links!Rows, Links!LinkAssumption
  <2> QED
    BY <2>1, <2>2 DEF Links!Init, LinkInv, Links!EdgesMatchText, Saving
<1>2. Links!LinkAssumption /\ LinkInv /\ [Links!Next]_linkVars => LinkInv'
  <2>1. LinkInv /\ UNCHANGED linkVars => LinkInv'
    BY DEF LinkInv, linkVars, Links!EdgesMatchText, Links!TypeOK, Links!Rows
  <2> QED
    BY <2>1, LinkStep
<1>3. LinkInv => Links!TypeOK /\ Links!EdgesMatchText /\ Links!UntouchedTextRoundTrips
  BY UntouchedComesBack DEF LinkInv
<1>4. CASE Links!LinkAssumption
  BY <1>1, <1>2, <1>3, <1>4, PTL DEF Links!Spec, Links!vars, linkVars
<1>5. CASE ~Links!LinkAssumption
  BY <1>5
<1> QED
  BY <1>4, <1>5

-----------------------------------------------------------------------------
(* Galleries.                                                              *)

\* A non-empty set of numbers has a least one, and a greatest one if bounded.
LEMMA LeastNumber ==
    ASSUME NEW S \in SUBSET Nat, S # {}
    PROVE  \E n \in S : \A m \in S : n <= m
<1> DEFINE Less == OpToRel(<, Nat)
<1>1. PICK n \in S : \A m \in S : <<m, n>> \notin Less
  BY NatLessThanWellFounded, WFMin
<1>2. \A m \in S : ~(m < n)
  BY <1>1 DEF OpToRel
<1> QED
  BY <1>2

LEMMA GreatestNumber ==
    ASSUME NEW b \in Nat, NEW S \in SUBSET (0 .. b), S # {}
    PROVE  \E n \in S : \A m \in S : n >= m
<1> DEFINE Gaps == {b - n : n \in S}
<1>0. \A n \in S : n \in Nat /\ b - n \in Nat
  OBVIOUS
<1>1. Gaps \in SUBSET Nat /\ Gaps # {}
  BY <1>0
<1> HIDE DEF Gaps
<1>2. PICK g \in Gaps : \A h \in Gaps : g <= h
  BY <1>1, LeastNumber
<1>3. PICK n \in S : g = b - n
  BY DEF Gaps
<1>4. \A m \in S : b - n <= b - m
  BY <1>2, <1>3 DEF Gaps
<1> QED
  BY <1>0, <1>4

LEMMA MinFacts ==
    ASSUME NEW S \in SUBSET Nat, S # {}
    PROVE  Gallery!Min(S) \in S /\ \A m \in S : Gallery!Min(S) <= m
  BY LeastNumber DEF Gallery!Min

LEMMA MinIs ==
    ASSUME NEW S \in SUBSET Nat, NEW n \in S, \A m \in S : n <= m
    PROVE  Gallery!Min(S) = n
<1>1. Gallery!Min(S) \in S /\ Gallery!Min(S) <= n
  BY MinFacts
<1>2. n <= Gallery!Min(S) /\ n \in Nat /\ Gallery!Min(S) \in Nat
  BY <1>1
<1> QED
  BY <1>1, <1>2

LEMMA MaxFacts ==
    ASSUME NEW b \in Nat, NEW S \in SUBSET (0 .. b), S # {}
    PROVE  Gallery!Max(S) \in S /\ \A m \in S : m <= Gallery!Max(S)
<1>1. Gallery!Max(S) \in S /\ \A m \in S : Gallery!Max(S) >= m
  BY GreatestNumber DEF Gallery!Max
<1>2. \A m \in S : m \in Nat
  OBVIOUS
<1> QED
  BY <1>1, <1>2

-----------------------------------------------------------------------------
\* Asset a has the winning claim it had
SameClaim(cs, new, a) ==
    /\ Gallery!Winner(new, a) = Gallery!Winner(cs, a)
    /\ Gallery!Winner(cs, a) # 0 => new[Gallery!Winner(cs, a)] = cs[Gallery!Winner(cs, a)]

\* So do all assets but those in S
OthersKeep(cs, new, S) == \A a : a \notin S => SameClaim(cs, new, a)

\* Asset a's winning claim is x
Wins(new, a, x) == Gallery!Winner(new, a) # 0 /\ new[Gallery!Winner(new, a)] = x

\* Asset a claims to be primary no more
Demoted(new, a) == ~Gallery!IsPrimary(new, a)

\* The winner among the claims of an asset is the last that is active.
LEMMA WinnerFacts ==
    ASSUME NEW cs \in Seq(Gallery!Claim), NEW a
    PROVE  LET active == {i \in DOMAIN cs : cs[i].asset = a /\ cs[i].active}
           IN  /\ active = {} => Gallery!Winner(cs, a) = 0
               /\ active # {} => /\ Gallery!Winner(cs, a) \in active
                                 /\ \A i \in active : i <= Gallery!Winner(cs, a)
<1> DEFINE active == {i \in DOMAIN cs : cs[i].asset = a /\ cs[i].active}
<1>1. Len(cs) \in Nat /\ active \in SUBSET (0 .. Len(cs))
  OBVIOUS
<1>2. CASE active = {}
  BY <1>2 DEF Gallery!Winner
<1>3. CASE active # {}
  <2>1. Gallery!Winner(cs, a) = Gallery!Max(active)
    BY <1>3 DEF Gallery!Winner
  <2> HIDE DEF active
  <2>2. Gallery!Winner(cs, a) \in active /\ \A i \in active : i <= Gallery!Winner(cs, a)
    BY <1>1, <1>3, <2>1, MaxFacts
  <2> QED
    BY <1>3, <2>2 DEF active
<1> QED
  BY <1>2, <1>3

LEMMA WinnerIs ==
    ASSUME NEW cs \in Seq(Gallery!Claim), NEW a, NEW i \in DOMAIN cs,
           cs[i].asset = a, cs[i].active,
           \A j \in DOMAIN cs : cs[j].asset = a /\ cs[j].active => j <= i
    PROVE  Gallery!Winner(cs, a) = i
<1> DEFINE active == {j \in DOMAIN cs : cs[j].asset = a /\ cs[j].active}
<1>1. i \in active /\ active # {}
  OBVIOUS
<1>2. Gallery!Winner(cs, a) \in active /\ i <= Gallery!Winner(cs, a)
  BY <1>1, WinnerFacts
<1>3. Gallery!Winner(cs, a) <= i /\ i \in Nat /\ Gallery!Winner(cs, a) \in Nat
  BY <1>2
<1> QED
  BY <1>2, <1>3

\* Claims of other assets leave an asset's winner as it is.
LEMMA OthersKeepTheirWinner ==
    ASSUME NEW cs \in Seq(Gallery!Claim), NEW new \in Seq(Gallery!Claim), NEW a,
           Len(cs) <= Len(new),
           \A i \in DOMAIN cs : cs[i].asset = a \/ new[i].asset = a => new[i] = cs[i],
           \A i \in DOMAIN new : new[i].asset = a => i \in DOMAIN cs
    PROVE  SameClaim(cs, new, a)
<1> DEFINE active == {i \in DOMAIN cs : cs[i].asset = a /\ cs[i].active}
           now == {i \in DOMAIN new : new[i].asset = a /\ new[i].active}
<1>1. DOMAIN cs \subseteq DOMAIN new
  OBVIOUS
<1>2. now = active
  BY <1>1
<1>3. CASE active = {}
  BY <1>2, <1>3, WinnerFacts DEF SameClaim
<1>4. CASE active # {}
  <2>1. Gallery!Winner(cs, a) \in active /\ \A i \in active : i <= Gallery!Winner(cs, a)
    BY <1>4, WinnerFacts
  <2>2. Gallery!Winner(new, a) = Gallery!Winner(cs, a)
    BY <1>1, <1>2, <2>1, WinnerIs
  <2> QED
    BY <2>1, <2>2 DEF SameClaim
<1> QED
  BY <1>3, <1>4

-----------------------------------------------------------------------------
Loaded == [op : {"primary", "category", "detach"}, user : Users, asset : Gallery!Ids,
           cat : Categories]
Promoting == [op : {"promote"}, user : Users, asset : Gallery!Ids, cat : Categories,
              priors : SUBSET Gallery!Ids]

\* What a request that nothing committed past has read still is so.
StillSo(cs, as, x) ==
    /\ x.op \in {"primary", "promote"} =>
          x.asset \in Gallery!Rows(cs, as) /\ x.cat = Gallery!CategoryOf(cs, x.asset)
    /\ x.op = "promote" => x.priors = Gallery!Primaries(cs, as, x.cat) \ {x.asset}

GalleryInv ==
    /\ claims \in Seq(Gallery!Claim)
    /\ uploaded \in 0 .. MaxAssets /\ images \subseteq 1 .. uploaded
    /\ editing \in [Workers -> {Gallery!Idle} \cup Loaded \cup Promoting]
    /\ \A w \in Workers : editing[w].op = "promote" => editing[w].asset \notin editing[w].priors
    /\ fresh \subseteq Workers
    /\ \A w \in fresh : StillSo(claims, images, editing[w])

LEMMA NewFacts ==
    ASSUME NEW u \in Users, NEW a \in Gallery!Ids, NEW c \in Categories,
           NEW p \in BOOLEAN, NEW e \in BOOLEAN
    PROVE  /\ Gallery!New(u, a, c, p, e) \in Gallery!Claim
           /\ Gallery!New(u, a, c, p, e).asset = a /\ Gallery!New(u, a, c, p, e).active
           /\ Gallery!New(u, a, c, p, e).cat = c /\ Gallery!New(u, a, c, p, e).primary = p
           /\ Gallery!New(u, a, c, p, e).exists = e
  BY DEF Gallery!New, Gallery!Claim

\* Claims that give way stay where they are, those of other assets as they are.
LEMMA SupersededFacts ==
    ASSUME NEW cs \in Seq(Gallery!Claim), NEW u, NEW as
    PROVE  /\ Gallery!Superseded(cs, u, as) \in Seq(Gallery!Claim)
           /\ Len(Gallery!Superseded(cs, u, as)) = Len(cs)
           /\ \A i \in 1 .. Len(cs) :
                 /\ Gallery!Superseded(cs, u, as)[i].asset = cs[i].asset
                 /\ cs[i].asset \notin as => Gallery!Superseded(cs, u, as)[i] = cs[i]
<1> DEFINE out == Gallery!Superseded(cs, u, as)
<1>1. DOMAIN cs = 1 .. Len(cs) /\ Len(cs) \in Nat
  OBVIOUS
<1>2. ASSUME NEW i \in 1 .. Len(cs)
      PROVE  /\ out[i] = IF cs[i].user = u /\ cs[i].asset \in as
                         THEN [cs[i] EXCEPT !.active = FALSE] ELSE cs[i]
             /\ out[i] \in Gallery!Claim /\ out[i].asset = cs[i].asset
  <2>1. cs[i] \in Gallery!Claim
    BY <1>1
  <2> QED
    BY <1>1, <2>1 DEF Gallery!Superseded, Gallery!Claim
<1>3. out = [i \in 1 .. Len(cs) |-> out[i]]
  BY <1>1 DEF Gallery!Superseded
<1>4. out \in Seq(Gallery!Claim) /\ Len(out) = Len(cs)
  <2>1. out \in [1 .. Len(cs) -> Gallery!Claim]
    BY <1>2, <1>3
  <2> HIDE DEF out
  <2> QED
    BY <1>1, <2>1
<1> QED
  BY <1>2, <1>4

\* An assertion is the asset's winner and leaves the others' as they are.
LEMMA AssertFacts ==
    ASSUME NEW cs \in Seq(Gallery!Claim), NEW u \in Users, NEW a \in Gallery!Ids,
           NEW c \in Categories, NEW p \in BOOLEAN, NEW e \in BOOLEAN,
           NEW new, new = Gallery!Assert(cs, u, a, c, p, e)
    PROVE  /\ new \in Seq(Gallery!Claim)
           /\ Wins(new, a, Gallery!New(u, a, c, p, e))
           /\ OthersKeep(cs, new, {a})
<1> DEFINE old == Gallery!Superseded(cs, u, {a})
           one == Gallery!New(u, a, c, p, e)
<1>1. new = Append(old, one)
  BY DEF Gallery!Assert
<1>2. old \in Seq(Gallery!Claim) /\ Len(old) = Len(cs) /\ Len(cs) \in Nat
  BY SupersededFacts
<1>3. \A i \in 1 .. Len(cs) : old[i].asset = cs[i].asset /\ (cs[i].asset # a => old[i] = cs[i])
  BY SupersededFacts
<1>4. one \in Gallery!Claim /\ one.asset = a /\ one.active
  BY NewFacts
<1> HIDE DEF old, one
<1>5. /\ new \in Seq(Gallery!Claim) /\ Len(new) = Len(cs) + 1 /\ new[Len(cs) + 1] = one
      /\ \A i \in 1 .. Len(cs) : new[i] = old[i]
  BY <1>1, <1>2, <1>4
<1>6. Gallery!Winner(new, a) = Len(cs) + 1
  BY <1>2, <1>4, <1>5, WinnerIs
<1>7. ASSUME NEW b, b # a
      PROVE  SameClaim(cs, new, b)
  BY <1>2, <1>3, <1>4, <1>5, <1>7, OthersKeepTheirWinner
<1> QED
  BY <1>2, <1>5, <1>6, <1>7 DEF one, Wins, OthersKeep

\* A finite set can be listed without repetition.
LEMMA Listing ==
    ASSUME NEW S, IsFiniteSet(S)
    PROVE  LET n == Gallery!Cardinality(S)
               f == CHOOSE f \in [1 .. n -> S] : \A p \in S : \E i \in 1 .. n : f[i] = p
           IN  n \in Nat /\ f \in [1 .. n -> S] /\ \A p \in S : \E i \in 1 .. n : f[i] = p
<1> DEFINE n == Gallery!Cardinality(S)
           Covers(f) == \A p \in S : \E i \in 1 .. n : f[i] = p
<1>1. n = Cardinality(S)
  BY DEF Gallery!Cardinality, Cardinality
<1>2. n \in Nat /\ ExistsBijection(1 .. n, S)
  BY <1>1, FS_CardinalityType
<1>3. \E f \in [1 .. n -> S] : Covers(f)
  <2> HIDE DEF n
  <2> QED
    BY <1>2 DEF ExistsBijection, Bijection, Surjection, Injection
<1>4. /\ (CHOOSE f \in [1 .. n -> S] : Covers(f)) \in [1 .. n -> S]
      /\ Covers(CHOOSE f \in [1 .. n -> S] : Covers(f))
  <2> HIDE DEF n, Covers
  <2> QED
    BY <1>3, Zenon
<1> QED
  BY <1>2, <1>4, Zenon

\* What a sequence extended by another is.
LEMMA Extended ==
    ASSUME NEW S, NEW s \in Seq(S), NEW n \in Nat, NEW t \in [1 .. n -> S],
           NEW st, st = s \o t, NEW m, m = Len(s)
    PROVE  /\ st \in Seq(S) /\ DOMAIN st = 1 .. Len(st) /\ m <= Len(st)
           /\ \A i \in 1 .. m : i \in DOMAIN st /\ st[i] = s[i]
           /\ \A i \in 1 .. n : m + i \in DOMAIN st /\ st[m + i] = t[i]
           /\ \A j \in DOMAIN st : j \notin 1 .. m => j - m \in 1 .. n /\ st[j] = t[j - m]
<1>1. m \in Nat /\ t \in Seq(S) /\ Len(t) = n
  OBVIOUS
<1>2. st \in Seq(S) /\ Len(st) = m + n
  BY <1>1
<1>3. DOMAIN st = 1 .. (m + n)
  BY <1>2
<1>4. ASSUME NEW i \in 1 .. m PROVE i \in 1 .. (m + n) /\ st[i] = s[i]
  BY <1>1
<1>5. ASSUME NEW i \in 1 .. n PROVE m + i \in 1 .. (m + n) /\ st[m + i] = t[i]
  BY <1>1
<1>6. ASSUME NEW j \in 1 .. (m + n), j \notin 1 .. m PROVE j - m \in 1 .. n /\ st[j] = t[j - m]
  BY <1>1, <1>6
<1>7. m <= Len(st)
  BY <1>1, <1>2
<1> QED
  BY <1>2, <1>3, <1>4, <1>5, <1>6, <1>7

\* A promotion makes the asset primary, the others it read not, and leaves the
\* rest as they are.
LEMMA PromoteFacts ==
    ASSUME NEW cs \in Seq(Gallery!Claim), NEW u \in Users, NEW a \in Gallery!Ids,
           NEW c \in Categories, NEW priors \in SUBSET Gallery!Ids, a \notin priors,
           IsFiniteSet(priors), NEW new, new = Gallery!Promote(cs, u, a, c, priors)
    PROVE  /\ new \in Seq(Gallery!Claim)
           /\ Wins(new, a, Gallery!New(u, a, c, TRUE, TRUE))
           /\ \A b \in priors : Demoted(new, b)
           /\ OthersKeep(cs, new, priors \cup {a})
<1> DEFINE n == Gallery!Cardinality(priors)
           f == CHOOSE f \in [1 .. n -> priors] : \A p \in priors : \E i \in 1 .. n : f[i] = p
           old == Gallery!Superseded(cs, u, priors \cup {a})
           more == [i \in 1 .. (n + 1) |-> IF i <= n THEN Gallery!New(u, f[i], c, FALSE, TRUE)
                                           ELSE Gallery!New(u, a, c, TRUE, TRUE)]
           m == Len(cs)
<1>1. new = old \o more
  BY DEF Gallery!Promote
<1>2. n \in Nat /\ f \in [1 .. n -> priors] /\ \A p \in priors : \E i \in 1 .. n : f[i] = p
  BY Listing
<1>3. /\ old \in Seq(Gallery!Claim) /\ Len(old) = m /\ m \in Nat
      /\ \A i \in 1 .. m : /\ old[i].asset = cs[i].asset
                           /\ cs[i].asset \notin priors \cup {a} => old[i] = cs[i]
  BY SupersededFacts
<1> HIDE DEF f, n, old
<1>4. ASSUME NEW i \in 1 .. n
      PROVE  /\ more[i] \in Gallery!Claim /\ more[i].asset = f[i] /\ f[i] \in priors
             /\ more[i].active /\ ~more[i].primary
  <2>1. i \in 1 .. (n + 1) /\ i <= n
    BY <1>2
  <2>2. f[i] \in priors /\ f[i] \in Gallery!Ids
    BY <1>2
  <2>3. more[i] = Gallery!New(u, f[i], c, FALSE, TRUE)
    BY <2>1
  <2> HIDE DEF more
  <2> QED
    BY <2>2, <2>3 DEF Gallery!New, Gallery!Claim
<1>5. /\ more[n + 1] = Gallery!New(u, a, c, TRUE, TRUE) /\ more[n + 1] \in Gallery!Claim
      /\ more[n + 1].asset = a /\ more[n + 1].active
  <2>1. n + 1 \in 1 .. (n + 1) /\ ~(n + 1 <= n)
    BY <1>2
  <2> QED
    BY <2>1, NewFacts
<1>6. /\ n + 1 \in Nat /\ n + 1 \in 1 .. (n + 1) /\ \A i \in 1 .. (n + 1) : i \in 1 .. n \/ i = n + 1
      /\ \A i \in 1 .. n : i \in 1 .. (n + 1) /\ i <= n + 1
  BY <1>2
<1>7. more \in [1 .. (n + 1) -> Gallery!Claim]
  <2>1. more = [i \in 1 .. (n + 1) |-> more[i]]
    OBVIOUS
  <2> HIDE DEF more
  <2> QED
    BY <1>4, <1>5, <1>6, <2>1
<1> HIDE DEF more
<1>8. /\ new \in Seq(Gallery!Claim) /\ DOMAIN new = 1 .. Len(new) /\ m <= Len(new)
      /\ \A i \in 1 .. m : i \in DOMAIN new /\ new[i] = old[i]
      /\ \A i \in 1 .. (n + 1) : m + i \in DOMAIN new /\ new[m + i] = more[i]
      /\ \A j \in DOMAIN new :
            j \notin 1 .. m => j - m \in 1 .. (n + 1) /\ new[j] = more[j - m]
  <2> DEFINE k == n + 1
  <2>1. k \in Nat /\ more \in [1 .. k -> Gallery!Claim]
    BY <1>6, <1>7
  <2> HIDE DEF m, k
  <2>2. old \in Seq(Gallery!Claim) /\ new = old \o more /\ m = Len(old)
    BY <1>1, <1>3
  <2>3. /\ new \in Seq(Gallery!Claim) /\ DOMAIN new = 1 .. Len(new) /\ m <= Len(new)
        /\ \A i \in 1 .. m : i \in DOMAIN new /\ new[i] = old[i]
        /\ \A i \in 1 .. k : m + i \in DOMAIN new /\ new[m + i] = more[i]
        /\ \A j \in DOMAIN new : j \notin 1 .. m => j - m \in 1 .. k /\ new[j] = more[j - m]
    BY <2>1, <2>2, Extended
  <2> QED
    BY <2>3 DEF k
<1>9. DOMAIN cs = 1 .. m
  OBVIOUS
<1> HIDE DEF m
<1>10. Gallery!Winner(new, a) = m + (n + 1)
  <2>1. m + (n + 1) \in DOMAIN new /\ new[m + (n + 1)].asset = a /\ new[m + (n + 1)].active
    BY <1>5, <1>6, <1>8
  <2>2. ASSUME NEW i \in DOMAIN new PROVE i <= m + (n + 1)
    <3>1. i \in Nat /\ (i \in 1 .. m \/ i - m \in 1 .. (n + 1))
      BY <1>8
    <3> QED
      BY <1>2, <1>3, <3>1
  <2> QED
    BY <1>8, <2>1, <2>2, WinnerIs, SMTT(60)
<1>11. ASSUME NEW b \in priors PROVE Demoted(new, b)
  <2>1. PICK k \in 1 .. n : f[k] = b
    BY <1>2
  <2>2. m + k \in DOMAIN new /\ new[m + k].asset = b /\ new[m + k].active
    BY <1>4, <1>6, <1>8, <2>1
  <2> DEFINE w == Gallery!Winner(new, b)
  <2>3. w \in DOMAIN new /\ new[w].asset = b /\ m + k <= w
    BY <1>8, <2>2, WinnerFacts, SMTT(60)
  <2> HIDE DEF w
  <2>4. w \notin 1 .. m
    BY <1>3, <2>3
  <2>5. w - m \in 1 .. (n + 1) /\ new[w] = more[w - m]
    BY <1>8, <2>3, <2>4
  <2>6. w - m # n + 1
    BY <1>5, <2>3, <2>5
  <2>7. w - m \in 1 .. n
    BY <1>6, <2>5, <2>6
  <2> QED
    BY <1>4, <2>5, <2>7 DEF Gallery!IsPrimary, Demoted, w
<1>12. ASSUME NEW b, b \notin priors \cup {a}
       PROVE  SameClaim(cs, new, b)
  <2>1. \A i \in DOMAIN cs : cs[i].asset = b \/ new[i].asset = b => new[i] = cs[i]
    BY <1>3, <1>8, <1>9, <1>12
  <2>2. \A i \in DOMAIN new : new[i].asset = b => i \in DOMAIN cs
    <3>1. \A j \in 1 .. (n + 1) : more[j].asset # b
      BY <1>4, <1>5, <1>6, <1>12
    <3> QED
      BY <1>8, <1>9, <3>1
  <2>3. Len(cs) <= Len(new)
    BY <1>8 DEF m
  <2>4. new \in Seq(Gallery!Claim)
    BY <1>8
  <2> QED
    BY <2>1, <2>2, <2>3, <2>4, OthersKeepTheirWinner
<1>13. m + (n + 1) # 0
  BY <1>2, <1>3
<1>14. new[m + (n + 1)] = Gallery!New(u, a, c, TRUE, TRUE)
  BY <1>5, <1>6, <1>8
<1> QED
  BY <1>8, <1>10, <1>11, <1>12, <1>13, <1>14 DEF Wins, OthersKeep

\* Reverting changes flags of claims, and nothing else of them.
LEMMA RevertedIsWhole ==
    ASSUME NEW cs \in Seq(Gallery!Claim), NEW i \in DOMAIN cs
    PROVE  Gallery!Reverted(cs, i) \in Seq(Gallery!Claim)
<1> DEFINE out == [cs EXCEPT ![i].active = FALSE, ![i].retracted = TRUE]
           before == {j \in DOMAIN cs : /\ j # i /\ cs[j].user = cs[i].user
                                        /\ cs[j].asset = cs[i].asset
                                        /\ ~cs[j].active /\ ~cs[j].retracted}
<1>1. out \in Seq(Gallery!Claim) /\ Len(out) = Len(cs)
  <2>1. cs[i] \in Gallery!Claim
    OBVIOUS
  <2>2. [cs[i] EXCEPT !.active = FALSE, !.retracted = TRUE] \in Gallery!Claim
    BY <2>1 DEF Gallery!Claim
  <2>3. out = [cs EXCEPT ![i] = [cs[i] EXCEPT !.active = FALSE, !.retracted = TRUE]]
    OBVIOUS
  <2>4. i \in 1 .. Len(cs)
    OBVIOUS
  <2> HIDE DEF out
  <2> QED
    BY <2>2, <2>3, <2>4, ExceptSeq
<1>2. CASE before = {}
  BY <1>1, <1>2 DEF Gallery!Reverted
<1>3. CASE before # {}
  <2> DEFINE j == Gallery!Max(before)
  <2>1. before \in SUBSET (0 .. Len(cs)) /\ Len(cs) \in Nat
    OBVIOUS
  <2>2. j \in before
    <3> HIDE DEF before
    <3> QED
      BY <1>3, <2>1, MaxFacts
  <2>3. j \in 1 .. Len(out)
    BY <1>1, <2>2
  <2>4. Gallery!Reverted(cs, i) = [out EXCEPT ![j].active = TRUE]
    BY <1>3 DEF Gallery!Reverted
  <2> HIDE DEF out, j, before
  <2>5. out[j] \in Gallery!Claim
    BY <1>1, <2>3
  <2>6. [out[j] EXCEPT !.active = TRUE] \in Gallery!Claim
    BY <2>5 DEF Gallery!Claim
  <2>7. [out EXCEPT ![j].active = TRUE] = [out EXCEPT ![j] = [out[j] EXCEPT !.active = TRUE]]
    OBVIOUS
  <2> QED
    BY <1>1, <2>3, <2>4, <2>6, <2>7, ExceptSeq
<1> QED
  BY <1>2, <1>3

-----------------------------------------------------------------------------
LEMMA Bounds == MaxAssets \in Nat
  BY SiteAssumption DEF Gallery!BoundsAssumption

\* Nothing else of an asset is read than its winning claim.
LEMMA SameWinnerSameRow ==
    ASSUME NEW cs, NEW new, NEW as, NEW now, NEW b \in as, b \in now,
           SameClaim(cs, new, b)
    PROVE  \A c : /\ b \in Gallery!InCategory(new, now, c) <=> b \in Gallery!InCategory(cs, as, c)
                  /\ b \in Gallery!Primaries(new, now, c) <=> b \in Gallery!Primaries(cs, as, c)
  BY DEF Gallery!Rows, Gallery!InCategory, Gallery!Primaries, Gallery!CategoryOf, Gallery!IsPrimary,
     SameClaim

LEMMA RequestFacts ==
    ASSUME GalleryInv, NEW w \in Workers
    PROVE  /\ editing[w].op \in {"idle", "primary", "category", "detach", "promote"}
           /\ editing[w].op = "idle" <=> editing[w] = Gallery!Idle
           /\ editing[w].op # "idle" => /\ editing[w].user \in Users /\ editing[w].cat \in Categories
                                        /\ editing[w].asset \in Gallery!Ids
           /\ editing[w].op \in {"primary", "category", "detach"} => editing[w] \in Loaded
           /\ editing[w].op = "promote" => /\ editing[w] \in Promoting
                                           /\ editing[w].priors \in SUBSET Gallery!Ids
                                           /\ IsFiniteSet(editing[w].priors)
                                           /\ editing[w].asset \notin editing[w].priors
<1>1. editing[w] \in {Gallery!Idle} \cup Loaded \cup Promoting
  BY DEF GalleryInv
<1>2. Gallery!Idle.op = "idle"
  BY DEF Gallery!Idle
<1>3. IsFiniteSet(Gallery!Ids)
  BY Bounds, FS_Interval DEF Gallery!Ids
<1>4. \A S \in SUBSET Gallery!Ids : IsFiniteSet(S)
  BY <1>3, FS_Subset
<1> QED
  BY <1>1, <1>2, <1>4 DEF Loaded, Promoting, GalleryInv

LEMMA GalleryStart == Gallery!Init => GalleryInv
<1> SUFFICES ASSUME Gallery!Init PROVE GalleryInv
  OBVIOUS
<1>1. claims \in Seq(Gallery!Claim)
  BY DEF Gallery!Init
<1>2. Gallery!Idle.op = "idle" /\ \A w \in Workers : editing[w] = Gallery!Idle
  BY DEF Gallery!Init, Gallery!Idle
<1>3. editing \in [Workers -> {Gallery!Idle} \cup Loaded \cup Promoting]
  BY DEF Gallery!Init
<1> QED
  BY <1>1, <1>2, <1>3, Bounds DEF Gallery!Init, GalleryInv

\* What a commit leaves to show: nothing of what is loaded is taken for fresh.
LEMMA CommitKeeps ==
    ASSUME GalleryInv, NEW w \in Workers, claims' \in Seq(Gallery!Claim),
           images' \subseteq images, uploaded' = uploaded,
           editing' = [editing EXCEPT ![w] = Gallery!Idle] \/ editing' = editing, fresh' = {}
    PROVE  GalleryInv'
<1>1. \A v \in Workers : editing'[v] \in {Gallery!Idle, editing[v]}
  BY DEF GalleryInv
<1>2. editing' \in [Workers -> {Gallery!Idle} \cup Loaded \cup Promoting]
  BY DEF GalleryInv
<1>3. Gallery!Idle.op = "idle"
  BY DEF Gallery!Idle
<1>4. \A v \in Workers : editing'[v].op = "promote" => editing'[v].asset \notin editing'[v].priors
  BY <1>1, <1>3 DEF GalleryInv
<1> QED
  BY <1>2, <1>4 DEF GalleryInv

LEMMA GalleryStep == GalleryInv /\ Gallery!Next => GalleryInv'
<1> SUFFICES ASSUME GalleryInv, Gallery!Next PROVE GalleryInv'
  OBVIOUS
<1>1. /\ claims \in Seq(Gallery!Claim) /\ uploaded \in 0 .. MaxAssets /\ images \subseteq 1 .. uploaded
      /\ MaxAssets \in Nat
  BY Bounds DEF GalleryInv
<1>2. ASSUME NEW u \in Users, NEW c \in Categories, Gallery!Upload(u, c) PROVE GalleryInv'
  <2>1. /\ uploaded' = uploaded + 1 /\ uploaded + 1 \in Gallery!Ids /\ fresh' = {} /\ editing' = editing
        /\ images' = images \cup {uploaded + 1}
        /\ claims' = Gallery!Assert(claims, u, uploaded + 1, c, FALSE, TRUE)
    BY <1>1, <1>2 DEF Gallery!Upload, Gallery!Ids
  <2>2. claims' \in Seq(Gallery!Claim)
    BY <1>1, <2>1, AssertFacts
  <2>3. uploaded' \in 0 .. MaxAssets /\ images' \subseteq 1 .. uploaded'
    BY <1>1, <2>1 DEF Gallery!Ids
  <2> QED
    BY <2>1, <2>2, <2>3 DEF GalleryInv
<1>3. ASSUME NEW w \in Workers, NEW u \in Users, NEW a \in Gallery!Ids, NEW c \in Categories,
             NEW op \in {"primary", "category", "detach"}, Gallery!Load(w, u, op, a, c)
      PROVE  GalleryInv'
  <2> DEFINE x == [op |-> op, user |-> u, asset |-> a, cat |-> c]
  <2>1. /\ editing' = [editing EXCEPT ![w] = x] /\ fresh' = fresh \cup {w}
        /\ UNCHANGED <<claims, images, uploaded>> /\ a \in Gallery!Rows(claims, images)
        /\ op # "category" => c = Gallery!CategoryOf(claims, a)
    BY <1>3 DEF Gallery!Load
  <2>2. x \in Loaded /\ x.op = op /\ x.asset = a /\ x.cat = c
    BY DEF Loaded
  <2> HIDE DEF x
  <2>3. /\ editing' \in [Workers -> {Gallery!Idle} \cup Loaded \cup Promoting]
        /\ \A v \in Workers : editing'[v] = IF v = w THEN x ELSE editing[v]
    BY <2>1, <2>2 DEF GalleryInv
  <2>4. StillSo(claims, images, x)
    BY <2>1, <2>2 DEF StillSo
  <2> QED
    BY <1>1, <2>1, <2>2, <2>3, <2>4 DEF GalleryInv
<1>4. ASSUME NEW w \in Workers, Gallery!ReadPriors(w) PROVE GalleryInv'
  <2> DEFINE d == editing[w]
             x == [op |-> "promote", user |-> d.user, asset |-> d.asset, cat |-> d.cat,
                   priors |-> Gallery!PriorPrimaries(w)]
  <2>1. /\ editing[w].op = "primary" /\ editing' = [editing EXCEPT ![w] = x]
        /\ UNCHANGED <<claims, images, uploaded, fresh>>
    BY <1>4 DEF Gallery!ReadPriors, GalleryInv
  <2>2. Gallery!PriorPrimaries(w) \subseteq images /\ images \subseteq Gallery!Ids
    BY <1>1 DEF Gallery!PriorPrimaries, Gallery!Primaries, Gallery!InCategory, Gallery!Rows, Gallery!Ids
  <2>3. /\ x \in Promoting /\ x.op = "promote" /\ x.asset = d.asset /\ x.cat = d.cat
        /\ x.priors = Gallery!Primaries(claims, images, d.cat) \ {d.asset}
    BY <2>1, <2>2, RequestFacts DEF Promoting, Gallery!PriorPrimaries
  <2>4. w \in fresh => StillSo(claims, images, x)
    BY <2>1, <2>3 DEF GalleryInv, StillSo
  <2> HIDE DEF x
  <2>5. /\ editing' \in [Workers -> {Gallery!Idle} \cup Loaded \cup Promoting]
        /\ \A v \in Workers : editing'[v] = IF v = w THEN x ELSE editing[v]
    BY <2>1, <2>3 DEF GalleryInv
  <2>6. \A v \in Workers : editing'[v].op = "promote" => editing'[v].asset \notin editing'[v].priors
    BY <2>3, <2>5 DEF GalleryInv
  <2> QED
    BY <2>1, <2>4, <2>5, <2>6 DEF GalleryInv
<1>5. ASSUME NEW w \in Workers, Gallery!CommitPrimary(w) PROVE GalleryInv'
  <2>1. claims' \in Seq(Gallery!Claim)
    BY <1>1, <1>5, RequestFacts, PromoteFacts DEF Gallery!CommitPrimary
  <2> QED
    BY <1>5, <2>1, CommitKeeps DEF Gallery!CommitPrimary
<1>6. ASSUME NEW w \in Workers, Gallery!CommitCategory(w) PROVE GalleryInv'
  <2>1. claims' \in Seq(Gallery!Claim)
    BY <1>1, <1>6, RequestFacts, AssertFacts DEF Gallery!CommitCategory
  <2> QED
    BY <1>6, <2>1, CommitKeeps DEF Gallery!CommitCategory
<1>7. ASSUME NEW w \in Workers, Gallery!CommitDetach(w) PROVE GalleryInv'
  <2>1. claims' \in Seq(Gallery!Claim)
    BY <1>1, <1>7, RequestFacts, AssertFacts DEF Gallery!CommitDetach
  <2> QED
    BY <1>7, <2>1, CommitKeeps DEF Gallery!CommitDetach
<1>8. ASSUME NEW i \in 1 .. MaxClaims, Gallery!Revert(i) PROVE GalleryInv'
  <2>1. i \in DOMAIN claims /\ claims' = Gallery!Reverted(claims, i) /\ fresh' = {}
        /\ UNCHANGED <<images, uploaded, editing>>
    BY <1>8 DEF Gallery!Revert
  <2>2. claims' \in Seq(Gallery!Claim)
    BY <1>1, <2>1, RevertedIsWhole
  <2> QED
    BY <2>1, <2>2 DEF GalleryInv
<1> QED
  BY <1>2, <1>3, <1>4, <1>5, <1>6, <1>7, <1>8 DEF Gallery!Next

LEMMA RowsAreAssets ==
    \A cs, as, c : /\ Gallery!InCategory(cs, as, c) \subseteq as
                   /\ Gallery!Primaries(cs, as, c) \subseteq Gallery!InCategory(cs, as, c)
  BY DEF Gallery!Primaries, Gallery!InCategory, Gallery!Rows

\* The asset a fresh promotion is of is then the only one to claim to be primary.
LEMMA PromotedShows ==
    ASSUME GalleryInv, NEW w \in fresh, Gallery!CommitPrimary(w)
    PROVE  Gallery!Displayed(claims', images', editing[w].cat) = editing[w].asset
<1> DEFINE a == editing[w].asset
           c == editing[w].cat
           priors == editing[w].priors
<1>1. /\ w \in Workers /\ editing[w].op = "promote" /\ images' = images
      /\ claims' = Gallery!Promote(claims, editing[w].user, a, c, priors)
  BY DEF Gallery!CommitPrimary, GalleryInv
<1>2. /\ editing[w].user \in Users /\ c \in Categories /\ a \in Gallery!Ids
      /\ priors \in SUBSET Gallery!Ids /\ IsFiniteSet(priors) /\ a \notin priors
  BY <1>1, RequestFacts
<1>3. /\ a \in images /\ priors = Gallery!Primaries(claims, images, c) \ {a}
      /\ claims \in Seq(Gallery!Claim)
  BY <1>1 DEF GalleryInv, StillSo, Gallery!Rows
<1>4. /\ Wins(claims', a, Gallery!New(editing[w].user, a, c, TRUE, TRUE))
      /\ \A b \in priors : Demoted(claims', b)
      /\ OthersKeep(claims, claims', priors \cup {a})
  <2> DEFINE u == editing[w].user
  <2> HIDE DEF a, c, priors, u
  <2>1. /\ u \in Users /\ claims' = Gallery!Promote(claims, u, a, c, priors)
        /\ claims \in Seq(Gallery!Claim)
    BY <1>1, <1>2, <1>3 DEF u
  <2>2. /\ Wins(claims', a, Gallery!New(u, a, c, TRUE, TRUE))
        /\ \A b \in priors : Demoted(claims', b)
        /\ OthersKeep(claims, claims', priors \cup {a})
    BY <1>2, <2>1, PromoteFacts
  <2> QED
    BY <2>2 DEF u
<1> HIDE DEF a, c, priors
<1>5. a \in Gallery!Primaries(claims', images', c)
  BY <1>1, <1>3, <1>4 DEF Gallery!New, Gallery!Primaries, Gallery!InCategory, Gallery!Rows,
     Gallery!CategoryOf, Gallery!IsPrimary, Wins
<1>6. ASSUME NEW b \in Gallery!Primaries(claims', images', c), b # a PROVE FALSE
  <2>1. b \in images /\ Gallery!IsPrimary(claims', b)
    BY <1>1, RowsAreAssets DEF Gallery!Primaries
  <2>2. b \notin priors \cup {a}
    BY <1>4, <1>6, <2>1 DEF Demoted
  <2>3. SameClaim(claims, claims', b)
    BY <1>4, <2>2 DEF OthersKeep
  <2>4. b \in images'
    BY <1>1, <2>1
  <2>5. b \in Gallery!Primaries(claims, images, c)
    BY <1>6, <2>1, <2>3, <2>4, SameWinnerSameRow
  <2> QED
    BY <1>3, <2>2, <2>5
<1>7. Gallery!Primaries(claims', images', c) = {a}
  BY <1>5, <1>6
<1>8. a \in Nat
  BY <1>2, Bounds DEF Gallery!Ids
<1>9. Gallery!Min({a}) = a
  BY <1>8, MinIs
<1> QED
  BY <1>7, <1>9 DEF Gallery!Displayed, a, c

\* The asset of an upload is the last of its category, and not primary.
LEMMA UploadedComesLast ==
    ASSUME GalleryInv, NEW u \in Users, NEW k \in Categories, Gallery!Upload(u, k),
           NEW c \in Categories, Gallery!Displayed(claims, images, c) # 0
    PROVE  Gallery!Displayed(claims', images', c) = Gallery!Displayed(claims, images, c)
<1> DEFINE a == uploaded + 1
           P == Gallery!Primaries(claims, images, c)
           Q == Gallery!Primaries(claims', images', c)
           S == Gallery!InCategory(claims, images, c)
           T == Gallery!InCategory(claims', images', c)
<1>1. /\ claims \in Seq(Gallery!Claim) /\ images \subseteq 1 .. uploaded /\ uploaded \in Nat
      /\ MaxAssets \in Nat
  BY Bounds DEF GalleryInv
<1>2. /\ a \in Gallery!Ids /\ images' = images \cup {a}
      /\ claims' = Gallery!Assert(claims, u, a, k, FALSE, TRUE)
  BY <1>1 DEF Gallery!Upload, Gallery!Ids
<1>3. a \in Nat /\ a \notin images /\ \A b \in images : b \in Nat /\ b < a
  BY <1>1
<1> HIDE DEF a
<1>4. Wins(claims', a, Gallery!New(u, a, k, FALSE, TRUE)) /\ OthersKeep(claims, claims', {a})
  <2> DEFINE p == FALSE
             e == TRUE
  <2>1. p \in BOOLEAN /\ e \in BOOLEAN /\ claims' = Gallery!Assert(claims, u, a, k, p, e)
    BY <1>2
  <2> HIDE DEF p, e
  <2>2. Wins(claims', a, Gallery!New(u, a, k, p, e)) /\ OthersKeep(claims, claims', {a})
    BY <1>1, <1>2, <2>1, AssertFacts
  <2> QED
    BY <2>2 DEF p, e
<1>5. a \notin Q
  BY <1>4 DEF Gallery!Primaries, Gallery!IsPrimary, Gallery!New, Wins
<1>6. \A b \in images : (b \in T <=> b \in S) /\ (b \in Q <=> b \in P)
  <2> SUFFICES ASSUME NEW b \in images PROVE (b \in T <=> b \in S) /\ (b \in Q <=> b \in P)
    OBVIOUS
  <2>1. SameClaim(claims, claims', b)
    BY <1>3, <1>4 DEF OthersKeep
  <2>2. b \in images'
    BY <1>2
  <2> QED
    BY <2>1, <2>2, SameWinnerSameRow
<1>7. S \subseteq images /\ P \subseteq images /\ T \subseteq images \cup {a} /\ Q \subseteq images \cup {a}
  BY <1>2, RowsAreAssets
<1>8. Q = P /\ (T = S \/ T = S \cup {a})
  BY <1>5, <1>6, <1>7
<1>9. S \in SUBSET Nat /\ T \in SUBSET Nat /\ \A b \in S : b < a
  BY <1>3, <1>7
<1> HIDE DEF P, Q, S, T
<1>10. S # {} => Gallery!Min(T) = Gallery!Min(S)
  <2> SUFFICES ASSUME S # {} PROVE Gallery!Min(T) = Gallery!Min(S)
    OBVIOUS
  <2>1. Gallery!Min(S) \in S /\ \A b \in S : Gallery!Min(S) <= b
    BY <1>9, MinFacts
  <2> DEFINE n == Gallery!Min(S)
  <2>a. n \in S /\ n \in Nat /\ n < a
    BY <1>9, <2>1
  <2> HIDE DEF n
  <2>b. n \in T /\ n <= a
    BY <1>3, <1>8, <2>a
  <2>2. Gallery!Min(S) \in T /\ Gallery!Min(S) <= a
    BY <2>b DEF n
  <2>3. \A b \in T : Gallery!Min(S) <= b
    BY <1>8, <2>1, <2>2
  <2> QED
    BY <1>9, <2>2, <2>3, MinIs
<1>11. P # {} \/ S # {}
  BY DEF Gallery!Displayed, P, S
<1>12. S # {} => T # {}
  BY <1>8
<1> QED
  BY <1>8, <1>10, <1>11, <1>12 DEF Gallery!Displayed, P, Q, S, T

-----------------------------------------------------------------------------
\* Making an image primary shows it when nothing committed past the request,
\* whatever raced before (set_primary's demotions); a detached image is in no
\* category again; an upload takes no category's first place.
THEOREM GalleriesFollowEdits ==
    Gallery!Spec => Gallery!LastSetWins /\ Gallery!DetachedStaysGone /\ Gallery!UploadsNeverTakeOver
<1> DEFINE Shows == \A w \in fresh :
                      (editing[w].op = "promote" /\ editing'[w] = Gallery!Idle)
                      => Gallery!Displayed(claims', images', editing[w].cat) = editing[w].asset
           Gone == \A a \in 1 .. uploaded : a \notin images =>
                      \A c \in Categories : a \notin Gallery!InCategory(claims', images', c)
           Kept == uploaded' > uploaded =>
                      \A c \in Categories : Gallery!Displayed(claims, images, c) # 0 =>
                          Gallery!Displayed(claims', images', c) = Gallery!Displayed(claims, images, c)
<1>1. Gallery!Init => GalleryInv
  BY GalleryStart
<1>2. GalleryInv /\ [Gallery!Next]_galleryVars => GalleryInv'
  <2>1. GalleryInv /\ UNCHANGED galleryVars => GalleryInv'
    BY DEF GalleryInv, galleryVars
  <2> QED
    BY <2>1, GalleryStep
<1>3. GalleryInv /\ Gallery!Next => Shows
  <2> SUFFICES ASSUME GalleryInv, Gallery!Next, NEW w \in fresh,
                      editing[w].op = "promote", editing'[w] = Gallery!Idle
               PROVE  Gallery!Displayed(claims', images', editing[w].cat) = editing[w].asset
    OBVIOUS
  <2>1. /\ w \in Workers /\ editing'[w] # editing[w] /\ DOMAIN editing = Workers
        /\ Gallery!Idle.op = "idle"
    BY DEF GalleryInv, Gallery!Idle
  <2>2. ASSUME NEW v \in Workers, NEW x, editing' = [editing EXCEPT ![v] = x] PROVE v = w
    BY <2>1, <2>2
  <2>3. ASSUME NEW v \in Workers, Gallery!CommitPrimary(v)
        PROVE  Gallery!Displayed(claims', images', editing[w].cat) = editing[w].asset
    BY <2>2, <2>3, PromotedShows DEF Gallery!CommitPrimary
  <2>4. ASSUME NEW v \in Workers, NEW u \in Users, NEW a \in Gallery!Ids, NEW c \in Categories,
               NEW op \in {"primary", "category", "detach"}, Gallery!Load(v, u, op, a, c)
        PROVE  FALSE
    <3>1. editing[v] = Gallery!Idle /\ v = w
      BY <2>2, <2>4 DEF Gallery!Load
    <3> QED
      BY <2>1, <3>1
  <2>5. ASSUME NEW v \in Workers,
               Gallery!ReadPriors(v) \/ Gallery!CommitCategory(v) \/ Gallery!CommitDetach(v)
        PROVE  FALSE
    <3>1. editing[v].op \in {"primary", "category", "detach"}
      BY <2>5 DEF Gallery!ReadPriors, Gallery!CommitCategory, Gallery!CommitDetach
    <3>2. v = w
      BY <2>2, <2>5 DEF Gallery!ReadPriors, Gallery!CommitCategory, Gallery!CommitDetach
    <3> QED
      BY <3>1, <3>2
  <2>6. ASSUME NEW u \in Users, NEW c \in Categories, Gallery!Upload(u, c) PROVE FALSE
    BY <2>1, <2>6 DEF Gallery!Upload
  <2>7. ASSUME NEW i \in 1 .. MaxClaims, Gallery!Revert(i) PROVE FALSE
    BY <2>1, <2>7 DEF Gallery!Revert
  <2> QED
    BY <2>3, <2>4, <2>5, <2>6, <2>7 DEF Gallery!Next
<1>4. GalleryInv /\ Gallery!Next => Gone
  <2> SUFFICES ASSUME GalleryInv, Gallery!Next, NEW a \in 1 .. uploaded, a \notin images,
                      NEW c \in Categories
               PROVE  a \notin Gallery!InCategory(claims', images', c)
    OBVIOUS
  <2>1. images' \subseteq images \cup {uploaded + 1}
    BY DEF Gallery!Next, Gallery!Upload, Gallery!Load, Gallery!ReadPriors, Gallery!CommitPrimary,
       Gallery!CommitCategory, Gallery!CommitDetach, Gallery!Revert
  <2>2. a # uploaded + 1
    BY DEF GalleryInv
  <2> QED
    BY <2>1, <2>2, RowsAreAssets
<1>5. GalleryInv /\ Gallery!Next => Kept
  <2> SUFFICES ASSUME GalleryInv, Gallery!Next, uploaded' > uploaded, NEW c \in Categories,
                      Gallery!Displayed(claims, images, c) # 0
               PROVE  Gallery!Displayed(claims', images', c) = Gallery!Displayed(claims, images, c)
    OBVIOUS
  <2>1. uploaded' # uploaded
    BY DEF GalleryInv
  <2>2. PICK u \in Users, k \in Categories : Gallery!Upload(u, k)
    BY <2>1 DEF Gallery!Next, Gallery!Load, Gallery!ReadPriors, Gallery!CommitPrimary,
       Gallery!CommitCategory, Gallery!CommitDetach, Gallery!Revert
  <2> QED
    BY <2>2, UploadedComesLast
<1>6. GalleryInv /\ [Gallery!Next]_galleryVars => [Shows]_galleryVars /\ [Gone]_galleryVars /\ [Kept]_galleryVars
  BY <1>3, <1>4, <1>5
<1> HIDE DEF Shows, Gone, Kept
<1>7. Gallery!Spec => [][Shows]_galleryVars /\ [][Gone]_galleryVars /\ [][Kept]_galleryVars
  BY <1>1, <1>2, <1>6, PTL DEF Gallery!Spec, Gallery!vars, galleryVars
<1> QED
  BY <1>7 DEF Gallery!LastSetWins, Gallery!DetachedStaysGone, Gallery!UploadsNeverTakeOver,
     Gallery!vars, galleryVars, Shows, Gone, Kept

-----------------------------------------------------------------------------
\* Whatever the other components do, the kiosks' steps and the texts' are
\* behaviours of their own.
LEMMA ScenesShowKiosks == SceneSpec => Kiosks!NoneAssumption /\ Kiosks!Spec
<1>1. Kiosks!NoneAssumption
  BY SiteAssumption
<1>2. SceneInit => Kiosks!Init
  BY DEF SceneInit
<1>3. [SceneNext]_<<scene, vars, galleryVars, kioskVars, linkVars, domainVars>>
        => [Kiosks!Next]_kioskVars
  BY DEF SceneNext, kioskVars
<1> QED
  BY <1>1, <1>2, <1>3, PTL DEF SceneSpec, Kiosks!Spec, Kiosks!vars, kioskVars

LEMMA ScenesEditGalleries == SceneSpec => Gallery!Spec
<1>1. SceneInit => Gallery!Init
  BY DEF SceneInit
<1>2. [SceneNext]_<<scene, vars, galleryVars, kioskVars, linkVars, domainVars>>
        => [Gallery!Next]_galleryVars
  BY DEF SceneNext, galleryVars
<1> QED
  BY <1>1, <1>2, PTL DEF SceneSpec, Gallery!Spec, Gallery!vars, galleryVars

LEMMA ScenesEditTexts == SceneSpec => Links!LinkAssumption /\ Links!Spec
<1>1. Links!LinkAssumption
  BY SiteAssumption
<1>2. SceneInit => Links!Init
  BY DEF SceneInit
<1>3. [SceneNext]_<<scene, vars, galleryVars, kioskVars, linkVars, domainVars>>
        => [Links!Next]_linkVars
  BY DEF SceneNext, linkVars
<1> QED
  BY <1>1, <1>2, <1>3, PTL DEF SceneSpec, Links!Spec, Links!vars, linkVars

\* A kiosk shows one list that was sent, whatever patches overlap
\* (update_config).
THEOREM ListsStayWhole == SceneSpec => []OneList
<1>1. Kiosks!OneList => OneList
  BY DEF OneList
<1> QED
  BY <1>1, ScenesShowKiosks, KiosksShowOneList, PTL

\* The edges between texts are the stored texts', and a text that is opened and
\* saved unchanged keeps its links (sync_references, the converters).
THEOREM EdgesStayWithTexts == SceneSpec => []EdgesMatchText
<1>1. Links!EdgesMatchText /\ Links!UntouchedTextRoundTrips => EdgesMatchText
  BY DEF EdgesMatchText
<1> QED
  BY <1>1, ScenesEditTexts, EdgesFollowTexts, PTL

\* The image made primary last is shown, what was detached stays gone and an
\* upload displaces nothing (set_primary, detach_media, upload_media).
THEOREM GalleriesStayAsEdited == SceneSpec => GalleriesObeyTheLastEdit
  BY ScenesEditGalleries, GalleriesFollowEdits DEF GalleriesObeyTheLastEdit
=============================================================================
