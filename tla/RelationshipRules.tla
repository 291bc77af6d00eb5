------------------------- MODULE RelationshipRules -------------------------
(***************************************************************************)
(* The rules that span several relationship rows, and the paths that keep  *)
(* them: the parent hierarchies of themes and gameplay features are to     *)
(* stay acyclic, and an export-market row without a country is to be its   *)
(* model's only one.  No constraint of the database states either.  The    *)
(* editors check them on the rows of the page load, the patches check the  *)
(* hierarchy on the rows at planning and the market rule within an entry;  *)
(* a revert from the edit history retracts one claim, restores its         *)
(* author's claim before it and checks nothing.                            *)
(*                                                                         *)
(* Rows are here what the winning claims say (reconcile, run alone).       *)
(***************************************************************************)
EXTENDS Integers, Sequences, FiniteSets

CONSTANTS Graphs,       \* the rows a rule may be about, and who writes them
          None

VARIABLES
    graph,  \* the one of Graphs this behaviour is about
    log,    \* the claims: <<[who, subject, member, present, active, retracted]>>
    form    \* per worker: None, or the edit planned and not yet saved

vars == <<graph, log, form>>

Nodes == graph.nodes                \* the records of a hierarchy, or {model}
Targets == graph.targets            \* the members: the same records, or Label and countries
Label == graph.label                \* the null-location slot
Hierarchy == graph.hierarchy        \* which of the two rules
Editors == graph.users
Source == graph.source
Workers == graph.workers
Reverts == graph.reverts            \* whether the history page's reverts are used
Interleaved == graph.interleaved    \* whether others write between a page load and its save
MaxClaims == graph.claims           \* bound on the claim log

GraphsAssumption ==
    \A g \in Graphs : /\ IsFiniteSet(g.nodes) /\ IsFiniteSet(g.targets)
                      /\ g.source \notin g.users
                      /\ g.hierarchy => g.targets = g.nodes

Edges == Nodes \X Targets
Claims == DOMAIN log
Slot(i) == <<log[i].subject, log[i].member>>

(* Users outrank the patch sources; within a rank the later claim wins.    *)
Rank(i) == IF log[i].who = Source THEN 0 ELSE 1
Beats(i, j) == Rank(i) > Rank(j) \/ (Rank(i) = Rank(j) /\ i > j)

Winning(e) ==
    {i \in Claims : /\ Slot(i) = e /\ log[i].active
                    /\ \A j \in Claims : Slot(j) = e /\ log[j].active => i = j \/ Beats(i, j)}

Rows == {e \in Edges : \E i \in Winning(e) : log[i].present}

(* The nodes an upward walk from one visits: what every set with it has    *)
(* that is closed under the edges.                                         *)
Above(rows, node) ==
    LET Closed(S) == \A e \in rows : e[1] \in S => e[2] \in S
        within == {node} \cup {e[2] : e \in rows}
    IN {m \in within : \A S \in SUBSET within : node \in S /\ Closed(S) => m \in S}

(* Is a node reachable from another along parent edges?  A node reaches    *)
(* itself.                                                                 *)
Reaches(rows, from, to) == to \in Above(rows, from)

(* A row without a country is its model's only row.                        *)
LoneLabel(want) ==
    \A s \in Nodes : <<s, Label>> \in want => \A m \in Targets : <<s, m>> \in want => m = Label

(* plan_parent_claims: the graph without the edited record's own edges.    *)
ParentsAllowed(s, members) ==
    LET others == {e \in Rows : e[1] # s} IN
    /\ s \notin members
    /\ \A m \in members : ~Reaches(others, m, s)

(* plan_export_market_claims.                                              *)
MarketsAllowed(s, members) == LoneLabel({s} \X members)

EditorAllows(s, members) ==
    IF Hierarchy THEN ParentsAllowed(s, members) ELSE MarketsAllowed(s, members)

(* Mutant: each added edge is judged against the standing graph alone.     *)
PatchAllowsAlone(adds) ==
    \A e \in adds : e[1] # e[2] /\ ~Reaches(Rows, e[2], e[1])

(* _validate_hierarchy_acyclic: the resolved edges and the patch's adds.   *)
PatchKeepsAcyclic(adds) ==
    /\ \A e \in adds : e[1] # e[2]
    /\ \A e \in adds : ~Reaches(Rows \cup adds, e[2], e[1])

(* The market rule is weighed within one entry.                            *)
PatchAllows(adds) == IF Hierarchy THEN PatchKeepsAcyclic(adds) ELSE LoneLabel(adds)

-----------------------------------------------------------------------------
(* A claim supersedes its author's active claim of the slot.               *)
Asserted(who, claims) ==
    LET order == CHOOSE f \in [1 .. Cardinality(claims) -> claims] :
                    \A c \in claims : \E i \in DOMAIN f : f[i] = c
        n == Len(log)
    IN [i \in 1 .. n + Cardinality(claims) |->
          IF i > n
          THEN [who |-> who, subject |-> order[i - n][1][1], member |-> order[i - n][1][2],
                present |-> order[i - n][2], active |-> TRUE, retracted |-> FALSE]
          ELSE IF log[i].who = who /\ (\E c \in claims : c[1] = Slot(i))
               THEN [log[i] EXCEPT !.active = FALSE]
               ELSE log[i]]

Room(k) == Len(log) + k <= MaxClaims

Undisturbed == Interleaved \/ \A w \in Workers : form[w] = None

Init == graph \in Graphs /\ log = <<>> /\ form = [w \in Workers |-> None]

(* An editor's page load, check and plan: the list against the rows.       *)
Plan(w) ==
    /\ form[w] = None /\ Undisturbed
    /\ \E u \in Editors, s \in Nodes, members \in SUBSET Targets :
          LET current == {m \in Targets : <<s, m>> \in Rows}
              claims == {<<<<s, m>>, TRUE>> : m \in members \ current} \cup
                        {<<<<s, m>>, FALSE>> : m \in current \ members}
          IN
          /\ claims # {}
          /\ EditorAllows(s, members)
          /\ form' = [form EXCEPT ![w] = [who |-> u, claims |-> claims]]
    /\ UNCHANGED <<graph, log>>

Save(w) ==
    /\ form[w] # None
    /\ Room(Cardinality(form[w].claims))
    /\ log' = Asserted(form[w].who, form[w].claims)
    /\ form' = [form EXCEPT ![w] = None]
    /\ UNCHANGED graph

(* The authoring guide: a patch that changes a market's kind removes the   *)
(* rows of the other kind first; across entries nothing checks it.         *)
FollowsTheGuide(adds) ==
    Hierarchy \/ \A e \in Rows, d \in adds : e[1] = d[1] => (e[2] = Label <=> d[2] = Label)

(* A patch plans and applies in one transaction.                           *)
Patch ==
    /\ Undisturbed
    /\ \E adds \in SUBSET Edges :
          /\ adds # {} /\ Room(Cardinality(adds))
          /\ PatchAllows(adds)
          /\ FollowsTheGuide(adds)
          /\ log' = Asserted(Source, {<<e, TRUE>> : e \in adds})
    /\ UNCHANGED <<graph, form>>

(* The author's superseded claims of the slot: the latest comes back.      *)
Predecessors(i) ==
    {j \in Claims : /\ log[j].who = log[i].who /\ Slot(j) = Slot(i)
                    /\ ~log[j].active /\ ~log[j].retracted /\ j # i}

Revert ==
    /\ Reverts /\ Undisturbed
    /\ \E i \in Claims :
          /\ log[i].active /\ log[i].who # Source
          /\ log' = [j \in Claims |->
                IF j = i THEN [log[i] EXCEPT !.active = FALSE, !.retracted = TRUE]
                ELSE IF j \in Predecessors(i) /\ (\A k \in Predecessors(i) : k <= j)
                     THEN [log[j] EXCEPT !.active = TRUE]
                     ELSE log[j]]
    /\ UNCHANGED <<graph, form>>

Next == Patch \/ Revert \/ \E w \in Workers : Plan(w) \/ Save(w)

Spec == Init /\ [][Next]_vars

-----------------------------------------------------------------------------
TypeOK ==
    /\ \A i \in Claims : /\ log[i].who \in Editors \cup {Source}
                          /\ Slot(i) \in Edges
                          /\ log[i].active => ~log[i].retracted
    /\ \A i, j \in Claims :
          log[i].active /\ log[j].active /\ log[i].who = log[j].who /\ Slot(i) = Slot(j) => i = j

Acyclic == \A e \in Rows : ~Reaches(Rows, e[2], e[1])
Unmixed == \A e, d \in Rows : e[1] = d[1] /\ e[2] = Label => d[2] = Label
Rule == IF Hierarchy THEN Acyclic ELSE Unmixed
RevertStep == \E i \in Claims : ~log[i].retracted /\ log'[i].retracted

(* No save and no patch breaks a rule that held, whatever claims lie       *)
(* outranked beneath the winners, or were brought back by reverts.  Two    *)
(* saves that were checked on one page load may.                           *)
WritesKeepTheRules == [][Rule /\ ~RevertStep /\ ~Interleaved => Rule']_vars

(* "Parent hierarchies stay acyclic."                                      *)
ParentsStayAcyclic == Hierarchy => Acyclic

(* "A null-location row must be the model's only row."                     *)
MarketsKeepTheirShape == ~Hierarchy => Unmixed
=============================================================================
