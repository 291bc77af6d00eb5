----------------------------- MODULE EditStacks -----------------------------
(***************************************************************************)
(* What the claim log promises a contributor.  Every user has an undo      *)
(* stack of values for every field of every entity: an edit pushes, a      *)
(* revert pops the top and nothing else, and what is popped never returns. *)
(* A source has a register for every field: an ingest sets or empties it.  *)
(*                                                                         *)
(* The clock counts the writes, and a stack is the set of its values, each *)
(* with the write that pushed it: the top is the one pushed last.          *)
(* ClaimStore implements this specification.                               *)
(***************************************************************************)
EXTENDS Naturals

CONSTANTS Users, Sources, Subjects, Keys, Values

VARIABLES
    clock,    \* the writes so far
    stack,    \* [actor, subject, key] -> the values pushed, and when
    opinion   \* [actor, subject, key] -> the set of values the slot speaks for

stackVars == <<clock, stack, opinion>>

Slots == [actor : Users \cup Sources, subject : Subjects, key : Keys]

Top(S) == {e \in S : \A d \in S : d.at <= e.at}

Init ==
    /\ clock = 0
    /\ stack = [x \in Slots |-> {}]
    /\ opinion = [x \in Slots |-> {}]

\* Slot x is one of those a write by a on subject s names
Named(x, a, s, K) == x.actor = a /\ x.subject = s /\ x.key \in K

\* A create or an edit by user u pushes on each field it sets
Push(u, s, vals) ==
    stack' = [x \in Slots |->
                IF Named(x, u, s, DOMAIN vals)
                THEN stack[x] \cup {[at |-> clock', value |-> vals[x.key]]}
                ELSE stack[x]]

\* A revert pops one field of one user, whoever asked for it
Pop(x) ==
    /\ stack[x] # {}
    /\ stack' = [stack EXCEPT ![x] = @ \ Top(@)]

\* A register that holds v already keeps it
Loaded(S, v) == IF \E e \in S : e.value = v THEN S ELSE {[at |-> clock', value |-> v]}

\* An ingest by source w sets some registers of one subject and empties others
Load(w, s, vals, emptied) ==
    stack' = [x \in Slots |->
                CASE Named(x, w, s, DOMAIN vals) -> Loaded(stack[x], vals[x.key])
                  [] Named(x, w, s, emptied) -> {}
                  [] OTHER -> stack[x]]

Payloads == UNION {[K -> Values] : K \in SUBSET Keys}

\* In every step the opinion of a slot is the top of its stack
Next ==
  /\ clock' = clock + 1
  /\ \/ \E u \in Users, s \in Subjects, vals \in Payloads : Push(u, s, vals)
     \/ \E x \in Slots : x.actor \in Users /\ Pop(x)
     \/ \E w \in Sources, s \in Subjects, vals \in Payloads, emptied \in SUBSET Keys :
          DOMAIN vals \cap emptied = {} /\ Load(w, s, vals, emptied)
  /\ opinion' = [x \in Slots |-> {e.value : e \in Top(stack'[x])}]

Spec == Init /\ [][Next]_stackVars
=============================================================================
