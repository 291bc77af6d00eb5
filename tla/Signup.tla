------------------------------- MODULE Signup -------------------------------
(***************************************************************************)
(* Signing in and signing up.                                              *)
(*                                                                         *)
(* The identity provider calls back with an identity; a known one is       *)
(* logged in (a row an operator made for its email is linked to it first), *)
(* a new one is stashed in the browser's session until its owner has       *)
(* picked a handle.  Nothing is reserved meanwhile: the account is one     *)
(* INSERT, and who loses it to another tab or another person finds out by  *)
(* a query after it failed.                                                *)
(*                                                                         *)
(* A request loads its session when it first needs it and saves all of it  *)
(* with its response (SESSION_SAVE_EVERY_REQUEST); several tabs share one  *)
(* session.  Logging in changes the session's key, and a request that      *)
(* loaded the old key can no longer save.  A person may use several        *)
(* browsers, each in any number of tabs; an identity is also its email.    *)
(***************************************************************************)
EXTENDS Naturals, FiniteSets

CONSTANTS People, Handles, Workers, None,
          Browsers, Owner,    \* who uses each browser
          Operators    \* whether operators create rows by hand

OwnerAssumption == Owner \in [Browsers -> People]
NoneAssumption == None \notin People \cup Handles

VARIABLES
    users,      \* accounts: [wid, email, name, staff, active]
    sess,       \* of each browser: [pending, user], user being a handle
    work,       \* the requests being handled
    announced,  \* history: how often each identity's signup was announced
    cancelled   \* history: who cancelled and did not sign in again

vars == <<users, sess, work, announced, cancelled>>

Account == [wid : People \cup {None}, email : People, name : Handles,
            staff : BOOLEAN, active : BOOLEAN]
Session == [pending : {"none", "fresh", "expired"}, user : Handles \cup {None}]
NoSession == [pending |-> "none", user |-> None]
Idle == [op |-> "idle"]
Ops == {"check", "cancel", "submit", "lost", "won", "refused"}

TypeOK ==
    /\ users \subseteq Account
    /\ sess \in [Browsers -> Session]
    /\ work \in [Workers -> {Idle} \cup
                 [op : Ops, at : Browsers, name : Handles, snap : Session]]
    /\ announced \in [People -> Nat] /\ cancelled \subseteq Browsers
    /\ \A u, v \in users :
         u # v => u.name # v.name /\ u.email # v.email /\ (u.wid # v.wid \/ u.wid = None)

Init ==
    /\ users = {}
    /\ sess = [b \in Browsers |-> NoSession]
    /\ work = [w \in Workers |-> Idle]
    /\ announced = [p \in People |-> 0]
    /\ cancelled = {}

ByWid(p) == {u \in users : u.wid = p}
ByEmail(p) == {u \in users : u.email = p}

(* Linking binds a row nobody is bound to, or brings a disabled one back;  *)
(* a privileged row, or an unverified email, is refused.                   *)
Linkable(u, verified) ==
    verified /\ (u.active => u.wid = None /\ ~u.staff)

(* _try_match_existing, then login or put_pending; a refusal leaves the    *)
(* session as it was.                                                      *)
Callback(b, verified) ==
  LET p == Owner[b] IN
    /\ \/ /\ \E u \in ByWid(p) :
               sess' = IF u.active THEN [sess EXCEPT ![b].user = u.name] ELSE sess
          /\ UNCHANGED users
       \/ /\ ByWid(p) = {}
          /\ \E u \in ByEmail(p) :
               IF Linkable(u, verified)
               THEN /\ users' = (users \ {u}) \cup {[u EXCEPT !.wid = p, !.active = TRUE]}
                    /\ sess' = [sess EXCEPT ![b].user = u.name]
               ELSE UNCHANGED <<users, sess>>
       \/ /\ ByWid(p) = {} /\ ByEmail(p) = {}
          /\ sess' = [sess EXCEPT ![b].pending = "fresh"]
          /\ UNCHANGED users
    /\ cancelled' = cancelled \ {b}
    /\ UNCHANGED <<work, announced>>

(* PENDING_TTL passes.                                                     *)
Expire(b) ==
    /\ sess[b].pending = "fresh"
    /\ sess' = [sess EXCEPT ![b].pending = "expired"]
    /\ UNCHANGED <<users, work, announced, cancelled>>

(* An operator creates a row by hand, or disables an account.              *)
Operator ==
    /\ Operators
    /\ \/ \E p \in People, h \in Handles, staff \in BOOLEAN :
            /\ ByEmail(p) = {} /\ \A u \in users : u.name # h
            /\ users' = users \cup {[wid |-> None, email |-> p, name |-> h,
                                     staff |-> staff, active |-> TRUE]}
       \/ \E u \in users : users' = (users \ {u}) \cup {[u EXCEPT !.active = FALSE]}
    /\ UNCHANGED <<sess, work, announced, cancelled>>

(* get_pending: an expired payload is cleared as a side effect.            *)
Swept(s) == IF s.pending = "expired" THEN [s EXCEPT !.pending = "none"] ELSE s

(* A request of the onboarding page loads the session.  Without a pending  *)
(* payload a submit is refused, and saves like a check.                    *)
Load(w, b, op, h) ==
    /\ work[w] = Idle
    /\ work' = [work EXCEPT ![w] =
                  [op |-> IF op = "submit" /\ sess[b].pending # "fresh" THEN "check" ELSE op,
                   at |-> b, name |-> h, snap |-> Swept(sess[b])]]
    /\ UNCHANGED <<users, sess, announced, cancelled>>

(* Saving the session that was loaded: its key must still be there.        *)
Save(w, s) ==
    LET b == work[w].at
    IN sess' = IF sess[b].user = work[w].snap.user THEN [sess EXCEPT ![b] = s] ELSE sess

SaveCheck(w) ==
    /\ work[w].op \in {"check", "refused"}
    /\ Save(w, work[w].snap)
    /\ work' = [work EXCEPT ![w] = Idle]
    /\ UNCHANGED <<users, announced, cancelled>>

SaveCancel(w) ==
    /\ work[w].op = "cancel"
    /\ Save(w, [work[w].snap EXCEPT !.pending = "none"])
    /\ cancelled' = cancelled \cup {work[w].at}
    /\ work' = [work EXCEPT ![w] = Idle]
    /\ UNCHANGED <<users, announced>>

(* The unique indexes of the table: identity, email, handle.               *)
Conflicts(p, h) == {u \in users : u.wid = p \/ u.email = p \/ u.name = h}

(* The INSERT; the announcement runs on its commit.                        *)
Insert(w) ==
    LET p == Owner[work[w].at]  h == work[w].name IN
    /\ work[w].op = "submit"
    /\ IF Conflicts(p, h) = {}
       THEN /\ users' = users \cup {[wid |-> p, email |-> p, name |-> h,
                                     staff |-> FALSE, active |-> TRUE]}
            /\ announced' = [announced EXCEPT ![p] = @ + 1]
            /\ work' = [work EXCEPT ![w].op = "won"]
       ELSE /\ work' = [work EXCEPT ![w].op = "lost"]
            /\ UNCHANGED <<users, announced>>
    /\ UNCHANGED <<sess, cancelled>>

(* Mutant: the losing tab is told that the handle is taken.                *)
WinnersNone(w) == {}

(* Who won: the account of the same identity, from another tab.            *)
Winners(w) == ByWid(Owner[work[w].at])

Requery(w) ==
    /\ work[w].op = "lost"
    /\ \/ \E u \in Winners(w) : work' = [work EXCEPT ![w].op = "won", ![w].name = u.name]
       \/ Winners(w) = {} /\ work' = [work EXCEPT ![w].op = "refused"]
    /\ UNCHANGED <<users, sess, announced, cancelled>>

(* clear_pending and login: a session with a new key, whatever became of   *)
(* the one that was loaded.                                                *)
LogIn(w) ==
    /\ work[w].op = "won"
    /\ sess' = [sess EXCEPT ![work[w].at] =
                  [pending |-> "none", user |-> work[w].name]]
    /\ work' = [work EXCEPT ![w] = Idle]
    /\ UNCHANGED <<users, announced, cancelled>>

Handle(w) == SaveCheck(w) \/ SaveCancel(w) \/ Insert(w) \/ Requery(w) \/ LogIn(w)

Next ==
    \/ \E b \in Browsers : Expire(b) \/ \E verified \in BOOLEAN : Callback(b, verified)
    \/ Operator
    \/ \E w \in Workers :
         \/ Handle(w)
         \/ \E b \in Browsers, h \in Handles : \E op \in {"check", "cancel", "submit"} :
              Load(w, b, op, h)

(* A request that was received is handled to its end.                      *)
Spec == Init /\ [][Next]_vars /\ \A w \in Workers : WF_vars(Handle(w))

-----------------------------------------------------------------------------
(* Nobody is logged in as somebody else, whichever of the races for a      *)
(* handle or an identity they lost (signup_submit's re-query).             *)
RightAccount ==
    \A b \in Browsers : sess[b].user # None =>
        \E u \in users : u.name = sess[b].user /\ u.wid = Owner[b]

(* Each account made here was announced once, and nothing else was: a      *)
(* signup that loses its race announces nothing.                           *)
AnnouncedOnce ==
    \A p \in People : announced[p] <= Cardinality(ByWid(p))
                       /\ (~Operators => announced[p] = Cardinality(ByWid(p)))

(* The loser gets in: once an identity has its account, every submit       *)
(* of it still being handled ends with its browser logged in.              *)
SubmitsSettle ==
    \A w \in Workers, b \in Browsers :
        (work[w].op \in {"submit", "lost"} /\ work[w].at = b /\ ByWid(Owner[b]) # {})
        ~> sess[b].user # None

(* "Username collision against a different account": who is told that a    *)
(* handle is taken chose one that is.                                      *)
TakenMeansTaken ==
    \A w \in Workers : work[w].op = "refused" =>
        \E u \in users : u.name = work[w].name

(* Cancelling "clears pending state": who cancelled and did not come back  *)
(* from the provider has no signup pending.                                *)
CancelSticks == \A b \in cancelled : sess[b].pending = "none"
=============================================================================
