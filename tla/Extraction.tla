----------------------------- MODULE Extraction -----------------------------
(***************************************************************************)
(* Looking a pasted citation up (POST /api/citation-sources/extract/:      *)
(* backend/apps/citation/url_extraction.py, extraction.py, safe_fetch.py). *)
(* A URL is classified first: the copy a store delivers leads to the book, *)
(* a page that has a source is that source, and any other page is fetched  *)
(* hop by hop within a budget of time and read for a draft.  Drafts are    *)
(* cached; the sources grow meanwhile, by the same users.                  *)
(*                                                                         *)
(* The network is the environment: every request of a hop may be answered, *)
(* redirected, refused, slow or garbled.  Time is counted in half seconds  *)
(* of the request that spends it; a socket's timeout bounds one operation. *)
(***************************************************************************)
EXTENDS Integers, FiniteSets

CONSTANTS
    Urls, Isbns, Requests,
    Deliverer,       \* the URLs of a store or a streaming platform
    Embedded,        \* [Deliverer -> the ISBN in the URL, or None]
    Bookish,         \* the deliverer URLs whose kind may be a book
    Timeout,         \* _FETCH_TIMEOUT
    MaxRedirects,    \* _MAX_REDIRECTS
    MaxReads,        \* a body arrives in at most this many pieces
    MaxStarts,       \* how many lookups a browser makes
    None

\* An ISBN is no URL, only a deliverer's URL holds one, and a body arrives in
\* one piece at least.
LookupAssumption ==
    /\ Urls \cap Isbns = {} /\ None \notin Urls \cup Isbns
    /\ Deliverer \subseteq Urls /\ Embedded \in [Deliverer -> Isbns \cup {None}]
    /\ Timeout \in Nat /\ MaxRedirects \in Nat /\ MaxReads \in Nat \ {0} /\ MaxStarts \in Nat

VARIABLES
    cited,     \* the URLs an existing child source covers
    books,     \* the ISBNs an existing source has
    drafts,    \* the cache of page drafts: [Urls -> result or None]
    editions,  \* the cache of ISBN lookups: [Isbns -> result or None]
    req        \* [Requests -> record]

vars == <<cited, books, drafts, editions, req>>

Idle == [pc |-> "idle", url |-> None, isbn |-> None, hops |-> 0,
         spent |-> 0, left |-> 0, reads |-> 0, known |-> None,
         answer |-> <<"none">>, starts |-> 0]

Max2(a, b) == IF a > b THEN a ELSE b

-----------------------------------------------------------------------------
(* The verdicts.                                                           *)

Answered(r, a)  == req' = [req EXCEPT ![r].pc = "done", ![r].answer = a,
                                      ![r].hops = 0, ![r].left = 0, ![r].reads = 0, ![r].spent = 0]
Goes(r, pc)     == req' = [req EXCEPT ![r].pc = pc]

Draft(u)   == <<"draft", u>>
Edition(i) == <<"draft", i>>
Match(x)   == <<"match", x>>
Notice     == <<"notice">>
Failure(e) == <<"error", e>>
Crash      == <<"crash">>

\* What a lookup that failed comes to: a deliverer's degrades to the notice.
Failed(r, e) == IF req[r].url \in Deliverer THEN Notice ELSE Failure(e)

-----------------------------------------------------------------------------
(* The request.                                                            *)

Start(r, pc, u, i) ==
    LET source == IF u \in Urls \ Deliverer THEN u ELSE IF u = None THEN i ELSE Embedded[u]
    IN  /\ req[r].pc \in {"idle", "done"} /\ req[r].starts < MaxStarts
        /\ req' = [req EXCEPT ![r] =
                      [Idle EXCEPT !.pc = pc, !.url = u, !.isbn = i,
                                   !.starts = req[r].starts + 1,
                                   !.known = IF source \in cited \cup books THEN source ELSE None]]
        /\ UNCHANGED <<cited, books, drafts, editions>>

\* classify_input: an ISBN, whole or in a text, is looked up as it is.
StartUrl(r, u)  == Start(r, "classify", u, None)
StartIsbn(r, i) == Start(r, "isbn", None, i)

\* Mutant: the cache is asked before the sources.
CacheFirst(r) ==
    LET u == req[r].url
    IN  /\ req[r].pc = "classify"
        /\ IF u \in Deliverer
           THEN IF Embedded[u] # None
                THEN req' = [req EXCEPT ![r].pc = "isbn", ![r].isbn = Embedded[u]]
                ELSE IF u \in Bookish THEN Goes(r, "resolve") ELSE Answered(r, Notice)
           ELSE IF drafts[u] # None THEN Answered(r, drafts[u])
           ELSE IF u \in cited THEN Answered(r, Match(u)) ELSE Goes(r, "cache")
        /\ UNCHANGED <<cited, books, drafts, editions>>

\* A deliverer first, then the source that covers the URL, then the cache.
Classify(r) ==
    LET u == req[r].url
    IN  /\ req[r].pc = "classify"
        /\ IF u \in Deliverer
           THEN IF Embedded[u] # None
                THEN req' = [req EXCEPT ![r].pc = "isbn", ![r].isbn = Embedded[u]]
                ELSE IF u \in Bookish THEN Goes(r, "resolve") ELSE Answered(r, Notice)
           ELSE IF u \in cited THEN Answered(r, Match(u)) ELSE Goes(r, "cache")
        /\ UNCHANGED <<cited, books, drafts, editions>>

LookInCache(r) ==
    LET u == req[r].url
    IN  /\ req[r].pc = "cache"
        /\ IF drafts[u] # None THEN Answered(r, drafts[u]) ELSE Goes(r, "resolve")
        /\ UNCHANGED <<cited, books, drafts, editions>>

-----------------------------------------------------------------------------
(* One hop: the address is resolved, the time that is left is reckoned,    *)
(* and then each socket operation may take that long again.                *)

\* Name resolution takes what it takes.
Resolve(r, took) ==
    /\ req[r].pc = "resolve"
    /\ req' = [req EXCEPT ![r].spent = @ + took, ![r].pc = "budget"]
    /\ UNCHANGED <<cited, books, drafts, editions>>

NoAddress(r, e) ==
    /\ req[r].pc = "resolve" /\ e \in {"blocked", "timeout"}
    /\ Answered(r, Failed(r, e))
    /\ UNCHANGED <<cited, books, drafts, editions>>

HopTimeout(r) == Max2(Timeout - req[r].spent, 1)

Budget(r) ==
    /\ req[r].pc = "budget"
    /\ IF req[r].spent >= Timeout
       THEN Answered(r, Failed(r, "timeout"))
       ELSE req' = [req EXCEPT ![r].pc = "body", ![r].hops = @ + 1, ![r].reads = 0,
                               ![r].left = HopTimeout(r)]
    /\ UNCHANGED <<cited, books, drafts, editions>>

\* A connection, a handshake, a piece of the body: each within the timeout
\* that the hop set out with.
Operation(r, took) ==
    /\ req[r].pc = "body" /\ req[r].reads < MaxReads
    /\ took <= req[r].left
    /\ req' = [req EXCEPT ![r].spent = @ + took, ![r].reads = @ + 1]
    /\ UNCHANGED <<cited, books, drafts, editions>>

\* Mutant: every redirect is followed.
FollowAll(r) == /\ req[r].pc = "body"
                /\ req' = [req EXCEPT ![r].pc = "resolve", ![r].hops = 0]
                /\ UNCHANGED <<cited, books, drafts, editions>>

\* Out of redirects, the last response counts: no page.
Redirect(r) ==
    /\ req[r].pc = "body"
    /\ IF req[r].hops = MaxRedirects + 1
       THEN Answered(r, Failed(r, "api_error"))
       ELSE Goes(r, "resolve")
    /\ UNCHANGED <<cited, books, drafts, editions>>

\* 404, another status, a timeout or a connection that breaks.
NoPage(r, e) ==
    /\ req[r].pc = "body" /\ e \in {"not_found", "api_error", "timeout"}
    /\ Answered(r, Failed(r, e))
    /\ UNCHANGED <<cited, books, drafts, editions>>

\* http.client's own exceptions (a bad status line, a body cut short) are no
\* OSError, and no clause names them.
Garbled(r) ==
    /\ req[r].pc = "body"
    /\ Answered(r, Crash)
    /\ UNCHANGED <<cited, books, drafts, editions>>

\* A page with an ISBN or none.  Only a page's draft is cached, not what a
\* deliverer's page says of a book.
Page(r, isbn) ==
    LET u == req[r].url
    IN  /\ req[r].pc = "body"
        /\ IF u \in Deliverer
           THEN /\ IF isbn = None THEN Answered(r, Notice)
                   ELSE req' = [req EXCEPT ![r].pc = "isbn", ![r].isbn = isbn]
                /\ UNCHANGED drafts
           ELSE /\ Answered(r, Draft(u))
                /\ drafts' = [drafts EXCEPT ![u] = Draft(u)]
        /\ UNCHANGED <<cited, books, editions>>

-----------------------------------------------------------------------------
(* Open Library.                                                           *)

FindBook(r) ==
    LET i == req[r].isbn
    IN  /\ req[r].pc = "isbn"
        /\ IF i \in books THEN Answered(r, Match(i))
           ELSE IF editions[i] # None THEN Answered(r, editions[i])
           ELSE Goes(r, "library")
        /\ UNCHANGED <<cited, books, drafts, editions>>

Found(r) ==
    LET i == req[r].isbn
    IN  /\ req[r].pc = "library"
        /\ Answered(r, Edition(i))
        /\ editions' = [editions EXCEPT ![i] = Edition(i)]
        /\ UNCHANGED <<cited, books, drafts>>

NotFound(r, e) ==
    /\ req[r].pc = "library" /\ e \in {"not_found", "api_error", "timeout", "parse_error"}
    /\ Answered(r, Failed(r, e))
    /\ UNCHANGED <<cited, books, drafts, editions>>

\* The connection may break in the body, outside of what urlopen wraps.
LibraryCut(r) ==
    /\ req[r].pc = "library"
    /\ Answered(r, Crash)
    /\ UNCHANGED <<cited, books, drafts, editions>>

-----------------------------------------------------------------------------
(* The sources the users make.                                             *)

Cite(u) == /\ u \notin Deliverer
           /\ cited' = cited \cup {u}
           /\ UNCHANGED <<books, drafts, editions, req>>

AddBook(i) == /\ books' = books \cup {i}
              /\ UNCHANGED <<cited, drafts, editions, req>>

\* Four hours, or seven days, later.
Expire == /\ drafts' = [u \in Urls |-> None]
          /\ editions' = [i \in Isbns |-> None]
          /\ UNCHANGED <<cited, books, req>>

-----------------------------------------------------------------------------

Init ==
    /\ cited \in SUBSET Deliverer       \* what an earlier rule left behind
    /\ books = {}
    /\ drafts = [u \in Urls |-> None]
    /\ editions = [i \in Isbns |-> None]
    /\ req = [r \in Requests |-> Idle]

Step(r) ==
    \/ Classify(r) \/ LookInCache(r)
    \/ \E took \in 0..1 : Resolve(r, took)
    \/ \E e \in {"blocked", "timeout"} : NoAddress(r, e)
    \/ Budget(r)
    \/ \E took \in 0..Timeout : Operation(r, took)
    \/ Redirect(r)
    \/ \E e \in {"not_found", "api_error", "timeout"} : NoPage(r, e)
    \/ Garbled(r)
    \/ \E i \in Isbns \cup {None} : Page(r, i)
    \/ FindBook(r) \/ Found(r)
    \/ \E e \in {"not_found", "api_error", "timeout", "parse_error"} : NotFound(r, e)
    \/ LibraryCut(r)

Next ==
    \/ \E r \in Requests : \/ \E u \in Urls : StartUrl(r, u)
                           \/ \E i \in Isbns : StartIsbn(r, i)
                           \/ Step(r)
    \/ \E u \in Urls : Cite(u)
    \/ \E i \in Isbns : AddBook(i)
    \/ Expire

Spec == Init /\ [][Next]_vars

\* A worker goes on with its request: every operation ends by its timeout.
FairSpec == Spec /\ \A r \in Requests : WF_vars(Step(r))

-----------------------------------------------------------------------------

Results == {<<"none">>, Notice, Crash}
    \cup {Draft(x) : x \in Urls \cup Isbns} \cup {Match(x) : x \in Urls \cup Isbns}
    \cup {Failure(e) : e \in {"blocked", "timeout", "not_found", "api_error", "parse_error"}}

TypeOK ==
    /\ cited \subseteq Urls /\ books \subseteq Isbns
    /\ \A u \in Urls : drafts[u] \in Results \cup {None}
    /\ \A i \in Isbns : editions[i] \in Results \cup {None}
    /\ \A r \in Requests : /\ req[r].answer \in Results
                           /\ req[r].hops \in 0..(MaxRedirects + 1)
                           /\ req[r].isbn \in Isbns \cup {None}

\* A page, or a book, that had its source when the lookup began is answered
\* by that source: no draft of it, fresh or cached, can fork it.
KnownIsMatched ==
    \A r \in Requests : req[r].pc = "done" /\ req[r].known # None =>
        req[r].answer = Match(req[r].known)

\* The page of a store is never cited as a page: neither a source that an
\* earlier rule made of it nor a draft of it is offered.
CopiesAreNotPages ==
    \A r \in Requests : \A u \in Deliverer :
        req[r].url = u => req[r].answer \notin {Draft(u), Match(u)}

\* A failure is never remembered: the next lookup tries again.
FailuresAreForgotten ==
    /\ \A u \in Urls : drafts[u] # None => drafts[u] = Draft(u)
    /\ \A i \in Isbns : editions[i] # None => editions[i] = Edition(i)

\* What a lookup takes over its time, it takes in one hop: however many
\* redirects there are, none sets out when the time is gone.
OneHopOver == \A r \in Requests : req[r].spent <= MaxReads * Timeout + 1

\* A deliverer's lookup that fails teaches; it is never a raw error.
NeverARawError ==
    \A r \in Requests : req[r].url \in Deliverer =>
        req[r].answer \notin {Crash} \cup {Failure(e) : e \in {"blocked", "timeout", "not_found",
                                                               "api_error", "parse_error"}}

\* The timeout is enforced across all hops, the least of a hop's apart.
WallClockKept == \A r \in Requests : req[r].spent <= Timeout + 1

\* Every lookup is answered, however the redirects run.
EveryLookupAnswered ==
    \A r \in Requests : req[r].pc \in {"classify", "isbn"} ~> req[r].pc = "done"

=============================================================================
