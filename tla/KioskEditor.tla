---------------------------- MODULE KioskEditor ----------------------------
(***************************************************************************)
(* The kiosk editor's autosave, against a server that applies one patch.   *)
(*                                                                         *)
(* Leaving a field, or any change of the item list, asks for a save.  One  *)
(* patch is in flight at a time; what is asked for meanwhile is one        *)
(* trailing save of the state the editor has then.  A patch carries the    *)
(* whole form; the device this editor runs on keeps a copy of the idle     *)
(* time in a cookie.                                                       *)
(***************************************************************************)
EXTENDS Naturals

CONSTANTS Texts,       \* what can be typed: headings, items, hooks
          Sent,        \* Texts -> Texts: what of it a body carries (trim, slice)
          Idles,       \* the idle times that can be typed
          Valid,       \* those that are positive whole numbers
          Offline,     \* whether the network may fail
          None

SentAssumption == Sent \in [Texts -> Texts]
ValidAssumption == Valid \subseteq Idles

VARIABLES
    form,       \* what the editor shows: [text, idle]
    typed,      \* whether a field was changed and not left yet
    saving, savePending, error,
    lastSaved,  \* the body last known to be saved
    initialIdle,\* the idle time last known to be saved
    request,    \* the patch on its way: [body, done], or None
    server,     \* the saved kiosk
    cookie      \* kioskIdleSeconds of this device, which shows this kiosk

vars == <<form, typed, saving, savePending, error, lastSaved, initialIdle,
          request, server, cookie>>

Body == [text : {Sent[t] : t \in Texts}, idle : Valid]
BodyOf(f) == [text |-> Sent[f.text], idle |-> f.idle]     \* buildBody

TypeOK ==
    /\ form \in [text : Texts, idle : Idles]
    /\ typed \in BOOLEAN /\ saving \in BOOLEAN /\ savePending \in BOOLEAN
    /\ error \in BOOLEAN
    /\ lastSaved \in Body /\ server \in Body
    /\ initialIdle \in Valid /\ cookie \in Valid
    /\ request \in {None} \cup [body : Body, done : BOOLEAN, ok : BOOLEAN]
    /\ savePending => saving

Init ==
    /\ server \in Body
    /\ form = server /\ lastSaved = server
    /\ initialIdle = server.idle /\ cookie = server.idle
    /\ typed = FALSE /\ saving = FALSE /\ savePending = FALSE /\ error = FALSE
    /\ request = None

(* save(), when none is running, for form f with last body last.           *)
Start(f, last) ==
    \/ /\ f.idle \notin Valid
       /\ error' = TRUE
       /\ saving' = FALSE
       /\ request' = None
    \/ /\ f.idle \in Valid
       /\ BodyOf(f) = last
       /\ saving' = FALSE
       /\ request' = None
       /\ UNCHANGED error
    \/ /\ f.idle \in Valid
       /\ BodyOf(f) # last
       /\ saving' = TRUE
       /\ error' = FALSE
       /\ request' = [body |-> BodyOf(f), done |-> FALSE, ok |-> TRUE]

SaveOrDrop(f) ==     \* mutant: what is asked for during a save is forgotten
    /\ UNCHANGED savePending
    /\ IF saving THEN UNCHANGED <<saving, error, request>> ELSE Start(f, lastSaved)
SaveNow(f) ==
    \/ /\ saving
       /\ savePending' = TRUE
       /\ UNCHANGED <<saving, error, request>>
    \/ /\ ~saving
       /\ Start(f, lastSaved)
       /\ UNCHANGED savePending

Type ==
    /\ form' \in [text : Texts, idle : Idles]
    /\ form' # form
    /\ typed' = TRUE
    /\ UNCHANGED <<saving, savePending, error, lastSaved, initialIdle, request, server, cookie>>

(* A field is left: onblur.                                                *)
Blur ==
    /\ typed' = FALSE
    /\ SaveNow(form)
    /\ UNCHANGED <<form, lastSaved, initialIdle, server, cookie>>

(* A title is added, removed or moved.                                     *)
EditItems ==
    /\ \E t \in Texts : form' = [form EXCEPT !.text = t]
    /\ SaveNow(form')
    /\ UNCHANGED <<typed, lastSaved, initialIdle, server, cookie>>

(* The server answers the patch; an error leaves the kiosk as it was.      *)
Serve ==
    /\ request # None /\ ~request.done
    /\ \E ok \in BOOLEAN :
         /\ request' = [request EXCEPT !.done = TRUE, !.ok = ok]
         /\ server' = IF ok THEN request.body ELSE server
    /\ UNCHANGED <<form, typed, saving, savePending, error, lastSaved, initialIdle, cookie>>

IdleKnown(body) == body.idle
SavedBody(body) == body

(* The answer arrives: an error drops the queued save, a success runs it.  *)
Answer ==
    /\ request # None /\ request.done
    /\ savePending' = FALSE
    /\ \/ /\ ~request.ok
          /\ saving' = FALSE /\ error' = TRUE /\ request' = None
          /\ UNCHANGED <<lastSaved, initialIdle, cookie>>
       \/ /\ request.ok
          /\ cookie' = IF request.body.idle # initialIdle THEN request.body.idle ELSE cookie
          /\ initialIdle' = IdleKnown(request.body)
          /\ lastSaved' = SavedBody(request.body)
          /\ IF savePending THEN Start(form, lastSaved')
             ELSE saving' = FALSE /\ request' = None /\ UNCHANGED error
    /\ UNCHANGED <<form, typed, server>>

(* The fetch rejects, before or after the server handled it: nothing in    *)
(* save() runs after the await.                                            *)
Reject ==
    /\ Offline
    /\ request # None
    /\ request' = None
    /\ UNCHANGED <<form, typed, saving, savePending, error, lastSaved, initialIdle, server, cookie>>

Next == Type \/ Blur \/ EditItems \/ Serve \/ Answer \/ Reject

(* Requests are handled and their answers arrive.                          *)
Spec == Init /\ [][Next]_vars /\ WF_vars(Serve) /\ WF_vars(Answer)

(***************************************************************************)
(* Properties                                                              *)
(***************************************************************************)

(* Once everything typed was left, the kiosk comes to be what the form     *)
(* shows, unless an error is shown or the operator goes on typing: however *)
(* many saves overlapped, the trailing one carries the latest state.       *)
Shown == server = BodyOf(form)
EditsSettle ==
    \A f \in [text : Texts, idle : Idles] :
      (form = f /\ ~typed) ~> (form # f \/ typed \/ error \/ Shown)

(* A save asked for while another is in flight is made (savePending).      *)
QueuedSaveRuns == savePending ~> ~savePending

(* With no save running and no error, this device's copy of the idle time  *)
(* is the saved one, also after it was changed and changed back.           *)
CookieFollows == ~saving /\ ~error => cookie = server.idle

(* The "Saved" the operator reads is true: with no save running and no     *)
(* error, the body not sent again is the one the server has.               *)
SavedIsSaved == ~saving /\ ~error => lastSaved = server
=============================================================================
