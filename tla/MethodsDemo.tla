----------------------------- MODULE MethodsDemo -----------------------------
(***************************************************************************)
(* The GET + DELETE panel of src/Webserv/www/scripts/feature-methods-demo.js *)
(*                                                                         *)
(* loadFiles clears the list, the alert and the empty indicator, sends     *)
(* GET /upload and, when it answers, renders one <li> per file it lists.   *)
(* A click on a row's delete button (confirmed) sends DELETE /upload/<name> *)
(* and, when it answers, removes that very <li> and sets the empty         *)
(* indicator from the rows left.  Nothing stops a second loadFiles or a    *)
(* second delete while a request is in flight.                             *)
(*                                                                         *)
(* An <li> is identified by its file name and the GET whose response       *)
(* rendered it (gen): render replaces the list, so an older <li> is        *)
(* detached and li.remove() on it changes nothing displayed.  The store is *)
(* modelled from spec.md section 6 as in Photobook.                        *)
(***************************************************************************)
EXTENDS Naturals, FiniteSets

CONSTANTS
    Files,     \* names a file in the store can have
    None,      \* no file (a GET names none)
    MaxReq     \* bound on the requests the user may start

ASSUME DemoAssumption == None \notin Files /\ MaxReq \in Nat \ {0}

VARIABLES
    server,      \* the set of files in the store
    rows,        \* the <li> elements in #fileList
    emptyShown,  \* #empty visible
    alert,       \* #alert: hidden, or the kind of error it shows
    status,      \* #status text
    net,         \* requests in flight
    sent         \* requests sent so far (gives each one an id)

vars == <<server, rows, emptyShown, alert, status, net, sent>>

Row == [name: Files, gen: Nat]

Alerts == {"hidden", "listFailed", "deleteFailed"}

(* The texts #status takes: the page's own, "GET REQUEST SENT",            *)
(* "... SUCCESS", "... FAILED" and "Deleted: <name>".                      *)
Status == [shows: {"idle", "sent", "listed", "listFailed", "deleted"}, name: Files \cup {None}]

Shows(text) == [shows |-> text, name |-> None]

Deleted(f) == [shows |-> "deleted", name |-> f]

(* A request: "sent" until the store has handled it, then "done" with the *)
(* store's verdict and, for a GET, the list it returned.  A DELETE names   *)
(* its file and the render (gen) of the <li> it was clicked on.            *)
Request == {r \in [id: Nat, kind: {"GET", "DELETE"}, file: Files \cup {None},
                   gen: Nat, stage: {"sent", "done"}, ok: BOOLEAN, snap: SUBSET Files] :
                r.kind = "DELETE" => r.file \in Files}

NewReq(i, k, f, g) == [id |-> i, kind |-> k, file |-> f, gen |-> g,
                       stage |-> "sent", ok |-> FALSE, snap |-> {}]

RowNames == {li.name : li \in rows}

(* clearUI(): hide the alert, empty #fileList, hide the empty indicator. *)
ClearUI ==
    /\ rows' = {}
    /\ emptyShown' = FALSE
    /\ alert' = "hidden"

(* render(files) for the response of GET g: one <li> per file, and the    *)
(* empty indicator shown when the list is empty.                           *)
Render(files, g) ==
    /\ rows' = {[name |-> f, gen |-> g] : f \in files}
    /\ emptyShown' = (files = {})

(* showError(msg): the alert shows the error. *)
ShowError(kind) == alert' = kind

-----------------------------------------------------------------------------
(* Plausible bugs of the handlers below, used to check that the properties *)
(* can fail.                                                               *)

(* A render that appends to the list instead of replacing it. *)
ReceiveListAppends(r, ok) ==
    /\ IF ok
         THEN /\ rows' = rows \cup {[name |-> f, gen |-> r.id] : f \in r.snap}
              /\ emptyShown' = (r.snap = {})
              /\ status' = Shows("listed")
              /\ UNCHANGED alert
         ELSE /\ alert' = "listFailed"
              /\ status' = Shows("listFailed")
              /\ UNCHANGED <<rows, emptyShown>>
    /\ net' = net \ {r}
    /\ UNCHANGED <<server, sent>>

(* A catch block that shows the error but leaves the status at "sent". *)
ReceiveListFailKeepsStatus(r, ok) ==
    /\ IF ok
         THEN /\ rows' = {[name |-> f, gen |-> r.id] : f \in r.snap}
              /\ emptyShown' = (r.snap = {})
              /\ status' = Shows("listed")
              /\ UNCHANGED alert
         ELSE /\ alert' = "listFailed"
              /\ UNCHANGED <<rows, emptyShown, status>>
    /\ net' = net \ {r}
    /\ UNCHANGED <<server, sent>>

(* A delete handler that sets the empty indicator from the count before    *)
(* the removal (one row, the one being removed, means empty).              *)
ReceiveDeleteCountsBefore(r, ok) ==
    /\ IF ok
         THEN /\ rows' = rows \ {[name |-> r.file, gen |-> r.gen]}
              /\ emptyShown' = (Cardinality(rows) = 1)
              /\ status' = Deleted(r.file)
              /\ UNCHANGED alert
         ELSE /\ alert' = "deleteFailed"
              /\ UNCHANGED <<rows, emptyShown, status>>
    /\ net' = net \ {r}
    /\ UNCHANGED <<server, sent>>

(* A click handler without the if (!name) return guard: a row whose       *)
(* data-name is missing sends DELETE /upload/ with no name.                *)
ClickDeleteUnguarded(li) ==
    /\ li \in rows
    /\ sent < MaxReq
    /\ net' = net \cup {NewReq(sent + 1, "DELETE", None, li.gen)}
    /\ sent' = sent + 1
    /\ UNCHANGED <<server, rows, emptyShown, alert, status>>

(* A delete handler that removes the row before checking res.ok. *)
ReceiveDeleteOptimistic(r, ok) ==
    /\ rows' = rows \ {[name |-> r.file, gen |-> r.gen]}
    /\ emptyShown' = (rows' = {})
    /\ IF ok
         THEN /\ status' = Deleted(r.file)
              /\ UNCHANGED alert
         ELSE /\ alert' = "deleteFailed"
              /\ UNCHANGED status
    /\ net' = net \ {r}
    /\ UNCHANGED <<server, sent>>

(* A delete handler that sets "Deleted: <name>" before it checks res.ok,  *)
(* so a failed delete also reports success.                               *)
ReceiveDeleteStatusFirst(r, ok) ==
    /\ status' = Deleted(r.file)
    /\ IF ok
         THEN /\ rows' = rows \ {[name |-> r.file, gen |-> r.gen]}
              /\ emptyShown' = (rows' = {})
              /\ UNCHANGED alert
         ELSE /\ alert' = "deleteFailed"
              /\ UNCHANGED <<rows, emptyShown>>
    /\ net' = net \ {r}
    /\ UNCHANGED <<server, sent>>

-----------------------------------------------------------------------------
Init ==
    /\ server \in SUBSET Files
    /\ rows = {}
    /\ emptyShown \in BOOLEAN
    /\ alert = "hidden"
    /\ status = Shows("idle")
    /\ net = {}
    /\ sent = 0

(* loadFiles up to its await: clearUI(), the status, and the GET. *)
LoadFiles ==
    /\ sent < MaxReq
    /\ ClearUI
    /\ status' = Shows("sent")
    /\ net' = net \cup {NewReq(sent + 1, "GET", None, 0)}
    /\ sent' = sent + 1
    /\ UNCHANGED server

(* onListClick on the delete button of <li> li, confirmed: the DELETE. *)
ClickDelete(li) ==
    /\ li \in rows
    /\ sent < MaxReq
    /\ net' = net \cup {NewReq(sent + 1, "DELETE", li.name, li.gen)}
    /\ sent' = sent + 1
    /\ UNCHANGED <<server, rows, emptyShown, alert, status>>

(* The store handles one request (spec.md section 6): a GET returns the    *)
(* files, a DELETE of a stored file removes it, of a missing one is a 404. *)
StoreHandle(r) ==
    /\ r.stage = "sent"
    /\ \E ok \in BOOLEAN :
          /\ ok = (r.kind = "GET" \/ r.file \in server)
          /\ server' = IF r.kind = "DELETE" THEN server \ {r.file} ELSE server
          /\ net' = (net \ {r}) \cup {[r EXCEPT !.stage = "done", !.ok = ok, !.snap = server]}
    /\ UNCHANGED <<rows, emptyShown, alert, status, sent>>

(* What the fetch yields: a transport error is always possible; res.ok    *)
(* only once the store has answered.                                      *)
Outcomes(r) == IF r.stage = "done" THEN {r.ok, FALSE} ELSE {FALSE}

(* loadFiles after its await: render(files) and the success status, or    *)
(* showError and the failure status.  The list cleared at the click stays  *)
(* as it is now on failure.                                                *)
ReceiveList(r, ok) ==
    /\ IF ok
         THEN /\ Render(r.snap, r.id)
              /\ status' = Shows("listed")
              /\ UNCHANGED alert
         ELSE /\ ShowError("listFailed")
              /\ status' = Shows("listFailed")
              /\ UNCHANGED <<rows, emptyShown>>
    /\ net' = net \ {r}
    /\ UNCHANGED <<server, sent>>

(* onListClick after its await: li.remove() (no effect on a detached li),  *)
(* the empty indicator from the rows now in #fileList, the status; or      *)
(* showError.                                                              *)
ReceiveDelete(r, ok) ==
    /\ IF ok
         THEN /\ rows' = rows \ {[name |-> r.file, gen |-> r.gen]}
              /\ emptyShown' = (rows' = {})
              /\ status' = Deleted(r.file)
              /\ UNCHANGED alert
         ELSE /\ ShowError("deleteFailed")
              /\ UNCHANGED <<rows, emptyShown, status>>
    /\ net' = net \ {r}
    /\ UNCHANGED <<server, sent>>

(* A fetch settles and the handler waiting on it runs. *)
Receive(r) ==
    \E ok \in Outcomes(r) :
        IF r.kind = "GET" THEN ReceiveList(r, ok) ELSE ReceiveDelete(r, ok)

Next ==
    \/ LoadFiles
    \/ \E li \in rows : ClickDelete(li)
    \/ \E r \in net : StoreHandle(r) \/ Receive(r)

(* The server answers every request it receives and the browser settles  *)
(* every fetch (with a response or a transport error); the user is under *)
(* no obligation to click.                                               *)
Fairness ==
    /\ WF_vars(\E r \in net : StoreHandle(r))
    /\ WF_vars(\E r \in net : Receive(r))

Spec == Init /\ [][Next]_vars

FairSpec == Spec /\ Fairness

-----------------------------------------------------------------------------
TypeOK ==
    /\ server \subseteq Files
    /\ rows \subseteq Row
    /\ emptyShown \in BOOLEAN
    /\ alert \in Alerts
    /\ status \in Status
    /\ net \subseteq Request
    /\ sent \in 0..MaxReq

(* No file is listed twice: however the GET and DELETE responses of        *)
(* overlapping loadFiles and onListClick calls interleave, #fileList never *)
(* holds two <li> for the same name.                                       *)
NoDuplicateRows ==
    \A a, b \in rows : a.name = b.name => a = b

(* The empty indicator is shown only when #fileList has no row, whichever  *)
(* of render and a (possibly stale) delete handler set it last.            *)
EmptyIndicatorAccurate ==
    emptyShown => rows = {}

(* "Deleted: <name>" is only ever displayed for a file the store no      *)
(* longer has, even when the DELETE fails in transport, answers 404, or   *)
(* answers after another delete or a re-render.                           *)
DeletedStatusTrue ==
    status.shows = "deleted" => status.name \notin server

(* Every loadFiles ends: once "GET REQUEST SENT" is displayed, a success,  *)
(* failure or delete status eventually replaces it.                        *)
LoadSettles ==
    status = Shows("sent") ~> status # Shows("sent")

(* A second delete of a name whose delete is in flight is rejected before *)
(* any network call (spec.md 4.3): at most one DELETE per name is in      *)
(* flight.                                                                *)
OneDeletePerName ==
    \A r1, r2 \in net :
        r1.kind = "DELETE" /\ r2.kind = "DELETE" /\ r1.file = r2.file => r1 = r2

(* The lists the store has returned to fetches that have not yet settled. *)
Answers == {r.snap : r \in {q \in net : q.kind = "GET" /\ q.stage = "done"}}

(* The panel implements StoreView: #fileList is only ever cleared, set to  *)
(* a list the store returned, or stripped of a name the store deleted,     *)
(* however loadFiles and deletes overlap.                                  *)
ViewAbs == INSTANCE StoreView WITH stored <- server, shown <- RowNames, answers <- Answers

ShowsStoreLists == ViewAbs!ViewSpec

(* The displayed list behaves as spec.md's list: it changes only by a     *)
(* successful list() showing the store's files, or by removing a name the *)
(* store deleted; a failed list() leaves it unchanged.                    *)
ListAbs == INSTANCE ListSpec WITH stored <- server, entries <- RowNames

ListRefined == ListAbs!ListSpecification
=============================================================================
