------------------------------ MODULE Photobook ------------------------------
(***************************************************************************)
(* The photobook page, src/Webserv/www/scripts/feature-photobook.js.       *)
(*                                                                         *)
(* On load the page sends GET /upload; its handler renders one card per    *)
(* image file and installs the handler of the confirm-delete button.  The  *)
(* X of a card stores the card's file and the card itself in two variables *)
(* shared by all cards (fileToDelete, cardToDelete) and opens the confirm  *)
(* modal; the confirm button sends DELETE /upload/<fileToDelete>, and its  *)
(* response handler removes whatever card cardToDelete names when the      *)
(* response arrives.  The upload form sends POST /upload and reloads the   *)
(* page on success.                                                        *)
(*                                                                         *)
(* The file store behind /upload (the C++ server, not under src/) is       *)
(* modelled from spec.md section 6: it handles the requests in flight one  *)
(* at a time, in any order.  A card is identified by its file name: one    *)
(* page load renders at most one card per file.                            *)
(***************************************************************************)
EXTENDS Naturals, FiniteSets

CONSTANTS
    Files,       \* names a file in the store can have
    ImageFiles,  \* the names isImageFile accepts
    None,        \* the null of fileToDelete and cardToDelete
    MaxReq       \* bound on the requests the user may start

ASSUME FilesAssumption == ImageFiles \subseteq Files /\ None \notin Files
ASSUME MaxReqAssumption == MaxReq \in Nat \ {0}

VARIABLES
    server,        \* the set of files in the store
    page,          \* progress of the page's GET handler
    cards,         \* the files whose card is in .photo-grid
    emptyMsg,      \* #emptyMessage visible
    confirmOpen,   \* #confirmDeleteModal shown
    fileToDelete,  \* closure variable of the GET handler
    cardToDelete,  \* closure variable of the GET handler (a card = its file)
    net,           \* requests in flight
    sent           \* requests sent so far (gives each one an id)

vars == <<server, page, cards, emptyMsg, confirmOpen, fileToDelete,
          cardToDelete, net, sent>>

Kinds == {"GET", "DELETE", "POST"}

(* A request: "sent" until the store has handled it, then "done" with the *)
(* store's verdict (res.ok) and, for a GET, the list it returned.  It is   *)
(* live while the page that sent it is still loaded.  Only a GET names no *)
(* file.                                                                   *)
Request == {r \in [id: Nat, kind: Kinds, file: Files \cup {None}, stage: {"sent", "done"},
                   ok: BOOLEAN, snap: SUBSET Files, live: BOOLEAN] :
                r.kind # "GET" => r.file \in Files}

NewReq(i, k, f) == [id |-> i, kind |-> k, file |-> f, stage |-> "sent",
                    ok |-> FALSE, snap |-> {}, live |-> TRUE]

-----------------------------------------------------------------------------
(* Plausible bugs of the handlers below, used to check that the properties *)
(* can fail.                                                               *)

(* An upload whose renamed File lost its name. *)
SubmitUploadUnnamed(f) ==
    /\ ~confirmOpen
    /\ sent < MaxReq
    /\ net' = net \cup {NewReq(sent + 1, "POST", None)}
    /\ sent' = sent + 1
    /\ UNCHANGED <<server, page, cards, emptyMsg, confirmOpen, fileToDelete, cardToDelete>>

(* A DELETE handler that forgets fileToDelete = null. *)
ReceiveDeleteKeepsFile(r, ok) ==
    /\ net' = net \ {r}
    /\ IF ok /\ cardToDelete # None
       THEN /\ cards' = cards \ {cardToDelete}
            /\ cardToDelete' = None
            /\ confirmOpen' = FALSE
            /\ emptyMsg' = (emptyMsg \/ cards' = {})
            /\ UNCHANGED <<server, page, sent, fileToDelete>>
       ELSE UNCHANGED <<server, page, cards, emptyMsg, confirmOpen, fileToDelete, cardToDelete, sent>>

(* A DELETE handler whose empty test forgets that the upload button is a *)
(* .photo-card too (length === 1 counted over the photos only).          *)
ReceiveDeleteMiscounts(r, ok) ==
    /\ net' = net \ {r}
    /\ IF ok /\ cardToDelete # None
       THEN /\ cards' = cards \ {cardToDelete}
            /\ fileToDelete' = None
            /\ cardToDelete' = None
            /\ confirmOpen' = FALSE
            /\ emptyMsg' = (emptyMsg \/ Cardinality(cards') = 1)
            /\ UNCHANGED <<server, page, sent>>
       ELSE UNCHANGED <<server, page, cards, emptyMsg, confirmOpen, fileToDelete, cardToDelete, sent>>

(* A page load that does not issue the top-level GET. *)
PageLoadWithoutGet(pending) ==
    /\ page' = "loading"
    /\ cards' = {}
    /\ emptyMsg' = FALSE
    /\ confirmOpen' = FALSE
    /\ fileToDelete' = None
    /\ cardToDelete' = None
    /\ net' = {[r EXCEPT !.live = FALSE] : r \in pending}
    /\ sent' = sent + 1

-----------------------------------------------------------------------------
(* Loading the page: fresh DOM and closure state, and the top-level GET.   *)
(* Requests of the previous page may still reach the store, but their      *)
(* handlers are gone.  pending is what is still in flight.                *)
PageLoad(pending) ==
    /\ page' = "loading"
    /\ cards' = {}
    /\ emptyMsg' = FALSE
    /\ confirmOpen' = FALSE
    /\ fileToDelete' = None
    /\ cardToDelete' = None
    /\ net' = {[r EXCEPT !.live = FALSE] : r \in pending} \cup {NewReq(sent + 1, "GET", None)}
    /\ sent' = sent + 1

Init ==
    /\ server \in SUBSET Files
    /\ page = "loading"
    /\ cards = {}
    /\ emptyMsg = FALSE
    /\ confirmOpen = FALSE
    /\ fileToDelete = None
    /\ cardToDelete = None
    /\ net = {NewReq(1, "GET", None)}
    /\ sent = 1

(* The user reloads or re-opens the page. *)
Reload ==
    /\ sent < MaxReq
    /\ PageLoad(net)
    /\ UNCHANGED server

(* The X button of a card: remember its file and card, show the modal.    *)
ClickDelete(f) ==
    /\ f \in cards
    /\ ~confirmOpen
    /\ fileToDelete' = f
    /\ cardToDelete' = f
    /\ confirmOpen' = TRUE
    /\ UNCHANGED <<server, page, cards, emptyMsg, net, sent>>

(* Bootstrap's default modal closes on Escape or a click on the backdrop. *)
DismissConfirm ==
    /\ confirmOpen
    /\ confirmOpen' = FALSE
    /\ UNCHANGED <<server, page, cards, emptyMsg, fileToDelete, cardToDelete, net, sent>>

(* The confirm button (installed by the GET handler): with a selection it *)
(* sends DELETE /upload/<fileToDelete>; the modal stays open meanwhile.   *)
(* Without a selection it returns at once, a step that changes nothing.   *)
ConfirmDelete ==
    /\ page = "shown"
    /\ confirmOpen
    /\ fileToDelete # None /\ cardToDelete # None
    /\ sent < MaxReq
    /\ net' = net \cup {NewReq(sent + 1, "DELETE", fileToDelete)}
    /\ sent' = sent + 1
    /\ UNCHANGED <<server, page, cards, emptyMsg, confirmOpen, fileToDelete, cardToDelete>>

(* Submitting the upload form with the sanitized name f. *)
SubmitUpload(f) ==
    /\ ~confirmOpen
    /\ sent < MaxReq
    /\ net' = net \cup {NewReq(sent + 1, "POST", f)}
    /\ sent' = sent + 1
    /\ UNCHANGED <<server, page, cards, emptyMsg, confirmOpen, fileToDelete, cardToDelete>>

-----------------------------------------------------------------------------
(* The store handles a request: GET returns the current list, DELETE of a *)
(* missing file is a 404, POST stores the file or is refused (413, 500).  *)
StoreHandle(r) ==
    /\ r \in net
    /\ r.stage = "sent"
    /\ \E ok \in BOOLEAN :
          /\ CASE r.kind = "GET"    -> ok /\ server' = server
               [] r.kind = "DELETE" -> /\ ok = (r.file \in server)
                                       /\ server' = server \ {r.file}
               [] r.kind = "POST"   -> server' = IF ok THEN server \cup {r.file} ELSE server
          /\ net' = (net \ {r}) \cup
                      {[r EXCEPT !.stage = "done", !.ok = ok, !.snap = server]}
    /\ UNCHANGED <<page, cards, emptyMsg, confirmOpen, fileToDelete, cardToDelete, sent>>

(* The outcomes fetch can deliver for r: the store's answer once it has   *)
(* one, and a transport error at any time.                                *)
Outcomes(r) == IF r.stage = "done" THEN {r.ok, FALSE} ELSE {FALSE}

(* The GET handler: keep the image files; none shows the empty message   *)
(* and returns; otherwise render a card per file and install the confirm *)
(* handler.  A failed GET is only logged.                                 *)
ReceiveList(r, ok) ==
    LET data == r.snap \cap ImageFiles IN
    /\ page' = CASE ~ok              -> "failed"
                 [] ok /\ data = {}  -> "empty"
                 [] ok /\ data # {}  -> "shown"
    /\ emptyMsg' = (ok /\ data = {})
    /\ cards' = IF ok THEN data ELSE cards
    /\ net' = net \ {r}
    /\ UNCHANGED <<server, confirmOpen, fileToDelete, cardToDelete, sent>>

(* The DELETE handler.  On success it removes cardToDelete as it is NOW, *)
(* clears the selection, hides the modal and shows the empty message when *)
(* only the upload card is left; with cardToDelete null the call throws   *)
(* and the catch alerts.  On failure it alerts.  Alerts change no state.  *)
ReceiveDelete(r, ok) ==
    /\ net' = net \ {r}
    /\ IF ok /\ cardToDelete # None
       THEN /\ cards' = cards \ {cardToDelete}
            /\ fileToDelete' = None
            /\ cardToDelete' = None
            /\ confirmOpen' = FALSE
            /\ emptyMsg' = (emptyMsg \/ cards' = {})
            /\ UNCHANGED <<server, page, sent>>
       ELSE UNCHANGED <<server, page, cards, emptyMsg, confirmOpen, fileToDelete, cardToDelete, sent>>

(* The POST handler: on success alert, reset the form and reload; on     *)
(* failure alert.                                                         *)
ReceiveUpload(r, ok) ==
    IF ok THEN PageLoad(net \ {r}) /\ UNCHANGED server
    ELSE /\ net' = net \ {r}
         /\ UNCHANGED <<server, page, cards, emptyMsg, confirmOpen, fileToDelete, cardToDelete, sent>>

(* fetch settles a live request and its handler runs. *)
Receive(r) ==
    /\ r \in net
    /\ r.live
    /\ \E ok \in Outcomes(r) :
          CASE r.kind = "GET"    -> ReceiveList(r, ok)
            [] r.kind = "DELETE" -> ReceiveDelete(r, ok)
            [] r.kind = "POST"   -> ReceiveUpload(r, ok)

(* A request of an unloaded page: the browser drops its outcome. *)
Discard(r) ==
    /\ r \in net
    /\ ~r.live
    /\ net' = net \ {r}
    /\ UNCHANGED <<server, page, cards, emptyMsg, confirmOpen, fileToDelete, cardToDelete, sent>>

Next ==
    \/ Reload
    \/ \E f \in Files : ClickDelete(f) \/ SubmitUpload(f)
    \/ DismissConfirm
    \/ ConfirmDelete
    \/ \E r \in net : StoreHandle(r) \/ Receive(r) \/ Discard(r)

Spec == Init /\ [][Next]_vars

(* The server answers every request it receives and the browser settles  *)
(* every fetch, with a response or a transport error, and drops those of *)
(* an unloaded page.  The user is under no obligation to act.            *)
Fairness ==
    /\ WF_vars(\E r \in net : StoreHandle(r))
    /\ WF_vars(\E r \in net : Receive(r))
    /\ WF_vars(\E r \in net : Discard(r))

FairSpec == Spec /\ Fairness

-----------------------------------------------------------------------------
TypeOK ==
    /\ server \in SUBSET Files
    /\ page \in {"loading", "shown", "empty", "failed"}
    /\ cards \in SUBSET Files
    /\ emptyMsg \in BOOLEAN
    /\ confirmOpen \in BOOLEAN
    /\ fileToDelete \in Files \cup {None}
    /\ cardToDelete \in Files \cup {None}
    /\ net \in SUBSET Request
    /\ sent \in Nat

(* The two variables the X buttons share always name the same card, that *)
(* card is still on the page, and the open confirm modal always has one:  *)
(* the asynchronous DELETE handler, which removes cards and clears the    *)
(* selection, never leaves fileToDelete/cardToDelete pointing at a card   *)
(* that is gone.                                                          *)
SelectionCoherent ==
    /\ fileToDelete = cardToDelete
    /\ cardToDelete # None => cardToDelete \in cards
    /\ confirmOpen => cardToDelete # None

(* Once the GET handler has rendered, "empty photobook" is shown exactly  *)
(* when no photo card is left, across every DELETE handler's removal and *)
(* its ".photo-card".length === 1 test.                                   *)
EmptyMessageAccurate ==
    page \in {"shown", "empty"} => (emptyMsg <=> cards = {})

(* A card disappears from a loaded page only as the effect of the DELETE *)
(* response for that card's own file: spec.md 4.3 has delete(name) end in *)
(* confirmDeleted(name).  The handler in the code removes cardToDelete as  *)
(* it is when the response arrives.                                       *)
CardRemovedOnlyWhenDeleted ==
    [][page' = page =>
         \A c \in cards \ cards' :
            \E r \in net \ net' : r.kind = "DELETE" /\ r.file = c]_vars


(* Every page load ends: the top-level GET's handler eventually runs, with *)
(* the list or with the error, however the user reloads, uploads and       *)
(* deletes meanwhile and whichever requests the transport loses.           *)
LoadCompletes ==
    page = "loading" ~> page # "loading"

(* Once the GET handler has run, the page shows something: photo cards,   *)
(* the empty message, or (spec.md 4.3, list()) a human-readable error.    *)
(* The code's .catch only logs to the console, and #emptyMessage is the   *)
(* only message the page has.                                             *)
LoadOutcomeVisible ==
    page # "loading" => cards # {} \/ emptyMsg

(* A second delete of a name whose delete is in flight is rejected before *)
(* any network call (spec.md 4.3): a loaded page has at most one DELETE   *)
(* per name in flight.                                                    *)
OneDeletePerName ==
    \A r1, r2 \in net :
        r1.live /\ r2.live /\ r1.kind = "DELETE" /\ r2.kind = "DELETE" /\ r1.file = r2.file
            => r1 = r2
=============================================================================
