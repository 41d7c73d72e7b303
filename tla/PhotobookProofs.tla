--------------------------- MODULE PhotobookProofs ---------------------------
(***************************************************************************)
(* Proofs about the photobook page (Photobook.tla), for every set of file  *)
(* names and every request bound.                                          *)
(***************************************************************************)
EXTENDS Photobook, TLAPS

(* The only live GET is the one of the current page load, and it is in    *)
(* flight only while the page is still loading.                           *)
LiveGet(r) == r.live /\ r.kind = "GET"

LiveGetLoading == \A r \in net : LiveGet(r) => page = "loading"

OneLiveGet == \A r1, r2 \in net : LiveGet(r1) /\ LiveGet(r2) => r1 = r2

(* While the page loads nothing is rendered and nothing is selected.      *)
LoadingClean ==
    page = "loading" => cards = {} /\ fileToDelete = None /\ ~confirmOpen

(* The inductive strengthening of SelectionCoherent. *)
Inv == /\ TypeOK
       /\ SelectionCoherent
       /\ LoadingClean
       /\ LiveGetLoading
       /\ OneLiveGet

-----------------------------------------------------------------------------
(* A request built by NewReq is a well-formed request record. *)
LEMMA NewReqType ==
    ASSUME NEW i \in Nat, NEW k \in Kinds, NEW f \in Files \cup {None},
           k # "GET" => f \in Files
    PROVE  NewReq(i, k, f) \in Request
  BY DEF NewReq, Request

(* Unloading a page keeps the requests in flight well formed. *)
LEMMA UnloadType ==
    ASSUME NEW S \in SUBSET Request
    PROVE  {[r EXCEPT !.live = FALSE] : r \in S} \in SUBSET Request
  BY DEF Request

(* The store's answer to a request is a well-formed request record. *)
LEMMA AnswerType ==
    ASSUME NEW r \in Request, NEW ok \in BOOLEAN, NEW S \in SUBSET Files
    PROVE  [r EXCEPT !.stage = "done", !.ok = ok, !.snap = S] \in Request
  BY DEF Request

(* A page load keeps the requests in flight well formed. *)
LEMMA PageLoadType ==
    ASSUME TypeOK, NEW S \in SUBSET net, PageLoad(S), UNCHANGED server
    PROVE  TypeOK'
  <1>1. {[r EXCEPT !.live = FALSE] : r \in S} \in SUBSET Request
    <2>1. S \in SUBSET Request
      BY DEF TypeOK
    <2>2. QED
      BY <2>1, UnloadType
  <1>2. NewReq(sent + 1, "GET", None) \in Request
    BY NewReqType, FilesAssumption DEF TypeOK, Kinds
  <1>3. net' \in SUBSET Request
    BY <1>1, <1>2 DEF PageLoad
  <1>4. server' \in SUBSET Files /\ sent' \in Nat
    BY DEF TypeOK, PageLoad
  <1>5. page' \in {"loading", "shown", "empty", "failed"} /\ cards' \in SUBSET Files
    BY DEF PageLoad
  <1>6. /\ emptyMsg' \in BOOLEAN /\ confirmOpen' \in BOOLEAN
        /\ fileToDelete' \in Files \cup {None} /\ cardToDelete' \in Files \cup {None}
    BY DEF PageLoad
  <1>7. QED
    BY <1>3, <1>4, <1>5, <1>6 DEF TypeOK

(* The initial states are well typed. *)
LEMMA TypeInit == Init => TypeOK
<1> SUFFICES ASSUME Init PROVE TypeOK
  OBVIOUS
<1>1. net \in SUBSET Request
  BY NewReqType, FilesAssumption DEF Init, Kinds
<1>2. QED
  BY <1>1 DEF Init, TypeOK

(* Every step keeps the state well typed. *)
LEMMA TypeStep == TypeOK /\ [Next]_vars => TypeOK'
  <2> SUFFICES ASSUME TypeOK, [Next]_vars PROVE TypeOK'
    OBVIOUS
  <2>1. CASE Reload
    BY <2>1, PageLoadType DEF Reload, TypeOK
  <2>2. ASSUME NEW f \in Files, ClickDelete(f) PROVE TypeOK'
    BY <2>2 DEF ClickDelete, TypeOK
  <2>3. ASSUME NEW f \in Files, SubmitUpload(f) PROVE TypeOK'
    <3>1. net' \in SUBSET Request
      BY <2>3, NewReqType DEF SubmitUpload, TypeOK, Kinds
    <3>2. QED
      BY <2>3, <3>1 DEF SubmitUpload, TypeOK
  <2>4. CASE DismissConfirm
    BY <2>4 DEF DismissConfirm, TypeOK
  <2>5. CASE ConfirmDelete
    <3>1. net' \in SUBSET Request
      BY <2>5, NewReqType DEF ConfirmDelete, TypeOK, Kinds
    <3>2. QED
      BY <2>5, <3>1 DEF ConfirmDelete, TypeOK
  <2>6. ASSUME NEW r \in net, StoreHandle(r) PROVE TypeOK'
    <3>1. r \in Request
      BY DEF TypeOK
    <3>2. PICK ok \in BOOLEAN :
             /\ CASE r.kind = "GET"    -> ok /\ server' = server
                  [] r.kind = "DELETE" -> /\ ok = (r.file \in server)
                                          /\ server' = server \ {r.file}
                  [] r.kind = "POST"   -> server' = IF ok THEN server \cup {r.file} ELSE server
             /\ net' = (net \ {r}) \cup
                         {[r EXCEPT !.stage = "done", !.ok = ok, !.snap = server]}
      BY <2>6 DEF StoreHandle
    <3>3. server' \in SUBSET Files
      BY <3>1, <3>2 DEF Request, TypeOK, Kinds
    <3>4. net' \in SUBSET Request
      BY <3>1, <3>2, AnswerType DEF TypeOK
    <3>5. QED
      BY <2>6, <3>3, <3>4 DEF StoreHandle, TypeOK
  <2>7. ASSUME NEW r \in net, Receive(r) PROVE TypeOK'
    <3>1. r \in Request
      BY DEF TypeOK
    <3>2. PICK ok \in Outcomes(r) :
             CASE r.kind = "GET"    -> ReceiveList(r, ok)
               [] r.kind = "DELETE" -> ReceiveDelete(r, ok)
               [] r.kind = "POST"   -> ReceiveUpload(r, ok)
      BY <2>7 DEF Receive
    <3>3. ok \in BOOLEAN
      BY <3>1 DEF Outcomes, Request
    <3>4. CASE r.kind = "GET"
      BY <3>1, <3>2, <3>3, <3>4 DEF ReceiveList, TypeOK, Request
    <3>5. CASE r.kind = "DELETE"
      BY <3>2, <3>5 DEF ReceiveDelete, TypeOK
    <3>6. CASE r.kind = "POST"
      <4>1. CASE ok
        BY <3>2, <3>6, <4>1, PageLoadType DEF ReceiveUpload, TypeOK
      <4>2. CASE ~ok
        BY <3>2, <3>6, <4>2 DEF ReceiveUpload, TypeOK
      <4>3. QED
        BY <4>1, <4>2
    <3>7. QED
      BY <3>1, <3>4, <3>5, <3>6 DEF Request, Kinds
  <2>8. ASSUME NEW r \in net, Discard(r) PROVE TypeOK'
    BY <2>8 DEF Discard, TypeOK
  <2>9. CASE UNCHANGED vars
    BY <2>9 DEF vars, TypeOK
  <2>10. QED
    BY <2>1, <2>2, <2>3, <2>4, <2>5, <2>6, <2>7, <2>8, <2>9 DEF Next

(* Every reachable state is well typed: the request records in flight,   *)
(* the store and the page state keep their shapes through every handler. *)
THEOREM TypeCorrect == Spec => []TypeOK
  BY TypeInit, TypeStep, PTL DEF Spec

-----------------------------------------------------------------------------
(* A step that keeps the page and only takes requests out of flight keeps *)
(* the facts about the live GET.                                          *)
LEMMA ShrinkLiveGet ==
    ASSUME LiveGetLoading, OneLiveGet, net' \subseteq net, page' = page
    PROVE  LiveGetLoading' /\ OneLiveGet'
  BY DEF LiveGetLoading, OneLiveGet, LiveGet

(* A page load establishes the invariant whatever was in flight. *)
LEMMA PageLoadInv ==
    ASSUME Inv, NEW S \in SUBSET net, PageLoad(S), UNCHANGED server
    PROVE  Inv'
  <1> DEFINE G == NewReq(sent + 1, "GET", None)
  <1>1. TypeOK'
    BY PageLoadType DEF Inv
  <1>2. \A r \in net' : LiveGet(r) => r = G
    <2>1. \A r \in S : r \in Request
      BY DEF Inv, TypeOK
    <2>2. \A r \in S : ~[r EXCEPT !.live = FALSE].live
      BY <2>1 DEF Request
    <2>3. QED
      BY <2>2 DEF PageLoad, LiveGet
  <1>3. SelectionCoherent' /\ LoadingClean'
    BY DEF PageLoad, SelectionCoherent, LoadingClean
  <1>4. LiveGetLoading' /\ OneLiveGet'
    BY <1>2 DEF PageLoad, LiveGetLoading, OneLiveGet
  <1>5. QED
    BY <1>1, <1>3, <1>4 DEF Inv

(* The strengthened invariant holds initially. *)
LEMMA InvInit == Init => Inv
  BY TypeInit DEF Init, Inv, SelectionCoherent, LoadingClean, LiveGetLoading,
                  OneLiveGet, LiveGet

(* Every step keeps the strengthened invariant. *)
LEMMA InvStep == Inv /\ [Next]_vars => Inv'
<1> SUFFICES ASSUME Inv, [Next]_vars PROVE Inv'
  OBVIOUS
<1>1. TypeOK'
  BY TypeStep DEF Inv
<1>2. CASE Reload
  BY <1>2, PageLoadInv DEF Reload
<1>3. ASSUME NEW f \in Files, ClickDelete(f) PROVE Inv'
  <2>1. SelectionCoherent'
    BY <1>3, FilesAssumption DEF ClickDelete, SelectionCoherent
  <2>2. page # "loading"
    BY <1>3 DEF ClickDelete, Inv, LoadingClean
  <2>3. LoadingClean'
    BY <1>3, <2>2 DEF ClickDelete, LoadingClean
  <2>4. LiveGetLoading' /\ OneLiveGet'
    BY <1>3, ShrinkLiveGet DEF ClickDelete, Inv
  <2>5. QED
    BY <1>1, <2>1, <2>3, <2>4 DEF Inv
<1>4. CASE DismissConfirm
  <2>1. SelectionCoherent' /\ LoadingClean'
    BY <1>4 DEF DismissConfirm, Inv, SelectionCoherent, LoadingClean
  <2>2. LiveGetLoading' /\ OneLiveGet'
    BY <1>4, ShrinkLiveGet DEF DismissConfirm, Inv
  <2>3. QED
    BY <1>1, <2>1, <2>2 DEF Inv
<1>5. ASSUME NEW k \in {"DELETE", "POST"}, NEW f \in Files \cup {None},
             net' = net \cup {NewReq(sent + 1, k, f)},
             UNCHANGED <<server, page, cards, emptyMsg, confirmOpen, fileToDelete, cardToDelete>>
      PROVE  Inv'
  <2>1. ~LiveGet(NewReq(sent + 1, k, f))
    BY DEF LiveGet, NewReq
  <2>2. LiveGetLoading' /\ OneLiveGet'
    BY <1>5, <2>1 DEF Inv, LiveGetLoading, OneLiveGet
  <2>3. QED
    BY <1>1, <1>5, <2>2 DEF Inv, SelectionCoherent, LoadingClean
<1>6. CASE ConfirmDelete
  <2>1. fileToDelete \in Files \cup {None}
    BY DEF Inv, TypeOK
  <2>2. QED
    BY <1>6, <1>5, <2>1 DEF ConfirmDelete
<1>7. ASSUME NEW f \in Files, SubmitUpload(f) PROVE Inv'
  <2>1. f \in Files \cup {None}
    OBVIOUS
  <2>2. QED
    BY <1>7, <1>5, <2>1 DEF SubmitUpload
<1>8. ASSUME NEW r \in net, StoreHandle(r) PROVE Inv'
  <2>1. PICK ok \in BOOLEAN :
           net' = (net \ {r}) \cup {[r EXCEPT !.stage = "done", !.ok = ok, !.snap = server]}
    BY <1>8 DEF StoreHandle
  <2> DEFINE r2 == [r EXCEPT !.stage = "done", !.ok = ok, !.snap = server]
  <2>2. r \in Request
    BY DEF Inv, TypeOK
  <2>3. LiveGet(r2) => LiveGet(r)
    BY <2>2 DEF LiveGet, Request
  <2>4. LiveGetLoading'
    BY <1>8, <2>1, <2>3 DEF StoreHandle, Inv, LiveGetLoading
  <2>5. OneLiveGet'
    BY <2>1, <2>3 DEF Inv, OneLiveGet
  <2>6. SelectionCoherent' /\ LoadingClean'
    BY <1>8 DEF StoreHandle, Inv, SelectionCoherent, LoadingClean
  <2>7. QED
    BY <1>1, <2>4, <2>5, <2>6 DEF Inv
<1>9. ASSUME NEW r \in net, Receive(r) PROVE Inv'
  <2>1. PICK ok \in Outcomes(r) :
           CASE r.kind = "GET"    -> ReceiveList(r, ok)
             [] r.kind = "DELETE" -> ReceiveDelete(r, ok)
             [] r.kind = "POST"   -> ReceiveUpload(r, ok)
    BY <1>9 DEF Receive
  <2>2. r \in Request /\ r.live
    BY <1>9 DEF Inv, TypeOK, Receive
  <2>3. CASE r.kind = "GET"
    <3>1. ReceiveList(r, ok)
      BY <2>1, <2>3
    <3>2. /\ page = "loading" /\ cards = {} /\ ~confirmOpen
          /\ fileToDelete = None /\ cardToDelete = None
      BY <2>2, <2>3 DEF Inv, LiveGetLoading, LiveGet, LoadingClean, SelectionCoherent
    <3>3. SelectionCoherent' /\ LoadingClean'
      BY <3>1, <3>2 DEF ReceiveList, SelectionCoherent, LoadingClean
    <3>4. \A x \in net' : ~LiveGet(x)
      BY <3>1, <2>2, <2>3 DEF ReceiveList, Inv, OneLiveGet, LiveGet
    <3>5. LiveGetLoading' /\ OneLiveGet'
      BY <3>4 DEF LiveGetLoading, OneLiveGet
    <3>6. QED
      BY <1>1, <3>3, <3>5 DEF Inv
  <2>4. CASE r.kind = "DELETE"
    <3>1. ReceiveDelete(r, ok)
      BY <2>1, <2>4
    <3>2. SelectionCoherent' /\ LoadingClean'
      BY <3>1 DEF ReceiveDelete, Inv, SelectionCoherent, LoadingClean
    <3>3. LiveGetLoading' /\ OneLiveGet'
      BY <3>1, ShrinkLiveGet DEF ReceiveDelete, Inv
    <3>4. QED
      BY <1>1, <3>2, <3>3 DEF Inv
  <2>5. CASE r.kind = "POST"
    <3>1. ReceiveUpload(r, ok)
      BY <2>1, <2>5
    <3>2. CASE ok
      BY <3>1, <3>2, PageLoadInv DEF ReceiveUpload
    <3>3. CASE ~ok
      <4>1. SelectionCoherent' /\ LoadingClean'
        BY <3>1, <3>3 DEF ReceiveUpload, Inv, SelectionCoherent, LoadingClean
      <4>2. LiveGetLoading' /\ OneLiveGet'
        BY <3>1, <3>3, ShrinkLiveGet DEF ReceiveUpload, Inv
      <4>3. QED
        BY <1>1, <4>1, <4>2 DEF Inv
    <3>4. QED
      BY <3>2, <3>3
  <2>6. QED
    BY <2>2, <2>3, <2>4, <2>5 DEF Request, Kinds
<1>10. ASSUME NEW r \in net, Discard(r) PROVE Inv'
  <2>1. SelectionCoherent' /\ LoadingClean'
    BY <1>10 DEF Discard, Inv, SelectionCoherent, LoadingClean
  <2>2. LiveGetLoading' /\ OneLiveGet'
    BY <1>10, ShrinkLiveGet DEF Discard, Inv
  <2>3. QED
    BY <1>1, <2>1, <2>2 DEF Inv
<1>11. CASE UNCHANGED vars
  BY <1>11 DEF vars, Inv, SelectionCoherent, LoadingClean, LiveGetLoading,
               OneLiveGet, LiveGet, TypeOK
<1>12. QED
  BY <1>2, <1>3, <1>4, <1>6, <1>7, <1>8, <1>9, <1>10, <1>11 DEF Next

(* The shared selection of the photobook's X buttons never names a card  *)
(* that is gone and the open confirm modal always has one, in every       *)
(* interleaving of clicks, page loads and DELETE/GET/POST completions.    *)
THEOREM SelectionSafe == Spec => []SelectionCoherent
<1>1. Inv => SelectionCoherent
  BY DEF Inv
<1>2. QED
  BY InvInit, InvStep, <1>1, PTL DEF Spec
-----------------------------------------------------------------------------
(* Every step keeps EmptyMessageAccurate, given the invariant. *)
LEMMA EmptyStep == Inv /\ EmptyMessageAccurate /\ [Next]_vars => EmptyMessageAccurate'
<1> SUFFICES ASSUME Inv, EmptyMessageAccurate, [Next]_vars PROVE EmptyMessageAccurate'
  OBVIOUS
<1>1. ASSUME UNCHANGED <<page, cards, emptyMsg>> PROVE EmptyMessageAccurate'
  BY <1>1 DEF EmptyMessageAccurate
<1>2. ASSUME page' = "loading" PROVE EmptyMessageAccurate'
  BY <1>2 DEF EmptyMessageAccurate
<1>3. ASSUME NEW r \in net, Receive(r) PROVE EmptyMessageAccurate'
  <2>1. PICK ok \in Outcomes(r) :
           CASE r.kind = "GET"    -> ReceiveList(r, ok)
             [] r.kind = "DELETE" -> ReceiveDelete(r, ok)
             [] r.kind = "POST"   -> ReceiveUpload(r, ok)
    BY <1>3 DEF Receive
  <2>2. r \in Request
    BY DEF Inv, TypeOK
  <2>3. CASE r.kind = "GET"
    <3>1. ReceiveList(r, ok)
      BY <2>1, <2>3
    <3>2. ok \in BOOLEAN
      BY <2>2 DEF Outcomes, Request
    <3>3. CASE ~ok
      <4>1. page' = "failed"
        BY <3>1, <3>2, <3>3 DEF ReceiveList
      <4>2. QED
        BY <4>1 DEF EmptyMessageAccurate
    <3>4. CASE ok /\ r.snap \cap ImageFiles = {}
      <4>1. page' = "empty" /\ emptyMsg' /\ cards' = {}
        BY <3>1, <3>2, <3>4 DEF ReceiveList
      <4>2. QED
        BY <4>1 DEF EmptyMessageAccurate
    <3>5. CASE ok /\ r.snap \cap ImageFiles # {}
      <4>1. page' = "shown" /\ ~emptyMsg' /\ cards' # {}
        BY <3>1, <3>2, <3>5 DEF ReceiveList
      <4>2. QED
        BY <4>1 DEF EmptyMessageAccurate
    <3>6. QED
      BY <3>2, <3>3, <3>4, <3>5
  <2>4. CASE r.kind = "DELETE"
    <3>1. ReceiveDelete(r, ok)
      BY <2>1, <2>4
    <3>2. CASE ok /\ cardToDelete # None
      <4>1. cardToDelete \in cards
        BY <3>2 DEF Inv, SelectionCoherent
      <4>2. page \in {"shown", "empty"} => ~emptyMsg
        BY <4>1 DEF EmptyMessageAccurate
      <4>3. QED
        BY <3>1, <3>2, <4>2 DEF ReceiveDelete, EmptyMessageAccurate
    <3>3. CASE ~(ok /\ cardToDelete # None)
      BY <3>1, <3>3, <1>1 DEF ReceiveDelete
    <3>4. QED
      BY <3>2, <3>3
  <2>5. CASE r.kind = "POST"
    <3>1. ReceiveUpload(r, ok)
      BY <2>1, <2>5
    <3>2. QED
      BY <3>1, <1>1, <1>2 DEF ReceiveUpload, PageLoad
  <2>6. QED
    BY <2>2, <2>3, <2>4, <2>5 DEF Request, Kinds
<1>4. QED
  BY <1>1, <1>2, <1>3 DEF Next, Reload, PageLoad, ClickDelete, DismissConfirm,
                          ConfirmDelete, SubmitUpload, StoreHandle, Discard, vars

(* Once the GET handler has rendered, the "empty photobook" message is    *)
(* shown exactly when no photo card is left, in every interleaving of     *)
(* DELETE responses, stale selections and reloads.                        *)
THEOREM EmptyMessageSafe == Spec => []EmptyMessageAccurate
<1>1. Init => EmptyMessageAccurate
  BY DEF Init, EmptyMessageAccurate
<1>2. QED
  BY <1>1, InvInit, InvStep, EmptyStep, PTL DEF Spec
=============================================================================
