-------------------------- MODULE MethodsDemoProofs --------------------------
(***************************************************************************)
(* Proofs about the methods demo panel (MethodsDemo.tla), for every set of *)
(* file names and every request bound.                                     *)
(***************************************************************************)
EXTENDS MethodsDemo, TLAPS

(* All rows come from one render: render replaces the whole list, and a    *)
(* delete only takes rows away.                                            *)
SameGen == \A a, b \in rows : a.gen = b.gen

(* A DELETE the store answered with success names a file it no longer has; *)
(* nothing on this page stores a file again.                               *)
DoneDeleteGone ==
    \A r \in net : r.kind = "DELETE" /\ r.stage = "done" /\ r.ok => r.file \notin server

(* The inductive invariant. *)
Inv == /\ TypeOK
       /\ SameGen
       /\ EmptyIndicatorAccurate
       /\ DoneDeleteGone

-----------------------------------------------------------------------------
(* A request built by NewReq is a well-formed request record. *)
LEMMA NewReqType ==
    ASSUME NEW i \in Nat, NEW k \in {"GET", "DELETE"}, NEW f \in Files \cup {None},
           NEW g \in Nat, k = "DELETE" => f \in Files
    PROVE  NewReq(i, k, f, g) \in Request
  BY DEF NewReq, Request

(* The store's answer to a request is a well-formed request record. *)
LEMMA AnswerType ==
    ASSUME NEW r \in Request, NEW ok \in BOOLEAN, NEW S \in SUBSET Files
    PROVE  [r EXCEPT !.stage = "done", !.ok = ok, !.snap = S] \in Request
  BY DEF Request

(* The rows a render creates are rows of one generation. *)
LEMMA RenderType ==
    ASSUME NEW S \in SUBSET Files, NEW g \in Nat
    PROVE  {[name |-> f, gen |-> g] : f \in S} \subseteq Row
  BY DEF Row

(* Rows of one generation with the same name are the same row. *)
LEMMA RowsUnique ==
    ASSUME rows \subseteq Row, SameGen
    PROVE  NoDuplicateRows
  <1> SUFFICES ASSUME NEW a \in rows, NEW b \in rows, a.name = b.name PROVE a = b
    BY DEF NoDuplicateRows
  <1>1. a.gen = b.gen
    BY DEF SameGen
  <1>2. a \in [name: Files, gen: Nat] /\ b \in [name: Files, gen: Nat]
    BY DEF Row
  <1>3. QED
    BY <1>1, <1>2

-----------------------------------------------------------------------------
(* The initial states satisfy the invariant. *)
LEMMA InvInit == Init => Inv
  BY DemoAssumption DEF Init, Inv, TypeOK, SameGen, EmptyIndicatorAccurate, DoneDeleteGone,
         Status, Shows, Alerts

(* Every step keeps the invariant. *)
LEMMA InvStep == Inv /\ [Next]_vars => Inv'
  <1> SUFFICES ASSUME Inv, [Next]_vars PROVE Inv'
    OBVIOUS
  <1> USE DEF Inv
  <1>1. CASE LoadFiles
    <2>1. NewReq(sent + 1, "GET", None, 0) \in Request
      BY NewReqType DEF TypeOK
    <2>2. sent' \in 0..MaxReq
      BY <1>1, DemoAssumption DEF LoadFiles, ClearUI, TypeOK
    <2>3. status' \in Status /\ alert' \in Alerts
      BY <1>1 DEF LoadFiles, ClearUI, Status, Shows, Alerts
    <2>4. net' \subseteq Request
      BY <1>1, <2>1 DEF LoadFiles, ClearUI, TypeOK
    <2>5. TypeOK'
      BY <1>1, <2>2, <2>3, <2>4 DEF LoadFiles, ClearUI, TypeOK
    <2>6. DoneDeleteGone'
      BY <1>1 DEF LoadFiles, ClearUI, DoneDeleteGone, NewReq
    <2>7. QED
      BY <1>1, <2>5, <2>6 DEF LoadFiles, ClearUI, SameGen, EmptyIndicatorAccurate
  <1>2. ASSUME NEW li \in rows, ClickDelete(li) PROVE Inv'
    <2>1. li \in Row
      BY DEF TypeOK
    <2>2. NewReq(sent + 1, "DELETE", li.name, li.gen) \in Request
      BY <2>1, NewReqType DEF TypeOK, Row
    <2>3. TypeOK'
      BY <1>2, <2>2, DemoAssumption DEF ClickDelete, TypeOK
    <2>4. DoneDeleteGone'
      BY <1>2 DEF ClickDelete, DoneDeleteGone, NewReq
    <2>5. QED
      BY <1>2, <2>3, <2>4 DEF ClickDelete, SameGen, EmptyIndicatorAccurate
  <1>3. ASSUME NEW r \in net, StoreHandle(r) PROVE Inv'
    <2>1. r \in Request
      BY DEF TypeOK
    <2>2. PICK ok \in BOOLEAN :
             /\ ok = (r.kind = "GET" \/ r.file \in server)
             /\ server' = IF r.kind = "DELETE" THEN server \ {r.file} ELSE server
             /\ net' = (net \ {r}) \cup {[r EXCEPT !.stage = "done", !.ok = ok, !.snap = server]}
      BY <1>3 DEF StoreHandle
    <2> DEFINE ans == [r EXCEPT !.stage = "done", !.ok = ok, !.snap = server]
    <2>3. TypeOK'
      <3>1. ans \in Request
        BY <2>1, AnswerType DEF TypeOK
      <3>2. QED
        BY <1>3, <2>2, <3>1 DEF StoreHandle, TypeOK
    <2>4. DoneDeleteGone'
      <3> SUFFICES ASSUME NEW q \in net', q.kind = "DELETE", q.stage = "done", q.ok
                   PROVE  q.file \notin server'
        BY DEF DoneDeleteGone
      <3>1. CASE q = ans
        BY <2>1, <2>2, <3>1 DEF Request
      <3>2. CASE q # ans
        BY <2>2, <3>2 DEF DoneDeleteGone
      <3>3. QED
        BY <3>1, <3>2
    <2>5. QED
      BY <1>3, <2>3, <2>4 DEF StoreHandle, SameGen, EmptyIndicatorAccurate
  <1>4. ASSUME NEW r \in net, Receive(r) PROVE Inv'
    <2>1. r \in Request
      BY DEF TypeOK
    <2>2. PICK ok \in Outcomes(r) :
             IF r.kind = "GET" THEN ReceiveList(r, ok) ELSE ReceiveDelete(r, ok)
      BY <1>4 DEF Receive
    <2>3. ok \in BOOLEAN
      BY <2>1 DEF Outcomes, Request
    <2>4. CASE r.kind = "GET"
      <3>1. ReceiveList(r, ok)
        BY <2>2, <2>4
      <3>2. CASE ok
        <4>1. rows' = {[name |-> f, gen |-> r.id] : f \in r.snap}
          BY <3>1, <3>2 DEF ReceiveList, Render, ShowError
        <4>2. rows' \subseteq Row
          BY <2>1, <4>1, RenderType DEF Request
        <4>3. TypeOK'
          BY <3>1, <3>2, <4>2 DEF ReceiveList, Render, ShowError, TypeOK, Status, Shows
        <4>4. SameGen'
          BY <4>1 DEF SameGen
        <4>5. EmptyIndicatorAccurate'
          BY <3>1, <3>2, <4>1 DEF ReceiveList, Render, ShowError, EmptyIndicatorAccurate
        <4>6. DoneDeleteGone'
          BY <3>1 DEF ReceiveList, Render, ShowError, DoneDeleteGone
        <4>7. QED
          BY <4>3, <4>4, <4>5, <4>6
      <3>3. CASE ~ok
        BY <3>1, <3>3 DEF ReceiveList, Render, ShowError, TypeOK, SameGen, EmptyIndicatorAccurate,
                           DoneDeleteGone, Status, Shows, Alerts
      <3>4. QED
        BY <3>2, <3>3
    <2>5. CASE r.kind # "GET"
      <3>1. ReceiveDelete(r, ok)
        BY <2>2, <2>5
      <3>2. CASE ok
        <4>1. r.file \in Files
          BY <2>1, <2>5 DEF Request
        <4>2. TypeOK'
          BY <3>1, <3>2, <4>1 DEF ReceiveDelete, ShowError, TypeOK, Status, Deleted
        <4>3. QED
          BY <3>1, <3>2, <4>2 DEF ReceiveDelete, ShowError, SameGen, EmptyIndicatorAccurate,
                                  DoneDeleteGone
      <3>3. CASE ~ok
        BY <3>1, <3>3 DEF ReceiveDelete, ShowError, TypeOK, SameGen, EmptyIndicatorAccurate,
                           DoneDeleteGone, Alerts
      <3>4. QED
        BY <3>2, <3>3
    <2>6. QED
      BY <2>4, <2>5
  <1>5. CASE UNCHANGED vars
    BY <1>5 DEF vars, TypeOK, SameGen, EmptyIndicatorAccurate, DoneDeleteGone
  <1>6. QED
    BY <1>1, <1>2, <1>3, <1>4, <1>5 DEF Next

(* The panel's state is always well typed. *)
THEOREM TypeCorrect == Spec => []TypeOK
  <1>1. Inv => TypeOK
    BY DEF Inv
  <1>2. QED
    BY <1>1, InvInit, InvStep, PTL DEF Spec

(* However responses of overlapping loadFiles and deletes interleave,      *)
(* #fileList never lists a file twice.                                     *)
THEOREM NoDuplicates == Spec => []NoDuplicateRows
  <1>1. Inv => NoDuplicateRows
    BY RowsUnique DEF Inv, TypeOK
  <1>2. QED
    BY <1>1, InvInit, InvStep, PTL DEF Spec

(* The empty indicator is shown only over an empty list, whichever handler *)
(* set it last.                                                            *)
THEOREM EmptyIndicatorSafe == Spec => []EmptyIndicatorAccurate
  <1>1. Inv => EmptyIndicatorAccurate
    BY DEF Inv
  <1>2. QED
    BY <1>1, InvInit, InvStep, PTL DEF Spec

-----------------------------------------------------------------------------
(* Every step keeps DeletedStatusTrue, given the invariant: the store only *)
(* loses files, and "Deleted: <name>" is written only when the DELETE's    *)
(* fetch settled with the store's success, which DoneDeleteGone ties to    *)
(* the file being gone.                                                    *)
LEMMA DeletedStep == Inv /\ DeletedStatusTrue /\ [Next]_vars => DeletedStatusTrue'
  <1> SUFFICES ASSUME Inv, DeletedStatusTrue, [Next]_vars PROVE DeletedStatusTrue'
    OBVIOUS
  <1>1. ASSUME UNCHANGED status, server' \subseteq server PROVE DeletedStatusTrue'
    BY <1>1 DEF DeletedStatusTrue
  <1>2. CASE LoadFiles
    BY <1>2 DEF LoadFiles, ClearUI, DeletedStatusTrue, Shows
  <1>3. ASSUME NEW r \in net, StoreHandle(r) PROVE DeletedStatusTrue'
    <2>1. server' \subseteq server
      BY <1>3 DEF StoreHandle
    <2>2. QED
      BY <1>3, <2>1, <1>1 DEF StoreHandle
  <1>4. ASSUME NEW r \in net, Receive(r) PROVE DeletedStatusTrue'
    <2>1. r \in Request
      BY DEF Inv, TypeOK
    <2>2. PICK ok \in Outcomes(r) :
             IF r.kind = "GET" THEN ReceiveList(r, ok) ELSE ReceiveDelete(r, ok)
      BY <1>4 DEF Receive
    <2>3. CASE r.kind = "GET"
      BY <2>2, <2>3 DEF ReceiveList, Render, ShowError, DeletedStatusTrue, Shows
    <2>4. CASE r.kind # "GET" /\ ok
      <3>1. r.kind = "DELETE" /\ r.stage = "done" /\ r.ok
        BY <2>1, <2>2, <2>4 DEF Outcomes, Request
      <3>2. r.file \notin server
        BY <3>1 DEF Inv, DoneDeleteGone
      <3>3. QED
        BY <2>2, <2>4, <3>2 DEF ReceiveDelete, ShowError, DeletedStatusTrue, Deleted
    <2>5. CASE r.kind # "GET" /\ ~ok
      BY <2>2, <2>5, <1>1 DEF ReceiveDelete, ShowError
    <2>6. QED
      BY <2>3, <2>4, <2>5
  <1>5. QED
    BY <1>1, <1>2, <1>3, <1>4 DEF Next, ClickDelete, vars

(* "Deleted: <name>" is displayed only for a file the store no longer     *)
(* has, however DELETEs, their failures and re-renders interleave.        *)
THEOREM DeletedStatusSafe == Spec => []DeletedStatusTrue
  <1>1. Init => DeletedStatusTrue
    BY DEF Init, DeletedStatusTrue, Shows
  <1>2. QED
    BY <1>1, InvInit, InvStep, DeletedStep, PTL DEF Spec

-----------------------------------------------------------------------------
(* Lemmas on the refinement mapping of StoreView. *)

(* Sending a request adds no answer. *)
LEMMA AnswersSend ==
    ASSUME NEW x, x.stage = "sent", net' = net \cup {x}
    PROVE  Answers' = Answers
  BY DEF Answers

(* Settling a request other than a GET removes no answer. *)
LEMMA AnswersSettleOther ==
    ASSUME NEW r, r.kind # "GET", net' = net \ {r}
    PROVE  Answers' = Answers
  BY DEF Answers

(* Settling a GET removes at most its own answer. *)
LEMMA AnswersSettleGet ==
    ASSUME NEW r, net' = net \ {r}
    PROVE  Answers' \subseteq Answers
  BY DEF Answers

(* The store's answer to a GET adds its current files to the answers; its *)
(* answer to a DELETE adds none.                                          *)
LEMMA AnswersStore ==
    ASSUME NEW r, NEW ans, r.stage = "sent", net' = (net \ {r}) \cup {ans},
           ans.stage = "done", ans.kind = r.kind, ans.snap = server
    PROVE  Answers' = IF r.kind = "GET" THEN Answers \cup {server} ELSE Answers
  BY DEF Answers

(* A render displays exactly the names of the list it renders. *)
LEMMA RenderNames ==
    ASSUME NEW S, NEW g, rows' = {[name |-> f, gen |-> g] : f \in S}
    PROVE  RowNames' = S
  <1>1. \A f \in S : f \in RowNames'
    <2> SUFFICES ASSUME NEW f \in S PROVE f \in RowNames'
      OBVIOUS
    <2>1. [name |-> f, gen |-> g] \in rows'
      OBVIOUS
    <2>2. QED
      BY <2>1 DEF RowNames
  <1>2. \A n \in RowNames' : n \in S
    BY DEF RowNames
  <1>3. QED
    BY <1>1, <1>2

(* Removing a row of one generation removes its name, or nothing. *)
LEMMA RemoveNames ==
    ASSUME rows \subseteq Row, SameGen, NEW f, NEW g,
           rows' = rows \ {[name |-> f, gen |-> g]}
    PROVE  RowNames' \in {RowNames, RowNames \ {f}}
  <1>1. CASE [name |-> f, gen |-> g] \in rows
    <2>1. \A li \in rows : li.name = f => li = [name |-> f, gen |-> g]
      BY <1>1 DEF SameGen, Row
    <2>2. RowNames' = RowNames \ {f}
      BY <1>1, <2>1 DEF RowNames
    <2>3. QED
      BY <2>2
  <1>2. CASE [name |-> f, gen |-> g] \notin rows
    BY <1>2 DEF RowNames
  <1>3. QED
    BY <1>1, <1>2

(* Every step of the panel is a step of StoreView or leaves its image *)
(* unchanged.                                                          *)
LEMMA ViewStep == Inv /\ [Next]_vars => [ViewAbs!ViewNext]_ViewAbs!viewVars
  <1> SUFFICES ASSUME Inv, [Next]_vars PROVE [ViewAbs!ViewNext]_ViewAbs!viewVars
    OBVIOUS
  <1> USE DEF Inv
  <1>1. CASE LoadFiles
    <2>1. Answers' = Answers
      BY <1>1, AnswersSend DEF LoadFiles, ClearUI, NewReq
    <2>2. RowNames' = {}
      BY <1>1 DEF LoadFiles, ClearUI, RowNames
    <2>3. ViewAbs!Clear
      BY <1>1, <2>1, <2>2 DEF LoadFiles, ClearUI, ViewAbs!Clear
    <2>4. QED
      BY <2>3 DEF ViewAbs!ViewNext
  <1>2. ASSUME NEW li \in rows, ClickDelete(li) PROVE UNCHANGED ViewAbs!viewVars
    <2>1. Answers' = Answers
      BY <1>2, AnswersSend DEF ClickDelete, NewReq
    <2>2. QED
      BY <1>2, <2>1 DEF ClickDelete, RowNames, ViewAbs!viewVars
  <1>3. ASSUME NEW r \in net, StoreHandle(r) PROVE [ViewAbs!ViewNext]_ViewAbs!viewVars
    <2>1. PICK ok \in BOOLEAN :
             /\ ok = (r.kind = "GET" \/ r.file \in server)
             /\ server' = IF r.kind = "DELETE" THEN server \ {r.file} ELSE server
             /\ net' = (net \ {r}) \cup {[r EXCEPT !.stage = "done", !.ok = ok, !.snap = server]}
      BY <1>3 DEF StoreHandle
    <2>2. r \in Request
      BY DEF TypeOK
    <2> DEFINE ans == [r EXCEPT !.stage = "done", !.ok = ok, !.snap = server]
    <2>3. Answers' = IF r.kind = "GET" THEN Answers \cup {server} ELSE Answers
      <3>1. ans.stage = "done" /\ ans.kind = r.kind /\ ans.snap = server
        BY <2>2 DEF Request
      <3>2. r.stage = "sent"
        BY <1>3 DEF StoreHandle
      <3>3. QED
        BY <2>1, <3>1, <3>2, AnswersStore
    <2>4. RowNames' = RowNames
      BY <1>3 DEF StoreHandle, RowNames
    <2>5. CASE r.kind = "GET"
      <3>1. ViewAbs!Answer
        BY <2>1, <2>3, <2>4, <2>5 DEF ViewAbs!Answer
      <3>2. QED
        BY <3>1 DEF ViewAbs!ViewNext
    <2>6. CASE r.kind # "GET" /\ r.file \in server
      <3>1. r.kind = "DELETE" /\ r.file \in Files
        BY <2>2, <2>6 DEF Request
      <3>2. ViewAbs!Delete(r.file)
        BY <2>1, <2>3, <2>4, <2>6, <3>1 DEF ViewAbs!Delete
      <3>3. QED
        BY <3>1, <3>2 DEF ViewAbs!ViewNext
    <2>7. CASE r.kind # "GET" /\ r.file \notin server
      <3>1. r.kind = "DELETE"
        BY <2>2, <2>7 DEF Request
      <3>2. QED
        BY <2>1, <2>3, <2>4, <2>7, <3>1 DEF ViewAbs!viewVars
    <2>8. QED
      BY <2>5, <2>6, <2>7
  <1>4. ASSUME NEW r \in net, Receive(r) PROVE [ViewAbs!ViewNext]_ViewAbs!viewVars
    <2>1. r \in Request
      BY DEF TypeOK
    <2>2. PICK ok \in Outcomes(r) :
             IF r.kind = "GET" THEN ReceiveList(r, ok) ELSE ReceiveDelete(r, ok)
      BY <1>4 DEF Receive
    <2>3. ok => r.stage = "done" /\ r.ok
      BY <2>1 DEF Outcomes, Request
    <2>4. CASE r.kind = "GET"
      <3>1. ReceiveList(r, ok)
        BY <2>2, <2>4
      <3>2. Answers' \subseteq Answers
        BY <3>1, AnswersSettleGet DEF ReceiveList, Render, ShowError
      <3>3. CASE ok
        <4>1. r.snap \in Answers
          BY <2>3, <2>4, <3>3 DEF Answers
        <4>2. RowNames' = r.snap
          BY <3>1, <3>3, RenderNames DEF ReceiveList, Render, ShowError
        <4>3. ViewAbs!Show(r.snap)
          BY <3>1, <3>2, <4>1, <4>2 DEF ReceiveList, Render, ShowError, ViewAbs!Show
        <4>4. QED
          BY <4>1, <4>3 DEF ViewAbs!ViewNext
      <3>4. CASE ~ok
        <4>1. ViewAbs!Forget
          BY <3>1, <3>2, <3>4 DEF ReceiveList, Render, ShowError, ViewAbs!Forget, RowNames
        <4>2. QED
          BY <4>1 DEF ViewAbs!ViewNext
      <3>5. QED
        BY <3>3, <3>4
    <2>5. CASE r.kind # "GET"
      <3>1. ReceiveDelete(r, ok)
        BY <2>2, <2>5
      <3>2. Answers' = Answers
        BY <2>5, <3>1, AnswersSettleOther DEF ReceiveDelete, ShowError
      <3>3. CASE ok
        <4>1. r.file \notin server /\ r.file \in Files
          BY <2>1, <2>3, <2>5, <3>3 DEF DoneDeleteGone, Request
        <4>2. RowNames' \in {RowNames, RowNames \ {r.file}}
          BY <3>1, <3>3, RemoveNames DEF ReceiveDelete, ShowError, TypeOK
        <4>3. CASE RowNames' = RowNames \ {r.file}
          <5>1. ViewAbs!Remove(r.file)
            BY <3>1, <3>2, <4>1, <4>3 DEF ReceiveDelete, ShowError, ViewAbs!Remove
          <5>2. QED
            BY <4>1, <5>1 DEF ViewAbs!ViewNext
        <4>4. CASE RowNames' = RowNames
          BY <3>1, <3>2, <4>4 DEF ReceiveDelete, ShowError, ViewAbs!viewVars
        <4>5. QED
          BY <4>2, <4>3, <4>4
      <3>4. CASE ~ok
        BY <3>1, <3>2, <3>4 DEF ReceiveDelete, ShowError, ViewAbs!viewVars, RowNames
      <3>5. QED
        BY <3>3, <3>4
    <2>6. QED
      BY <2>4, <2>5
  <1>5. CASE UNCHANGED vars
    BY <1>5 DEF vars, ViewAbs!viewVars, RowNames, Answers
  <1>6. QED
    BY <1>1, <1>2, <1>3, <1>4, <1>5 DEF Next

(* The panel implements StoreView: whatever the order in which the store  *)
(* handles and the browser settles overlapping loadFiles and deletes,      *)
(* #fileList only shows lists the store returned, minus names it deleted.  *)
THEOREM ImplementsStoreView == Spec => ShowsStoreLists
  <1>1. Init => ViewAbs!ViewInit
    BY DEF Init, ViewAbs!ViewInit, RowNames, Answers
  <1>2. QED
    BY <1>1, InvInit, InvStep, ViewStep, PTL DEF Spec, ShowsStoreLists, ViewAbs!ViewSpec
=============================================================================
