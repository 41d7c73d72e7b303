------------------------------ MODULE StoreView ------------------------------
(***************************************************************************)
(* What a client of the file store can promise about the list it displays  *)
(* when list requests and deletes overlap: the display is cleared, or      *)
(* replaced by a list the store returned (perhaps not its latest), or it   *)
(* loses a name the store no longer has.  It never shows a list of its own *)
(* making and never drops a name that is still stored.                    *)
(***************************************************************************)
CONSTANTS Files

VARIABLES
    stored,   \* the files in the store
    shown,    \* the names the client displays
    answers   \* the lists the store has returned and the client not yet used

viewVars == <<stored, shown, answers>>

ViewInit ==
    /\ stored \in SUBSET Files
    /\ shown = {}
    /\ answers = {}

(* The store answers a list request with its current files. *)
Answer ==
    /\ answers' = answers \cup {stored}
    /\ UNCHANGED <<stored, shown>>

(* The store deletes one of its files. *)
Delete(f) ==
    /\ f \in stored
    /\ stored' = stored \ {f}
    /\ UNCHANGED <<shown, answers>>

(* The client clears its display. *)
Clear ==
    /\ shown' = {}
    /\ UNCHANGED <<stored, answers>>

(* The client displays a list the store returned; it may use up answers. *)
Show(S) ==
    /\ S \in answers
    /\ shown' = S
    /\ answers' \subseteq answers
    /\ UNCHANGED stored

(* Answers are lost or used up without being displayed. *)
Forget ==
    /\ answers' \subseteq answers
    /\ UNCHANGED <<stored, shown>>

(* The client drops a name the store no longer has. *)
Remove(f) ==
    /\ f \notin stored
    /\ shown' = shown \ {f}
    /\ UNCHANGED <<stored, answers>>

ViewNext ==
    \/ Answer
    \/ Clear
    \/ Forget
    \/ \E S \in answers : Show(S)
    \/ \E f \in Files : Delete(f) \/ Remove(f)

ViewSpec == ViewInit /\ [][ViewNext]_viewVars
=============================================================================
