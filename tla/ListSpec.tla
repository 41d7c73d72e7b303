------------------------------- MODULE ListSpec -------------------------------
(***************************************************************************)
(* What spec.md (sections 4.2 and 4.3) promises of a list of the stored    *)
(* files kept by a sync client, reduced to the names displayed and the     *)
(* names stored.  The displayed list changes only when a list() succeeds   *)
(* (replaceAll with the store's files) or when a delete the store applied  *)
(* is confirmed (confirmDeleted).  A failed list() leaves it unchanged.    *)
(* The store changes only by deleting a stored file.                       *)
(***************************************************************************)
CONSTANTS Files

VARIABLES
    stored,   \* the files in the store
    entries   \* the names the client displays

listVars == <<stored, entries>>

ListInit ==
    /\ stored \in SUBSET Files
    /\ entries = {}

(* list() succeeded: the display becomes the store's current files. *)
ReplaceAll ==
    /\ entries' = stored
    /\ UNCHANGED stored

(* The store deletes one of its files. *)
StoreDelete(f) ==
    /\ f \in stored
    /\ stored' = stored \ {f}
    /\ UNCHANGED entries

(* delete(f) succeeded: the name leaves the display. *)
ConfirmDeleted(f) ==
    /\ f \in entries
    /\ f \notin stored
    /\ entries' = entries \ {f}
    /\ UNCHANGED stored

ListNext ==
    \/ ReplaceAll
    \/ \E f \in Files : StoreDelete(f) \/ ConfirmDeleted(f)

ListSpecification == ListInit /\ [][ListNext]_listVars
=============================================================================
