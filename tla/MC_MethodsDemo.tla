--------------------------- MODULE MC_MethodsDemo ---------------------------
(* The methods demo panel on three file names. *)
EXTENDS MethodsDemo

CONSTANTS f1, f2, f3

MCFiles == {f1, f2, f3}
=============================================================================
