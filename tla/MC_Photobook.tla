---------------------------- MODULE MC_Photobook ----------------------------
(* Photobook on three file names, two of them images. *)
EXTENDS PhotobookProofs

CONSTANTS f1, f2, f3

MCFiles == {f1, f2, f3}
MCImageFiles == {f1, f2}
=============================================================================
