---------------------------- MODULE MC_Countdown ----------------------------
(* The redirection countdown with up to three calls of redirectionCountdown. *)
EXTENDS Countdown
=============================================================================
