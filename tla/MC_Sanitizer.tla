---------------------------- MODULE MC_Sanitizer ----------------------------
EXTENDS Sanitizer
=============================================================================
