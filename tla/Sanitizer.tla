------------------------------ MODULE Sanitizer ------------------------------
(***************************************************************************)
(* The upload form of src/Webserv/www/scripts/feature-photobook.js up to   *)
(* the POST: the file input's change handler (MIME check, name prefill),   *)
(* the user editing the name, and the submit handler's renaming of the     *)
(* file: base from the name input or the file name without extension,      *)
(* trimmed, stripped of characters outside [a-zA-Z0-9-_ ], runs of spaces  *)
(* made "-", "photo" if nothing is left, then the original extension      *)
(* lower-cased.                                                            *)
(*                                                                         *)
(* A name is a sequence of character classes: "p" a lower-case letter, "P" *)
(* an upper-case one, "0" a digit, "-" a dash, "_" an underscore, " " a    *)
(* space, "\t" any other white space (tab, no-break space, ...), "." a     *)
(* dot, "/" a slash and "!" any other character.  The image extensions of  *)
(* isImageFile are abstracted to the one-letter extension "p" (any case).  *)
(***************************************************************************)
EXTENDS Naturals, Sequences, FiniteSets

CONSTANTS
    None,      \* no file selected
    NameLen,   \* bound on the length of a file name
    InputLen   \* bound on the length of a name the user types

ASSUME SanitizerAssumption == NameLen \in Nat /\ InputLen \in Nat

Chars == {"p", "P", "0", "-", "_", " ", "\t", ".", "/", "!"}

(* Characters a file name can hold (a slash cannot). *)
FileChars == Chars \ {"/"}

(* What /[^a-zA-Z0-9-_ ]+/g keeps. *)
Kept == {"p", "P", "0", "-", "_", " "}

(* The white space String.prototype.trim removes. *)
Blanks == {" ", "\t"}

Photo == <<"p", "p", "p", "p", "p">>   \* the literal "photo"

Lower(c) == IF c = "P" THEN "p" ELSE c

(* Strings of at most n characters of S. *)
Strings(S, n) == UNION {[1..k -> S] : k \in 0..n}

Min(S) == CHOOSE i \in S : \A j \in S : i <= j

Max(S) == CHOOSE i \in S : \A j \in S : j <= i

(* The k-th smallest index of the set of indices S. *)
NthOf(S, k) == CHOOSE i \in S : Cardinality({j \in S : j <= i}) = k

(* The characters of s at the indices S, in their order in s. *)
AtPositions(s, S) == [k \in 1..Cardinality(S) |-> s[NthOf(S, k)]]

(* The index of the last dot, 0 if none. *)
LastDot(s) ==
    IF \E i \in 1..Len(s) : s[i] = "."
      THEN CHOOSE i \in 1..Len(s) : s[i] = "." /\ \A j \in i + 1..Len(s) : s[j] # "."
      ELSE 0

(* s.replace(/\.[^/.]+$/, ""): drop a last dot followed by at least one    *)
(* character, none of them a slash.                                        *)
StripExt(s) ==
    LET d == LastDot(s) IN
    IF d \in 1..Len(s) - 1 /\ \A i \in d + 1..Len(s) : s[i] # "/"
      THEN SubSeq(s, 1, d - 1)
      ELSE s

(* A plausible bug, used to check that the properties can fail: an      *)
(* extension pattern that only accepts lower-case letters.               *)
ExtOfLowerLetters(s) ==
    LET d == LastDot(s) IN
    IF d \in 1..Len(s) - 1 /\ \A i \in d + 1..Len(s) : s[i] = "p"
      THEN SubSeq(s, d, Len(s))
      ELSE << >>

(* (s.match(/\.[^.]+$/) || [""])[0].toLowerCase() *)
ExtOf(s) ==
    LET d == LastDot(s) IN
    IF d \in 1..Len(s) - 1
      THEN [i \in 1..Len(s) - d + 1 |-> Lower(s[d + i - 1])]
      ELSE << >>

(* String.prototype.trim: drop the white space at both ends. *)
Trim(s) ==
    LET I == {i \in 1..Len(s) : s[i] \notin Blanks} IN
    IF I = {} THEN << >> ELSE SubSeq(s, Min(I), Max(I))

(* .replace(/[^a-zA-Z0-9-_ ]+/g, ""): drop the characters outside Kept. *)
StripChars(s) == AtPositions(s, {i \in 1..Len(s) : s[i] \in Kept})

(* .replace(/\s+/g, "-"): each run of spaces becomes one dash (StripChars *)
(* has removed all other white space).  The first space of a run stays, as *)
(* a dash, and the spaces after it go.                                     *)
DashBlanks(s) ==
    LET t == AtPositions(s, {i \in 1..Len(s) : s[i] # " " \/ i = 1 \/ s[i - 1] # " "})
    IN  [k \in DOMAIN t |-> IF t[k] = " " THEN "-" ELSE t[k]]

(* isImageFile: /\.(png|...)$/i *)
IsImageFile(s) ==
    Len(s) >= 2 /\ s[Len(s) - 1] = "." /\ Lower(s[Len(s)]) = "p"

VARIABLES
    file,       \* modalFileInput.files[0]: its name, or None
    nameValue,  \* photoName.value
    ready,      \* #fileReady shown
    upload      \* the renamed File the last step sent (the handler's local
                \* renamed): its source name and name, or None

vars == <<file, nameValue, ready, upload>>

FileNames == Strings(FileChars, NameLen)

-----------------------------------------------------------------------------
(* Plausible bugs of the renaming, used to check that the properties can   *)
(* fail.                                                                   *)

(* A renaming without the || "photo" fallback. *)
RenamedNoFallback(f, v) ==
    LET rawBase == Trim(IF v # << >> THEN v ELSE StripExt(f))
    IN  DashBlanks(StripChars(rawBase)) \o ExtOf(f)

-----------------------------------------------------------------------------
(* The submit handler's name for the renamed File, for the picked file    *)
(* named f and the name input holding v.                                   *)
Renamed(f, v) ==
    LET rawBase == Trim(IF v # << >> THEN v ELSE StripExt(f))
        safeBase == DashBlanks(StripChars(rawBase))
    IN  (IF safeBase = << >> THEN Photo ELSE safeBase) \o ExtOf(f)

-----------------------------------------------------------------------------
Init ==
    /\ file = None
    /\ nameValue = << >>
    /\ ready = FALSE
    /\ upload = None

(* The change handler, for a chosen file named f whose MIME type is or is  *)
(* not one of the four image types.                                        *)
ChooseFile(f, typeOk) ==
    /\ file' = IF typeOk THEN f ELSE None
    /\ ready' = typeOk
    /\ nameValue' = IF typeOk THEN StripExt(f) ELSE << >>
    /\ upload' = None

(* The file chooser closed with no file. *)
ClearFile ==
    /\ file' = None
    /\ ready' = FALSE
    /\ nameValue' = << >>
    /\ upload' = None

(* The user types a name. *)
EditName(s) ==
    /\ nameValue' = s
    /\ upload' = None
    /\ UNCHANGED <<file, ready>>

(* The submit handler up to the POST: return without a file, else rename. *)
Submit ==
    /\ file # None
    /\ upload' = [src |-> file, name |-> Renamed(file, nameValue)]
    /\ UNCHANGED <<file, nameValue, ready>>

Next ==
    \/ \E f \in FileNames, typeOk \in BOOLEAN : ChooseFile(f, typeOk)
    \/ ClearFile
    \/ \E s \in Strings(Chars, InputLen) : EditName(s)
    \/ Submit

Spec == Init /\ [][Next]_vars

-----------------------------------------------------------------------------
(* t ends with s. *)
IsSuffix(s, t) == Len(s) <= Len(t) /\ SubSeq(t, Len(t) - Len(s) + 1, Len(t)) = s

(* The stored name is a non-empty base of letters, digits, dashes and     *)
(* underscores (no space, dot or slash survives the submit handler's       *)
(* filter and dash rule) followed by the original extension lower-cased,   *)
(* whatever the user typed and whatever the file was called (spec.md 4.1). *)
SafeRename ==
    upload # None =>
        LET e == ExtOf(upload.src)
            n == upload.name
        IN  /\ Len(n) > Len(e)
            /\ IsSuffix(e, n)
            /\ \A i \in 1..Len(n) - Len(e) : n[i] \in {"p", "P", "0", "-", "_"}

(* An upload is listed by the photobook's GET filter exactly when the     *)
(* file the user picked has an image name: renaming neither hides an image *)
(* nor makes an image of another file.                                    *)
ImageStaysImage ==
    upload # None => (IsImageFile(upload.name) <=> IsImageFile(upload.src))

=============================================================================
