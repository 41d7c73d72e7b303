--------------------------- MODULE SanitizerProofs ---------------------------
(***************************************************************************)
(* Proofs about the upload renaming of feature-photobook.js, for names of  *)
(* every length: the name the submit handler gives the File is a non-empty *)
(* base of letters, digits, dashes and underscores followed by the        *)
(* original extension lower-cased, and it is an image name exactly when   *)
(* the picked file's is.                                                  *)
(***************************************************************************)
EXTENDS Sanitizer, FiniteSetTheorems, SequenceTheorems, TLAPS

(* A non-empty set of naturals has a least element. *)
LEMMA NatMin ==
    ASSUME NEW S \in SUBSET Nat, S # {}
    PROVE  Min(S) \in S /\ \A j \in S : Min(S) <= j
<1>1. \E x \in S : \A y \in S : ~(<<y, x>> \in OpToRel(<, Nat))
    BY NatLessThanWellFounded, WFMin
<1>2. \A x, y \in Nat : <<y, x>> \in OpToRel(<, Nat) <=> y < x
    BY Zenon DEF OpToRel
<1>3. PICK x \in S : \A y \in S : ~(y < x)
    BY <1>1, <1>2, Zenon
<1>4. \A y \in S : x <= y
    BY <1>3
<1>5. QED
    BY <1>4 DEF Min

(* A non-empty set of naturals below a bound has a greatest element. *)
LEMMA NatMax ==
    ASSUME NEW n \in Nat, NEW S \in SUBSET (0..n), S # {}
    PROVE  Max(S) \in S /\ \A j \in S : j <= Max(S)
<1> DEFINE T == {n - j : j \in S}
<1>1. T \in SUBSET Nat /\ T # {}
  <2>1. \A j \in S : n - j \in Nat
      OBVIOUS
  <2>2. QED
      BY <2>1
<1>2. Min(T) \in T /\ \A t \in T : Min(T) <= t
    BY <1>1, NatMin
<1>3. PICK j0 \in S : Min(T) = n - j0
    BY <1>2
<1>4. \A j \in S : Min(T) <= n - j
    BY <1>2
<1>5. \A j \in S : j <= j0
    BY <1>3, <1>4
<1>6. QED
    BY <1>5 DEF Max
(* A set of indices below n has an element of every rank from 1 to its    *)
(* size: the k-th index that NthOf chooses exists.                         *)
LEMMA RankExists ==
    ASSUME NEW n \in Nat, NEW S \in SUBSET (1..n), NEW k \in 1..Cardinality(S)
    PROVE  \E i \in S : Cardinality({j \in S : j <= i}) = k
<1> DEFINE Upto(i) == {j \in S : j <= i}
           c(i) == Cardinality(Upto(i))
<1>1. IsFiniteSet(S) /\ Cardinality(S) \in Nat
  <2>1. IsFiniteSet(1..n)
      BY FS_Interval
  <2>2. IsFiniteSet(S)
      BY <2>1, FS_Subset
  <2>3. QED
      BY <2>2, FS_CardinalityType
<1>2. \A i \in Int : IsFiniteSet(Upto(i)) /\ c(i) \in Nat
  <2> TAKE i \in Int
  <2>1. IsFiniteSet(Upto(i))
      BY <1>1, FS_Subset DEF Upto
  <2>2. QED
      BY <2>1, FS_CardinalityType DEF c
<1>3. c(0) = 0
  <2>1. \A j \in S : ~(j <= 0)
      OBVIOUS
  <2>2. Upto(0) = {}
      BY <2>1, Zenon DEF Upto
  <2>3. QED
      BY <2>2, FS_EmptySet DEF c
<1>4. c(n) = Cardinality(S)
  <2>1. \A j \in S : j <= n
      OBVIOUS
  <2>2. Upto(n) = S
      BY <2>1, Zenon DEF Upto
  <2>3. QED
      BY <2>2 DEF c
<1>5. \A i \in 1..n : c(i) = IF i \in S THEN c(i - 1) + 1 ELSE c(i - 1)
  <2> TAKE i \in 1..n
  <2>1. \A j \in S : (j <= i) <=> (j <= i - 1 \/ j = i)
      OBVIOUS
  <2>2. ~(i <= i - 1)
      OBVIOUS
  <2>3. CASE i \in S
    <3>1. Upto(i) = Upto(i - 1) \cup {i} /\ i \notin Upto(i - 1)
        BY <2>1, <2>2, <2>3, Zenon DEF Upto
    <3>2. IsFiniteSet(Upto(i - 1))
      <4>1. i - 1 \in Int
          OBVIOUS
      <4>2. QED
          BY <1>2, <4>1, Zenon
    <3>3. Cardinality(Upto(i)) = Cardinality(Upto(i - 1)) + 1
        BY <3>1, <3>2, FS_AddElement
    <3>4. QED
        BY <2>3, <3>3 DEF c
  <2>4. CASE i \notin S
    <3>1. Upto(i) = Upto(i - 1)
        BY <2>1, <2>4, Zenon DEF Upto
    <3>2. QED
        BY <2>4, <3>1 DEF c
  <2>5. QED
      BY <2>3, <2>4
<1> DEFINE T == {i \in 0..n : c(i) >= k}
<1>6. T \in SUBSET Nat /\ n \in T
  <2>1. n \in 0..n /\ c(n) >= k
      BY <1>1, <1>4
  <2>2. 0..n \subseteq Nat
      OBVIOUS
  <2>3. QED
      BY <2>1, <2>2, Zenon DEF T
<1>7. PICK m \in T : \A t \in T : m <= t
    BY <1>6, NatMin
<1>8. m \in 0..n /\ c(m) >= k
    BY <1>7, Zenon DEF T
<1>9. m \in 1..n
    BY <1>3, <1>8
<1>10. c(m - 1) \in Nat /\ c(m) \in Nat
  <2>1. m - 1 \in Int /\ m \in Int
      BY <1>9
  <2>2. QED
      BY <1>2, <2>1, Zenon
<1>11. c(m - 1) < k
  <2>1. m - 1 \in 0..n /\ ~(m <= m - 1)
      BY <1>9
  <2>2. m - 1 \notin T
      BY <1>7, <2>1
  <2>3. ~(c(m - 1) >= k)
      BY <2>1, <2>2, Zenon DEF T
  <2>4. QED
      BY <1>10, <2>3
<1>12. m \in S /\ c(m) = k
    BY <1>5, <1>8, <1>9, <1>10, <1>11
<1>13. QED
    BY <1>12 DEF c, Upto
(* The characters of s at a set of its indices make a sequence as long as *)
(* the set, of characters found at those indices.                          *)
LEMMA AtPositionsType ==
    ASSUME NEW X, NEW s \in Seq(X), NEW S \in SUBSET (1..Len(s)),
           NEW Y, \A i \in S : s[i] \in Y
    PROVE  /\ AtPositions(s, S) \in Seq(Y)
           /\ Len(AtPositions(s, S)) = Cardinality(S)
<1>1. Len(s) \in Nat
    BY LenProperties
<1>2. Cardinality(S) \in Nat
  <2>1. IsFiniteSet(1..Len(s))
      BY <1>1, FS_Interval
  <2>2. IsFiniteSet(S)
      BY <2>1, FS_Subset
  <2>3. QED
      BY <2>2, FS_CardinalityType
<1>3. \A k \in 1..Cardinality(S) : NthOf(S, k) \in S
  <2> TAKE k \in 1..Cardinality(S)
  <2>1. \E i \in S : Cardinality({j \in S : j <= i}) = k
      BY <1>1, RankExists
  <2>2. QED
      BY <2>1, Zenon DEF NthOf
<1>4. \A k \in 1..Cardinality(S) : s[NthOf(S, k)] \in Y
    BY <1>3
<1>5. QED
    BY <1>2, <1>4 DEF AtPositions

(* A slice of a sequence between two of its indices is a sequence of its *)
(* characters.                                                             *)
LEMMA SubSeqType ==
    ASSUME NEW X, NEW s \in Seq(X), NEW a \in Nat \ {0}, NEW b \in 0..Len(s)
    PROVE  SubSeq(s, a, b) \in Seq(X)
<1>1. \A i \in a..b : s[i] \in X
  <2>1. s \in [1..Len(s) -> X]
      BY LenProperties
  <2>2. QED
      BY <2>1
<1>2. QED
    BY <1>1, SubSeqProperties

(* Trimming leaves a sequence of the characters it had. *)
LEMMA TrimType ==
    ASSUME NEW X, NEW s \in Seq(X)
    PROVE  Trim(s) \in Seq(X)
<1> DEFINE I == {i \in 1..Len(s) : s[i] \notin Blanks}
<1>1. Len(s) \in Nat
    BY LenProperties
<1>2. CASE I = {}
  <2>1. Trim(s) = << >>
      BY <1>2 DEF Trim, I
  <2>2. QED
      BY <2>1, EmptySeq
<1>3. CASE I # {}
  <2>1. I \in SUBSET Nat /\ I \in SUBSET (0..Len(s))
    <3>1. \A i \in 1..Len(s) : i \in Nat /\ i \in 0..Len(s)
        BY <1>1
    <3>2. QED
        BY <3>1, Zenon DEF I
  <2>2. Min(I) \in I
      BY <1>3, <2>1, NatMin
  <2>3. Max(I) \in I
      BY <1>1, <1>3, <2>1, NatMax
  <2>4. PICK lo, hi : lo = Min(I) /\ hi = Max(I)
      OBVIOUS
  <2>5. lo \in 1..Len(s) /\ hi \in 1..Len(s)
      BY <2>2, <2>3, <2>4, Zenon DEF I
  <2>6. lo \in Nat \ {0} /\ hi \in 0..Len(s)
      BY <1>1, <2>5
  <2>7. SubSeq(s, lo, hi) \in Seq(X)
      BY <2>6, SubSeqType
  <2>8. Trim(s) = SubSeq(s, lo, hi)
      BY <1>3, <2>4, Zenon DEF Trim, I
  <2>9. QED
      BY <2>7, <2>8
<1>4. QED
    BY <1>2, <1>3

(* Stripping the extension leaves a sequence of the characters it had. *)
LEMMA StripExtType ==
    ASSUME NEW X, NEW s \in Seq(X)
    PROVE  StripExt(s) \in Seq(X)
<1> DEFINE d == LastDot(s)
<1>1. Len(s) \in Nat
    BY LenProperties
<1>2. CASE d \in 1..Len(s) - 1 /\ \A i \in d + 1..Len(s) : s[i] # "/"
  <2>2. SubSeq(s, 1, d - 1) \in Seq(X)
      BY <1>1, <1>2, SubSeqType
  <2>3. QED
      BY <1>2, <2>2 DEF StripExt
<1>3. CASE ~(d \in 1..Len(s) - 1 /\ \A i \in d + 1..Len(s) : s[i] # "/")
    BY <1>3 DEF StripExt
<1>4. QED
    BY <1>2, <1>3
-----------------------------------------------------------------------------
(* The renaming's stages, named for the proofs. *)

(* The characters a base may end up with: letters, digits, dashes and   *)
(* underscores.                                                           *)
SafeChars == {"p", "P", "0", "-", "_"}

(* safeBase before the || "photo" fallback. *)
SafeBase(f, v) == DashBlanks(StripChars(Trim(IF v # << >> THEN v ELSE StripExt(f))))

(* safeBase after it. *)
Base(f, v) == IF SafeBase(f, v) = << >> THEN Photo ELSE SafeBase(f, v)

(* A function on 1..n is a sequence. *)
LEMMA FunIsSeq ==
    ASSUME NEW S, NEW n \in Nat, NEW g \in [1..n -> S]
    PROVE  g \in Seq(S)
BY SeqDef

(* Dropping the characters outside the pattern leaves only kept ones. *)
LEMMA StripCharsType ==
    ASSUME NEW s \in Seq(Chars)
    PROVE  StripChars(s) \in Seq(Kept)
<1>1. PICK K : K = {i \in 1..Len(s) : s[i] \in Kept}
    OBVIOUS
<1>2. K \in SUBSET (1..Len(s)) /\ \A i \in K : s[i] \in Kept
    BY <1>1, Zenon
<1>3. AtPositions(s, K) \in Seq(Kept)
    BY <1>2, AtPositionsType
<1>4. QED
    BY <1>1, <1>3, Zenon DEF StripChars

(* Making each run of spaces one dash leaves letters, digits, dashes and  *)
(* underscores.                                                           *)
LEMMA DashBlanksType ==
    ASSUME NEW s \in Seq(Kept)
    PROVE  DashBlanks(s) \in Seq(SafeChars)
<1>1. PICK D : D = {i \in 1..Len(s) : s[i] # " " \/ i = 1 \/ s[i - 1] # " "}
    OBVIOUS
<1>2. s \in [1..Len(s) -> Kept]
    BY LenProperties
<1>3. D \in SUBSET (1..Len(s)) /\ \A i \in D : s[i] \in Kept
  <2>1. D \in SUBSET (1..Len(s))
      BY <1>1, Zenon
  <2>2. QED
      BY <1>2, <2>1
<1>4. PICK t : t = AtPositions(s, D)
    OBVIOUS
<1>5. t \in Seq(Kept)
    BY <1>3, <1>4, AtPositionsType
<1>6. t \in [1..Len(t) -> Kept] /\ Len(t) \in Nat
    BY <1>5, LenProperties
<1>7. DashBlanks(s) = [k \in 1..Len(t) |-> IF t[k] = " " THEN "-" ELSE t[k]]
    BY <1>1, <1>4, <1>6, Zenon DEF DashBlanks
<1>8. [k \in 1..Len(t) |-> IF t[k] = " " THEN "-" ELSE t[k]] \in Seq(SafeChars)
  <2>1. [k \in 1..Len(t) |-> IF t[k] = " " THEN "-" ELSE t[k]] \in [1..Len(t) -> SafeChars]
      BY <1>6 DEF Kept, SafeChars
  <2>2. QED
      BY <1>6, <2>1, FunIsSeq
<1>9. QED
    BY <1>7, <1>8

(* The base is a non-empty sequence of letters, digits, dashes and       *)
(* underscores.                                                           *)
LEMMA BaseType ==
    ASSUME NEW f \in Seq(Chars), NEW v \in Seq(Chars)
    PROVE  Base(f, v) \in Seq(SafeChars) /\ Len(Base(f, v)) \in Nat \ {0}
<1>1. (IF v # << >> THEN v ELSE StripExt(f)) \in Seq(Chars)
    BY StripExtType
<1>2. Trim(IF v # << >> THEN v ELSE StripExt(f)) \in Seq(Chars)
    BY <1>1, TrimType
<1>3. StripChars(Trim(IF v # << >> THEN v ELSE StripExt(f))) \in Seq(Kept)
    BY <1>2, StripCharsType
<1>4. SafeBase(f, v) \in Seq(SafeChars)
    BY <1>3, DashBlanksType DEF SafeBase
<1>5. Photo \in Seq(SafeChars) /\ Len(Photo) = 5
    BY DEF Photo, SafeChars
<1>6. CASE SafeBase(f, v) = << >>
  <2>1. Base(f, v) = Photo
      BY <1>6, Zenon DEF Base
  <2>2. Base(f, v) \in Seq(SafeChars)
      BY <1>5, <2>1, Zenon
  <2>3. Len(Base(f, v)) = 5
      BY <1>5, <2>1, Zenon
  <2>4. Len(Base(f, v)) \in Nat \ {0}
      BY <2>3
  <2>5. QED
      BY <2>2, <2>4
<1>7. CASE SafeBase(f, v) # << >>
    BY <1>4, <1>7, EmptySeq DEF Base
<1>8. QED
    BY <1>6, <1>7
(* The extension is the lower-cased tail of the name from its last dot on, *)
(* when that dot has a character after it, and empty otherwise.            *)
LEMMA ExtOfShape ==
    ASSUME NEW s \in Seq(Chars)
    PROVE  /\ ExtOf(s) \in Seq(Chars)
           /\ LastDot(s) \in 1..Len(s) - 1 =>
                 /\ Len(ExtOf(s)) = Len(s) - LastDot(s) + 1
                 /\ \A i \in 1..Len(ExtOf(s)) : ExtOf(s)[i] = Lower(s[LastDot(s) + i - 1])
           /\ ~(LastDot(s) \in 1..Len(s) - 1) => ExtOf(s) = << >>
<1>1. PICK d : d = LastDot(s)
    OBVIOUS
<1>2. Len(s) \in Nat /\ s \in [1..Len(s) -> Chars]
    BY LenProperties
<1>3. CASE d \in 1..Len(s) - 1
  <2>1. ExtOf(s) = [i \in 1..Len(s) - d + 1 |-> Lower(s[d + i - 1])]
      BY <1>1, <1>3, Zenon DEF ExtOf
  <2>2. [i \in 1..Len(s) - d + 1 |-> Lower(s[d + i - 1])] \in [1..Len(s) - d + 1 -> Chars]
    <3>1. \A i \in 1..Len(s) - d + 1 : d + i - 1 \in 1..Len(s)
        BY <1>2, <1>3
    <3>2. \A i \in 1..Len(s) - d + 1 : s[d + i - 1] \in Chars
        BY <1>2, <3>1
    <3>3. \A c \in Chars : Lower(c) \in Chars
        BY DEF Lower, Chars
    <3>4. QED
        BY <3>2, <3>3
  <2>3. ExtOf(s) \in Seq(Chars)
    <3>1. Len(s) - d + 1 \in Nat
        BY <1>2, <1>3
    <3>2. [i \in 1..Len(s) - d + 1 |-> Lower(s[d + i - 1])] \in Seq(Chars)
        BY <2>2, <3>1, FunIsSeq
    <3>3. QED
        BY <2>1, <3>2, Zenon
  <2>4. Len(ExtOf(s)) = Len(s) - d + 1
      BY <1>2, <1>3, <2>1, <2>3, LenProperties
  <2>5. QED
      BY <1>1, <1>3, <2>1, <2>3, <2>4
<1>4. CASE ~(d \in 1..Len(s) - 1)
  <2>1. ExtOf(s) = << >>
      BY <1>1, <1>4, Zenon DEF ExtOf
  <2>2. QED
      BY <1>1, <1>4, <2>1, EmptySeq
<1>5. QED
    BY <1>3, <1>4

(* A dot just before a last character that is not a dot is the last dot. *)
LEMMA LastDotAt ==
    ASSUME NEW s \in Seq(Chars), Len(s) >= 2, s[Len(s) - 1] = ".", s[Len(s)] # "."
    PROVE  LastDot(s) = Len(s) - 1
<1>1. /\ Len(s) - 1 \in 1..Len(s)
      /\ \A j \in Len(s) - 1 + 1..Len(s) : s[j] # "."
    BY LenProperties
<1>2. \E i \in 1..Len(s) : s[i] = "." /\ \A j \in i + 1..Len(s) : s[j] # "."
    BY <1>1
<1>3. PICK d : d = LastDot(s)
    OBVIOUS
<1>4. d \in 1..Len(s) /\ s[d] = "." /\ \A j \in d + 1..Len(s) : s[j] # "."
    BY <1>2, <1>3, Zenon DEF LastDot
<1>5. QED
    BY <1>3, <1>4, LenProperties
(* The renamed name is the base followed by the extension. *)
LEMMA RenamedSplit ==
    ASSUME NEW f, NEW v
    PROVE  Renamed(f, v) = Base(f, v) \o ExtOf(f)
BY Zenon DEF Renamed, Base, SafeBase

(* For every picked file name and every typed name, the renamed name is  *)
(* longer than the extension, ends with it, and has only letters,       *)
(* digits, dashes and underscores before it.                             *)
LEMMA RenamedSafe ==
    ASSUME NEW f \in Seq(Chars), NEW v \in Seq(Chars)
    PROVE  /\ Len(Renamed(f, v)) > Len(ExtOf(f))
           /\ IsSuffix(ExtOf(f), Renamed(f, v))
           /\ \A i \in 1..Len(Renamed(f, v)) - Len(ExtOf(f)) : Renamed(f, v)[i] \in SafeChars
<1>1. PICK b, e : b = Base(f, v) /\ e = ExtOf(f)
    OBVIOUS
<1>2. b \in Seq(SafeChars) /\ Len(b) \in Nat \ {0}
    BY <1>1, BaseType
<1>3. b \in Seq(Chars)
    BY <1>2, SeqMonotonic DEF SafeChars, Chars
<1>4. e \in Seq(Chars) /\ Len(e) \in Nat
    BY <1>1, ExtOfShape, LenProperties
<1>5. /\ b \o e \in Seq(Chars)
      /\ Len(b \o e) = Len(b) + Len(e)
      /\ \A i \in 1..Len(b) + Len(e) : (b \o e)[i] = IF i <= Len(b) THEN b[i] ELSE e[i - Len(b)]
    BY <1>3, <1>4, ConcatProperties
<1>6. Renamed(f, v) = b \o e
    BY <1>1, RenamedSplit
<1>7. \A i \in 1..Len(b) : (b \o e)[i] \in SafeChars
  <2>1. b \in [1..Len(b) -> SafeChars]
      BY <1>2, LenProperties
  <2>2. QED
      BY <1>2, <1>4, <1>5, <2>1
<1>8. IsSuffix(e, b \o e)
  <2>1. CASE Len(e) = 0
    <3>1. e = << >>
        BY <1>4, <2>1
    <3>2. SubSeq(b \o e, Len(b) + 1, Len(b)) = << >>
        BY <1>2, SubSeqEmpty
    <3>3. QED
        BY <1>2, <1>5, <2>1, <3>1, <3>2 DEF IsSuffix
  <2>2. CASE Len(e) # 0
    <3>1. SubSeq(b \o e, Len(b) + 1, Len(b) + Len(e)) = SubSeq(e, 1, Len(e))
        BY <1>2, <1>3, <1>4, <2>2, SubSeqOfConcat2
    <3>2. SubSeq(e, 1, Len(e)) = e
        BY <1>4, SubSeqFull
    <3>3. Len(b \o e) - Len(e) + 1 = Len(b) + 1
        BY <1>2, <1>4, <1>5
    <3>4. QED
        BY <1>2, <1>4, <1>5, <3>1, <3>2, <3>3 DEF IsSuffix
  <2>3. QED
      BY <2>1, <2>2
<1>9. QED
    BY <1>1, <1>2, <1>4, <1>5, <1>6, <1>7, <1>8
(* For every picked file name and every typed name, the renamed name is   *)
(* an image name exactly when the picked one is.                           *)
LEMMA RenamedImage ==
    ASSUME NEW f \in Seq(Chars), NEW v \in Seq(Chars)
    PROVE  IsImageFile(Renamed(f, v)) <=> IsImageFile(f)
<1>1. PICK b, e : b = Base(f, v) /\ e = ExtOf(f)
    OBVIOUS
<1>2. b \in Seq(SafeChars) /\ Len(b) \in Nat \ {0}
    BY <1>1, BaseType
<1>3. b \in Seq(Chars) /\ b \in [1..Len(b) -> SafeChars]
    BY <1>2, SeqMonotonic, LenProperties DEF SafeChars, Chars
<1>4. e \in Seq(Chars) /\ Len(e) \in Nat
    BY <1>1, ExtOfShape, LenProperties
<1>5. PICK n : n = b \o e
    OBVIOUS
<1>6. /\ Len(n) = Len(b) + Len(e)
      /\ \A i \in 1..Len(b) + Len(e) : n[i] = IF i <= Len(b) THEN b[i] ELSE e[i - Len(b)]
    BY <1>3, <1>4, <1>5, ConcatProperties
<1>7. Renamed(f, v) = n
    BY <1>1, <1>5, RenamedSplit
<1>8. Len(f) \in Nat /\ f \in [1..Len(f) -> Chars]
    BY LenProperties
<1>9. CASE LastDot(f) \in 1..Len(f) - 1
  <2>1. /\ Len(e) = Len(f) - LastDot(f) + 1
        /\ \A i \in 1..Len(e) : e[i] = Lower(f[LastDot(f) + i - 1])
      BY <1>1, <1>9, ExtOfShape
  <2>2. Len(e) >= 2 /\ Len(f) >= 2
      BY <1>8, <1>9, <2>1
  <2>3. /\ n[Len(n)] = Lower(f[Len(f)])
        /\ n[Len(n) - 1] = Lower(f[Len(f) - 1])
        /\ Len(n) >= 2
    <3>1. PICK d : d = LastDot(f)
        OBVIOUS
    <3>2. Len(e) = Len(f) - d + 1 /\ d \in 1..Len(f) - 1
        BY <1>9, <2>1, <3>1
    <3>3. e[Len(e)] = Lower(f[Len(f)]) /\ e[Len(e) - 1] = Lower(f[Len(f) - 1])
      <4>1. Len(e) \in 1..Len(e) /\ Len(e) - 1 \in 1..Len(e)
          BY <2>2
      <4>2. d + Len(e) - 1 = Len(f) /\ d + (Len(e) - 1) - 1 = Len(f) - 1
          BY <1>8, <3>2
      <4>3. QED
          BY <2>1, <3>1, <4>1, <4>2
    <3>4. n[Len(n)] = e[Len(e)] /\ n[Len(n) - 1] = e[Len(e) - 1] /\ Len(n) >= 2
      <4>1. /\ Len(b) + Len(e) \in 1..Len(b) + Len(e)
            /\ Len(b) + Len(e) - 1 \in 1..Len(b) + Len(e)
            /\ ~(Len(b) + Len(e) <= Len(b))
            /\ ~(Len(b) + Len(e) - 1 <= Len(b))
            /\ Len(b) + Len(e) - Len(b) = Len(e)
            /\ Len(b) + Len(e) - 1 - Len(b) = Len(e) - 1
          BY <1>2, <1>4, <2>2
      <4>2. n[Len(b) + Len(e)] = e[Len(e)]
          BY <1>6, <4>1
      <4>3. n[Len(b) + Len(e) - 1] = e[Len(e) - 1]
          BY <1>6, <4>1
      <4>4. QED
          BY <1>6, <2>2, <4>2, <4>3
    <3>5. QED
        BY <3>3, <3>4
  <2>4. Lower(f[Len(f) - 1]) = "." <=> f[Len(f) - 1] = "."
      BY DEF Lower
  <2>5. Lower(Lower(f[Len(f)])) = Lower(f[Len(f)])
      BY DEF Lower
  <2>6. QED
      BY <1>7, <2>2, <2>3, <2>4, <2>5 DEF IsImageFile
<1>10. CASE ~(LastDot(f) \in 1..Len(f) - 1)
  <2>1. Len(e) = 0
      BY <1>1, <1>10, ExtOfShape, EmptySeq
  <2>2. ~IsImageFile(n)
    <3>1. \A i \in 1..Len(n) : n[i] \in SafeChars
        BY <1>2, <1>3, <1>6, <2>1
    <3>2. SUFFICES ASSUME IsImageFile(n) PROVE FALSE
        OBVIOUS
    <3>3. Len(n) - 1 \in 1..Len(n)
        BY <3>2, <1>2, <1>4, <1>6 DEF IsImageFile
    <3>4. n[Len(n) - 1] \in SafeChars
        BY <3>1, <3>3
    <3>5. QED
        BY <3>2, <3>4, Zenon DEF IsImageFile, SafeChars
  <2>3. ~IsImageFile(f)
    <3>1. SUFFICES ASSUME IsImageFile(f) PROVE FALSE
        OBVIOUS
    <3>2. Len(f) >= 2 /\ f[Len(f) - 1] = "." /\ f[Len(f)] # "."
        BY <3>1 DEF IsImageFile, Lower
    <3>3. LastDot(f) = Len(f) - 1
        BY <3>2, LastDotAt
    <3>4. QED
        BY <1>8, <1>10, <3>2, <3>3
  <2>4. QED
      BY <1>7, <2>2, <2>3
<1>11. QED
    BY <1>9, <1>10
-----------------------------------------------------------------------------
(* The upload form's state: the picked file and the name input hold        *)
(* strings, and a renamed File, once built, is the renaming of the file    *)
(* and the name as they still are, since choosing a file, clearing it or   *)
(* typing discards it.                                                     *)
RenameInv ==
    /\ file \in Seq(Chars) \cup {None}
    /\ nameValue \in Seq(Chars)
    /\ \/ upload = None
       \/ file # None /\ upload = [src |-> file, name |-> Renamed(file, nameValue)]

(* The bounded strings the model enumerates are strings. *)
LEMMA StringsSeq ==
    ASSUME NEW S, NEW T, S \subseteq T, NEW n \in Nat
    PROVE  Strings(S, n) \subseteq Seq(T)
<1> SUFFICES ASSUME NEW x \in Strings(S, n) PROVE x \in Seq(T)
    OBVIOUS
<1>1. PICK k \in 0..n : x \in [1..k -> S]
    BY Zenon DEF Strings
<1>2. x \in [1..k -> T]
    BY <1>1
<1>3. QED
    BY <1>1, <1>2, FunIsSeq

LEMMA RenameInit == Init => RenameInv
BY EmptySeq DEF Init, RenameInv

LEMMA RenameStep == RenameInv /\ [Next]_vars => RenameInv'
<1> SUFFICES ASSUME RenameInv, [Next]_vars PROVE RenameInv'
    OBVIOUS
<1>1. ASSUME NEW f \in FileNames, NEW typeOk \in BOOLEAN, ChooseFile(f, typeOk)
      PROVE  RenameInv'
  <2>1. f \in Seq(Chars)
      BY SanitizerAssumption, StringsSeq DEF FileNames, FileChars
  <2>2. StripExt(f) \in Seq(Chars)
      BY <2>1, StripExtType
  <2>3. QED
      BY <1>1, <2>1, <2>2, EmptySeq DEF ChooseFile, RenameInv
<1>2. CASE ClearFile
    BY <1>2, EmptySeq DEF ClearFile, RenameInv
<1>3. ASSUME NEW s \in Strings(Chars, InputLen), EditName(s)
      PROVE  RenameInv'
  <2>1. s \in Seq(Chars)
      BY SanitizerAssumption, StringsSeq
  <2>2. QED
      BY <1>3, <2>1 DEF EditName, RenameInv
<1>4. CASE Submit
    BY <1>4 DEF Submit, RenameInv
<1>5. CASE UNCHANGED vars
    BY <1>5 DEF vars, RenameInv
<1>6. QED
    BY <1>1, <1>2, <1>3, <1>4, <1>5 DEF Next

LEMMA RenameInvHolds == Spec => []RenameInv
BY RenameInit, RenameStep, PTL DEF Spec

(* Whatever file the user picks and whatever name they type, the name the *)
(* submit handler gives the uploaded File is a non-empty base of letters,  *)
(* digits, dashes and underscores followed by exactly the original        *)
(* extension, lower-cased.  No space, tab, dot or slash survives trim, the *)
(* character filter and the dash rule, and when they leave nothing the    *)
(* "photo" fallback gives the base.                                       *)
THEOREM RenameSafe == Spec => []SafeRename
<1>1. RenameInv => SafeRename
  <2> SUFFICES ASSUME RenameInv, upload # None
               PROVE  LET e == ExtOf(upload.src)
                          n == upload.name
                      IN  /\ Len(n) > Len(e)
                          /\ IsSuffix(e, n)
                          /\ \A i \in 1..Len(n) - Len(e) : n[i] \in {"p", "P", "0", "-", "_"}
      BY DEF SafeRename
  <2>1. file \in Seq(Chars) /\ nameValue \in Seq(Chars)
        /\ upload = [src |-> file, name |-> Renamed(file, nameValue)]
      BY DEF RenameInv
  <2>2. QED
      BY <2>1, RenamedSafe DEF SafeChars
<1>2. QED
    BY <1>1, RenameInvHolds, PTL

(* Whatever the user types as the name, the uploaded File is listed by    *)
(* the photobook's isImageFile filter exactly when the picked file's name *)
(* is an image name: the lower-cased extension is kept, and a base never   *)
(* holds a dot that could make a new extension.                            *)
THEOREM ImageKept == Spec => []ImageStaysImage
<1>1. RenameInv => ImageStaysImage
  <2> SUFFICES ASSUME RenameInv, upload # None
               PROVE  IsImageFile(upload.name) <=> IsImageFile(upload.src)
      BY DEF ImageStaysImage
  <2>1. file \in Seq(Chars) /\ nameValue \in Seq(Chars)
        /\ upload = [src |-> file, name |-> Renamed(file, nameValue)]
      BY DEF RenameInv
  <2>2. QED
      BY <2>1, RenamedImage
<1>2. QED
    BY <1>1, RenameInvHolds, PTL
====
