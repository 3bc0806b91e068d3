--------------------------- MODULE UtfChars_proofs ---------------------------
(***************************************************************************)
(* That a character survives every chain of conversions, for all 0x110000   *)
(* code points but the surrogates, and whatever characters a host sends.    *)
(***************************************************************************)
EXTENDS UtfChars, TLAPS

\* The four UTF-8 forms, each decoded by the masks of its own length.
LEMMA Decode8 ==
  ASSUME NEW n \in Nat, n <= 2097151
  PROVE  From8(To8(n)) = n
<1>1. CASE n < 128
  BY <1>1, SMTT(60) DEF From8, To8, Bytes8
<1>2. CASE n >= 128 /\ n < 2048
  BY <1>2, SMTT(60) DEF From8, To8, Bytes8
<1>3. CASE n >= 2048 /\ n < 65536
  BY <1>3, SMTT(60) DEF From8, To8, Bytes8
<1>4. CASE n >= 65536
  BY <1>4, SMTT(60) DEF From8, To8, Bytes8
<1> QED
  BY <1>1, <1>2, <1>3, <1>4, SMT

\* One unit, or a pair of surrogates.
LEMMA Decode16 ==
  ASSUME NEW n \in Nat, Scalar(n)
  PROVE  From16(To16(n)) = n
<1>1. CASE n < 65536
  BY <1>1, SMTT(60) DEF From16, To16, High, Scalar
<1>2. CASE n >= 65536
  BY <1>2, SMTT(60) DEF From16, To16, High, Scalar
<1> QED
  BY <1>1, <1>2, SMT

\* No conversion takes its own UTF-8 for garbled.
LEMMA First8 ==
  ASSUME NEW n \in Nat, n <= 2097151
  PROVE  Bytes8(To8(n)[1]) # 0
<1>1. CASE n < 128
  BY <1>1, SMTT(60) DEF To8, Bytes8
<1>2. CASE n >= 128 /\ n < 2048
  BY <1>2, SMTT(60) DEF To8, Bytes8
<1>3. CASE n >= 2048 /\ n < 65536
  BY <1>3, SMTT(60) DEF To8, Bytes8
<1>4. CASE n >= 65536
  BY <1>4, SMTT(60) DEF To8, Bytes8
<1> QED
  BY <1>1, <1>2, <1>3, <1>4, SMT

\* What a host sends is a number; the bound itself does not matter.
LEMMA SentIsNumber == \A n \in Chars : n \in Nat
<1>1. MaxChar \in Int
  BY SMT DEF MaxChar
<1> QED
  BY <1>1, CharsAssumption, SMT

(***************************************************************************)
(* The strengthening: whatever its history, a character of a text is held   *)
(* as the encoding of what was sent.  Preserved alone is not inductive: a   *)
(* code point says nothing about the units a later conversion reads.        *)
(***************************************************************************)
Exact ==
  /\ char \in Int
  /\ Scalar(char) => phase = "moving" /\ enc \in {8, 16, 32} /\ units = Encoded(enc, char)

\* What the next conversion reads is the character that was sent.
LEMMA ExactDecodes ==
  ASSUME Exact, Scalar(char)
  PROVE  CodePoint = char /\ (enc = 8 => Bytes8(units[1]) # 0)
<1>1. char \in Nat /\ char <= 2097151
  BY SMT DEF Exact, Scalar
<1>2. CASE enc = 8
  BY <1>1, <1>2, Decode8, First8, SMT DEF Exact, Encoded, CodePoint
<1>3. CASE enc = 16
  BY <1>1, <1>3, Decode16, SMT DEF Exact, Encoded, CodePoint
<1>4. CASE enc = 32
  BY <1>1, <1>4, SMT DEF Exact, Encoded, CodePoint
<1> QED
  BY <1>2, <1>3, <1>4 DEF Exact

\* No conversion changes what the units encode.
LEMMA ExactInvariant == Spec => []Exact
<1>1. Init => Exact
  <2> SUFFICES ASSUME Init PROVE Exact
    OBVIOUS
  <2>1. CASE char = -1
    BY <2>1, SMT DEF Init, Exact, Scalar
  <2>2. CASE char \in Chars /\ enc = 32 /\ units = <<char>>
    BY <2>2, SentIsNumber, SMT DEF Init, Exact, Encoded
  <2> QED
    BY <2>1, <2>2 DEF Init
<1>2. Exact /\ [Next]_vars => Exact'
  <2> SUFFICES ASSUME Exact, [Next]_vars PROVE Exact'
    OBVIOUS
  <2>1. CASE UNCHANGED vars
    BY <2>1 DEF vars, Exact, Encoded, Scalar
  <2>2. ASSUME NEW to \in {8, 16, 32}, Convert(to) PROVE Exact'
    <3>1. char' = char
      BY <2>2 DEF Convert
    <3>2. CASE ~Scalar(char)
      BY <3>1, <3>2 DEF Exact, Scalar
    <3>3. CASE Scalar(char)
      <4>1. enc' = to /\ units' = Encoded(to, char) /\ phase' = "moving"
        BY <3>3, <2>2, ExactDecodes DEF Convert, Exact
      <4> QED
        BY <3>1, <4>1 DEF Exact
    <3> QED
      BY <3>2, <3>3
  <2> QED
    BY <2>1, <2>2 DEF Next
<1> QED
  BY <1>1, <1>2, PTL DEF Spec

(***************************************************************************)
(* A character of a text is the same after any number of conversions.       *)
(***************************************************************************)
THEOREM CharactersPreserved == Spec => []Preserved
<1>1. Exact => Preserved
  BY ExactDecodes DEF Preserved, Exact
<1> QED
  BY <1>1, ExactInvariant, PTL

\* The UTF-8 form has as many bytes as the character needs and no more.
LEMMA Shape8 ==
  ASSUME NEW n \in Nat, n <= 2097151, NEW k, k = Bytes8(To8(n)[1])
  PROVE  /\ k = (IF n <= 127 THEN 1 ELSE IF n <= 2047 THEN 2 ELSE IF n <= 65535 THEN 3 ELSE 4)
         /\ \A i \in 2 .. 4 : IF i <= k THEN To8(n)[i] \in 128 .. 191 ELSE To8(n)[i] = 0
<1>1. CASE n < 128
  BY <1>1, SMTT(60) DEF To8, Bytes8
<1>2. CASE n >= 128 /\ n < 2048
  BY <1>2, SMTT(60) DEF To8, Bytes8
<1>3. CASE n >= 2048 /\ n < 65536
  BY <1>3, SMTT(60) DEF To8, Bytes8
<1>4. CASE n >= 65536
  BY <1>4, SMTT(60) DEF To8, Bytes8
<1> QED
  BY <1>1, <1>2, <1>3, <1>4, SMT

\* One unit, or a high surrogate and a low one.
LEMMA Shape16 ==
  ASSUME NEW n \in Nat, Scalar(n)
  PROVE  \/ n <= 65535 /\ To16(n) = <<n, 0>>
         \/ n > 65535 /\ High(To16(n)[1]) /\ To16(n)[2] \in 56320 .. 57343
<1>1. CASE n < 65536
  BY <1>1, SMT DEF To16
<1>2. CASE n >= 65536
  BY <1>2, SMTT(60) DEF To16, High, Scalar
<1> QED
  BY <1>1, <1>2, SMT

(***************************************************************************)
(* Its UTF-8 is the shortest form and its UTF-16 has proper surrogates.     *)
(***************************************************************************)
THEOREM CharactersWellFormed == Spec => []WellFormed
<1>1. ASSUME Exact PROVE WellFormed
  <2> SUFFICES ASSUME Scalar(char) PROVE WellFormed
    BY DEF WellFormed
  <2>1. char \in Nat /\ char <= 2097151
    BY <1>1, SMT DEF Exact, Scalar
  <2>2. enc = 8 => units = To8(char)
    BY <1>1 DEF Exact, Encoded
  <2>3. enc = 16 => units = To16(char)
    BY <1>1, SMT DEF Exact, Encoded
  <2>4. CASE enc = 8
    BY <2>1, <2>2, <2>4, Shape8, SMTT(60) DEF WellFormed
  <2>5. CASE enc = 16
    BY <2>1, <2>3, <2>5, Shape16, SMTT(60) DEF WellFormed
  <2> QED
    BY <2>4, <2>5, SMT DEF WellFormed
<1> QED
  BY <1>1, ExactInvariant, PTL
------------------------------------------------------------------------------
\* Whatever is in the units, the code point read from them is in range ...
LEMMA Range8 ==
  ASSUME NEW c, \A i \in 1 .. 4 : Fits(c[i], 255)
  PROVE  Fits(From8(c), 2097151)
<1>1. \A i \in 1 .. 4 : c[i] \in Nat /\ c[i] <= 255
  BY DEF Fits
<1>2. c[1] \in Nat /\ c[2] \in Nat /\ c[3] \in Nat /\ c[4] \in Nat /\ c[1] <= 255
  BY <1>1
<1> QED
  BY <1>2, SMTT(60) DEF From8, Fits

\* Two units of 16 bits never decode to more than 21 bits ...
LEMMA Range16 ==
  ASSUME NEW c, \A i \in 1 .. 2 : Fits(c[i], 65535)
  PROVE  Fits(From16(c), 2097151)
<1>1. c[1] \in Nat /\ c[2] \in Nat /\ c[1] <= 65535 /\ c[2] <= 65535
  BY SMT DEF Fits
<1> QED
  BY <1>1, SMTT(60) DEF From16, High, Fits

\* ... and what is written of it fits the units.
LEMMA Fits8 ==
  ASSUME NEW n \in Nat, n <= 2097151
  PROVE  Len(To8(n)) = 4 /\ \A i \in 1 .. 4 : Fits(To8(n)[i], 255)
<1>1. CASE n < 128
  BY <1>1, SMTT(60) DEF To8, Fits
<1>2. CASE n >= 128 /\ n < 2048
  BY <1>2, SMTT(60) DEF To8, Fits
<1>3. CASE n >= 2048 /\ n < 65536
  BY <1>3, SMTT(60) DEF To8, Fits
<1>4. CASE n >= 65536
  BY <1>4, SMTT(60) DEF To8, Fits
<1> QED
  BY <1>1, <1>2, <1>3, <1>4, SMT

\* ... and what is written fits 16 bits each.
LEMMA Fits16 ==
  ASSUME NEW n \in Nat, n <= 2097151
  PROVE  Len(To16(n)) = 2 /\ \A i \in 1 .. 2 : Fits(To16(n)[i], 65535)
<1>1. CASE n < 65536
  BY <1>1, SMT DEF To16, Fits
<1>2. CASE n >= 65536
  BY <1>2, SMTT(60) DEF To16, Fits
<1> QED
  BY <1>1, <1>2, SMT

\* The bound as a number, and as what a host sends keeps to: used apart.
LEMMA BoundValue == MaxChar = 2097151
  BY SMT DEF MaxChar

\* A host sends at most 21 bits.
LEMMA SentFits == \A n \in Chars : Fits(n, MaxChar)
<1>1. MaxChar \in Int
  BY SMT DEF MaxChar
<1> QED
  BY <1>1, CharsAssumption, SMT DEF Fits

\* What the next conversion reads is a number of 21 bits.
LEMMA CodePointFits ==
  ASSUME TypeOK
  PROVE  Fits(CodePoint, 2097151)
<1>1. CASE enc = 8 /\ \A i \in 1 .. 4 : Fits(units[i], 255)
  BY <1>1, Range8, SMT DEF CodePoint
<1>2. CASE enc = 16 /\ \A i \in 1 .. 2 : Fits(units[i], 65535)
  BY <1>2, Range16, SMT DEF CodePoint
<1>3. CASE enc = 32 /\ Fits(units[1], MaxChar)
  BY <1>3, BoundValue, SMT DEF CodePoint
<1> QED
  BY <1>1, <1>2, <1>3, SMT DEF TypeOK

(***************************************************************************)
(* Bytes and units keep their widths, for garbled characters as well.       *)
(***************************************************************************)
THEOREM TypeCorrect == Spec => []TypeOK
<1>1. Init => TypeOK
  <2> SUFFICES ASSUME Init PROVE TypeOK
    OBVIOUS
  <2>1. CASE char \in Chars /\ enc = 32 /\ units = <<char>>
    <3>1. Fits(char, MaxChar)
      BY <2>1, SentFits
    <3> QED
      BY <2>1, <3>1, SMT DEF Init, TypeOK
  <2>2. CASE char = -1 /\ enc = 8 /\ units \in {<<b, 0, 0, 0>> : b \in Garbled}
    <3>1. PICK b \in Garbled : units = <<b, 0, 0, 0>>
      BY <2>2
    <3>2. Fits(b, 255) /\ Fits(0, 255)
      BY <3>1, CharsAssumption, SMT DEF Fits
    <3> QED
      BY <2>2, <3>1, <3>2, SMT DEF Init, TypeOK
  <2> QED
    BY <2>1, <2>2 DEF Init
<1>2. TypeOK /\ [Next]_vars => TypeOK'
  <2> SUFFICES ASSUME TypeOK, [Next]_vars PROVE TypeOK'
    OBVIOUS
  <2>1. CASE UNCHANGED vars
    BY <2>1 DEF vars, TypeOK
  <2>2. ASSUME NEW to \in {8, 16, 32}, Convert(to) PROVE TypeOK'
    <3>1. CASE UNCHANGED <<enc, units>>
      BY <3>1, <2>2 DEF Convert, TypeOK
    <3>2. CASE enc' = to /\ units' = Encoded(to, CodePoint) /\ UNCHANGED phase
      <4>1. Fits(CodePoint, 2097151)
        BY CodePointFits
      <4>2. CodePoint \in Nat /\ CodePoint <= 2097151
        BY <4>1, SMT DEF Fits
      <4>3. CASE to = 8
        <5>1. Len(units') = 4 /\ \A i \in 1 .. 4 : Fits(units'[i], 255)
          BY <3>2, <4>2, <4>3, Fits8, SMT DEF Encoded
        <5> QED
          BY <2>2, <3>2, <4>3, <5>1 DEF Convert, TypeOK
      <4>4. CASE to = 16
        <5>1. Len(units') = 2 /\ \A i \in 1 .. 2 : Fits(units'[i], 65535)
          BY <3>2, <4>2, <4>4, Fits16, SMT DEF Encoded
        <5> QED
          BY <2>2, <3>2, <4>4, <5>1 DEF Convert, TypeOK
      <4>5. CASE to = 32
        <5>1. Len(units') = 1 /\ Fits(units'[1], MaxChar)
          BY <3>2, <4>1, <4>5, BoundValue, SMT DEF Encoded
        <5> QED
          BY <2>2, <3>2, <4>5, <5>1 DEF Convert, TypeOK
      <4> QED
        BY <4>3, <4>4, <4>5
    <3> QED
      BY <2>2, <3>1, <3>2 DEF Convert
  <2> QED
    BY <2>1, <2>2 DEF Next
<1> QED
  BY <1>1, <1>2, PTL DEF Spec
------------------------------------------------------------------------------
(***************************************************************************)
(* The strengthening for what is no character of a text: a char8 that is    *)
(* not the host's own has a first byte with a length, and a char16 is what  *)
(* a conversion writes of some number of 21 bits.                           *)
(***************************************************************************)
OwnUnits ==
  /\ phase = "thrown" => char = -1
  /\ enc = 8 => char = -1 \/ Bytes8(units[1]) # 0
  /\ enc = 16 => \E n \in Nat : Fits(n, MaxChar) /\ units = To16(n)

\* A conversion to UTF-16 leaves nothing beyond Unicode.
LEMMA InUnicode ==
  ASSUME NEW n \in Nat, n <= 2097151
  PROVE  Fits(From16(To16(n)), 1114111)
<1>1. CASE n < 65536
  BY <1>1, SMTT(60) DEF From16, To16, High, Fits
<1>2. CASE n >= 65536
  BY <1>2, SMTT(60) DEF From16, To16, High, Fits
<1> QED
  BY <1>1, <1>2, SMT

(***************************************************************************)
(* Nothing a conversion made is refused by another, and what went through   *)
(* UTF-16 is within Unicode.                                                *)
(***************************************************************************)
THEOREM WhatIsMadeConverts == Spec => []Convertible
<1>1. Init => OwnUnits
  <2> SUFFICES ASSUME Init PROVE OwnUnits
    OBVIOUS
  <2>1. phase # "thrown" /\ enc # 16 /\ (enc = 8 => char = -1)
    BY DEF Init
  <2> QED
    BY <2>1 DEF OwnUnits
<1>2. TypeOK /\ OwnUnits /\ [Next]_vars => OwnUnits'
  <2> SUFFICES ASSUME TypeOK, OwnUnits, [Next]_vars PROVE OwnUnits'
    OBVIOUS
  <2>1. CASE UNCHANGED vars
    BY <2>1 DEF vars, OwnUnits
  <2>2. ASSUME NEW to \in {8, 16, 32}, Convert(to) PROVE OwnUnits'
    <3>1. char' = char
      BY <2>2 DEF Convert
    <3>2. CASE enc = 8 /\ Bytes8(units[1]) = 0
      BY <3>1, <3>2, <2>2 DEF Convert, OwnUnits
    <3>3. CASE ~(enc = 8 /\ Bytes8(units[1]) = 0)
      <4>1. enc' = to /\ units' = Encoded(to, CodePoint) /\ phase' = phase
        BY <3>3, <2>2 DEF Convert
      <4>2. CodePoint \in Nat /\ CodePoint <= 2097151 
        BY CodePointFits, SMT DEF Fits
      <4>5. Fits(CodePoint, MaxChar)
        BY CodePointFits, BoundValue
      <4>3. to = 8 => Bytes8(units'[1]) # 0
        BY <4>1, <4>2, First8, SMT DEF Encoded
      <4>4. to = 16 => \E n \in Nat : Fits(n, MaxChar) /\ units' = To16(n)
        BY <4>1, <4>2, <4>5 DEF Encoded
      <4> QED
        BY <3>1, <4>1, <4>3, <4>4 DEF OwnUnits
    <3> QED
      BY <3>2, <3>3
  <2> QED
    BY <2>1, <2>2 DEF Next
<1>3. OwnUnits => Convertible
  <2> SUFFICES ASSUME OwnUnits PROVE Convertible
    OBVIOUS
  <2>0. CASE enc # 16
    BY <2>0, SMT DEF Convertible, OwnUnits
  <2>1. CASE enc = 16
    <3>1. PICK n \in Nat : Fits(n, MaxChar) /\ units = To16(n)
      BY <2>1 DEF OwnUnits
    <3>2. n \in Nat /\ n <= 2097151
      BY <3>1, BoundValue, SMT DEF Fits
    <3>3. Fits(From16(units), 1114111)
      BY <3>1, <3>2, InUnicode, SMT
    <3>4. CodePoint = From16(units)
      BY <2>1, SMT DEF CodePoint
    <3> QED
      BY <3>3, <3>4, SMT DEF Convertible, OwnUnits
  <2> QED
    BY <2>0, <2>1
<1> QED
  BY <1>1, <1>2, <1>3, TypeCorrect, PTL DEF Spec
==============================================================================
