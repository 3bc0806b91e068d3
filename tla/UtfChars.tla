------------------------------- MODULE UtfChars -------------------------------
(***************************************************************************)
(* Characters between languages (runtime/metaffi_primitives.{h,cpp}):       *)
(* metaffi_char8, metaffi_char16 and metaffi_char32 hold one character as   *)
(* four bytes, two 16-bit units or one number, and convert into each other. *)
(* A character crosses any number of borders; each conversion masks and     *)
(* shifts, which is \div and % here, and or-s together parts that have no   *)
(* bit in common, which is + here.                                          *)
(***************************************************************************)
EXTENDS Integers, Sequences

CONSTANTS Chars,    \* the characters a host sends
          Garbled   \* first bytes of char8 values that a host filled with anything

MaxChar == 2097151     \* bound, 0x1FFFFF: above it the parts or-ed overlap
ASSUME CharsAssumption == Chars \subseteq 0 .. MaxChar /\ Garbled \subseteq 0 .. 255

VARIABLES
  char,   \* ghost: the character that was sent, -1 for a garbled one
  enc,    \* 8, 16 or 32: how it is held now
  units,  \* four bytes, two units, or one number
  phase   \* "moving" or "thrown"

vars == <<char, enc, units, phase>>

\* num_of_bytes of a UTF-8 first byte; 0 stands for -1.
Bytes8(b) == IF b < 128 THEN 1
             ELSE IF b \div 32 = 6 THEN 2
             ELSE IF b \div 16 = 14 THEN 3
             ELSE IF b \div 8 = 30 THEN 4 ELSE 0
High(u) == u >= 55296 /\ u <= 56319       \* 0xD800 .. 0xDBFF

From8_NoMask(c) ==     \* mutant: the marks of a four-byte first byte are left in
  IF Bytes8(c[1]) = 1 THEN c[1]
  ELSE IF Bytes8(c[1]) = 2 THEN (c[1] % 32) * 64 + (c[2] % 64)
  ELSE IF Bytes8(c[1]) = 3 THEN (c[1] % 16) * 4096 + (c[2] % 64) * 64 + (c[3] % 64)
  ELSE c[1] * 262144 + (c[2] % 64) * 4096 + (c[3] % 64) * 64 + (c[4] % 64)

\* The code point of a char8, of a char16.
From8(c) ==
  IF Bytes8(c[1]) = 1 THEN c[1]
  ELSE IF Bytes8(c[1]) = 2 THEN (c[1] % 32) * 64 + (c[2] % 64)
  ELSE IF Bytes8(c[1]) = 3 THEN (c[1] % 16) * 4096 + (c[2] % 64) * 64 + (c[3] % 64)
  ELSE (c[1] % 8) * 262144 + (c[2] % 64) * 4096 + (c[3] % 64) * 64 + (c[4] % 64)
From16(c) == IF High(c[1]) THEN (c[1] - 55296) * 1024 + (c[2] - 56320) + 65536 ELSE c[1]

\* Mutants: U+FFFF in four bytes; the offset of the pairs forgotten.
To8_Boundary(n) ==
  IF n < 128 THEN <<n, 0, 0, 0>>
  ELSE IF n < 2048 THEN <<(n \div 64) + 192, (n % 64) + 128, 0, 0>>
  ELSE IF n < 65535 THEN <<(n \div 4096) + 224, ((n \div 64) % 64) + 128, (n % 64) + 128, 0>>
  ELSE <<(n \div 262144) + 240, ((n \div 4096) % 64) + 128, ((n \div 64) % 64) + 128, (n % 64) + 128>>

To16_NoOffset(n) ==
  IF n < 65536 THEN <<n, 0>>
  ELSE <<((n \div 1024) + 55296) % 65536, (n % 1024) + 56320>>

To8_Border(n) ==     \* mutant: 0x1FFFF where 0xFFFF is meant
  IF n < 128 THEN <<n, 0, 0, 0>>
  ELSE IF n < 2048 THEN <<(n \div 64) + 192, (n % 64) + 128, 0, 0>>
  ELSE IF n < 131072 THEN <<(n \div 4096) + 224, ((n \div 64) % 64) + 128, (n % 64) + 128, 0>>
  ELSE <<(n \div 262144) + 240, ((n \div 4096) % 64) + 128, ((n \div 64) % 64) + 128, (n % 64) + 128>>

To8(n) ==
  IF n < 128 THEN <<n, 0, 0, 0>>
  ELSE IF n < 2048 THEN <<(n \div 64) + 192, (n % 64) + 128, 0, 0>>
  ELSE IF n < 65536 THEN <<(n \div 4096) + 224, ((n \div 64) % 64) + 128, (n % 64) + 128, 0>>
  ELSE <<(n \div 262144) + 240, ((n \div 4096) % 64) + 128, ((n \div 64) % 64) + 128, (n % 64) + 128>>

\* char16_t wraps at 2^16.
To16(n) ==
  IF n < 65536 THEN <<n, 0>>
  ELSE <<(((n - 65536) \div 1024) + 55296) % 65536, ((n - 65536) % 1024) + 56320>>

CodePoint == IF enc = 8 THEN From8(units) ELSE IF enc = 16 THEN From16(units) ELSE units[1]
Encoded(to, n) == IF to = 8 THEN To8(n) ELSE IF to = 16 THEN To16(n) ELSE <<n>>

Init ==
  /\ phase = "moving"
  /\ \/ char \in Chars /\ enc = 32 /\ units = <<char>>
     \/ char = -1 /\ enc = 8 /\ units \in {<<b, 0, 0, 0>> : b \in Garbled}

\* A conversion operator; only that from char8 can refuse its character.
Convert(to) ==
  /\ phase = "moving" /\ to # enc
  /\ IF enc = 8 /\ Bytes8(units[1]) = 0
     THEN phase' = "thrown" /\ UNCHANGED <<enc, units>>
     ELSE enc' = to /\ units' = Encoded(to, CodePoint) /\ UNCHANGED phase
  /\ UNCHANGED char

Next == \E to \in {8, 16, 32} : Convert(to)
Spec == Init /\ [][Next]_vars
------------------------------------------------------------------------------
Fits(u, max) == u \in Nat /\ u <= max

\* What the encodings can hold: units in their widths, and in a char32 no more
\* bits than a conversion reads.
TypeOK ==
  /\ char = -1 \/ Fits(char, MaxChar)
  /\ phase \in {"moving", "thrown"}
  /\ \/ enc = 8 /\ Len(units) = 4 /\ \A i \in 1 .. 4 : Fits(units[i], 255)
     \/ enc = 16 /\ Len(units) = 2 /\ \A i \in 1 .. 2 : Fits(units[i], 65535)
     \/ enc = 32 /\ Len(units) = 1 /\ Fits(units[1], MaxChar)

\* The Unicode scalar values: what a char32 of a text can be.
Scalar(n) == 0 <= n /\ n <= 1114111 /\ ~(55296 <= n /\ n <= 57343)

(***************************************************************************)
(* A character of a text is the same character after any number of          *)
(* conversions, in whatever order the languages follow one another, and no  *)
(* conversion refuses it.                                                   *)
(***************************************************************************)
Preserved == Scalar(char) => phase = "moving" /\ CodePoint = char

(***************************************************************************)
(* Its UTF-8 form is the shortest one, with marked continuation bytes and   *)
(* nothing after them; its UTF-16 form a unit outside the surrogates or a   *)
(* pair of them.                                                            *)
(***************************************************************************)
WellFormed ==
  Scalar(char) =>
    /\ enc = 8 =>
         LET n == Bytes8(units[1]) IN
         /\ n = (IF char <= 127 THEN 1 ELSE IF char <= 2047 THEN 2
                 ELSE IF char <= 65535 THEN 3 ELSE 4)
         /\ \A i \in 2 .. 4 : IF i <= n THEN units[i] \in 128 .. 191 ELSE units[i] = 0
    /\ enc = 16 =>
         \/ char <= 65535 /\ units = <<char, 0>>
         \/ char > 65535 /\ High(units[1]) /\ units[2] \in 56320 .. 57343

(***************************************************************************)
(* What should become of a number that is no character is nowhere said.     *)
(* Still no conversion refuses what another conversion made, lone           *)
(* surrogates and numbers beyond Unicode among them (only a char8 that a    *)
(* host garbled is refused), and whatever passes through UTF-16 is within   *)
(* Unicode from then on, though its high unit may have left the surrogates  *)
(* and its low unit is then read no more.                                   *)
(***************************************************************************)
Convertible ==
  /\ phase = "thrown" => char = -1
  /\ enc = 16 => Fits(CodePoint, 1114111)
==============================================================================
