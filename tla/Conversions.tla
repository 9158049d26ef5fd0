---------------------------- MODULE Conversions ----------------------------
(***************************************************************************)
(* How the program writes numbers (itoa_branchlut.hpp), and what its       *)
(* parsers make of the characters of a JSON string (json_parser.hpp.rl)    *)
(* and of a query (http_parser.hpp.rl).  A text is the sequence of its     *)
(* bytes.                                                                  *)
(***************************************************************************)
EXTENDS Integers, Sequences, SequencesExt

Ascii(digit) == 48 + digit
Minus == 45
Point == 46

\* gDigitsLut: the two digits of n < 100.
MIDDLE2(n) == <<Ascii(n \div 10), Ascii(n % 10)>>
BEGIN2(n) == IF n < 10 THEN <<Ascii(n)>> ELSE MIDDLE2(n)

\* Up to four digits, and exactly four.
BEGIN4(n) == IF n < 100 THEN BEGIN2(n) ELSE BEGIN2(n \div 100) \o MIDDLE2(n % 100)
MIDDLE4(n) == MIDDLE2(n \div 100) \o MIDDLE2(n % 100)

\* Mutant: the lower half is written without its leading zeros.
BEGIN8_Short(n) ==
  IF n < 10000 THEN BEGIN4(n) ELSE BEGIN4(n \div 10000) \o BEGIN4(n % 10000)

BEGIN8(n) ==
  IF n < 10000 THEN BEGIN4(n) ELSE BEGIN4(n \div 10000) \o MIDDLE4(n % 10000)
MIDDLE8(n) == MIDDLE4(n \div 10000) \o MIDDLE4(n % 10000)

u32toa_branchlut2(x) ==
  IF x < 100000000 THEN BEGIN8(x)
  ELSE BEGIN2(x \div 100000000) \o MIDDLE8(x % 100000000)

i32toa_branchlut2(x) ==
  IF x >= 0 THEN u32toa_branchlut2(x) ELSE <<Minus>> \o u32toa_branchlut2(-x)

\* Mutant: the sixth digit is cut off.
fast_div_write_Truncates(old, n, d) ==
  IF d = 0 THEN old
  ELSE LET result == (n * 100000) \div d
           digit(unit) == Ascii((result \div unit) % 10)
       IN  <<Ascii(result \div 100000), Point, digit(10000), digit(1000),
             digit(100), digit(10), digit(1)>>

\* n / d, rounded to five digits, over the text that is there; without a
\* divisor nothing is written.
fast_div_write(old, n, d) ==
  IF d = 0 THEN old
  ELSE LET result == ((n * 1000000) \div d + 5) \div 10
           digit(unit) == Ascii((result \div unit) % 10)
       IN  <<Ascii(result \div 100000), Point, digit(10000), digit(1000),
             digit(100), digit(10), digit(1)>>
-----------------------------------------------------------------------------
\* The last six bits of c >> shift, as a continuation byte.
Trail(c, unit) == 128 + ((c \div unit) % 64)

\* Mutant: off by one where two bytes become three.
ucs2_to_utf8_Boundary(c) ==
  CASE c < 128                  -> <<c>>
    [] c >= 128 /\ c <= 2048     -> <<192 + (c \div 64), Trail(c, 1)>>
    [] c > 2048 /\ c < 65535    -> <<224 + (c \div 4096), Trail(c, 64), Trail(c, 1)>>
    [] c >= 65535               -> <<240, Trail(c, 4096), Trail(c, 64), Trail(c, 1)>>

ucs2_to_utf8(c) ==
  CASE c < 128                  -> <<c>>
    [] c >= 128 /\ c < 2048     -> <<192 + (c \div 64), Trail(c, 1)>>
    [] c >= 2048 /\ c < 65535   -> <<224 + (c \div 4096), Trail(c, 64), Trail(c, 1)>>
    [] c >= 65535               -> <<240, Trail(c, 4096), Trail(c, 64), Trail(c, 1)>>

\* A character of a JSON string: itself, or written as an escape \uXXXX.
JsonChar == [escaped : BOOLEAN, code : 0 .. 65535]

\* The string the actions of json_char leave.  An escape is converted by a
\* leaving action, on the character that comes next; where that is one that
\* appends itself, the appending is embedded first and runs first.
json_string(chars) ==
  LET \* What is appended when the i-th character is read, "end" included.
      escape(i) == IF i > 1 /\ chars[i - 1].escaped
                     THEN ucs2_to_utf8(chars[i - 1].code) ELSE <<>>
      itself(i) == IF i <= Len(chars) /\ ~ chars[i].escaped
                     THEN <<chars[i].code>> ELSE <<>>
  IN  FlattenSeq([i \in 1 .. Len(chars) + 1 |-> itself(i) \o escape(i)])

\* A character of a query: itself, or written %XX.
UriChar == [escaped : BOOLEAN, code : 0 .. 255]

\* What a string in a query leaves where `old' is the string of the query before:
\* it is cleared at the first character.  A plus stands for a space.  Here the
\* action that leaves an escape is embedded first.
uri_string_param(old, chars) ==
  IF chars = <<>> THEN old
  ELSE [i \in DOMAIN chars |->
          IF ~ chars[i].escaped /\ chars[i].code = 43 THEN 32 ELSE chars[i].code]
=============================================================================
