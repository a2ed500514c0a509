-------------------------------- MODULE Codecs --------------------------------
(***************************************************************************)
(* The text encodings: utility_functions::base64encode and base64decode,    *)
(* cryptography_functions::string_to_custom_base36_openssl and its inverse. *)
(* A base64 or base36 character is its index in BASE64_CHARS or             *)
(* BASE36_DIGITS.                                                           *)
(***************************************************************************)
EXTENDS Integers, SequencesExt

CONSTANT Register  \* values of the accumulator of the base36 codec, 2^32 in the code

Pad == 64    \* '='
Other == 65  \* a character of neither alphabet

ASSUME RegisterAssumption == Register \in Nat \ {0} /\ Register % 4096 = 0

At(s, i) == IF i <= Len(s) THEN s[i] ELSE 0
(* s cut into groups of n, the last one possibly short.                     *)
Groups(s, n) == [g \in 1 .. (Len(s) + n - 1) \div n |-> SubSeq(s, (g - 1) * n + 1, Min({g * n, Len(s)}))]

-----------------------------------------------------------------------------
(* What stands at the end of the last group is decided by where the reading *)
(* index i has stopped: at len, which it never exceeds.                     *)
Marks(i, len, d) ==
  CASE i > len     -> << d[1], d[2], Pad, Pad >>
    [] i = len     -> << d[1], d[2], d[3], Pad >>
    [] OTHER       -> d

EncodeGroup(s, g) ==
  LET o == Groups(s, 3)[g]
      t == At(o, 1) * 65536 + At(o, 2) * 256 + At(o, 3)
  IN Marks(3 * (g - 1) + Len(o), Len(s), << t \div 262144, (t \div 4096) % 64, (t \div 64) % 64, t % 64 >>)
base64encode(s) == FlattenSeq([g \in DOMAIN Groups(s, 3) |-> EncodeGroup(s, g)])

(* char_to_value of a character that is not there is 0.                     *)
char_to_value_Shifted(c) == IF c < 63 THEN c + 1 ELSE 0
char_to_value(c) == IF c < 64 THEN c ELSE 0
Byte(n) == n % 256
DecodeFour(q) ==
  LET n == char_to_value(q[1]) * 262144 + char_to_value(q[2]) * 4096
           + char_to_value(q[3]) * 64 + char_to_value(q[4])
  IN << Byte(n \div 65536) >>
     \o (IF q[3] # Pad THEN << Byte(n \div 256) >> ELSE << >>)
     \o (IF q[4] # Pad THEN << Byte(n) >> ELSE << >>)
base64decode(t) ==
  IF Len(t) % 4 # 0 THEN << >>
  ELSE LET Q == Groups(t, 4) IN FlattenSeq([g \in DOMAIN Q |-> DecodeFour(Q[g])])

-----------------------------------------------------------------------------
(* The accumulator keeps all that was shifted in, modulo its width.         *)
Shift(value, by, low) == (value * 2^by + low) % Register
NoBits == [value |-> 0, bits |-> 0, out |-> << >>]
Leftover_Dropped(a) == << >>
Leftover(a) == IF a.bits > 0 THEN << (a.value * 2^(5 - a.bits)) % 32 >> ELSE << >>

EncodeByte(a, byte) ==
  LET value == Shift(a.value, 8, byte)
      bits  == a.bits + 8
  IN [value |-> value, bits |-> bits % 5,
      out |-> a.out \o [k \in 1 .. bits \div 5 |-> (value \div 2^(bits - 5 * k)) % 32]]
string_to_custom_base36(s) ==
  LET end == FoldLeft(EncodeByte, NoBits, s) IN end.out \o Leftover(end)

(* The index is or-ed in: one of 6 bits overlaps the last bit shifted up.   *)
Or5(value, index) ==
  LET carried == IF index >= 32 /\ value % 2 = 0 THEN value + 1 ELSE value
  IN Shift(carried, 5, index % 32)
(* The characters before the first that is not a digit.                     *)
Digits_SkipsBad(t) == SelectSeq(t, LAMBDA c : c < 36)
Digits(t) ==
  LET good == {n \in 0 .. Len(t) : \A i \in 1 .. n : t[i] < 36} IN SubSeq(t, 1, Max(good))

DecodeDigit(a, index) ==
  LET value == Or5(a.value, index)
      bits  == a.bits + 5
  IN IF bits < 8 THEN [a EXCEPT !.value = value, !.bits = bits]
     ELSE [value |-> value, bits |-> bits - 8,
           out |-> Append(a.out, (value \div 2^(bits - 8)) % 256)]
string_from_custom_base36(t) == FoldLeft(DecodeDigit, NoBits, Digits(t)).out

-----------------------------------------------------------------------------
(* RFC 4648: the n digits of w bits that the bits of s make, zeros after    *)
(* the last, and for base64 the pads that complete the last four.           *)
Bit(s, k) == (At(s, k \div 8 + 1) \div 2^(7 - (k % 8))) % 2
DigitAt(s, w, j) ==
  LET value[k \in 0 .. w] == IF k = 0 THEN 0 ELSE 2 * value[k - 1] + Bit(s, w * (j - 1) + k - 1)
  IN value[w]
Regrouped(s, w) == [j \in 1 .. (8 * Len(s) + w - 1) \div w |-> DigitAt(s, w, j)]
Base64(s) ==
  LET d == Regrouped(s, 6)
  IN d \o [i \in 1 .. (4 - (Len(d) % 4)) % 4 |-> Pad]

(* base64decode gives back the bytes of their RFC 4648 text.  base64encode  *)
(* makes that text of inputs of length 2 modulo 3; of any other only the    *)
(* last group is not it, and what is decoded from it differs from the input *)
(* in the last byte, lost or followed by a zero.                            *)
Base64OfAllButTheLast(s) ==
  LET back == base64decode(base64encode(s)) IN
  /\ base64decode(Base64(s)) = s
  /\ CASE Len(s) % 3 = 2 -> base64encode(s) = Base64(s)
       [] Len(s) % 3 = 1 -> back = Append(s, 0)
       [] OTHER          -> back = SubSeq(s, 1, Len(s) - 1)
=============================================================================
