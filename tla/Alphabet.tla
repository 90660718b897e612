------------------------------ MODULE Alphabet ------------------------------
(***************************************************************************)
(* The alphabet and its tables, with characters as the numbers they are.   *)
(* Everywhere else a character is identified with its 6-bit value; here is *)
(* why that may be done.                                                   *)
(***************************************************************************)
EXTENDS Integers, Sequences

Octet == 0..255

(* C's & and | of 32-bit words, octet by octet; x | y has the bits of both *)
(* but not twice.                                                          *)
Bit(x, n) == (x \div 2^n) % 2

AndOctet(x, y) ==
    LET both(n) == 2^n * (Bit(x, n) * Bit(y, n))
    IN  both(0) + both(1) + both(2) + both(3) + both(4) + both(5) + both(6) + both(7)

x & y == AndOctet(x, y) + 2^8 * AndOctet(x \div 2^8, y \div 2^8)
         + 2^16 * AndOctet(x \div 2^16, y \div 2^16)
         + 2^24 * AndOctet(x \div 2^24, y \div 2^24)

x | y == x + y - (x & y)

(* "A..Z", "a..z", "0..9", "+", "/", from index 0.                         *)
encoding ==
    [v \in 0..63 |-> CASE v < 26 -> 65 + v
                       [] v \in 26..51 -> 97 + (v - 26)
                       [] v \in 52..61 -> 48 + (v - 52)
                       [] v = 62 -> 43
                       [] v = 63 -> 47]

(* decoding[]: -1 is no alphabet character, -2 is '='.                     *)
decoding ==
    [c \in Octet |-> CASE c \in 65..90  -> c - 65
                       [] c \in 97..122 -> 26 + (c - 97)
                       [] c \in 48..57  -> 52 + (c - 48)
                       [] c = 43 -> 62
                       [] c = 47 -> 63
                       [] c = 61 -> -2
                       [] OTHER  -> -1]

\* Mutant of EncodeValue: the last value is out of range.
EncodeValueShort(v) == IF v % 256 > 62 THEN 61 ELSE encoding[v % 256]

(* base64_encode_value: '=' for anything that is not a 6-bit value.        *)
EncodeValue(v) == IF v % 256 > 63 THEN 61 ELSE encoding[v % 256]

DecodeValue(c) == decoding[c % 256]

(* base64_enc12: two characters for 12 bits, the first in the low byte.    *)
Enc12 == [i \in 0..4095 |-> encoding[i \div 64] + 256 * encoding[i % 64]]

(* b64_dec0 .. b64_dec3: a value in its place of a 24-bit word, or bit 24. *)
Sentinel == 2^24

Dec(shift) == [c \in Octet |-> IF decoding[c] < 0 THEN Sentinel
                               ELSE decoding[c] * 2^shift]

=============================================================================
