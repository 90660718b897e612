----------------------------- MODULE B64Lengths -----------------------------
(***************************************************************************)
(* The two buffer-size helpers of the block API, in size_t arithmetic.     *)
(***************************************************************************)
EXTENDS Integers

CONSTANT SizeMax    \* the largest size_t, 2^w - 1

ASSUME SizeMaxAssumption == SizeMax \in Nat /\ SizeMax >= 15

(* The value a size_t holds after an operation whose exact result is x.    *)
SizeT(x) == x % (SizeMax + 1)

\* Mutant of Newlines: the last line is not ended.
NewlinesBetween(chars, cpl) == (chars - 1) \div cpl

(* base64_encode_length: the size of the encoding of plain_len bytes at    *)
(* line width cpl, or 0 when it and a terminating NUL would not fit.       *)
Groups(plain_len) == (plain_len + 2) \div 3

Newlines(chars, cpl) == (chars - 1) \div cpl + 1

EncodeLength(plain_len, cpl) ==
    LET chars == 4 * Groups(plain_len)
    IN  IF plain_len > SizeMax - 2 \/ Groups(plain_len) > SizeMax \div 4 THEN 0
        ELSE IF cpl = 0 THEN chars
        ELSE IF chars = 0 THEN 1
        ELSE IF Newlines(chars, cpl) < SizeMax - chars
             THEN Newlines(chars, cpl) + chars
             ELSE 0

\* Mutant of DecodeMaxLength: room for the bytes alone.
DecodeMaxLengthTight(encode_len) == SizeT((encode_len \div 4) * 3 + 2)

(* base64_decode_maxlength: room for the decoding of encode_len characters *)
(* and for the store ahead of the last complete byte.                      *)
DecodeMaxLength(encode_len) == SizeT((encode_len \div 4) * 3 + 3)

=============================================================================
