------------------------------ MODULE B64Units ------------------------------
(***************************************************************************)
(* The data both codecs move, and the text RFC 4648 section 4 assigns to a *)
(* string of bytes.                                                        *)
(*                                                                         *)
(* Every mask and shift in cencode.c and cdecode.c (0x0fc >> 2, 0x003 << 4,*)
(* 0x0f0 >> 4, ...) moves whole 2-bit fields.  A byte is therefore a tuple *)
(* of four crumbs, a 6-bit value a tuple of three, and the code never      *)
(* looks inside a crumb: Crumb is any set with a zero.  The character that *)
(* stands for a 6-bit value is identified with the value, because the      *)
(* tables encoding[] and decoding[] are inverse bijections; the two        *)
(* characters outside the alphabet that the encoder writes are PAD ('=')   *)
(* and NL ('\n'), and every byte the decoder skips behaves like them.      *)
(***************************************************************************)
EXTENDS Integers, Sequences

CONSTANTS Crumb,   \* the values of a 2-bit field
          Zero,    \* the field 00
          PAD,     \* the character '='
          NL       \* the character '\n'

Byte   == Crumb \X Crumb \X Crumb \X Crumb
Sextet == Crumb \X Crumb \X Crumb
Char   == Sextet \cup {PAD, NL}

ASSUME UnitsAssumption ==
    /\ Zero \in Crumb
    /\ PAD \notin Sextet
    /\ NL \notin Sextet
    /\ PAD # NL

(* C's | on one field.  It is only ever applied where one side is 00.      *)
OrCrumb(a, b) == IF a = Zero THEN b ELSE a

-----------------------------------------------------------------------------
(* The text of the first m bytes of b: their crumbs regrouped by threes.   *)

(* Crumb number c (from 0) of the first m bytes, 00 beyond their end.      *)
CrumbAt(b, m, c) ==
    IF c < 4 * m THEN b[(c \div 4) + 1][(c % 4) + 1] ELSE Zero

SextetAt(b, m, j) ==
    << CrumbAt(b, m, 3*j), CrumbAt(b, m, 3*j + 1), CrumbAt(b, m, 3*j + 2) >>

(* Character j (from 0) of the padded, unwrapped text.                     *)
PayloadChar(b, m, j) == IF 3*j < 4*m THEN SextetAt(b, m, j) ELSE PAD

(* How many characters m bytes determine, and how many they end up as.     *)
OpenCount(m)   == (4 * m) \div 3
ClosedCount(m) == 4 * ((m + 2) \div 3)

(* n characters on lines of w are separated by this many newlines.         *)
Separators(n, w) == IF w = 0 \/ n = 0 THEN 0 ELSE (n - 1) \div w

(* The column they end in; where nothing is wrapped nobody looks at it.    *)
Column(n, w) == IF w = 0 \/ n = 0 THEN 0 ELSE ((n - 1) % w) + 1

(* The characters s put on lines of w, the first of them at a place where  *)
(* the line already has c, at most w.                                      *)
Wrapped(s, w, c) ==
    IF w = 0 THEN s
    ELSE [p \in 1..(Len(s) + Separators(c + Len(s), w)) |->
            IF (c + p) % (w + 1) = 0 THEN NL
            ELSE s[p - (c + p) \div (w + 1)]]

(* What stands at position p (from 1) of the text wrapped at w.            *)
TextChar(b, m, w, p) ==
    IF w = 0 THEN PayloadChar(b, m, p - 1)
    ELSE IF p % (w + 1) = 0 THEN NL
    ELSE PayloadChar(b, m, p - 1 - p \div (w + 1))

(* The text that m bytes of an unfinished stream determine ...             *)
OpenText(b, m, w) ==
    [p \in 1..(OpenCount(m) + Separators(OpenCount(m), w))
        |-> TextChar(b, m, w, p)]

(* ... and the text of a finished stream, which ends a wrapped last line.  *)
ClosedText(b, m, w) ==
    LET n    == ClosedCount(m)
        body == [p \in 1..(n + Separators(n, w)) |-> TextChar(b, m, w, p)]
    IN  IF w = 0 THEN body ELSE Append(body, NL)

(* What stands in t beyond the part it begins with.                        *)
Beyond(part, t) == SubSeq(t, Len(part) + 1, Len(t))

(* What one more piece d adds to the text of a stream that has been fed b, *)
(* and what its end adds.                                                  *)
PieceText(b, d, w) ==
    Beyond(OpenText(b, Len(b), w), OpenText(b \o d, Len(b \o d), w))

EndText(b, w) == Beyond(OpenText(b, Len(b), w), ClosedText(b, Len(b), w))

-----------------------------------------------------------------------------
(* The bytes a text stands for: those its 6-bit values make complete,     *)
(* whatever else stands between the values.                                *)

(* Those members of a sequence that are in S, in their order.              *)
Among(S, s) ==
    LET kept[n \in 0..Len(s)] ==
            IF n = 0 THEN << >>
            ELSE IF s[n] \in S THEN Append(kept[n - 1], s[n])
            ELSE kept[n - 1]
    IN  kept[Len(s)]

(* The 6-bit values in the first m characters of t.                        *)
Values(t, m) == Among(Sextet, SubSeq(t, 1, m))

ValueCrumb(v, c) == v[(c \div 3) + 1][(c % 3) + 1]

(* The complete bytes a string of 6-bit values makes.                      *)
Bytes(v) ==
    [i \in 1..((3 * Len(v)) \div 4) |->
        LET c == 4 * (i - 1)
        IN  << ValueCrumb(v, c),     ValueCrumb(v, c + 1),
               ValueCrumb(v, c + 2), ValueCrumb(v, c + 3) >>]

(* What a decoder has delivered after the text t.                          *)
Decoded(t) == Bytes(Values(t, Len(t)))

(* What it delivers for one more piece u of text.                          *)
PieceBytes(t, u) == Beyond(Decoded(t), Decoded(t \o u))

=============================================================================
