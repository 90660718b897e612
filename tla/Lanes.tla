------------------------------- MODULE Lanes --------------------------------
(***************************************************************************)
(* How the bulk paths turn three bytes into four characters and back: the  *)
(* arithmetic of one 32-bit lane of cencode_simd_sse.c and                 *)
(* cdecode_simd_sse.c, of the NEON versions of both, and of the scalar     *)
(* paths and their tables.  A lane goes through the instruction groups of  *)
(* the kernel: split into indices, translate, then classify, translate and *)
(* pack.  The lane has a number in its vector, because the SSE4.1, AVX2    *)
(* and NEON kernels move bytes between lanes: to bring each its own three, *)
(* and to store the decoded ones without a gap.  The bytes that belong to  *)
(* other lanes hold Filler.                                                *)
(***************************************************************************)
EXTENDS Alphabet

CONSTANTS
    Triples,    \* the byte triples to encode
    Quads       \* the character quadruples to decode

ASSUME LanesAssumption ==
    /\ Triples \subseteq Octet \X Octet \X Octet
    /\ Quads \subseteq Octet \X Octet \X Octet \X Octet

EncodePaths == {"sse41", "avx2", "armv7", "aarch64", "enc12", "scalar"}
DecodePaths == {"sse41", "avx2", "neon", "swar", "scalar"}

SSE     == {"sse41", "avx2"}
Nibbled == {"sse41", "avx2", "neon"}

(* The lanes of a vector that need telling apart.  vld3q and vst4q move    *)
(* byte j of triple k to lane k and back, so an encoding NEON lane does    *)
(* not.                                                                    *)
LanesOf(p) == CASE p = "avx2" -> 0..7
                [] p \in {"sse41", "neon"} -> 0..3
                [] OTHER -> {0}

VARIABLES
    stage,      \* which instruction group is next
    path,       \* which kernel this lane is of
    lane,       \*   and which of its vector's
    bytes,      \* three bytes
    index,      \* four 6-bit values
    chars       \* four characters

laneVars == << stage, path, lane, bytes, index, chars >>

LaneTypeOK ==
    /\ stage \in {"split", "translate", "encoded", "classify", "value", "pack",
                  "decoded", "blocked"}
    /\ path \in EncodePaths \cup DecodePaths
    /\ lane \in LanesOf(path)
    /\ bytes \in Octet \X Octet \X Octet
    /\ index \in [1..4 -> Octet]
    /\ chars \in Octet \X Octet \X Octet \X Octet

-----------------------------------------------------------------------------
(* Encoding: three bytes to four indices.                                  *)

Word(low, high) == low + 256 * high

MulHi(x, y) == (x * y) \div 2^16
MulLo(x, y) == (x * y) % 2^16

Filler == 170

(* Byte p from s.                                                          *)
Source(p) == IF p \div 3 = lane THEN bytes[(p % 3) + 1] ELSE Filler

\* Mutant of Perm: the upper half begins where the lower one ended.
PermStraight == << 0, 1, 2, 3, 4, 5, 6, 7 >>

(* The dwords of the register, of which sse41 has the lower four.          *)
Perm == << 0, 1, 2, 3, 3, 4, 5, 6 >>

(* _mm_set_epi8 has the last byte first.                                   *)
Shuf == << 1, 0, 2, 1,  4, 3, 5, 4,  7, 6, 8, 7,  10, 9, 11, 10 >>

(* Byte q of the register, permuted and then shuffled within its half.     *)
Permuted(q) == Source(4 * Perm[(q \div 4) + 1] + (q % 4))
Shuffled(q) == Permuted(16 * (q \div 16) + Shuf[(q % 16) + 1])

(* The lane now holds b1 b0 b2 b1; the masks 0x0fc0fc00 and 0x003f03f0     *)
(* pick two fields each, the multiplications move them into place.         *)
SplitSSE ==
    LET low  == Word(Shuffled(4 * lane), Shuffled(4 * lane + 1))
        high == Word(Shuffled(4 * lane + 2), Shuffled(4 * lane + 3))
        w1 == MulHi(low & 64512, 64)    | MulLo(low & 1008, 16)
        w2 == MulHi(high & 4032, 1024)  | MulLo(high & 63, 256)
    IN  << w1 % 256, w1 \div 256, w2 % 256, w2 \div 256 >>

SplitNEON(b) ==
    << b[1] \div 4,
       (((b[1] & 3) * 16) % 256) | (b[2] \div 16),
       (((b[2] & 15) * 4) % 256) | (b[3] \div 64),
       b[3] & 63 >>

(* The coroutine: result carries a field over to the next byte.            *)
SplitScalar(b) ==
    << (b[1] & 252) \div 4,
       ((b[1] & 3) * 16) | ((b[2] & 240) \div 16),
       ((b[2] & 15) * 4) | ((b[3] & 192) \div 64),
       b[3] & 63 >>

(* The bulk loop works on 12 bits at a time: v >> 12 and v & 0xfff.        *)
TwelveBits(b) ==
    LET v == b[1] * 2^16 + b[2] * 2^8 + b[3]
    IN  << v \div 2^12, v % 2^12 >>

Split ==
    /\ stage = "split"
    /\ stage' = "translate"
    /\ index' = CASE path \in SSE -> SplitSSE
                  [] path \in {"armv7", "aarch64"} -> SplitNEON(bytes)
                  [] OTHER -> SplitScalar(bytes)
    /\ UNCHANGED << path, lane, bytes, chars >>

(* Four indices to four characters.                                        *)
OffsetLUT == << 65, 71, 252, 252, 252, 252, 252, 252,
                252, 252, 252, 252, 237, 240, 0, 0 >>

\* Mutant of Reduce: the offset of the lower case letters is not told apart.
ReduceNoGreater(i) == IF i < 51 THEN 0 ELSE i - 51

(* Saturating i - 51, plus one where i > 25: 0 for 'A'..'Z', 1 for 'a'.. . *)
Reduce(i) ==
    LET reduced == IF i < 51 THEN 0 ELSE i - 51
        greater == IF i > 25 THEN 255 ELSE 0
    IN  (reduced - greater) % 256

Offset(i) == (i + OffsetLUT[Reduce(i) + 1]) % 256

Encode12(b) ==
    LET hi == Enc12[TwelveBits(b)[1]]
        lo == Enc12[TwelveBits(b)[2]]
    IN  << hi % 256, hi \div 256, lo % 256, lo \div 256 >>

Translate ==
    /\ stage = "translate"
    /\ stage' = "encoded"
    /\ chars' = LET ch == [p \in 1..4 |->
                             IF path \in SSE \cup {"armv7"} THEN Offset(index[p])
                             ELSE encoding[index[p]]]
                IN  IF path = "enc12" THEN Encode12(bytes)
                    ELSE << ch[1], ch[2], ch[3], ch[4] >>
    /\ UNCHANGED << path, lane, bytes, index >>

(* The characters are decoded again, by any path.                          *)
DecodeAgain ==
    /\ stage = "encoded"
    /\ stage' = "classify"
    /\ path' \in DecodePaths
    /\ lane' \in LanesOf(path')
    /\ bytes' = << 0, 0, 0 >>
    /\ index' = << 0, 0, 0, 0 >>
    /\ UNCHANGED chars

-----------------------------------------------------------------------------
(* Decoding: are all four in the alphabet?                                 *)

LutLo == << 21, 17, 17, 17, 17, 17, 17, 17, 17, 17, 19, 26, 27, 27, 27, 26 >>
LutHi == << 16, 16, 1, 2, 4, 8, 4, 8, 16, 16, 16, 16, 16, 16, 16, 16 >>

LoNibble(c) == c & 15
HiNibble(c) == (c \div 16) & 15

\* Mutant of CleanNibbles: the low nibble alone decides.
CleanNibblesLow(c) == LutLo[LoNibble(c) + 1] & 16 = 0

CleanNibbles(c) == (LutLo[LoNibble(c) + 1] & LutHi[HiNibble(c) + 1]) = 0

Swar(q) == Dec(18)[q[1]] | Dec(12)[q[2]] | Dec(6)[q[3]] | Dec(0)[q[4]]

Clean(q) ==
    CASE path \in Nibbled -> \A p \in 1..4 : CleanNibbles(q[p])
      [] path = "swar"     -> Swar(q) \div 2^24 = 0
      [] OTHER             -> \A p \in 1..4 : decoding[q[p]] >= 0

Classify ==
    /\ stage = "classify"
    /\ stage' = IF Clean(chars) THEN "value" ELSE "blocked"
    /\ UNCHANGED << path, lane, bytes, index, chars >>

(* Character to value: add the roll of its high nibble, with '/' apart.    *)
LutRoll == << 0, 16, 19, 4, 191, 191, 185, 185, 0, 0, 0, 0, 0, 0, 0, 0 >>

Roll(c) == LutRoll[(((IF c = 47 THEN 255 ELSE 0) + HiNibble(c)) % 256) + 1]

Value ==
    /\ stage = "value"
    /\ stage' = "pack"
    /\ index' = [p \in 1..4 |->
                   IF path \in Nibbled THEN (chars[p] + Roll(chars[p])) % 256
                   ELSE decoding[chars[p]]]
    /\ UNCHANGED << path, lane, bytes, chars >>

(* Four values to a 24-bit word: multiply-add with 64 and 1, then with     *)
(* 4096 and 1; or shifts and masks on pairs of lanes.                      *)
PackSSE(v) == (v[1] * 64 + v[2]) * 4096 + (v[3] * 64 + v[4])

PackNEON(v) ==
    LET pair(x) == ((x & 63) * 64) | (x \div 256)
        y == pair(Word(v[1], v[2])) + 2^16 * pair(Word(v[3], v[4]))
    IN  ((y & 4095) * 4096) | (y \div 2^16)

(* The coroutine ORs each byte together from two values.                   *)
PackScalar(v) ==
    << ((v[1] & 63) * 4)  | ((v[2] & 48) \div 16),
       ((v[2] & 15) * 16) | ((v[3] & 60) \div 4),
       ((v[3] & 3) * 64)  | (v[4] & 63) >>

\* Mutant of ThreeBytes: the middle byte is not cut off.
ThreeBytesUncast(w) == << w \div 2^16, w \div 2^8, w % 256 >>

(* The stores of the quad path.                                            *)
ThreeBytes(w) == << w \div 2^16, (w \div 2^8) % 256, w % 256 >>

Places == << 1, 2^8, 2^16, 2^24 >>

(* Byte q of the register that holds the 24-bit words of all lanes.        *)
Merged(w, q) == IF q \div 4 = lane THEN (w \div Places[(q % 4) + 1]) % 256 ELSE Filler

(* The bytes of the words in big-endian order, a half of the register at a *)
(* time: index -1 gives 0.                                                 *)
PackIdx == << 2, 1, 0, 6, 5, 4, 10, 9, 8, 14, 13, 12 >>

Packed(w, q) ==
    IF q % 16 < 12 THEN Merged(w, 16 * (q \div 16) + PackIdx[(q % 16) + 1]) ELSE 0

\* Mutant of Gather: the halves are stored as they are.
GatherStraight == << 0, 1, 2, 3, 4, 5, 6, 7 >>

(* The dwords of the two halves that hold bytes, one after the other; of   *)
(* the last one memcpy takes nothing.                                      *)
Gather == << 0, 1, 2, 4, 5, 6, 7, 7 >>

Gathered(w, q) ==
    IF path = "avx2" THEN Packed(w, 4 * Gather[(q \div 4) + 1] + (q % 4))
    ELSE Packed(w, q)

(* What the kernels' memcpy puts in this lane's place of the output.       *)
Stored(w) == << Gathered(w, 3 * lane), Gathered(w, 3 * lane + 1),
                Gathered(w, 3 * lane + 2) >>

Pack ==
    /\ stage = "pack"
    /\ stage' = "decoded"
    /\ bytes' = CASE path \in SSE  -> Stored(PackSSE(index))
                  [] path = "neon" -> Stored(PackNEON(index))
                  [] path = "swar" -> ThreeBytes(Swar(chars))
                  [] OTHER         -> PackScalar(index)
    /\ UNCHANGED << path, lane, index, chars >>

-----------------------------------------------------------------------------
LaneInit ==
    /\ index = << 0, 0, 0, 0 >>
    /\ \/ /\ stage = "split" /\ path \in EncodePaths
          /\ bytes \in Triples /\ chars = << 0, 0, 0, 0 >>
       \/ /\ stage = "classify" /\ path \in DecodePaths
          /\ chars \in Quads /\ bytes = << 0, 0, 0 >>
    /\ lane \in LanesOf(path)

LaneNext == Split \/ Translate \/ DecodeAgain \/ Classify \/ Value \/ Pack

LaneSpec == LaneInit /\ [][LaneNext]_laneVars

-----------------------------------------------------------------------------
(* Properties.                                                             *)

(* Field j of a 24-bit group, as RFC 4648 cuts it.                         *)
Group(b) == b[1] * 2^16 + b[2] * 2^8 + b[3]
Field(b, j) == (Group(b) \div << 2^18, 2^12, 2^6, 1 >>[j]) % 64

(* Every encoding path gives the four characters of the alphabet that the  *)
(* 24 bits of the lane's own three bytes stand for, in every lane of a     *)
(* vector.                                                                 *)
LaneEncodes ==
    stage = "encoded" => \A j \in 1..4 : chars[j] = encoding[Field(bytes, j)]

(* Every decoding path stops at exactly the same characters: those outside *)
(* the alphabet, '=' and everything above 0x7f included.  The kernels and  *)
(* the scalar core must agree on it, or skipping would depend on the       *)
(* machine.                                                                *)
LaneBlocks ==
    LET clean == \A p \in 1..4 : \E v \in 0..63 : chars[p] = encoding[v]
    IN  /\ stage = "blocked" => ~clean
        /\ stage \in {"value", "pack", "decoded"} => clean

(* What is stored in the lane's place of the output encodes to the         *)
(* characters it was decoded from, whatever path and lane wrote these, and *)
(* base64_encode_value and base64_decode_value agree with it.              *)
LaneInverts ==
    stage = "decoded" =>
        \A j \in 1..4 : /\ chars[j] = EncodeValue(Field(bytes, j))
                        /\ DecodeValue(chars[j]) = Field(bytes, j)

=============================================================================
