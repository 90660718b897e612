------------------------ MODULE StreamEncodeProofs -------------------------
(***************************************************************************)
(* What holds of StreamEncode for any contents, buffer sizes, widths,      *)
(* allocator and exception mask, whatever the object was used for before:  *)
(* the exits of encode() release the scratch, what a call writes is the    *)
(* encoding of what it read, and every piece fits the buffer it is put in. *)
(***************************************************************************)
EXTENDS StreamEncode, B64Facts, TLAPS

(* A call begins with nothing of its own allocated, which is what lets its *)
(* first allocation fail without giving anything back.                     *)
NothingTakenYet == pc = "plaintext" => live = NoBlocks

IInv == NothingTakenYet /\ ExitsRelease

(* Only allocations, exits and a new object or call touch live, pc and     *)
(* outcome in a way that matters here.                                     *)
LEMMA KeepsOrLeaves ==
    ASSUME IInv,
           \/ UNCHANGED << pc, outcome, live >>
           \/ pc' \notin {"idle", "plaintext"}
           \/ live' = NoBlocks
           \/ pc' = "idle" /\ outcome' \notin {"returned", "bad_alloc"}
    PROVE  IInv'
BY DEF IInv, NothingTakenYet, ExitsRelease

(* A first allocation that fails leaves with nothing held.                 *)
LEMMA AllocPlaintextStep == ASSUME IInv, AllocPlaintext PROVE IInv'
<1>1. live = NoBlocks
  BY DEF IInv, NothingTakenYet, AllocPlaintext
<1>2. pc' = "code" \/ live' = NoBlocks
  BY <1>1 DEF AllocPlaintext, Proceed, Leave
<1>3. QED
  BY <1>2, KeepsOrLeaves

(* A second allocation that fails releases the first buffer before it
   leaves.                                                                 *)
LEMMA AllocCodeStep == ASSUME IInv, AllocCode PROVE IInv'
<1>1. \/ pc' = "read"
      \/ live' = NoBlocks
      \/ pc' = "idle" /\ outcome' = "thrown"
  BY DEF AllocCode, Proceed, Leave
<1>2. QED
  BY <1>1, KeepsOrLeaves

(* Every other step inside a call goes on, or leaves by an exception of a  *)
(* stream.                                                                 *)
LEMMA StreamStep ==
    ASSUME IInv, Read \/ Encode \/ Write \/ End \/ WriteEnd
    PROVE  IInv'
<1> DEFINE Goes ==
             \/ pc' \in {"read", "encode_end"}
             \/ pc' = "idle" /\ outcome' = "thrown"
<1>1. CASE Read
  BY <1>1, KeepsOrLeaves DEF Read, FailureOf, Proceed, Leave
<1>2. CASE Write
  <2>1. Goes
    BY <1>2 DEF Write, Again, FailureOf, Proceed, Leave
  <2>2. QED
    BY <2>1, KeepsOrLeaves
<1>3. CASE Encode \/ End
  BY <1>3, KeepsOrLeaves DEF Encode, End, Proceed
<1>4. CASE WriteEnd
  BY <1>4, KeepsOrLeaves DEF WriteEnd, FailureOf, Proceed, Leave
<1>5. QED
  BY <1>1, <1>2, <1>3, <1>4

(* The caller's steps and the return leave no buffer held.                 *)
LEMMA CallerStep ==
    ASSUME IInv, Build \/ EncodeBlock \/ EncodeBlockEnd \/ EncodeStream \/ Reset
    PROVE  IInv'
<1>1. \/ UNCHANGED << pc, outcome, live >>
      \/ pc' = "ended"
      \/ live' = NoBlocks
  BY DEF Build, EncodeBlock, EncodeBlockEnd, EncodeStream, OpenStreams, Reset,
         memory
<1>2. QED
  BY <1>1, KeepsOrLeaves

(* Whatever the allocator does, however the streams fail and whatever the  *)
(* object was used for before, the exits encode() makes itself leave no    *)
(* scratch buffer behind: encode.h:105-115 and 136-137.                    *)
THEOREM ScratchReleased == Spec => []ExitsRelease
<1>1. Init => IInv
  BY DEF Init, InitStreams, IInv, NothingTakenYet, ExitsRelease
<1>2. IInv /\ [Next]_vars => IInv'
  <2> SUFFICES ASSUME IInv, [Next]_vars PROVE IInv'
    OBVIOUS
  <2>1. CASE UNCHANGED vars
    BY <2>1, KeepsOrLeaves DEF vars, streamVars, memory
  <2>2. CASE Next
    BY <2>2, AllocPlaintextStep, AllocCodeStep, StreamStep, CallerStep
       DEF Next, Inside
  <2>3. QED
    BY <2>1, <2>2
<1>3. IInv => ExitsRelease
  BY DEF IInv
<1>4. QED
  BY <1>1, <1>2, <1>3, PTL DEF Spec

-----------------------------------------------------------------------------
(* Types.                                                                  *)

LEMMA StreamTypes ==
    ASSUME TypeOK
    PROVE  /\ content \in Seq(Byte) /\ got \in 0..Len(content)
           /\ chars_per_line \in Nat /\ width \in Nat
           /\ since \in Seq(Byte) /\ leftover \in Seq(Byte) /\ before \in Seq(Byte)
           /\ buffersize \in Nat \ {0} /\ gcount \in 0..buffersize
           /\ out \in Seq(Char) /\ chunk \in Seq(Char)
           /\ stepcount \in 0..chars_per_line /\ begun.column \in 0..width
           /\ spent \in BOOLEAN /\ begun.spent \in BOOLEAN
<1>1. SizeMax \in Nat /\ << >> \in Seq(Byte)
  BY SizeMaxAssumption, EmptySeq
<1>2. content \in Seq(Byte)
  BY <1>1, StreamEncodeAssumption DEF TypeOK, StreamTypeOK
<1>3. chars_per_line \in Nat /\ width \in Nat
  BY <1>1, StreamEncodeAssumption DEF TypeOK
<1>4. QED
  BY <1>2, <1>3 DEF TypeOK, StreamTypeOK

(* The characters of a call, put on lines, and where the line is then.     *)
LEMMA BrokenIs ==
    ASSUME TypeOK, NEW chars \in Seq(Char)
    PROVE  /\ Broken(chars) \in Seq(Char)
           /\ LastLine(Broken(chars), chars_per_line) \in Seq(Char)
           /\ Column(stepcount + Len(chars), chars_per_line) \in 0..chars_per_line
<1>1. chars_per_line \in Nat /\ stepcount \in 0..chars_per_line /\ NL \in Char
  BY StreamTypes DEF Char
<1>2. /\ Broken(chars) \in Seq(Char)
      /\ Column(stepcount + Len(chars), chars_per_line) \in 0..chars_per_line
  BY <1>1, WrappedType DEF Broken
<1>3. \A s \in Seq(Char) : Append(s, NL) \in Seq(Char)
  BY <1>1
<1>4. QED
  BY <1>2, <1>3 DEF LastLine

(* What base64_encode_block writes, and base64_encode_blockend.            *)
LEMMA EncodePieceIs ==
    ASSUME TypeOK, NEW piece \in Seq(Byte), EncodePiece(piece)
    PROVE  /\ since' = since \o piece /\ since' \in Seq(Byte)
           /\ PieceText(since, piece, 0) \in Seq(Char)
           /\ chunk' \in Seq(Char) /\ chunk' = Broken(PieceText(since, piece, 0))
           /\ stepcount' \in 0..chars_per_line
<1>1. since \in Seq(Byte)
  BY StreamTypes
<1>2. since' = since \o piece /\ since' \in Seq(Byte)
  BY <1>1, ConcatProperties DEF EncodePiece
<1>3. PieceText(since, piece, 0) \in Seq(Char)
  BY <1>1, TextInPieces
<1>4. chunk' \in Seq(Char) /\ chunk' = Broken(PieceText(since, piece, 0))
      /\ stepcount' \in 0..chars_per_line
  BY <1>3, BrokenIs DEF EncodePiece, Count
<1>5. QED
  BY <1>2, <1>3, <1>4

(* blockend writes what closes the text, and ends the last line.           *)
LEMMA EncodeEndIs ==
    ASSUME TypeOK, EncodeEnd
    PROVE  /\ since' = since /\ chars_per_line' = chars_per_line /\ spent' = TRUE
           /\ EndText(since, 0) \in Seq(Char)
           /\ chunk' \in Seq(Char)
           /\ chunk' = LastLine(Broken(EndText(since, 0)), chars_per_line)
           /\ stepcount' \in 0..chars_per_line
<1>1. EndText(since, 0) \in Seq(Char)
  BY StreamTypes, EmptySeq, TextInPieces
<1>2. chunk' \in Seq(Char)
      /\ chunk' = LastLine(Broken(EndText(since, 0)), chars_per_line)
      /\ stepcount' \in 0..chars_per_line
  BY <1>1, BrokenIs DEF EncodeEnd, Count
<1>3. QED
  BY <1>1, <1>2 DEF EncodeEnd

(* What a read and a write do.                                             *)
LEMMA ReadIs ==
    ASSUME TypeOK, ReadOk \/ ReadFails
    PROVE  /\ gcount' \in 0..buffersize
           /\ got' = got + gcount' /\ got' \in 0..Len(content) /\ content' = content
           /\ inState' \in {"good", "eof", "bad"}
           /\ inState' = "good" => inState = "good" /\ gcount' = buffersize
           /\ inState' = "eof" => inState = "eof" \/ got' = Len(content)
<1>1. content \in Seq(Byte) /\ got \in 0..Len(content) /\ buffersize \in Nat \ {0}
      /\ inState \in {"good", "eof", "bad"}
  BY StreamTypes DEF TypeOK, StreamTypeOK
<1>2. Len(content) \in Nat
  BY <1>1
<1>3. Available \in 0..buffersize /\ got + Available \in 0..Len(content)
      /\ (inState = "good" /\ Available < buffersize => got + Available = Len(content))
  BY <1>1, <1>2 DEF Available
<1>4. CASE ReadOk
  BY <1>1, <1>3, <1>4 DEF ReadOk
<1>5. CASE ReadFails
  <2>1. gcount' \in 0..Available /\ gcount' < buffersize /\ got' = got + gcount'
        /\ inState' = "bad" /\ content' = content
    BY <1>5 DEF ReadFails
  <2>2. PICK a \in 0..buffersize : got + a \in 0..Len(content) /\ gcount' \in 0..a
    BY <1>3, <2>1
  <2>3. gcount' \in 0..buffersize /\ got + gcount' \in 0..Len(content)
    <3>1. got \in Int /\ gcount' \in Int /\ a \in Int /\ buffersize \in Int
      BY <1>1, <2>2
    <3>2. 0 <= got /\ 0 <= gcount' /\ gcount' <= a /\ a <= buffersize
      BY <1>1, <2>2
    <3>3. got + a <= Len(content) /\ Len(content) \in Int
      BY <1>2, <2>2
    <3>4. gcount' <= buffersize /\ 0 <= got + gcount' /\ got + gcount' <= got + a
      <4>1. \A x, y, z, g \in Int : 0 <= g /\ 0 <= x /\ x <= y /\ y <= z =>
                x <= z /\ 0 <= g + x /\ g + x <= g + y
        OBVIOUS
      <4>2. QED
        BY ONLY <3>1, <3>2, <4>1
    <3>5. got + gcount' \in Int /\ got + a \in Int
      BY ONLY <3>1
    <3>6. got + gcount' <= Len(content)
      BY ONLY <3>3, <3>4, <3>5
    <3>7. gcount' \in 0..buffersize
      BY ONLY <3>1, <3>2, <3>4
    <3>8. got + gcount' \in 0..Len(content)
      BY ONLY <3>3, <3>4, <3>5, <3>6
    <3>9. QED
      BY <3>7, <3>8
  <2>4. QED
    BY <2>1, <2>3
<1>6. QED
  BY <1>4, <1>5

(* What a write does to the output: all of the chunk, or a part and a bad
   state.                                                                  *)
LEMMA WriteIs ==
    ASSUME TypeOK, WriteOk \/ WriteFails
    PROVE  /\ out' \in Seq(Char) /\ outState' \in {"good", "bad"}
           /\ outState' = "good" => outState = "good" /\ out' = out \o chunk
           /\ outState = "good" /\ outState' = "bad" => Extends(Char, out \o chunk, out')
           /\ outState = "bad" => outState' = "bad" /\ out' = out
<1>1. out \in Seq(Char) /\ chunk \in Seq(Char) /\ outState \in {"good", "bad"}
  BY StreamTypes DEF TypeOK, StreamTypeOK
<1>2. out \o chunk \in Seq(Char)
  BY <1>1, ConcatProperties
<1>3. CASE WriteOk
  BY <1>1, <1>2, <1>3 DEF WriteOk
<1>4. CASE WriteFails
  <2>1. PICK k \in 0..(Len(chunk) - 1) : out' = out \o SubSeq(chunk, 1, k)
    BY <1>4 DEF WriteFails
  <2>2. k \in 0..Len(chunk)
    BY <1>1
  <2>3. out \o SubSeq(chunk, 1, k) \in Seq(Char)
        /\ Extends(Char, out \o chunk, out \o SubSeq(chunk, 1, k))
    BY <1>1, <2>2, PartWritten
  <2>4. outState = "good" /\ outState' = "bad"
    BY <1>4 DEF WriteFails
  <2>5. QED
    BY <2>1, <2>3, <2>4
<1>5. QED
  BY <1>3, <1>4

(* The buffer size used is never 0, whatever is configured.                *)
LEMMA ClampType ==
    ASSUME NEW size \in BufferSizes
    PROVE  Clamp(size) \in Nat \ {0}
<1>1. size \in Int
  BY StreamsAssumption
<1>2. QED
  BY <1>1 DEF Clamp

(* The capacity and the size requested are numbers.                        *)
LEMMA CapType == ASSUME TypeOK PROVE Cap \in Nat /\ CodeSize \in Nat
<1>1. buffersize \in Nat \ {0} /\ chars_per_line \in Nat /\ SizeMax \in Nat
  BY StreamTypes, SizeMaxAssumption
<1> DEFINE chars == 4 * Groups(buffersize)
<1>2. chars \in Nat /\ chars - 1 \in Int
  BY <1>1 DEF Groups
<1>3. chars_per_line # 0 /\ chars # 0 => Newlines(chars, chars_per_line) \in Nat
  <2>1. SUFFICES ASSUME chars_per_line # 0, chars # 0
                 PROVE  Newlines(chars, chars_per_line) \in Nat
    OBVIOUS
  <2> HIDE DEF chars
  <2>2. chars_per_line \in Nat \ {0} /\ chars - 1 \in Nat
    BY <1>1, <1>2, <2>1
  <2>3. (chars - 1) \div chars_per_line \in Nat
    BY <2>2
  <2>4. QED
    BY <2>3 DEF Newlines
<1> HIDE DEF chars
<1>4. Cap \in Nat
  BY <1>1, <1>2, <1>3 DEF Cap, EncodeLength, chars
<1>5. QED
  BY <1>1, <1>4 DEF CodeSize, SizeT

(* The types hold at first.                                                *)
LEMMA InitTypes == Init => TypeOK
<1> SUFFICES ASSUME Init PROVE TypeOK
  OBVIOUS
<1>1. << >> \in Seq(Byte) /\ << >> \in Seq(Char) /\ content \in Seq(Byte)
  BY EmptySeq, StreamEncodeAssumption DEF Init, InitStreams
<1>2. buffersize \in Nat \ {0}
  BY ClampType DEF Init, InitStreams
<1>3. 0 \in 0..Len(content) /\ 0 \in 0..buffersize
  BY <1>1, <1>2
<1>4. live \in [{"plaintext", "code"} -> Nat]
  BY DEF Init, InitStreams, NoBlocks
<1>5. width \in Widths /\ chars_per_line = width /\ 0 \in 0..width
  BY SizeMaxAssumption, StreamEncodeAssumption DEF Init
<1>6. begun \in [column : 0..width, spent : BOOLEAN]
  BY <1>5 DEF Init
<1>7. QED
  BY <1>1, <1>2, <1>3, <1>4, <1>5, <1>6
     DEF Init, InitStreams, TypeOK, StreamTypeOK, Outcomes

(* A stutter keeps the types.                                              *)
LEMMA TypesSame == ASSUME TypeOK, UNCHANGED vars PROVE TypeOK'
BY DEF TypeOK, StreamTypeOK, vars, streamVars, object, memory, istream, ostream,
       state, history

(* The calls of the caller keep the types.                                 *)
LEMMA CallerTypes ==
    ASSUME TypeOK, chars_per_line = width,
           Build \/ EncodeBlock \/ EncodeBlockEnd \/ EncodeStream
    PROVE  TypeOK'
<1>1. << >> \in Seq(Byte) /\ << >> \in Seq(Char) /\ Len(<< >>) = 0
  BY EmptySeq
<1>2. NoBlocks \in [{"plaintext", "code"} -> Nat]
  BY DEF NoBlocks
<1>3. CASE Build
  <2>1. buffersize' \in Nat \ {0}
    BY <1>3, ClampType DEF Build, BuildObject
  <2>2. 0 \in 0..buffersize' /\ 0 \in 0..Len(<< >>)
    BY <1>1, <2>1
  <2>3. width' \in Widths /\ chars_per_line' = width' /\ 0 \in 0..width'
    BY <1>3, SizeMaxAssumption, StreamEncodeAssumption DEF Build
  <2>4. QED
    BY <1>1, <1>2, <1>3, <2>1, <2>2, <2>3
       DEF TypeOK, StreamTypeOK, Build, BuildObject, Outcomes
<1>4. CASE EncodeBlock
  <2>1. PICK piece \in Contents : EncodePiece(piece) /\ leftover' = leftover \o piece
    BY <1>4 DEF EncodeBlock
  <2>2. piece \in Seq(Byte)
    BY StreamEncodeAssumption
  <2>3. since' \in Seq(Byte) /\ chunk' \in Seq(Char) /\ stepcount' \in 0..chars_per_line
    BY <2>1, <2>2, EncodePieceIs
  <2>4. leftover' \in Seq(Byte)
    BY <2>1, <2>2, StreamTypes, ConcatProperties
  <2>5. QED
    BY <1>4, <2>3, <2>4
       DEF TypeOK, StreamTypeOK, EncodeBlock, object, memory, istream, ostream
<1>5. CASE EncodeBlockEnd
  <2>1. /\ since' = since /\ chars_per_line' = chars_per_line /\ spent' = TRUE
        /\ chunk' \in Seq(Char) /\ stepcount' \in 0..chars_per_line
    BY <1>5, EncodeEndIs DEF EncodeBlockEnd
  <2>2. QED
    BY <1>5, <2>1
       DEF TypeOK, StreamTypeOK, EncodeBlockEnd, object, memory, istream, ostream,
           history
<1>6. CASE EncodeStream
  <2>1. content' \in Seq(Byte) /\ content' \in Contents
    BY <1>6, StreamEncodeAssumption DEF EncodeStream, OpenStreams
  <2>2. 0 \in 0..Len(content') /\ 0 \in 0..buffersize /\ stepcount \in 0..width
    BY <2>1, StreamTypes
  <2>3. QED
    BY <1>1, <1>2, <1>6, <2>1, <2>2
       DEF TypeOK, StreamTypeOK, EncodeStream, OpenStreams, object, state, Outcomes
<1>7. QED
  BY <1>3, <1>4, <1>5, <1>6

(* The allocations keep the types.                                         *)
LEMMA AllocTypes ==
    ASSUME TypeOK, AllocPlaintext \/ AllocCode
    PROVE  TypeOK'
<1>1. NoBlocks \in [{"plaintext", "code"} -> Nat]
  BY DEF NoBlocks
<1>2. buffersize \in Nat /\ CodeSize \in Nat /\ live \in [{"plaintext", "code"} -> Nat]
  BY StreamTypes, CapType DEF TypeOK, StreamTypeOK
<1>3. live' \in [{"plaintext", "code"} -> Nat]
  BY <1>1, <1>2 DEF AllocPlaintext, AllocCode, Allocated
<1>4. /\ pc' \in {"code", "read", "idle"}
      /\ outcome' \in Outcomes
      /\ UNCHANGED OutsideMemory
  BY DEF AllocPlaintext, AllocCode, Proceed, Leave, Outcomes, TypeOK, StreamTypeOK
<1>5. QED
  BY <1>3, <1>4
     DEF TypeOK, StreamTypeOK, OutsideMemory, object, istream, ostream, state, history

(* How far the steps of a call get.                                        *)
LEMMA FailureIs ==
    ASSUME TypeOK, NEW next \in {"encode", "read", "encode_end", "reset"},
           \/ Proceed(next) /\ UNCHANGED leftover
           \/ FailureOf(next)
    PROVE  /\ pc' \in {next, "idle"} /\ outcome' \in Outcomes
           /\ leftover' \in Seq(Byte)
           /\ \/ pc' = next /\ UNCHANGED << outcome, leftover >>
              \/ /\ pc' = "idle" /\ outcome' = "thrown"
                 /\ leftover' = before \o SubSeq(content, 1, got)
<1>1. leftover \in Seq(Byte) /\ before \in Seq(Byte) /\ outcome \in Outcomes
  BY StreamTypes DEF TypeOK, StreamTypeOK
<1>2. before \o SubSeq(content, 1, got) \in Seq(Byte)
  <2>1. content \in Seq(Byte) /\ got \in 0..Len(content) /\ 0 \in 0..Len(content)
    BY StreamTypes
  <2>2. SubSeq(content, 0 + 1, got) \in Seq(Byte)
    BY <2>1, PieceType
  <2>3. QED
    BY <1>1, <2>2, ConcatProperties
<1>3. QED
  BY <1>1, <1>2 DEF Proceed, FailureOf, Leave, Outcomes

(* The steps of the loop, but for the encoding, keep the types.            *)
LEMMA StreamStepTypes ==
    ASSUME TypeOK, Read \/ Write \/ End \/ WriteEnd \/ Reset
    PROVE  TypeOK'
<1>1. CASE Read
  <2>1. ReadOk \/ ReadFails
    BY <1>1 DEF Read
  <2>2. gcount' \in 0..buffersize /\ got' \in 0..Len(content) /\ content' = content
        /\ inState' \in {"good", "eof", "bad"}
    BY <2>1, ReadIs
  <2>3. pc' \in {"encode", "idle"} /\ outcome' \in Outcomes /\ leftover' \in Seq(Byte)
    BY <1>1, FailureIs DEF Read
  <2>4. QED
    BY <1>1, <2>2, <2>3
       DEF Read, TypeOK, StreamTypeOK, object, memory, ostream, state
<1>2. CASE Write
  <2>1. out' \in Seq(Char) /\ outState' \in {"good", "bad"}
    BY <1>2, WriteIs DEF Write
  <2>2. pc' \in {"read", "encode_end", "idle"} /\ outcome' \in Outcomes
        /\ leftover' \in Seq(Byte)
    BY <1>2, FailureIs DEF Write
  <2>3. QED
    BY <1>2, <2>1, <2>2
       DEF Write, TypeOK, StreamTypeOK, object, memory, istream, state
<1>3. CASE End
  <2>1. /\ since' = since /\ chars_per_line' = chars_per_line /\ spent' = TRUE
        /\ chunk' \in Seq(Char) /\ stepcount' \in 0..chars_per_line
    BY <1>3, EncodeEndIs DEF End
  <2>2. QED
    BY <1>3, <2>1
       DEF End, Proceed, TypeOK, StreamTypeOK, object, memory, istream, ostream,
           history
<1>4. CASE WriteEnd
  <2>1. out' \in Seq(Char) /\ outState' \in {"good", "bad"}
    BY <1>4, WriteIs DEF WriteEnd
  <2>2. pc' \in {"reset", "idle"} /\ outcome' \in Outcomes /\ leftover' \in Seq(Byte)
    BY <1>4, FailureIs DEF WriteEnd
  <2>3. QED
    BY <1>4, <2>1, <2>2
       DEF WriteEnd, TypeOK, StreamTypeOK, object, memory, istream, state
<1>5. CASE Reset
  <2>1. NoBlocks \in [{"plaintext", "code"} -> Nat] /\ << >> \in Seq(Byte)
        /\ 0 \in 0..chars_per_line
    BY EmptySeq, StreamTypes DEF NoBlocks
  <2>2. QED
    BY <1>5, <2>1
       DEF Reset, Leave, TypeOK, StreamTypeOK, Outcomes, object, istream, ostream
<1>6. QED
  BY <1>1, <1>2, <1>3, <1>4, <1>5

-----------------------------------------------------------------------------
(* The text.                                                               *)

InCall == pc \notin {"idle", "ended"}

(* What every place in the code knows.                                     *)
Phase ==
    /\ chars_per_line = width
    /\ pc = "idle" => since = leftover
    /\ InCall => outcome = "none" /\ leftover = before
    /\ inState = "eof" => got = Len(content)
    /\ pc \in {"plaintext", "code", "read"} => inState = "good"
    /\ pc \in {"plaintext", "code"} => got = 0 /\ out = << >> /\ outState = "good"
    /\ pc = "encode" => gcount <= got
    /\ pc \in {"encode", "write"} /\ inState = "good" => gcount = buffersize
    /\ pc \in {"encode_end", "write_end", "reset"} => inState # "good"

(* The encoder has been fed what was left over when the call began, and    *)
(* what the call has read and passed on.                                   *)
PassedOn == SubSeq(content, 1, IF pc = "encode" THEN got - gcount ELSE got)

Fed == InCall => since = before \o PassedOn

(* The text, not put on lines, of the bytes b of an unfinished stream.     *)
Chars(b) == OpenText(b, Len(b), 0)

(* The characters due so far for what was not converted before the call,   *)
(* and the lines they are on.                                              *)
DueChars ==
    Beyond(Chars(before), IF pc \in {"write_end", "reset"}
                          THEN ClosedText(since, Len(since), 0)
                          ELSE Chars(since))

Due == LET text == Wrapped(DueChars, width, begun.column)
       IN  IF pc \in {"write_end", "reset"} THEN LastLine(text, width) ELSE text

(* stepcount is the column that the text of the stream has reached, as     *)
(* long as blockend was not called; from there on, in any case, it is the  *)
(* column that this call has reached from where it began.                  *)
Columns ==
    /\ ~spent => stepcount = Column(OpenCount(Len(since)), width)
    /\ InCall =>
          /\ ~begun.spent => begun.column = Column(OpenCount(Len(before)), width)
          /\ stepcount = Column(begun.column + Len(DueChars), width)

(* What of the text due the ostream has been handed.                       *)
OutIsDue ==
    InCall =>
        /\ outState = "bad" => Extends(Char, Due, out)
        /\ outState = "good" =>
              Due = IF pc \in {"write", "write_end"} THEN out \o chunk ELSE out

(* All parts of the invariant hold at first.                               *)
LEMMA InitText ==
    Init => TypeOK /\ Phase /\ Fed /\ Columns /\ OutIsDue /\ StreamIsText
<1>1. \A w : Column(OpenCount(Len(<< >>)), w) = 0
  BY DEF OpenCount, Column
<1>2. QED
  BY <1>1, InitTypes
     DEF Init, InitStreams, Phase, Fed, Columns, OutIsDue, StreamIsText, InCall

(* The encoding of a piece keeps the types.                                *)
LEMMA EncodeTypes == ASSUME TypeOK, Phase, Encode PROVE TypeOK'
<1>1. content \in Seq(Byte) /\ got \in 0..Len(content) /\ gcount \in Nat /\ gcount <= got
  BY StreamTypes DEF Phase, Encode
<1>2. got - gcount \in 0..Len(content)
  BY <1>1
<1>3. SubSeq(content, got - gcount + 1, got) \in Seq(Byte)
  BY <1>1, <1>2, PieceType
<1>4. since' \in Seq(Byte) /\ chunk' \in Seq(Char) /\ stepcount' \in 0..chars_per_line
  BY <1>3, EncodePieceIs DEF Encode
<1>5. QED
  BY <1>4
     DEF Encode, Proceed, TypeOK, StreamTypeOK, object, memory, istream, ostream, history

(* Every step keeps the types.                                             *)
LEMMA TypesStep == ASSUME TypeOK, Phase, [Next]_vars PROVE TypeOK'
BY TypesSame, CallerTypes, AllocTypes, StreamStepTypes, EncodeTypes
   DEF Next, Inside, Phase

(* Inside the call, but between a read and its encoding, the encoder was
   fed all that was read.                                                  *)
LEMMA FedIs ==
    ASSUME TypeOK, Phase, Fed, InCall, pc # "encode"
    PROVE  /\ since = before \o SubSeq(content, 1, got)
           /\ pc \in {"plaintext", "code"} => since = before
           /\ leftover = before
<1>1. since = before \o SubSeq(content, 1, got) /\ leftover = before
  BY DEF Fed, PassedOn, Phase
<1>2. SubSeq(content, 1, 0) = << >> /\ before \o << >> = before
  BY SubSeqEmpty, ConcatEmptySeq, StreamTypes
<1>3. pc \in {"plaintext", "code"} => got = 0
  BY DEF Phase
<1>4. QED
  BY <1>1, <1>2, <1>3

(* Every step keeps what holds at each point of the loop.                  *)
LEMMA PhaseStep == ASSUME TypeOK, Phase, Fed, [Next]_vars PROVE Phase'
<1>1. CASE UNCHANGED vars
  BY <1>1 DEF Phase, InCall, vars, streamVars, object, memory, istream, ostream,
              state, history
<1>2. CASE Build
  BY <1>2 DEF Phase, InCall, Build
<1>3. CASE EncodeBlock
  <2>1. PICK piece \in Contents : since' = since \o piece /\ leftover' = leftover \o piece
    BY <1>3 DEF EncodeBlock, EncodePiece
  <2>2. /\ pc = "idle" /\ pc' = "idle"
        /\ UNCHANGED << chars_per_line, width, content, got, inState >>
    BY <1>3 DEF EncodeBlock, istream
  <2>3. QED
    BY <2>1, <2>2 DEF Phase, InCall
<1>4. CASE EncodeBlockEnd
  BY <1>4 DEF Phase, InCall, EncodeBlockEnd, EncodeEnd, istream
<1>5. CASE EncodeStream
  BY <1>5 DEF Phase, InCall, EncodeStream, OpenStreams, state
<1>6. CASE AllocPlaintext
  <2>1. since = leftover
    BY <1>6, FedIs DEF AllocPlaintext, InCall
  <2>2. QED
    BY <1>6, <2>1
       DEF Phase, InCall, AllocPlaintext, Proceed, Leave, OutsideMemory,
           istream, ostream, state, history
<1>7. CASE AllocCode
  <2>1. since = leftover
    BY <1>7, FedIs DEF AllocCode, InCall
  <2>2. QED
    BY <1>7, <2>1
       DEF Phase, InCall, AllocCode, Proceed, Leave, OutsideMemory,
           istream, ostream, state, history
<1>8. CASE Read
  <2>1. /\ pc' \in {"encode", "idle"}
        /\ \/ pc' = "encode" /\ UNCHANGED << outcome, leftover >>
           \/ /\ pc' = "idle" /\ outcome' = "thrown"
              /\ leftover' = before \o SubSeq(content, 1, got)
    BY <1>8, FailureIs DEF Read
  <2>2. /\ got' = got + gcount' /\ content' = content /\ gcount' \in Nat
        /\ inState' = "good" => gcount' = buffersize
        /\ inState' = "eof" => inState = "eof" \/ got' = Len(content)
    <3>1. ReadOk \/ ReadFails
      BY <1>8 DEF Read
    <3>2. gcount' \in 0..buffersize /\ buffersize \in Nat
      BY <3>1, ReadIs, StreamTypes
    <3>3. QED
      BY <3>1, <3>2, ReadIs
  <2>3. got \in Nat
    BY StreamTypes
  <2>4. gcount' <= got'
    <3>1. \A x, y \in Nat : x <= y + x
      OBVIOUS
    <3>2. gcount' <= got + gcount'
      BY <2>2, <2>3, <3>1
    <3>3. QED
      BY <2>2, <3>2
  <2>5. /\ pc = "read" /\ inState = "good"
        /\ UNCHANGED << buffersize, since, chars_per_line, width, before >>
    BY <1>8 DEF Read, object, state, Phase
  <2>6. since = before \o SubSeq(content, 1, got)
    BY <2>5, FedIs DEF InCall
  <2>7. QED
    BY <2>1, <2>2, <2>4, <2>5, <2>6 DEF Phase, InCall
<1>9. CASE Encode
  BY <1>9 DEF Encode, Proceed, Phase, InCall, object, istream, ostream, history
<1>10. CASE Write
  <2>1. pc = "write" /\ since = before \o SubSeq(content, 1, got)
    BY <1>10, FedIs DEF Write, InCall
  <2>2. /\ pc' \in {"read", "encode_end", "idle"}
        /\ \/ pc' # "idle" /\ UNCHANGED << outcome, leftover >>
           \/ /\ pc' = "idle" /\ outcome' = "thrown"
              /\ leftover' = before \o SubSeq(content, 1, got)
    BY <1>10, FailureIs DEF Write
  <2>3. (pc' = "read" => Again) /\ (pc' = "encode_end" => ~Again)
    BY <1>10 DEF Write, Proceed, FailureOf, Leave
  <2>4. inState = "good" => gcount > 0
    BY <2>1, StreamTypes DEF Phase
  <2>5. UNCHANGED << content, got, inState, gcount, since, chars_per_line, width,
                     before, buffersize >>
    BY <1>10 DEF Write, object, istream, state
  <2>6. (pc' = "read" => inState = "good") /\ (pc' = "encode_end" => inState # "good")
    BY <2>3, <2>4 DEF Again
  <2>7. QED
    BY <2>1, <2>2, <2>5, <2>6 DEF Phase, InCall
<1>11. CASE End
  BY <1>11 DEF End, EncodeEnd, Proceed, Phase, InCall, istream, history
<1>12. CASE WriteEnd
  <2>1. pc = "write_end" /\ since = before \o SubSeq(content, 1, got)
    BY <1>12, FedIs DEF WriteEnd, InCall
  <2>2. /\ pc' \in {"reset", "idle"}
        /\ \/ pc' # "idle" /\ UNCHANGED << outcome, leftover >>
           \/ /\ pc' = "idle" /\ outcome' = "thrown"
              /\ leftover' = before \o SubSeq(content, 1, got)
    BY <1>12, FailureIs DEF WriteEnd
  <2>3. UNCHANGED << content, got, inState, since, chars_per_line, width, before >>
    BY <1>12 DEF WriteEnd, istream, state
  <2>4. QED
    BY <2>1, <2>2, <2>3 DEF Phase, InCall
<1>13. CASE Reset
  BY <1>13 DEF Reset, Leave, Phase, InCall, istream
<1>14. QED
  BY <1>1, <1>2, <1>3, <1>4, <1>5, <1>6, <1>7, <1>8, <1>9, <1>10, <1>11, <1>12, <1>13
     DEF Next, Inside

(* Every step keeps what the encoder was fed equal to what was read.       *)
LEMMA FedStep == ASSUME TypeOK, Phase, Fed, [Next]_vars PROVE Fed'
<1>1. CASE UNCHANGED vars
  BY <1>1 DEF Fed, PassedOn, InCall, vars, streamVars, istream, state, history
<1>2. CASE Build \/ EncodeBlock \/ EncodeBlockEnd \/ Reset
  BY <1>2 DEF Build, EncodeBlock, EncodeBlockEnd, Reset, Leave, Fed, InCall
<1>3. CASE EncodeStream
  <2>1. SubSeq(content', 1, 0) = << >> /\ leftover \o << >> = leftover
    BY SubSeqEmpty, ConcatEmptySeq, StreamTypes
  <2>2. pc' = "plaintext" /\ got' = 0 /\ before' = leftover /\ since' = leftover
    BY <1>3 DEF EncodeStream, OpenStreams, state, Phase
  <2>3. QED
    BY <2>1, <2>2 DEF Fed, PassedOn
<1>4. CASE AllocPlaintext \/ AllocCode \/ Write \/ End \/ WriteEnd
  <2>1. UNCHANGED << since, before, content, got >>
    BY <1>4 DEF AllocPlaintext, AllocCode, Write, End, EncodeEnd, WriteEnd,
                OutsideMemory, istream, state, history
  <2>2. pc # "encode" /\ pc' # "encode" /\ InCall
    BY <1>4 DEF AllocPlaintext, AllocCode, Write, End, WriteEnd, Again, FailureOf,
                Proceed, Leave, InCall
  <2>3. since = before \o SubSeq(content, 1, got)
    BY <2>2, FedIs
  <2>4. QED
    BY <2>1, <2>2, <2>3 DEF Fed, PassedOn
<1>5. CASE Read
  <2>1. since = before \o SubSeq(content, 1, got) /\ got \in Nat
    <3>1. InCall /\ pc # "encode"
      BY <1>5 DEF Read, InCall
    <3>2. since = before \o SubSeq(content, 1, got)
      BY <3>1, FedIs, Zenon
    <3>3. QED
      BY <3>2, StreamTypes
  <2>2. UNCHANGED << since, before, content >> /\ got' = got + gcount' /\ gcount' \in Nat
    BY <1>5, ReadIs, StreamTypes DEF Read, state
  <2>3. pc' \in {"encode", "idle"}
    BY <1>5 DEF Read, Proceed, FailureOf, Leave
  <2>4. got' - gcount' = got
    <3>1. \A x, y \in Nat : (y + x) - x = y
      OBVIOUS
    <3>2. QED
      BY <2>1, <2>2, <3>1
  <2>5. QED
    BY <2>1, <2>2, <2>3, <2>4 DEF Fed, PassedOn, InCall
<1>6. CASE Encode
  <2> DEFINE a == got - gcount
             p == SubSeq(content, 1, a)
             q == SubSeq(content, a + 1, got)
  <2>1. /\ since = before \o p /\ since' = since \o q
        /\ UNCHANGED << before, content, got >> /\ pc' = "write"
    BY <1>6 DEF Encode, EncodePiece, Proceed, Fed, PassedOn, InCall, istream, history
  <2>2. content \in Seq(Byte) /\ a \in 0..Len(content) /\ got \in a..Len(content)
        /\ 0 \in 0..Len(content) /\ before \in Seq(Byte) /\ got \in 0..Len(content)
    BY <1>6, StreamTypes DEF Encode, Phase
  <2> HIDE DEF a
  <2>3. p \o q = SubSeq(content, 1, got)
    BY <2>2, PiecesJoin
  <2>4. p \in Seq(Byte) /\ q \in Seq(Byte)
    <3>1. SubSeq(content, 0 + 1, a) \in Seq(Byte)
      BY <2>2, PieceType
    <3>2. q \in Seq(Byte)
      BY <2>2, PieceType
    <3>3. QED
      BY <3>1, <3>2
  <2> HIDE DEF p, q
  <2>5. (before \o p) \o q = before \o (p \o q)
    <3>1. before \in Seq(Byte)
      BY <2>2
    <3>2. QED
      BY <2>4, <3>1, Associative
  <2>6. since' = before \o SubSeq(content, 1, got)
    BY <2>1, <2>3, <2>5, Zenon
  <2>7. QED
    BY <2>1, <2>6 DEF Fed, PassedOn
<1>7. QED
  BY <1>1, <1>2, <1>3, <1>4, <1>5, <1>6 DEF Next, Inside

(* What follows a text it begins with.                                     *)
LEMMA BeyondIs ==
    ASSUME NEW a \in Seq(Char), NEW u \in Seq(Char)
    PROVE  Beyond(a, a \o u) = u
<1> DEFINE t == a \o u
<1>1. Extends(Char, t, a)
  BY Zenon DEF Extends
<1> HIDE DEF t
<1>2. Beyond(a, t) \in Seq(Char) /\ t = a \o Beyond(a, t)
  BY <1>1, RestOf DEF Beyond
<1> DEFINE v == Beyond(a, t)
<1> HIDE DEF v
<1>3. v \in Seq(Char) /\ a \o u = a \o v
  BY <1>2 DEF t, v
<1>4. u = v
  BY <1>3, ConcatSimplifications
<1>5. QED
  BY <1>4 DEF t, v

(* A column of a line is the column that so many characters end in.        *)
LEMMA ColumnOfColumn ==
    ASSUME NEW w \in Nat, NEW c \in 0..w
    PROVE  Column(c, w) = c
<1>1. CASE c = 0
  BY <1>1 DEF Column
<1>2. CASE c # 0
  <2>1. w \in Nat \ {0} /\ c \in Nat /\ 0 \in Nat /\ c \in 1..w /\ c = w * 0 + c
    BY <1>2
  <2>2. QED
    BY <2>1, ColumnUnique
<1>3. QED
  BY <1>1, <1>2

(* A column moves on by what is written, in one go or in two.              *)
LEMMA ColumnJoins ==
    ASSUME NEW w \in Nat, NEW m \in Nat, NEW k \in Nat
    PROVE  Column(Column(m, w) + k, w) = Column(m + k, w)
<1>1. CASE w = 0
  BY <1>1 DEF Column
<1>2. CASE w # 0
  BY <1>2, ColumnAfter
<1>3. QED
  BY <1>1, <1>2

(* A piece, or the end, adds to what is due what it adds to the text.      *)
LEMMA DueGrows ==
    ASSUME TypeOK, Phase, Fed, InCall
    PROVE  /\ DueChars \in Seq(Char) /\ Chars(before) \in Seq(Char)
           /\ Extends(Char, Chars(since), Chars(before))
           /\ Extends(Char, ClosedText(since, Len(since), 0), Chars(before))
           /\ \A d \in Seq(Byte) :
                 Beyond(Chars(before), Chars(since \o d))
                   = Beyond(Chars(before), Chars(since)) \o PieceText(since, d, 0)
           /\ Beyond(Chars(before), ClosedText(since, Len(since), 0))
                = Beyond(Chars(before), Chars(since)) \o EndText(since, 0)
<1>1. /\ before \in Seq(Byte) /\ since \in Seq(Byte) /\ 0 \in Nat
      /\ content \in Seq(Byte) /\ got \in 0..Len(content) /\ gcount \in Nat
  BY StreamTypes
<1>2. PICK d \in Seq(Byte) : since = before \o d
  <2>1. since = before \o PassedOn
    BY DEF Fed
  <2>2. \A n \in 0..Len(content) : SubSeq(content, 0 + 1, n) \in Seq(Byte)
    BY <1>1, PieceType
  <2>3. (IF pc = "encode" THEN got - gcount ELSE got) \in 0..Len(content)
    BY <1>1 DEF Phase
  <2>4. PassedOn \in Seq(Byte)
    BY <1>1, <2>2, <2>3 DEF PassedOn
  <2>5. QED
    BY <2>1, <2>4
<1>3. Chars(before) \in Seq(Char) /\ Chars(since) \in Seq(Char)
  BY <1>1, TextInPieces DEF Chars
<1>4. Extends(Char, Chars(since), Chars(before))
  BY <1>1, <1>2, OpenExtends DEF Chars
<1>5. Extends(Char, ClosedText(since, Len(since), 0), Chars(since))
  BY <1>1, ClosedExtends DEF Chars
<1>6. \A e \in Seq(Byte) : Extends(Char, Chars(since \o e), Chars(since))
  BY <1>1, OpenExtends DEF Chars
<1>7. /\ Beyond(Chars(before), Chars(since)) \in Seq(Char)
      /\ Beyond(Chars(before), ClosedText(since, Len(since), 0)) \in Seq(Char)
      /\ Extends(Char, ClosedText(since, Len(since), 0), Chars(before))
      /\ Beyond(Chars(before), ClosedText(since, Len(since), 0))
           = Beyond(Chars(before), Chars(since))
               \o Beyond(Chars(since), ClosedText(since, Len(since), 0))
  <2>1. /\ Beyond(Chars(before), Chars(since)) \in Seq(Char)
        /\ Beyond(Chars(since), ClosedText(since, Len(since), 0)) \in Seq(Char)
        /\ Extends(Char, ClosedText(since, Len(since), 0), Chars(before))
        /\ Beyond(Chars(before), ClosedText(since, Len(since), 0))
             = Beyond(Chars(before), Chars(since))
                 \o Beyond(Chars(since), ClosedText(since, Len(since), 0))
    BY <1>3, <1>4, <1>5, BeyondJoins
  <2>2. QED
    BY <2>1, ConcatProperties
<1>8. \A e \in Seq(Byte) :
          Beyond(Chars(before), Chars(since \o e))
            = Beyond(Chars(before), Chars(since)) \o Beyond(Chars(since), Chars(since \o e))
  BY <1>3, <1>4, <1>6, BeyondJoins
<1>9. \A e : Beyond(Chars(since), Chars(since \o e)) = PieceText(since, e, 0)
  BY DEF PieceText, Chars
<1>10. Beyond(Chars(since), ClosedText(since, Len(since), 0)) = EndText(since, 0)
  BY DEF EndText, Chars
<1>11. DueChars \in Seq(Char)
  BY <1>7 DEF DueChars
<1>12. QED
  BY <1>3, <1>4, <1>7, <1>8, <1>9, <1>10, <1>11

(* What is due, and its first part, are texts.                             *)
LEMMA DueType ==
    ASSUME TypeOK, Phase, Fed, InCall
    PROVE  /\ Wrapped(DueChars, width, begun.column) \in Seq(Char)
           /\ Due \in Seq(Char)
<1>1. Wrapped(DueChars, width, begun.column) \in Seq(Char)
  BY DueGrows, StreamTypes, WrappedType DEF Char
<1>2. \A s \in Seq(Char) : Append(s, NL) \in Seq(Char)
  BY DEF Char
<1>3. QED
  BY <1>1, <1>2 DEF Due, LastLine

(* Characters written on lines from where the call has got to.             *)
LEMMA DueOnLines ==
    ASSUME TypeOK, Phase, Fed, Columns, InCall, NEW chars \in Seq(Char)
    PROVE  /\ Wrapped(DueChars \o chars, width, begun.column)
                = Wrapped(DueChars, width, begun.column) \o Broken(chars)
           /\ Column(stepcount + Len(chars), width)
                = Column(begun.column + Len(DueChars \o chars), width)
           /\ Broken(chars) \in Seq(Char)
<1>1. /\ DueChars \in Seq(Char) /\ width \in Nat /\ begun.column \in 0..width
      /\ stepcount = Column(begun.column + Len(DueChars), width)
      /\ chars_per_line = width /\ NL \in Char
  BY DueGrows, StreamTypes DEF Columns, Phase, Char
<1>2. Broken(chars) = Wrapped(chars, width, stepcount) /\ Broken(chars) \in Seq(Char)
  BY <1>1, BrokenIs DEF Broken
<1>3. Wrapped(DueChars \o chars, width, begun.column)
        = Wrapped(DueChars, width, begun.column) \o Broken(chars)
  <2>1. \A s, t \in Seq(Char) :
            Wrapped(s \o t, width, begun.column)
              = Wrapped(s, width, begun.column)
                  \o Wrapped(t, width, Column(begun.column + Len(s), width))
    BY <1>1, WrappedJoins
  <2>2. QED
    BY <1>1, <1>2, <2>1
<1>4. Column(stepcount + Len(chars), width)
        = Column(begun.column + Len(DueChars \o chars), width)
  <2> DEFINE m == begun.column + Len(DueChars)
             k == Len(chars)
  <2>1. m \in Nat /\ k \in Nat
    BY <1>1
  <2>2. begun.column + Len(DueChars \o chars) = m + k
    BY <1>1
  <2> HIDE DEF m, k
  <2>3. Column(Column(m, width) + k, width) = Column(m + k, width)
    BY <1>1, <2>1, ColumnJoins
  <2>4. stepcount = Column(m, width)
    BY <1>1 DEF m
  <2>5. QED
    BY <2>2, <2>3, <2>4 DEF k
<1>5. QED
  BY <1>2, <1>3, <1>4

(* What a call of encode_block adds to what is due.                        *)
LEMMA EncodeIsDue ==
    ASSUME TypeOK, Phase, Fed, Columns, Encode
    PROVE  /\ Due' = Due \o chunk' /\ Due \in Seq(Char) /\ chunk' \in Seq(Char)
           /\ stepcount' = Column(begun.column + Len(DueChars'), width)
           /\ ~spent => stepcount' = Column(OpenCount(Len(since')), width)
<1> DEFINE d == SubSeq(content, got - gcount + 1, got)
           chars == PieceText(since, d, 0)
<1>1. EncodePiece(d) /\ pc = "encode" /\ pc' = "write" /\ InCall
      /\ UNCHANGED << before, width, begun >>
  BY DEF Encode, Proceed, history, InCall
<1>2. d \in Seq(Byte)
  <2>1. content \in Seq(Byte) /\ got \in 0..Len(content) /\ got - gcount \in 0..Len(content)
    BY <1>1, StreamTypes DEF Phase
  <2>2. QED
    BY <2>1, PieceType
<1> HIDE DEF d
<1>3. /\ since' = since \o d /\ chars \in Seq(Char)
      /\ chunk' = Broken(chars) /\ chunk' \in Seq(Char)
      /\ stepcount' = Column(stepcount + Len(chars), width)
  BY <1>1, <1>2, EncodePieceIs DEF EncodePiece, Count, Phase
<1>4. DueChars' = Beyond(Chars(before), Chars(since \o d))
      /\ DueChars = Beyond(Chars(before), Chars(since))
  BY <1>1, <1>3 DEF DueChars, Chars
<1>5. DueChars' = DueChars \o chars
  BY <1>1, <1>2, <1>4, DueGrows
<1>6. /\ Due' = Wrapped(DueChars', width, begun.column)
      /\ Due = Wrapped(DueChars, width, begun.column)
  BY <1>1 DEF Due
<1>7. ~spent => stepcount' = Column(OpenCount(Len(since')), width)
  <2>1. SUFFICES ASSUME ~spent
                 PROVE  stepcount' = Column(OpenCount(Len(since')), width)
    OBVIOUS
  <2>2. since \in Seq(Byte) /\ width \in Nat /\ OpenCount(Len(since)) \in Nat
    BY StreamTypes, CountTypes
  <2>3. stepcount = Column(OpenCount(Len(since)), width)
    BY <2>1 DEF Columns
  <2>4. OpenCount(Len(since)) + Len(chars) = OpenCount(Len(since'))
    BY <1>2, <1>3, <2>2, TextGrows
  <2> HIDE DEF chars
  <2>5. Len(chars) \in Nat
    BY <1>3
  <2>6. QED
    BY <1>3, <2>2, <2>3, <2>4, <2>5, ColumnJoins
<1> HIDE DEF chars
<1>8. QED
  BY <1>1, <1>3, <1>5, <1>6, <1>7, DueOnLines, DueType

(* What encode_end adds to it.                                             *)
LEMMA EndIsDue ==
    ASSUME TypeOK, Phase, Fed, Columns, End
    PROVE  /\ Due' = Due \o chunk' /\ Due \in Seq(Char) /\ chunk' \in Seq(Char)
           /\ stepcount' = Column(begun.column + Len(DueChars'), width)
<1> DEFINE chars == EndText(since, 0)
           old == Wrapped(DueChars, width, begun.column)
<1>1. EncodeEnd /\ pc = "encode_end" /\ pc' = "write_end" /\ InCall
      /\ UNCHANGED << before, width, begun >>
  BY DEF End, Proceed, history, InCall
<1>2. /\ since' = since /\ chars \in Seq(Char) /\ chunk' \in Seq(Char)
      /\ chunk' = LastLine(Broken(chars), width)
      /\ stepcount' = Column(stepcount + Len(chars), width)
  BY <1>1, EncodeEndIs DEF EncodeEnd, Count, Phase
<1>3. DueChars' = Beyond(Chars(before), ClosedText(since, Len(since), 0))
      /\ DueChars = Beyond(Chars(before), Chars(since))
  BY <1>1, <1>2 DEF DueChars, Chars
<1>4. DueChars' = DueChars \o chars
  BY <1>1, <1>3, DueGrows
<1>5. Due' = LastLine(Wrapped(DueChars', width, begun.column), width) /\ Due = old
  BY <1>1 DEF Due
<1> HIDE DEF chars, old
<1>6. /\ Wrapped(DueChars', width, begun.column) = old \o Broken(chars)
      /\ Broken(chars) \in Seq(Char) /\ old \in Seq(Char)
      /\ stepcount' = Column(begun.column + Len(DueChars'), width)
  BY <1>1, <1>2, <1>4, DueOnLines, DueType DEF old
<1>7. LastLine(old \o Broken(chars), width) = old \o LastLine(Broken(chars), width)
  <2>1. NL \in Char
    BY DEF Char
  <2>2. Append(old \o Broken(chars), NL) = old \o Append(Broken(chars), NL)
    <3>1. \A p, q \in Seq(Char) : \A e \in Char : p \o Append(q, e) = Append(p \o q, e)
      BY AppendConcat
    <3>2. QED
      BY <1>6, <2>1, <3>1, Zenon
  <2>3. QED
    BY <2>2 DEF LastLine
<1>8. QED
  BY <1>2, <1>5, <1>6, <1>7

(* Every step keeps the columns.                                           *)
LEMMA ColumnsStep == ASSUME TypeOK, Phase, Fed, Columns, [Next]_vars PROVE Columns'
<1> USE DEF InCall
<1>1. CASE UNCHANGED vars
  <2>1. UNCHANGED << pc, since, stepcount, spent, width, before, begun >>
    BY <1>1 DEF vars, streamVars, state, history
  <2>2. DueChars' = DueChars
    BY <2>1 DEF DueChars
  <2>3. QED
    BY <2>1, <2>2 DEF Columns
<1>2. CASE Build
  <2>1. since' = << >> /\ stepcount' = 0 /\ pc' = "idle"
    BY <1>2 DEF Build
  <2>2. Column(OpenCount(Len(<< >>)), width') = 0
    BY DEF OpenCount, Column
  <2>3. QED
    BY <2>1, <2>2 DEF Columns
<1>3. CASE EncodeBlock
  <2>1. PICK piece \in Contents : EncodePiece(piece)
    BY <1>3 DEF EncodeBlock
  <2>2. piece \in Seq(Byte) /\ UNCHANGED << spent, width, pc >> /\ pc = "idle"
    BY <1>3, StreamEncodeAssumption DEF EncodeBlock
  <2> DEFINE chars == PieceText(since, piece, 0)
  <2>3. /\ since' = since \o piece /\ chars \in Seq(Char)
        /\ stepcount' = Column(stepcount + Len(chars), width)
    BY <2>1, <2>2, EncodePieceIs DEF EncodePiece, Count, Phase
  <2>4. since \in Seq(Byte) /\ width \in Nat /\ OpenCount(Len(since)) \in Nat
    BY StreamTypes, CountTypes
  <2>5. OpenCount(Len(since)) + Len(chars) = OpenCount(Len(since'))
    BY <2>2, <2>3, <2>4, TextGrows
  <2> HIDE DEF chars
  <2>6. Len(chars) \in Nat
    BY <2>3
  <2>7. ~spent => stepcount' = Column(OpenCount(Len(since')), width)
    BY <2>3, <2>4, <2>5, <2>6, ColumnJoins DEF Columns
  <2>8. QED
    BY <2>2, <2>7 DEF Columns
<1>4. CASE EncodeBlockEnd
  BY <1>4 DEF EncodeBlockEnd, EncodeEnd, Columns
<1>5. CASE EncodeStream
  <2>1. /\ pc' = "plaintext" /\ before' = since /\ UNCHANGED << state, width >>
        /\ begun' = [column |-> stepcount, spent |-> spent]
    BY <1>5 DEF EncodeStream, Phase
  <2>2. Chars(since) \in Seq(Char)
    BY StreamTypes, TextInPieces DEF Chars
  <2>3. DueChars' = Beyond(Chars(since), Chars(since))
    BY <2>1 DEF DueChars, state
  <2>4. Beyond(Chars(since), Chars(since)) = << >>
    <3>1. \A s \in Seq(Char) : SubSeq(s, Len(s) + 1, Len(s)) = << >>
      OBVIOUS
    <3>2. QED
      BY <2>2, <3>1 DEF Beyond
  <2>5. stepcount \in 0..width /\ width \in Nat
    BY StreamTypes DEF Phase
  <2>6. stepcount = Column(stepcount + Len(<< >>), width)
    <3>1. Len(<< >>) = 0 /\ stepcount + 0 = stepcount
      BY <2>5
    <3>2. QED
      BY <2>5, <3>1, ColumnOfColumn
  <2>7. QED
    BY <2>1, <2>3, <2>4, <2>6 DEF Columns, state
<1>6. CASE AllocPlaintext \/ AllocCode \/ Read \/ Write \/ WriteEnd
  <2>1. UNCHANGED << since, stepcount, spent, width, before, begun >>
    BY <1>6 DEF AllocPlaintext, AllocCode, Read, Write, WriteEnd, OutsideMemory,
                state, history
  <2>2. /\ pc \notin {"idle", "ended"}
        /\ \/ pc' = "idle"
           \/ (pc' \in {"write_end", "reset"}) = (pc \in {"write_end", "reset"})
    BY <1>6 DEF AllocPlaintext, AllocCode, Read, Write, WriteEnd, FailureOf, Proceed,
                Leave, Again
  <2>3. CASE pc' = "idle"
    BY <2>1, <2>3 DEF Columns
  <2>4. CASE pc' # "idle"
    <3>1. DueChars' = DueChars
      BY <2>1, <2>2, <2>4 DEF DueChars
    <3>2. QED
      BY <2>1, <2>2, <3>1 DEF Columns
  <2>5. QED
    BY <2>3, <2>4
<1>7. CASE Encode
  <2>1. pc = "encode" /\ UNCHANGED << spent, width, before, begun >>
    BY <1>7 DEF Encode, history
  <2>2. QED
    BY <1>7, <2>1, EncodeIsDue DEF Columns
<1>8. CASE End
  <2>1. pc = "encode_end" /\ spent' = TRUE /\ UNCHANGED << width, before, begun >>
    BY <1>8 DEF End, EncodeEnd, history
  <2>2. QED
    BY <1>8, <2>1, EndIsDue DEF Columns
<1>9. CASE Reset
  <2>1. since' = << >> /\ stepcount' = 0 /\ pc' = "idle"
    BY <1>9 DEF Reset, Leave
  <2>2. Column(OpenCount(Len(<< >>)), width') = 0
    BY DEF OpenCount, Column
  <2>3. QED
    BY <2>1, <2>2 DEF Columns
<1>10. QED
  BY <1>1, <1>2, <1>3, <1>4, <1>5, <1>6, <1>7, <1>8, <1>9 DEF Next, Inside

(* A write hands over the chunk, or the state is bad and the output a
   part of what is due.                                                    *)
LEMMA WriteHands ==
    ASSUME TypeOK, OutIsDue, InCall, WriteOk \/ WriteFails,
           pc \in {"write", "write_end"}, Due' = Due
    PROVE  /\ outState' = "bad" => Extends(Char, Due, out')
           /\ outState' = "good" => Due = out'
<1>1. out \in Seq(Char) /\ chunk \in Seq(Char) /\ out' \in Seq(Char)
      /\ outState \in {"good", "bad"} /\ outState' \in {"good", "bad"}
  BY StreamTypes, WriteIs DEF TypeOK, StreamTypeOK
<1>2. outState = "good" => Due = out \o chunk
  BY DEF OutIsDue
<1>3. outState = "bad" => Extends(Char, Due, out)
  BY DEF OutIsDue
<1>4. /\ outState' = "good" => outState = "good" /\ out' = out \o chunk
      /\ outState = "good" /\ outState' = "bad" => Extends(Char, out \o chunk, out')
      /\ outState = "bad" => outState' = "bad" /\ out' = out
  BY WriteIs
<1>5. QED
  BY <1>1, <1>2, <1>3, <1>4

(* More becomes due, and is converted into the output buffer.              *)
LEMMA MoreIsDue ==
    ASSUME TypeOK, OutIsDue, InCall, pc \notin {"write", "write_end"},
           pc' \in {"write", "write_end"},
           Due' = Due \o chunk', Due \in Seq(Char), chunk' \in Seq(Char),
           UNCHANGED << out, outState >>
    PROVE  OutIsDue'
<1>1. out \in Seq(Char) /\ outState \in {"good", "bad"}
  BY StreamTypes DEF TypeOK, StreamTypeOK
<1>2. CASE outState = "good"
  <2>1. Due = out
    BY <1>2 DEF OutIsDue
  <2>2. Due' = out' \o chunk'
    BY <2>1, Zenon
  <2>3. QED
    BY <1>2, <2>2 DEF OutIsDue
<1>3. CASE outState = "bad"
  <2>1. Extends(Char, Due, out)
    BY <1>3 DEF OutIsDue
  <2>2. Extends(Char, Due', Due)
    BY Zenon DEF Extends
  <2>3. Extends(Char, Due', out)
    BY <1>1, <2>1, <2>2, ExtendsThrough
  <2>4. Extends(Char, Due', out')
    BY <2>3
  <2>5. QED
    BY <1>3, <2>4 DEF OutIsDue, Extends
<1>4. QED
  BY <1>1, <1>2, <1>3

(* Every step keeps what was written, and is to be, equal to the text of
   what was fed.                                                           *)
LEMMA OutStep ==
    ASSUME TypeOK, Phase, Fed, Columns, OutIsDue, [Next]_vars
    PROVE  OutIsDue'
<1> USE DEF InCall
<1>1. CASE UNCHANGED vars
  <2>1. UNCHANGED << pc, since, before, begun, width, out, outState, chunk >>
    BY <1>1 DEF vars, streamVars, ostream, state, history
  <2>2. Due' = Due
    BY <2>1 DEF Due, DueChars
  <2>3. QED
    BY <2>1, <2>2 DEF OutIsDue, Extends
<1>2. CASE Build \/ EncodeBlock \/ EncodeBlockEnd \/ Reset
  BY <1>2 DEF Build, EncodeBlock, EncodeBlockEnd, Reset, Leave, OutIsDue
<1>3. CASE EncodeStream
  <2>1. /\ pc' = "plaintext" /\ before' = since /\ since' = since /\ width' = width
        /\ out' = << >> /\ outState' = "good" /\ begun'.column = stepcount
    BY <1>3 DEF EncodeStream, OpenStreams, state, Phase
  <2>2. Due' = Wrapped(Beyond(Chars(since), Chars(since)), width, stepcount)
    BY <2>1 DEF Due, DueChars
  <2>3. Chars(since) \in Seq(Char)
    BY StreamTypes, TextInPieces DEF Chars
  <2>4. Beyond(Chars(since), Chars(since)) = << >>
    <3>1. \A s \in Seq(Char) : SubSeq(s, Len(s) + 1, Len(s)) = << >>
      OBVIOUS
    <3>2. QED
      BY <2>3, <3>1 DEF Beyond
  <2>5. Wrapped(<< >>, width, stepcount) = << >>
    <3>1. << >> \in Seq(Char) /\ Len(<< >>) = 0 /\ stepcount \in 0..width /\ width \in Nat
          /\ NL \in Char /\ stepcount + 0 = stepcount
      BY StreamTypes, EmptySeq DEF Phase, Char
    <3>2. Wrapped(<< >>, width, stepcount) \in Seq(Char)
          /\ Len(Wrapped(<< >>, width, stepcount)) = 0 + Separators(stepcount + 0, width)
      BY <3>1, WrappedType
    <3>3. Separators(stepcount, width) = 0
      <4>1. CASE stepcount = 0
        BY <4>1 DEF Separators
      <4>2. CASE stepcount # 0
        <5>1. width \in Nat \ {0} /\ stepcount \in Nat /\ 0 \in Nat /\ stepcount \in 1..width
              /\ stepcount = width * 0 + stepcount
          BY <3>1, <4>2
        <5>2. QED
          BY <5>1, ColumnUnique
      <4>3. QED
        BY <4>1, <4>2
    <3>4. QED
      BY <3>1, <3>2, <3>3, EmptySeq
  <2>6. Due' = out'
    BY <2>1, <2>2, <2>4, <2>5
  <2>7. QED
    BY <2>1, <2>6 DEF OutIsDue
<1>4. CASE AllocPlaintext \/ AllocCode \/ Read
  <2>1. UNCHANGED << since, before, begun, width, out, outState, chunk >>
    BY <1>4 DEF AllocPlaintext, AllocCode, Read, OutsideMemory, ostream, state, history
  <2>2. pc \in {"plaintext", "code", "read"} /\ pc' \in {"code", "read", "encode", "idle"}
    BY <1>4 DEF AllocPlaintext, AllocCode, Read, FailureOf, Proceed, Leave
  <2>3. Due' = Due
    BY <2>1, <2>2 DEF Due, DueChars
  <2>4. QED
    BY <2>1, <2>2, <2>3 DEF OutIsDue, Extends
<1>5. CASE Encode
  <2>1. pc = "encode" /\ pc' = "write" /\ UNCHANGED << out, outState >>
    BY <1>5 DEF Encode, Proceed, ostream
  <2>2. QED
    BY <1>5, <2>1, EncodeIsDue, MoreIsDue
<1>6. CASE End
  <2>1. pc = "encode_end" /\ pc' = "write_end" /\ UNCHANGED << out, outState >>
    BY <1>6 DEF End, Proceed, ostream
  <2>2. QED
    BY <1>6, <2>1, EndIsDue, MoreIsDue
<1>7. CASE Write \/ WriteEnd
  <2>1. UNCHANGED << since, before, begun, width >>
    BY <1>7 DEF Write, WriteEnd, state
  <2>2. CASE pc' = "idle"
    BY <2>2 DEF OutIsDue
  <2>3. CASE pc' # "idle"
    <3>1. /\ WriteOk \/ WriteFails
          /\ pc \in {"write", "write_end"}
          /\ \/ pc' \in {"read", "encode_end"} /\ pc = "write"
             \/ pc' = "reset" /\ pc = "write_end"
      BY <1>7, <2>3 DEF Write, WriteEnd, Again, FailureOf, Proceed, Leave
    <3>2. Due' = Due
      BY <2>1, <3>1 DEF Due, DueChars
    <3>3. /\ outState' = "bad" => Extends(Char, Due, out')
          /\ outState' = "good" => Due = out'
      BY <3>1, <3>2, WriteHands
    <3>4. QED
      BY <3>1, <3>2, <3>3 DEF OutIsDue, Extends
  <2>4. QED
    BY <2>2, <2>3
<1>8. QED
  BY <1>1, <1>2, <1>3, <1>4, <1>5, <1>6, <1>7 DEF Next, Inside

(* What is due at the end is what StreamIsText says.                       *)
LEMMA DueAtTheEnd ==
    ASSUME TypeOK, Phase, Fed, Columns, pc = "reset"
    PROVE  Due = IF begun.spent
                 THEN LastLine(Wrapped(Beyond(OpenText(before, Len(before), 0),
                                              ClosedText(since, Len(since), 0)),
                                       width, begun.column), width)
                 ELSE Beyond(OpenText(before, Len(before), width),
                             ClosedText(since, Len(since), width))
<1> DEFINE open == OpenText(before, Len(before), width)
           line == Wrapped(DueChars, width, begun.column)
<1>1. /\ Due = LastLine(line, width) /\ InCall
      /\ DueChars = Beyond(OpenText(before, Len(before), 0),
                           ClosedText(since, Len(since), 0))
  BY DEF Due, DueChars, Chars, InCall
<1>2. SUFFICES ASSUME ~begun.spent
               PROVE  Due = Beyond(open, ClosedText(since, Len(since), width))
  BY <1>1
<1>3. begun.column = Column(OpenCount(Len(before)), width)
  BY <1>1, <1>2 DEF Columns
<1>4. /\ before \in Seq(Byte) /\ since \in Seq(Byte) /\ width \in Nat /\ NL \in Char
      /\ DueChars \in Seq(Char) /\ open \in Seq(Char) /\ line \in Seq(Char)
      /\ Due \in Seq(Char)
  BY <1>1, StreamTypes, DueGrows, DueType, TextInPieces DEF Char
<1>5. ClosedText(since, Len(since), 0) = Chars(before) \o DueChars
  <2>1. /\ Extends(Char, ClosedText(since, Len(since), 0), Chars(before))
        /\ Chars(before) \in Seq(Char)
    BY <1>1, DueGrows
  <2>2. QED
    BY <1>1, <2>1, RestOf DEF Beyond, Chars
<1>6. Wrapped(ClosedText(since, Len(since), 0), width, 0) = open \o line
  BY <1>3, <1>4, <1>5, WrappedOn DEF Chars
<1> HIDE DEF open, line
<1>7. ClosedText(since, Len(since), width)
        = IF width = 0 THEN open \o line ELSE Append(open \o line, NL)
  BY <1>4, <1>6, ClosedIsWrapped
<1>8. Append(open \o line, NL) = open \o Append(line, NL)
  <2>1. \A p, q \in Seq(Char) : \A e \in Char : p \o Append(q, e) = Append(p \o q, e)
    BY AppendConcat
  <2>2. QED
    BY <1>4, <2>1, Zenon
<1>9. ClosedText(since, Len(since), width) = open \o Due
  BY <1>1, <1>7, <1>8 DEF LastLine
<1>10. QED
  BY <1>4, <1>9, BeyondIs

(* At the end of a call what was handed over is what was due.              *)
LEMMA ResetIsText ==
    ASSUME TypeOK, Phase, Fed, Columns, OutIsDue, Reset
    PROVE  StreamIsText'
<1> DEFINE all == before \o SubSeq(content, 1, got)
           rest(w) == Beyond(OpenText(before, Len(before), w),
                             ClosedText(all, Len(all), w))
           text == IF begun.spent
                   THEN LastLine(Wrapped(rest(0), width, begun.column), width)
                   ELSE rest(width)
<1>1. /\ pc = "reset" /\ outcome' = "returned" /\ InCall
      /\ UNCHANGED << content, got, inState, out, outState, before, begun, width >>
  BY DEF Reset, Leave, istream, ostream, InCall
<1>2. since = all
  BY <1>1, FedIs
<1>3. Due = text
  BY <1>1, <1>2, DueAtTheEnd
<1>4. out \in Seq(Char) /\ outState \in {"good", "bad"} /\ inState \in {"good", "eof", "bad"}
  BY StreamTypes DEF TypeOK, StreamTypeOK
<1>5. inState # "bad" => got = Len(content)
  BY <1>1, <1>4 DEF Phase
<1> HIDE DEF text
<1>6. outState = "good" => out = text
  BY <1>1, <1>3 DEF OutIsDue
<1>7. outState = "bad" => out = SubSeq(text, 1, Len(out))
  <2>1. outState = "bad" => Extends(Char, text, out)
    BY <1>1, <1>3 DEF OutIsDue
  <2>2. QED
    BY <1>4, <2>1, ExtendsPrefix
<1>8. /\ inState # "bad" => got = Len(content)
      /\ IF outState = "good" THEN out = text ELSE out = SubSeq(text, 1, Len(out))
  BY <1>4, <1>5, <1>6, <1>7
<1>9. QED
  BY <1>1, <1>8 DEF StreamIsText, text

(* Every step keeps the output right at every return.                      *)
LEMMA TextStep ==
    ASSUME TypeOK, Phase, Fed, Columns, OutIsDue, StreamIsText, [Next]_vars
    PROVE  StreamIsText'
<1>1. CASE UNCHANGED vars
  BY <1>1 DEF StreamIsText, vars, streamVars, istream, ostream, state, history
<1>2. CASE Build \/ EncodeStream
  <2>1. outcome' = "none"
    BY <1>2 DEF Build, EncodeStream, OpenStreams
  <2>2. QED
    BY <2>1 DEF StreamIsText
<1>3. CASE EncodeBlock \/ EncodeBlockEnd
  BY <1>3 DEF StreamIsText, EncodeBlock, EncodeBlockEnd, istream, ostream, history
<1>4. CASE AllocPlaintext \/ AllocCode \/ Read \/ Encode \/ Write \/ End \/ WriteEnd
  <2>1. outcome = "none"
    BY <1>4 DEF Phase, InCall, AllocPlaintext, AllocCode, Read, Encode, Write, End, WriteEnd
  <2>2. outcome' # "returned"
    BY <1>4, <2>1 DEF AllocPlaintext, AllocCode, Read, Encode, Write, End, WriteEnd,
                      FailureOf, Proceed, Leave
  <2>3. QED
    BY <2>2 DEF StreamIsText
<1>5. CASE Reset
  BY <1>5, ResetIsText
<1>6. QED
  BY <1>1, <1>2, <1>3, <1>4, <1>5 DEF Next, Inside

(* Every variable of a call keeps its type: what is read and converted, in *)
(* pieces of any size, stays within the content and the buffers' counters. *)
THEOREM TypeCorrect == Spec => []TypeOK
<1>1. Init => TypeOK /\ Phase /\ Fed
  BY InitText
<1>2. TypeOK /\ Phase /\ Fed /\ [Next]_vars => (TypeOK /\ Phase /\ Fed)'
  BY TypesStep, PhaseStep, FedStep
<1>3. QED
  BY <1>1, <1>2, PTL DEF Spec

(* encode(istream, ostream), encode.h:88-137, for every content, width and *)
(* buffer size: a call that returns has written the encoding of all it     *)
(* could read, as if it had been encoded in one piece, or a prefix of it   *)
(* when the ostream failed.                                                *)
THEOREM ContentEncoded == Spec => []StreamIsText
<1> DEFINE I == TypeOK /\ Phase /\ Fed /\ Columns /\ OutIsDue /\ StreamIsText
<1>1. Init => I
  BY InitText
<1>2. I /\ [Next]_vars => I'
  BY TypesStep, PhaseStep, FedStep, ColumnsStep, OutStep, TextStep
<1>3. QED
  BY <1>1, <1>2, PTL DEF Spec

-----------------------------------------------------------------------------
(* The room in the output buffer.                                          *)

(* The sum that encode() asks the allocator for does not wrap around.      *)
(* encode.h does not test it: with a size_t of 32 bits there are buffer    *)
(* sizes and widths for which it does.                                     *)
SizesFit ==
    \A size \in BufferSizes : \A w \in Widths :
        EncodeLength(Clamp(size), w) + 16 <= SizeMax

(* Once taken the output buffer is as large as was asked for.              *)
Room ==
    /\ buffersize \in {Clamp(size) : size \in BufferSizes}
    /\ pc \in {"read", "encode", "write", "encode_end", "write_end", "reset"} =>
          Cap # 0 /\ live["code"] = CodeSize

(* Every step keeps the sizes of the buffers as allocated.                 *)
LEMMA RoomStep == ASSUME TypeOK, Room, [Next]_vars PROVE Room'
<1>1. CASE UNCHANGED vars
  BY <1>1 DEF Room, Cap, CodeSize, vars, streamVars, object, memory, state
<1>2. CASE Build
  BY <1>2 DEF Build, BuildObject, Room
<1>3. CASE EncodeBlock \/ EncodeBlockEnd \/ EncodeStream \/ Reset
  BY <1>3 DEF EncodeBlock, EncodeBlockEnd, EncodeStream, Reset, Leave, Room, object
<1>4. CASE AllocPlaintext
  BY <1>4 DEF AllocPlaintext, Proceed, Leave, OutsideMemory, Room, object
<1>5. CASE AllocCode
  <2>1. UNCHANGED << buffersize, chars_per_line >>
    BY <1>5 DEF AllocCode, OutsideMemory, object, state
  <2>2. Cap' = Cap /\ CodeSize' = CodeSize
    BY <2>1 DEF Cap, CodeSize
  <2>3. \/ pc' = "idle"
        \/ pc' = "read" /\ Cap # 0 /\ live' = [live EXCEPT !["code"] = CodeSize]
    BY <1>5 DEF AllocCode, Allocated, Proceed, Leave
  <2>4. live \in [{"plaintext", "code"} -> Nat]
    BY DEF TypeOK, StreamTypeOK
  <2>5. QED
    BY <2>1, <2>2, <2>3, <2>4 DEF Room
<1>6. CASE Read \/ Encode \/ Write \/ End \/ WriteEnd
  <2>1. UNCHANGED << buffersize, chars_per_line, live >>
    BY <1>6 DEF Read, Encode, Write, End, EncodeEnd, WriteEnd, object, memory, state
  <2>2. Cap' = Cap /\ CodeSize' = CodeSize
    BY <2>1 DEF Cap, CodeSize
  <2>3. pc \in {"read", "encode", "write", "encode_end", "write_end", "reset"}
    BY <1>6 DEF Read, Encode, Write, End, WriteEnd
  <2>4. QED
    BY <2>1, <2>2, <2>3 DEF Room
<1>7. QED
  BY <1>1, <1>2, <1>3, <1>4, <1>5, <1>6 DEF Next, Inside

(* What base64_encode_length makes of a buffer of plaintext.               *)
LEMMA CapIs ==
    ASSUME TypeOK, Cap # 0
    PROVE  \E n \in Nat \ {0} :
              /\ 4 * buffersize <= 3 * n
              /\ Cap = n + (IF chars_per_line = 0 THEN 0
                            ELSE (n - 1) \div chars_per_line + 1)
<1> DEFINE n == 4 * Groups(buffersize)
<1>1. buffersize \in Nat \ {0} /\ chars_per_line \in Nat
  BY StreamTypes
<1>2. n \in Nat \ {0} /\ 4 * buffersize <= 3 * n
  BY <1>1 DEF Groups
<1> HIDE DEF n
<1>3. CASE chars_per_line = 0
  <2>1. Cap = n
    BY <1>3 DEF Cap, EncodeLength, n
  <2>2. QED
    BY <1>2, <1>3, <2>1
<1>4. CASE chars_per_line # 0
  <2>1. Cap = Newlines(n, chars_per_line) + n
    BY <1>2, <1>4 DEF Cap, EncodeLength, n
  <2>2. (n - 1) \div chars_per_line \in Int
    BY <1>1, <1>2, <1>4
  <2>3. Cap = n + ((n - 1) \div chars_per_line + 1)
    BY <1>2, <2>1, <2>2 DEF Newlines
  <2>4. QED
    BY <1>2, <1>4, <2>3
<1>5. QED
  BY <1>3, <1>4

(* The size requested does not wrap, under the assumption on sizes.        *)
LEMMA CodeSizeIs ==
    ASSUME SizesFit, TypeOK, Room
    PROVE  CodeSize = Cap + 16
<1>1. PICK size \in BufferSizes : buffersize = Clamp(size)
  BY DEF Room
<1>2. chars_per_line \in Widths
  BY DEF TypeOK
<1>3. Cap + 16 <= SizeMax
  BY <1>1, <1>2 DEF SizesFit, Cap
<1>4. Cap \in Nat /\ SizeMax \in Nat
  BY CapType, SizeMaxAssumption
<1>5. QED
  BY <1>3, <1>4 DEF CodeSize, SizeT

(* An encoded chunk fits the code buffer, with the slack that the end
   needs.                                                                  *)
LEMMA FitsStep ==
    ASSUME SizesFit, TypeOK, Phase, Room, CodeFits, [Next]_vars
    PROVE  CodeFits'
<1>1. CASE UNCHANGED vars
  BY <1>1 DEF CodeFits, vars, streamVars, memory
<1>2. CASE \/ Build \/ EncodeBlock \/ EncodeBlockEnd \/ EncodeStream
           \/ AllocPlaintext \/ AllocCode \/ Read \/ Write \/ WriteEnd \/ Reset
  <2>1. pc' \notin {"write", "write_end"}
    BY <1>2 DEF Build, EncodeBlock, EncodeBlockEnd, EncodeStream, AllocPlaintext,
                AllocCode, Read, Write, WriteEnd, Reset, Again, FailureOf, Proceed, Leave
  <2>2. QED
    BY <2>1 DEF CodeFits
<1>3. CASE Encode
  <2> DEFINE d == SubSeq(content, got - gcount + 1, got)
  <2>1. /\ Cap # 0 /\ live["code"] = Cap + 16 /\ live' = live
        /\ EncodePiece(d) /\ gcount <= got
    BY <1>3, CodeSizeIs DEF Encode, Room, Phase, memory
  <2>2. d \in Seq(Byte) /\ Len(d) <= buffersize /\ Len(d) \in Nat
    <3> HIDE DEF d
    <3>1. /\ content \in Seq(Byte) /\ got \in 0..Len(content)
          /\ buffersize \in Nat /\ gcount \in 0..buffersize
      BY StreamTypes
    <3>2. Len(content) \in Nat
      BY <3>1
    <3>3. /\ content \in Seq(Byte) /\ got \in 0..Len(content)
          /\ got - gcount \in 0..Len(content) /\ buffersize \in Nat
          /\ gcount \in 0..buffersize /\ got - gcount <= got
      BY <2>1, <3>1, <3>2
    <3>4. /\ d \in Seq(Byte)
          /\ Len(d) = IF got - gcount <= got THEN got - (got - gcount) ELSE 0
      BY <3>3, PieceType DEF d
    <3>5. Len(d) = got - (got - gcount)
      BY <3>3, <3>4
    <3>6. QED
      BY <3>3, <3>4, <3>5
  <2> HIDE DEF d
  <2> DEFINE chars == PieceText(since, d, 0)
  <2>3. chars \in Seq(Char) /\ chunk' = Wrapped(chars, chars_per_line, stepcount)
    BY <2>1, <2>2, EncodePieceIs DEF Broken
  <2>4. PICK n \in Nat \ {0} :
              /\ 4 * buffersize <= 3 * n
              /\ Cap = n + (IF chars_per_line = 0 THEN 0
                            ELSE (n - 1) \div chars_per_line + 1)
    BY <2>1, CapIs
  <2>5. 4 * Len(d) <= 3 * n /\ since \in Seq(Byte) /\ chars_per_line \in Nat
        /\ stepcount \in 0..chars_per_line
    <3>1. since \in Seq(Byte) /\ chars_per_line \in Nat /\ buffersize \in Nat
          /\ stepcount \in 0..chars_per_line
      BY <2>2, StreamTypes
    <3>2. d \in Seq(Byte) /\ Len(d) \in Nat
      BY <2>2
    <3> HIDE DEF Cap
    <3>3. QED
      BY <2>2, <2>4, <3>1, <3>2
  <2>6. Len(chars) <= n
    BY <2>2, <2>5, TextGrows
  <2> HIDE DEF chars
  <2>7. Len(chunk') <= Cap
    BY <2>3, <2>4, <2>5, <2>6, WrappedGrows
  <2>8. Len(chunk') \in Nat /\ Cap \in Nat
    BY <2>1, <2>2, EncodePieceIs, CapType
  <2>9. Len(chunk') <= Cap + 16
    BY <2>7, <2>8
  <2>10. QED
    BY <2>1, <2>9 DEF CodeFits
<1>4. CASE End
  <2>1. Cap # 0 /\ live["code"] = Cap + 16 /\ live' = live /\ EncodeEnd
    BY <1>4, CodeSizeIs DEF End, Room, memory
  <2> DEFINE chars == EndText(since, 0)
             line == Wrapped(chars, chars_per_line, stepcount)
             w == chars_per_line
  <2>2. chars \in Seq(Char) /\ chunk' = LastLine(line, w) /\ line \in Seq(Char)
        /\ chunk' \in Seq(Char)
    BY <2>1, EncodeEndIs, BrokenIs DEF Broken
  <2>3. since \in Seq(Byte) /\ << >> \in Seq(Byte) /\ w \in Nat /\ stepcount \in 0..w
    BY StreamTypes, EmptySeq
  <2>4. Len(chars) <= 3
    BY <2>3, TextGrows
  <2> HIDE DEF chars
  <2>5. Len(line) <= 3 + (IF w = 0 THEN 0 ELSE (3 - 1) \div w + 1)
    BY <2>2, <2>3, <2>4, WrappedGrows
  <2> HIDE DEF line, w
  <2>6. Len(line) <= 6
    <3>1. Len(line) \in Nat
      BY <2>2
    <3>2. CASE w = 0
      BY <2>5, <3>1, <3>2
    <3>3. CASE w # 0
      <4>1. 2 \div w \in 0..2
        BY <2>3, <3>3, QuotientBelow
      <4>2. Len(line) <= 3 + (2 \div w + 1)
        BY <2>5, <3>3
      <4> DEFINE q == 2 \div w
      <4> HIDE DEF q
      <4>3. q \in 0..2 /\ Len(line) <= 3 + (q + 1)
        BY <4>1, <4>2 DEF q
      <4>4. QED
        BY <3>1, <4>3
    <3>4. QED
      BY <3>2, <3>3
  <2>7. Len(chunk') <= 7
    <3>1. \A s \in Seq(Char) : Len(Append(s, NL)) = Len(s) + 1 /\ Len(s) \in Nat
      OBVIOUS
    <3>2. QED
      BY <2>2, <2>6, <3>1 DEF LastLine
  <2>8. Len(chunk') <= Cap + 16
    <3>1. Len(chunk') \in Nat /\ Cap \in Nat
      BY <2>2, CapType
    <3>2. QED
      BY <2>7, <3>1
  <2>9. QED
    BY <2>1, <2>8 DEF CodeFits
<1>5. QED
  BY <1>1, <1>2, <1>3, <1>4 DEF Next, Inside

(* What the block API writes fits the buffer that encode.h:99-111 sizes   *)
(* by base64_encode_length plus 16, for every piece, carry and width, as   *)
(* long as that sum is a size_t.                                           *)
THEOREM CodeNeverOverruns ==
    ASSUME SizesFit
    PROVE  Spec => []CodeFits
<1> DEFINE I == TypeOK /\ Phase /\ Fed /\ Room /\ CodeFits
<1>1. Init => I
  <2>1. Init => Room /\ CodeFits
    BY DEF Init, InitStreams, Room, CodeFits
  <2>2. QED
    BY <2>1, InitText
<1>2. I /\ [Next]_vars => I'
  BY TypesStep, PhaseStep, FedStep, RoomStep, FitsStep
<1>3. QED
  BY <1>1, <1>2, PTL DEF Spec

-----------------------------------------------------------------------------
(* How long a call takes.  CallEnds says that it ends, by the fairness of  *)
(* its steps.  A read that brings something is paid for by what is left of *)
(* the content, and the loop goes round again only after such a read.      *)

(* What is left of the turn of the loop and of what is behind it.          *)
TurnLeft ==
    CASE pc = "plaintext"  -> 8
      [] pc = "code"       -> 7
      [] pc = "read"       -> 6
      [] pc = "encode"     -> IF gcount > 0 THEN 8 ELSE 5
      [] pc = "write"      -> IF gcount > 0 THEN 7 ELSE 4
      [] pc = "encode_end" -> 3
      [] pc = "write_end"  -> 2
      [] pc = "reset"      -> 1
      [] OTHER             -> 0

StepsLeft == 3 * (Len(content) - got) + TurnLeft

(* A call that finds n bytes in the istream takes 3 * n + 8 steps at the   *)
(* most, whatever the buffer size and whichever of them fail.              *)
CallsBounded ==
    [][/\ EncodeStream => StepsLeft' = 3 * Len(content') + 8
       /\ Inside => StepsLeft' \in Nat /\ StepsLeft' < StepsLeft]_vars

(* What CallsBounded says of one step.                                     *)
LEMMA StepsCount ==
    ASSUME TypeOK, TypeOK', Next
    PROVE  /\ EncodeStream => StepsLeft' = 3 * Len(content') + 8
           /\ Inside => StepsLeft' \in Nat /\ StepsLeft' < StepsLeft
<1>1. /\ Len(content) \in Nat /\ Len(content') \in Nat
      /\ got \in 0..Len(content) /\ got' \in 0..Len(content')
      /\ gcount \in Nat /\ gcount' \in Nat
  <2>1. content \in Seq(Byte) /\ content' \in Seq(Byte)
    BY SizeMaxAssumption, StreamEncodeAssumption, EmptySeq DEF TypeOK, StreamTypeOK
  <2>2. /\ got \in 0..Len(content) /\ got' \in 0..Len(content')
        /\ gcount \in 0..buffersize /\ gcount' \in 0..buffersize'
        /\ buffersize \in Nat /\ buffersize' \in Nat
    BY DEF TypeOK, StreamTypeOK
  <2>3. Len(content) \in Nat /\ Len(content') \in Nat
    BY <2>1, LenProperties
  <2>4. QED
    BY <2>2, <2>3
<1>2. StepsLeft' \in Nat
  <2>1. TurnLeft' \in 0..8
    BY <1>1 DEF TurnLeft
  <2>2. Len(content') - got' \in Nat
    BY <1>1
  <2>3. QED
    BY <2>1, <2>2 DEF StepsLeft
<1>3. EncodeStream => StepsLeft' = 3 * Len(content') + 8
  BY <1>1 DEF EncodeStream, OpenStreams, StepsLeft, TurnLeft
<1>4. ASSUME Inside PROVE StepsLeft' < StepsLeft
  <2>1. CASE AllocPlaintext
    <3>1. pc = "plaintext" /\ pc' \in {"code", "idle"}
          /\ content' = content /\ got' = got
      BY <2>1 DEF AllocPlaintext, Proceed, Leave, OutsideMemory, istream
    <3>2. QED
      BY <1>1, <3>1 DEF StepsLeft, TurnLeft
  <2>2. CASE AllocCode
    <3>1. pc = "code" /\ pc' \in {"read", "idle"} /\ content' = content /\ got' = got
      BY <2>2 DEF AllocCode, Proceed, Leave, OutsideMemory, istream
    <3>2. QED
      BY <1>1, <3>1 DEF StepsLeft, TurnLeft
  <2>3. CASE Read
    <3>1. pc = "read" /\ pc' \in {"encode", "idle"}
      BY <2>3 DEF Read, FailureOf, Proceed, Leave
    <3>2. content' = content /\ got' = got + gcount'
      BY <2>3, ReadIs DEF Read
    <3>3. TurnLeft = 6 /\ (TurnLeft' = 0 \/ TurnLeft' = IF gcount' > 0 THEN 8 ELSE 5)
      BY <3>1 DEF TurnLeft
    <3>4. CASE gcount' = 0
      <4>1. TurnLeft' = 0 \/ TurnLeft' = 5
        BY <3>3, <3>4
      <4>2. QED
        BY <1>1, <3>2, <3>3, <3>4, <4>1 DEF StepsLeft
    <3>5. CASE gcount' > 0
      <4>1. TurnLeft' = 0 \/ TurnLeft' = 8
        BY <3>3, <3>5
      <4>2. QED
        BY <1>1, <3>2, <3>3, <3>5, <4>1 DEF StepsLeft
    <3>6. QED
      BY <1>1, <3>4, <3>5
  <2>4. CASE Encode
    <3>1. pc = "encode" /\ pc' = "write" /\ content' = content /\ got' = got
          /\ gcount' = gcount
      BY <2>4 DEF Encode, Proceed, istream
    <3>2. QED
      BY <1>1, <3>1 DEF StepsLeft, TurnLeft
  <2>5. CASE Write
    <3>1. /\ pc = "write" /\ content' = content /\ got' = got
          /\ pc' \in {"read", "encode_end", "idle"}
          /\ pc' = "read" => gcount > 0
      BY <2>5 DEF Write, FailureOf, Proceed, Leave, Again, istream
    <3>2. QED
      BY <1>1, <3>1 DEF StepsLeft, TurnLeft
  <2>6. CASE End
    <3>1. pc = "encode_end" /\ pc' = "write_end" /\ content' = content /\ got' = got
      BY <2>6 DEF End, Proceed, istream
    <3>2. QED
      BY <1>1, <3>1 DEF StepsLeft, TurnLeft
  <2>7. CASE WriteEnd
    <3>1. pc = "write_end" /\ pc' \in {"reset", "idle"} /\ content' = content /\ got' = got
      BY <2>7 DEF WriteEnd, FailureOf, Proceed, Leave, istream
    <3>2. QED
      BY <1>1, <3>1 DEF StepsLeft, TurnLeft
  <2>8. CASE Reset
    <3>1. pc = "reset" /\ pc' = "idle" /\ content' = content /\ got' = got
      BY <2>8 DEF Reset, Leave, istream
    <3>2. QED
      BY <1>1, <3>1 DEF StepsLeft, TurnLeft
  <2>9. QED
    BY <1>4, <2>1, <2>2, <2>3, <2>4, <2>5, <2>6, <2>7, <2>8 DEF Inside
<1>5. QED
  BY <1>2, <1>3, <1>4

(* Of any call, for every content, buffer size and sequence of failures:   *)
(* the loop of encode.h:119-126 never goes round without having read.      *)
THEOREM CallsEnd == Spec => CallsBounded
<1>1. Init => TypeOK /\ Phase /\ Fed
  BY InitText
<1>2. TypeOK /\ Phase /\ Fed /\ [Next]_vars => (TypeOK /\ Phase /\ Fed)'
  BY TypesStep, PhaseStep, FedStep
<1>3. TypeOK /\ TypeOK' /\ [Next]_vars =>
        [/\ EncodeStream => StepsLeft' = 3 * Len(content') + 8
         /\ Inside => StepsLeft' \in Nat /\ StepsLeft' < StepsLeft]_vars
  BY StepsCount
<1>4. QED
  BY <1>1, <1>2, <1>3, PTL DEF Spec, CallsBounded

=============================================================================
