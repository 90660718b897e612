------------------------ MODULE StreamDecodeProofs -------------------------
(***************************************************************************)
(* What holds of StreamDecode for any contents, buffer sizes, allocator    *)
(* and exception mask, whatever the object was used for before: the exits  *)
(* of decode() release the scratch, what a call writes is the decoding of  *)
(* what it read, and every piece fits the buffer it is put in.             *)
(***************************************************************************)
EXTENDS StreamDecode, B64Facts, TLAPS

(* A call begins with nothing of its own allocated.                        *)
NothingTakenYet == pc = "code" => live = NoBlocks

IInv == NothingTakenYet /\ ExitsRelease

(* What a step has to do to keep the invariant.                            *)
LEMMA KeepsOrLeaves ==
    ASSUME IInv,
           \/ UNCHANGED << pc, outcome, live >>
           \/ pc' \notin {"idle", "code"}
           \/ live' = NoBlocks
           \/ pc' = "idle" /\ outcome' \notin {"returned", "bad_alloc"}
    PROVE  IInv'
BY DEF IInv, NothingTakenYet, ExitsRelease

(* An allocation that fails releases what the call holds before it
   leaves.                                                                 *)
LEMMA AllocationStep == ASSUME IInv, AllocCode \/ AllocPlaintext PROVE IInv'
<1>1. CASE AllocCode
  <2>1. live = NoBlocks
    BY <1>1 DEF IInv, NothingTakenYet, AllocCode
  <2>2. pc' = "plaintext" \/ live' = NoBlocks
    BY <1>1, <2>1 DEF AllocCode, Proceed, Leave
  <2>3. QED
    BY <2>2, KeepsOrLeaves
<1>2. CASE AllocPlaintext
  <2>1. \/ pc' = "read"
        \/ live' = NoBlocks
        \/ pc' = "idle" /\ outcome' = "thrown"
    BY <1>2 DEF AllocPlaintext, Proceed, Leave
  <2>2. QED
    BY <2>1, KeepsOrLeaves
<1>3. QED
  BY <1>1, <1>2

(* The other steps allocate nothing, and leave only with both buffers
   released.                                                               *)
LEMMA OtherStep ==
    ASSUME IInv,
           \/ Read \/ Decode \/ Write
           \/ Build \/ DecodeBlock \/ DecodeStream \/ Reset
    PROVE  IInv'
<1>1. \/ UNCHANGED << pc, outcome, live >>
      \/ pc' \in {"decode", "write", "read", "reset"}
      \/ live' = NoBlocks
      \/ pc' = "idle" /\ outcome' = "thrown"
  BY DEF Read, Decode, Write, FailureOf, Proceed, Leave, Again,
         Build, DecodeBlock, DecodeStream, OpenStreams, Reset, memory
<1>2. QED
  BY <1>1, KeepsOrLeaves

(* The exits decode() makes itself, return and bad_alloc, leave no scratch *)
(* buffer behind: decode.h:86-97 and 112-113.                              *)
THEOREM ScratchReleased == Spec => []ExitsRelease
<1>1. Init => IInv
  BY DEF Init, InitStreams, IInv, NothingTakenYet, ExitsRelease
<1>2. IInv /\ [Next]_vars => IInv'
  <2> SUFFICES ASSUME IInv, [Next]_vars PROVE IInv'
    OBVIOUS
  <2>1. CASE UNCHANGED vars
    BY <2>1, KeepsOrLeaves DEF vars, streamVars, memory
  <2>2. CASE Next
    BY <2>2, AllocationStep, OtherStep DEF Next, Inside
  <2>3. QED
    BY <2>1, <2>2
<1>3. IInv => ExitsRelease
  BY DEF IInv
<1>4. QED
  BY <1>1, <1>2, <1>3, PTL DEF Spec

-----------------------------------------------------------------------------
(* Types.                                                                  *)

LEMMA StreamTypes ==
    ASSUME TypeOK
    PROVE  /\ content \in Seq(Char) /\ got \in 0..Len(content)
           /\ since \in Seq(Char)
           /\ buffersize \in Nat \ {0} /\ gcount \in 0..buffersize
           /\ out \in Seq(Byte) /\ chunk \in Seq(Byte)
<1>1. << >> \in Seq(Char)
  BY EmptySeq
<1>2. content \in Seq(Char)
  BY <1>1, StreamDecodeAssumption DEF TypeOK, StreamTypeOK
<1>3. QED
  BY <1>2 DEF TypeOK, StreamTypeOK

(* What base64_decode_block adds to the bytes delivered.                   *)
LEMMA DecodePieceIs ==
    ASSUME TypeOK, NEW piece \in Seq(Char), DecodePiece(piece)
    PROVE  /\ since' = since \o piece /\ since' \in Seq(Char)
           /\ chunk' \in Seq(Byte) /\ Decoded(since) \in Seq(Byte)
           /\ Extends(Byte, Decoded(since'), Decoded(since))
           /\ Decoded(since') = Decoded(since) \o chunk'
<1>1. since \in Seq(Char)
  BY StreamTypes
<1>2. since' = since \o piece
  BY DEF DecodePiece
<1>3. since' \in Seq(Char) /\ Extends(Byte, Decoded(since'), Decoded(since))
  BY <1>1, <1>2, DecodedExtends
<1>4. Decoded(since) \in Seq(Byte)
  BY <1>1, DecodedType
<1>5. chunk' = SubSeq(Decoded(since'), Len(Decoded(since)) + 1, Len(Decoded(since')))
  BY <1>2 DEF DecodePiece, PieceBytes, Beyond
<1>6. chunk' \in Seq(Byte) /\ Decoded(since') = Decoded(since) \o chunk'
  BY <1>3, <1>4, <1>5, RestOf
<1>7. QED
  BY <1>2, <1>3, <1>4, <1>6

(* What a read and a write do.                                             *)
LEMMA ReadIs ==
    ASSUME TypeOK, ReadOk \/ ReadFails
    PROVE  /\ gcount' \in 0..buffersize
           /\ got' = got + gcount' /\ got' \in 0..Len(content) /\ content' = content
           /\ inState' \in {"good", "eof", "bad"}
           /\ inState' = "good" => inState = "good" /\ gcount' = buffersize
           /\ inState' = "eof" => inState = "eof" \/ got' = Len(content)
<1>1. content \in Seq(Char) /\ got \in 0..Len(content) /\ buffersize \in Nat \ {0}
      /\ inState \in {"good", "eof", "bad"}
  BY StreamTypes DEF TypeOK, StreamTypeOK
<1>2. Len(content) \in Nat
  BY <1>1
<1>3. Available \in 0..buffersize /\ got + Available \in 0..Len(content)
      /\ (inState = "good" /\ Available < buffersize => got + Available = Len(content))
  BY <1>1, <1>2 DEF Available
<1>4. CASE ReadOk
  BY <1>1, <1>3, <1>4 DEF ReadOk
<1>5. CASE ReadFails
  <2>1. gcount' \in 0..Available /\ gcount' < buffersize /\ got' = got + gcount'
        /\ inState' = "bad" /\ content' = content
    BY <1>5 DEF ReadFails
  <2>2. PICK a \in 0..buffersize : got + a \in 0..Len(content) /\ gcount' \in 0..a
    BY <1>3, <2>1
  <2>3. gcount' \in 0..buffersize /\ got + gcount' \in 0..Len(content)
    <3>1. got \in Int /\ gcount' \in Int /\ a \in Int /\ buffersize \in Int
      BY <1>1, <2>2
    <3>2. 0 <= got /\ 0 <= gcount' /\ gcount' <= a /\ a <= buffersize
      BY <1>1, <2>2
    <3>3. got + a <= Len(content) /\ Len(content) \in Int
      BY <1>2, <2>2
    <3>4. gcount' <= buffersize /\ 0 <= got + gcount' /\ got + gcount' <= got + a
      <4>1. \A x, y, z, g \in Int : 0 <= g /\ 0 <= x /\ x <= y /\ y <= z =>
                x <= z /\ 0 <= g + x /\ g + x <= g + y
        OBVIOUS
      <4>2. QED
        BY ONLY <3>1, <3>2, <4>1
    <3>5. got + gcount' \in Int /\ got + a \in Int
      BY ONLY <3>1
    <3>6. got + gcount' <= Len(content)
      BY ONLY <3>3, <3>4, <3>5
    <3>7. gcount' \in 0..buffersize
      BY ONLY <3>1, <3>2, <3>4
    <3>8. got + gcount' \in 0..Len(content)
      BY ONLY <3>3, <3>4, <3>5, <3>6
    <3>9. QED
      BY <3>7, <3>8
  <2>4. QED
    BY <2>1, <2>3
<1>6. QED
  BY <1>4, <1>5

(* What a write does to the output: all of the chunk, or a part and a bad
   state.                                                                  *)
LEMMA WriteIs ==
    ASSUME TypeOK, WriteOk \/ WriteFails
    PROVE  /\ out' \in Seq(Byte) /\ outState' \in {"good", "bad"}
           /\ outState' = "good" => outState = "good" /\ out' = out \o chunk
           /\ outState = "good" /\ outState' = "bad" => Extends(Byte, out \o chunk, out')
           /\ outState = "bad" => outState' = "bad" /\ out' = out
<1>1. out \in Seq(Byte) /\ chunk \in Seq(Byte) /\ outState \in {"good", "bad"}
  BY StreamTypes DEF TypeOK, StreamTypeOK
<1>2. out \o chunk \in Seq(Byte)
  BY <1>1, ConcatProperties
<1>3. CASE WriteOk
  BY <1>1, <1>2, <1>3 DEF WriteOk
<1>4. CASE WriteFails
  <2>1. PICK k \in 0..(Len(chunk) - 1) : out' = out \o SubSeq(chunk, 1, k)
    BY <1>4 DEF WriteFails
  <2>2. k \in 0..Len(chunk)
    BY <1>1
  <2>3. out \o SubSeq(chunk, 1, k) \in Seq(Byte)
        /\ Extends(Byte, out \o chunk, out \o SubSeq(chunk, 1, k))
    BY <1>1, <2>2, PartWritten
  <2>4. outState = "good" /\ outState' = "bad"
    BY <1>4 DEF WriteFails
  <2>5. QED
    BY <2>1, <2>3, <2>4
<1>5. QED
  BY <1>3, <1>4

(* The buffer size used is never 0, whatever is configured.                *)
LEMMA ClampType ==
    ASSUME NEW size \in BufferSizes
    PROVE  Clamp(size) \in Nat \ {0}
<1>1. size \in Int
  BY StreamsAssumption
<1>2. QED
  BY <1>1 DEF Clamp

(* The types hold at first.                                                *)
LEMMA InitTypes == Init => TypeOK
<1> SUFFICES ASSUME Init PROVE TypeOK
  OBVIOUS
<1>1. << >> \in Seq(Byte) /\ << >> \in Seq(Char) /\ content \in Seq(Char)
  BY EmptySeq, StreamDecodeAssumption DEF Init, InitStreams
<1>2. buffersize \in Nat \ {0}
  BY ClampType DEF Init, InitStreams
<1>3. 0 \in 0..Len(content) /\ 0 \in 0..buffersize
  BY <1>1, <1>2
<1>4. live \in [{"plaintext", "code"} -> Nat]
  BY DEF Init, InitStreams, NoBlocks
<1>5. QED
  BY <1>1, <1>2, <1>3, <1>4
     DEF Init, InitStreams, TypeOK, StreamTypeOK, Outcomes

(* The calls of the caller keep the types.                                 *)
LEMMA CallerTypes ==
    ASSUME TypeOK, Build \/ DecodeBlock \/ DecodeStream
    PROVE  TypeOK'
<1>1. << >> \in Seq(Byte) /\ << >> \in Seq(Char) /\ Len(<< >>) = 0
  BY EmptySeq
<1>2. NoBlocks \in [{"plaintext", "code"} -> Nat]
  BY DEF NoBlocks
<1>3. CASE Build
  <2>1. buffersize' \in Nat \ {0}
    BY <1>3, ClampType DEF Build, BuildObject
  <2>2. 0 \in 0..buffersize' /\ 0 \in 0..Len(<< >>)
    BY <1>1, <2>1
  <2>3. QED
    BY <1>1, <1>2, <1>3, <2>1, <2>2
       DEF TypeOK, StreamTypeOK, Build, BuildObject, Outcomes
<1>4. CASE DecodeBlock
  <2>1. PICK piece \in Contents : DecodePiece(piece)
    BY <1>4 DEF DecodeBlock
  <2>2. piece \in Seq(Char)
    BY StreamDecodeAssumption
  <2>3. since' \in Seq(Char) /\ chunk' \in Seq(Byte)
    BY <2>1, <2>2, DecodePieceIs
  <2>4. QED
    BY <1>4, <2>3
       DEF TypeOK, StreamTypeOK, DecodeBlock, object, memory, istream, ostream
<1>5. CASE DecodeStream
  <2>1. content' \in Seq(Char) /\ content' \in Contents
    BY <1>5, StreamDecodeAssumption DEF DecodeStream, OpenStreams
  <2>2. 0 \in 0..Len(content') /\ 0 \in 0..buffersize
    BY <2>1, StreamTypes
  <2>3. QED
    BY <1>1, <1>2, <1>5, <2>1, <2>2
       DEF TypeOK, StreamTypeOK, DecodeStream, OpenStreams, object, Outcomes
<1>6. QED
  BY <1>3, <1>4, <1>5

(* The allocations keep the types.                                         *)
LEMMA AllocTypes ==
    ASSUME TypeOK, AllocCode \/ AllocPlaintext
    PROVE  TypeOK'
<1>1. NoBlocks \in [{"plaintext", "code"} -> Nat]
  BY DEF NoBlocks
<1>2. buffersize \in Nat /\ PlaintextSize \in Nat /\ live \in [{"plaintext", "code"} -> Nat]
  <2>1. buffersize \in Nat /\ SizeMax \in Nat
    BY StreamTypes, SizeMaxAssumption
  <2>2. PlaintextSize \in Nat
    BY <2>1 DEF PlaintextSize, DecodeMaxLength, SizeT
  <2>3. QED
    BY <2>1, <2>2 DEF TypeOK, StreamTypeOK
<1>3. live' \in [{"plaintext", "code"} -> Nat]
  BY <1>1, <1>2 DEF AllocPlaintext, AllocCode, Allocated
<1>4. /\ pc' \in {"plaintext", "read", "idle"}
      /\ outcome' \in Outcomes
      /\ UNCHANGED OutsideMemory
  BY DEF AllocPlaintext, AllocCode, Proceed, Leave, Outcomes, TypeOK, StreamTypeOK
<1>5. QED
  BY <1>3, <1>4 DEF TypeOK, StreamTypeOK, OutsideMemory, object, istream, ostream

(* What every place in the code knows.                                     *)
Phase ==
    /\ pc # "idle" => outcome = "none"
    /\ inState = "eof" => got = Len(content)
    /\ pc \in {"code", "plaintext", "read"} => inState = "good"
    /\ pc \in {"code", "plaintext"} =>
          got = 0 /\ out = << >> /\ outState = "good" /\ since = << >>
    /\ pc = "decode" => gcount <= got
    /\ pc \in {"decode", "write"} /\ inState = "good" => gcount = buffersize
    /\ pc = "reset" => inState # "good"

(* What was just read is a piece of the content of gcount characters.      *)
LEMMA PieceRead ==
    ASSUME TypeOK, Phase, pc = "decode"
    PROVE  /\ got - gcount \in 0..Len(content) /\ got \in (got - gcount)..Len(content)
           /\ SubSeq(content, got - gcount + 1, got) \in Seq(Char)
           /\ Len(SubSeq(content, got - gcount + 1, got)) = gcount
<1>1. content \in Seq(Char) /\ got \in 0..Len(content) /\ gcount \in Nat /\ gcount <= got
      /\ Len(content) \in Nat
  BY StreamTypes DEF Phase
<1>2. /\ got - gcount \in 0..Len(content) /\ got \in (got - gcount)..Len(content)
      /\ got - gcount <= got /\ got - (got - gcount) = gcount
  BY <1>1
<1>3. /\ SubSeq(content, got - gcount + 1, got) \in Seq(Char)
      /\ Len(SubSeq(content, got - gcount + 1, got)) =
            IF got - gcount <= got THEN got - (got - gcount) ELSE 0
  BY <1>1, <1>2, PieceType
<1>4. QED
  BY <1>2, <1>3

(* Every step keeps the types.                                             *)
LEMMA TypesStep == ASSUME TypeOK, Phase, [Next]_vars PROVE TypeOK'
<1>1. CASE UNCHANGED vars
  BY <1>1 DEF TypeOK, StreamTypeOK, vars, streamVars, object, memory, istream, ostream
<1>2. CASE Build \/ DecodeBlock \/ DecodeStream
  BY <1>2, CallerTypes
<1>3. CASE AllocCode \/ AllocPlaintext
  BY <1>3, AllocTypes
<1>4. CASE Read
  <2>1. gcount' \in 0..buffersize /\ got' \in 0..Len(content) /\ content' = content
        /\ inState' \in {"good", "eof", "bad"}
    BY <1>4, ReadIs DEF Read
  <2>2. pc' \in {"decode", "idle"} /\ outcome' \in Outcomes
    BY <1>4 DEF Read, FailureOf, Proceed, Leave, Outcomes, TypeOK, StreamTypeOK
  <2>3. QED
    BY <1>4, <2>1, <2>2 DEF Read, TypeOK, StreamTypeOK, object, memory, ostream
<1>5. CASE Decode
  <2>1. since' \in Seq(Char) /\ chunk' \in Seq(Byte)
    BY <1>5, PieceRead, DecodePieceIs DEF Decode
  <2>2. QED
    BY <1>5, <2>1
       DEF Decode, Proceed, TypeOK, StreamTypeOK, object, memory, istream, ostream
<1>6. CASE Write
  <2>1. out' \in Seq(Byte) /\ outState' \in {"good", "bad"}
    BY <1>6, WriteIs DEF Write
  <2>2. pc' \in {"read", "reset", "idle"} /\ outcome' \in Outcomes
    BY <1>6 DEF Write, FailureOf, Proceed, Leave, Outcomes, TypeOK, StreamTypeOK
  <2>3. QED
    BY <1>6, <2>1, <2>2 DEF Write, TypeOK, StreamTypeOK, object, memory, istream
<1>7. CASE Reset
  <2>1. NoBlocks \in [{"plaintext", "code"} -> Nat] /\ << >> \in Seq(Char)
    BY EmptySeq DEF NoBlocks
  <2>2. QED
    BY <1>7, <2>1
       DEF Reset, Leave, TypeOK, StreamTypeOK, Outcomes, object, istream, ostream
<1>8. QED
  BY <1>1, <1>2, <1>3, <1>4, <1>5, <1>6, <1>7 DEF Next, Inside

(* Every step keeps what holds at each point of the loop.                  *)
LEMMA PhaseStep == ASSUME TypeOK, Phase, [Next]_vars PROVE Phase'
<1>1. CASE UNCHANGED vars
  BY <1>1 DEF Phase, vars, streamVars, object, istream, ostream
<1>2. CASE Build
  BY <1>2 DEF Phase, Build
<1>3. CASE DecodeBlock
  BY <1>3 DEF Phase, DecodeBlock, istream, ostream
<1>4. CASE DecodeStream
  BY <1>4 DEF Phase, DecodeStream, OpenStreams
<1>5. CASE AllocCode
  BY <1>5 DEF Phase, AllocCode, Proceed, Leave, OutsideMemory, istream, ostream
<1>6. CASE AllocPlaintext
  BY <1>6 DEF Phase, AllocPlaintext, Proceed, Leave, OutsideMemory, istream, ostream
<1>7. CASE Read
  <2>1. /\ got' = got + gcount' /\ content' = content /\ gcount' \in Nat
        /\ inState' = "good" => gcount' = buffersize
        /\ inState' = "eof" => inState = "eof" \/ got' = Len(content)
    BY <1>7, ReadIs, StreamTypes DEF Read
  <2>2. gcount' <= got'
    <3>1. \A x, y \in Nat : x <= y + x
      OBVIOUS
    <3>2. gcount' <= got + gcount'
      BY <2>1, <3>1, StreamTypes
    <3>3. QED
      BY <2>1, <3>2
  <2>3. /\ pc = "read" /\ inState = "good" /\ outcome = "none"
        /\ buffersize' = buffersize
        /\ (pc' = "decode" /\ UNCHANGED outcome) \/ pc' = "idle"
    BY <1>7 DEF Read, object, Phase, FailureOf, Proceed, Leave
  <2>4. QED
    BY <2>1, <2>2, <2>3 DEF Phase
<1>8. CASE Decode
  BY <1>8 DEF Decode, Proceed, Phase, object, istream, ostream
<1>9. CASE Write
  <2>1. inState = "good" => gcount > 0
    BY <1>9, StreamTypes DEF Phase, Write
  <2>2. /\ pc = "write" /\ outcome = "none"
        /\ UNCHANGED << content, got, inState, gcount, buffersize >>
        /\ \/ pc' = "idle"
           \/ pc' = "read" /\ Again /\ UNCHANGED outcome
           \/ pc' = "reset" /\ ~Again /\ UNCHANGED outcome
    BY <1>9 DEF Write, Proceed, FailureOf, Leave, object, istream, Phase
  <2>3. QED
    BY <2>1, <2>2 DEF Phase, Again
<1>10. CASE Reset
  BY <1>10 DEF Reset, Leave, Phase, istream
<1>11. QED
  BY <1>1, <1>2, <1>3, <1>4, <1>5, <1>6, <1>7, <1>8, <1>9, <1>10 DEF Next, Inside

-----------------------------------------------------------------------------
(* The bytes.                                                              *)

(* The decoder has been given what the call has read and passed on.        *)
PassedOn == SubSeq(content, 1, IF pc = "decode" THEN got - gcount ELSE got)

Fed == pc # "idle" => since = PassedOn

OutIsDue ==
    pc # "idle" =>
        /\ outState = "bad" => Extends(Byte, Decoded(since), out)
        /\ outState = "good" =>
              Decoded(since) = IF pc = "write" THEN out \o chunk ELSE out

(* No text decodes to no bytes.                                            *)
LEMMA NothingDecoded == Decoded(<< >>) = << >>
<1>1. << >> \in Seq(Char) /\ Len(<< >>) = 0
  BY EmptySeq
<1>2. /\ Len(Values(<< >>, Len(<< >>))) \in 0..Len(<< >>)
      /\ Decoded(<< >>) \in Seq(Byte)
      /\ Len(Decoded(<< >>)) = (3 * Len(Values(<< >>, Len(<< >>)))) \div 4
  BY <1>1, DecodedType
<1>3. Len(Values(<< >>, Len(<< >>))) = 0
  BY <1>1, <1>2
<1>4. Len(Decoded(<< >>)) = 0
  BY <1>2, <1>3
<1>5. QED
  BY <1>2, <1>4, EmptySeq

(* All parts of the invariant hold at first.                               *)
LEMMA InitBytes == Init => TypeOK /\ Phase /\ Fed /\ OutIsDue /\ StreamIsBytes
BY InitTypes
   DEF Init, InitStreams, Phase, Fed, OutIsDue, StreamIsBytes

(* Every step keeps what the decoder was fed equal to what was read.       *)
LEMMA FedStep == ASSUME TypeOK, Phase, Fed, [Next]_vars PROVE Fed'
<1>1. CASE UNCHANGED vars
  BY <1>1 DEF Fed, PassedOn, vars, streamVars, istream
<1>2. CASE Build \/ DecodeBlock \/ Reset
  BY <1>2 DEF Build, DecodeBlock, Reset, Leave, Fed
<1>3. CASE DecodeStream
  <2>1. SubSeq(content', 1, 0) = << >>
    BY SubSeqEmpty
  <2>2. pc' = "code" /\ got' = 0 /\ since' = << >>
    BY <1>3 DEF DecodeStream, OpenStreams
  <2>3. QED
    BY <2>1, <2>2 DEF Fed, PassedOn
<1>4. CASE AllocPlaintext \/ AllocCode \/ Write
  <2>1. UNCHANGED << since, content, got >>
    BY <1>4 DEF AllocPlaintext, AllocCode, Write, OutsideMemory, istream
  <2>2. pc \notin {"decode", "idle"} /\ pc' # "decode"
    BY <1>4 DEF AllocPlaintext, AllocCode, Write, Again, FailureOf, Proceed, Leave
  <2>3. QED
    BY <2>1, <2>2 DEF Fed, PassedOn
<1>5. CASE Read
  <2>1. since = SubSeq(content, 1, got) /\ got \in Nat
    BY <1>5, StreamTypes DEF Read, Fed, PassedOn
  <2>2. UNCHANGED << since, content >> /\ got' = got + gcount' /\ gcount' \in Nat
    BY <1>5, ReadIs, StreamTypes DEF Read
  <2>3. pc' \in {"decode", "idle"}
    BY <1>5 DEF Read, Proceed, FailureOf, Leave
  <2>4. got' - gcount' = got
    <3>1. \A x, y \in Nat : (y + x) - x = y
      OBVIOUS
    <3>2. QED
      BY <2>1, <2>2, <3>1
  <2>5. QED
    BY <2>1, <2>2, <2>3, <2>4 DEF Fed, PassedOn
<1>6. CASE Decode
  <2> DEFINE a == got - gcount
  <2>1. /\ since = SubSeq(content, 1, a) /\ since' = since \o SubSeq(content, a + 1, got)
        /\ UNCHANGED << content, got >> /\ pc' = "write"
    BY <1>6 DEF Decode, DecodePiece, Proceed, Fed, PassedOn, istream
  <2>2. content \in Seq(Char) /\ a \in 0..Len(content) /\ got \in a..Len(content)
    BY <1>6, StreamTypes, PieceRead DEF Decode
  <2> HIDE DEF a
  <2>3. SubSeq(content, 1, a) \o SubSeq(content, a + 1, got) = SubSeq(content, 1, got)
    BY <2>2, PiecesJoin
  <2>4. QED
    BY <2>1, <2>3 DEF Fed, PassedOn
<1>7. QED
  BY <1>1, <1>2, <1>3, <1>4, <1>5, <1>6 DEF Next, Inside

(* Every step keeps what was written, and is to be, equal to what was
   decoded.                                                                *)
LEMMA OutStep == ASSUME TypeOK, Phase, OutIsDue, [Next]_vars PROVE OutIsDue'
<1>1. CASE UNCHANGED vars
  BY <1>1 DEF OutIsDue, Extends, vars, streamVars, ostream
<1>2. CASE Build \/ DecodeBlock \/ Reset
  BY <1>2 DEF Build, DecodeBlock, Reset, Leave, OutIsDue
<1>3. CASE DecodeStream
  BY <1>3, NothingDecoded DEF DecodeStream, OpenStreams, OutIsDue
<1>4. CASE AllocPlaintext \/ AllocCode \/ Read
  <2>1. UNCHANGED << since, out, outState, chunk >>
    BY <1>4 DEF AllocPlaintext, AllocCode, Read, OutsideMemory, ostream
  <2>2. pc \in {"code", "plaintext", "read"} /\ pc' \in {"plaintext", "read", "decode", "idle"}
    BY <1>4 DEF AllocPlaintext, AllocCode, Read, FailureOf, Proceed, Leave
  <2>3. QED
    BY <2>1, <2>2 DEF OutIsDue, Extends
<1>5. CASE Decode
  <2>1. /\ DecodePiece(SubSeq(content, got - gcount + 1, got))
        /\ pc = "decode" /\ pc' = "write" /\ UNCHANGED << out, outState >>
    BY <1>5 DEF Decode, Proceed, ostream
  <2>2. /\ Extends(Byte, Decoded(since'), Decoded(since))
        /\ Decoded(since') = Decoded(since) \o chunk'
        /\ out \in Seq(Byte) /\ outState \in {"good", "bad"}
    BY <2>1, PieceRead, DecodePieceIs, StreamTypes DEF TypeOK, StreamTypeOK
  <2>3. CASE outState = "good"
    BY <2>1, <2>2, <2>3 DEF OutIsDue
  <2>4. CASE outState = "bad"
    <3>1. Extends(Byte, Decoded(since), out)
      BY <2>1, <2>4 DEF OutIsDue
    <3>2. Extends(Byte, Decoded(since'), out)
      BY <2>2, <3>1, ExtendsThrough
    <3>3. Extends(Byte, Decoded(since'), out')
      BY <2>1, <3>2
    <3>4. QED
      BY <2>1, <2>4, <3>3 DEF OutIsDue, Extends
  <2>5. QED
    BY <2>2, <2>3, <2>4
<1>6. CASE Write
  <2>1. /\ WriteOk \/ WriteFails
        /\ pc = "write" /\ pc' \in {"read", "reset", "idle"} /\ since' = since
    BY <1>6 DEF Write, FailureOf, Proceed, Leave
  <2>2. outState \in {"good", "bad"} /\ outState' \in {"good", "bad"}
    BY <2>1, WriteIs DEF TypeOK, StreamTypeOK
  <2>3. CASE outState = "good"
    <3>1. Decoded(since) = out \o chunk
      BY <2>1, <2>3 DEF OutIsDue
    <3>2. outState' = "good" => Decoded(since') = out'
      BY <2>1, <3>1, WriteIs
    <3>3. outState' = "bad" => Extends(Byte, Decoded(since'), out')
      BY <2>1, <2>3, <3>1, WriteIs
    <3>4. QED
      BY <2>1, <3>2, <3>3 DEF OutIsDue, Extends
  <2>4. CASE outState = "bad"
    <3>1. Extends(Byte, Decoded(since), out) /\ outState' = "bad" /\ out' = out
      BY <2>1, <2>4, WriteIs DEF OutIsDue
    <3>2. QED
      BY <2>1, <3>1 DEF OutIsDue, Extends
  <2>5. QED
    BY <2>2, <2>3, <2>4
<1>7. QED
  BY <1>1, <1>2, <1>3, <1>4, <1>5, <1>6 DEF Next, Inside

(* At the return the output is what the content decodes to, or a part of
   it and the state bad.                                                   *)
LEMMA ResetIsBytes ==
    ASSUME TypeOK, Phase, Fed, OutIsDue, Reset
    PROVE  StreamIsBytes'
<1> DEFINE bytes == Decoded(SubSeq(content, 1, got))
<1>1. /\ pc = "reset" /\ outcome' = "returned"
      /\ UNCHANGED << content, got, inState, out, outState >>
  BY DEF Reset, Leave, istream, ostream
<1>2. Decoded(since) = bytes
  BY <1>1 DEF Fed, PassedOn
<1>3. out \in Seq(Byte) /\ outState \in {"good", "bad"} /\ inState \in {"good", "eof", "bad"}
  BY StreamTypes DEF TypeOK, StreamTypeOK
<1>4. inState # "bad" => got = Len(content)
  BY <1>1, <1>3 DEF Phase
<1> HIDE DEF bytes
<1>5. CASE outState = "good"
  <2>1. bytes = out
    BY <1>1, <1>2, <1>5 DEF OutIsDue
  <2>2. QED
    BY <1>1, <1>4, <1>5, <2>1 DEF StreamIsBytes, bytes
<1>6. CASE outState = "bad"
  <2>1. Extends(Byte, bytes, out)
    BY <1>1, <1>2, <1>6 DEF OutIsDue
  <2>2. out = SubSeq(bytes, 1, Len(out))
    BY <1>3, <2>1, ExtendsPrefix
  <2>3. QED
    BY <1>1, <1>4, <1>6, <2>2 DEF StreamIsBytes, bytes
<1>7. QED
  BY <1>3, <1>5, <1>6

(* Every step keeps the output right at every return.                      *)
LEMMA BytesStep ==
    ASSUME TypeOK, Phase, Fed, OutIsDue, StreamIsBytes, [Next]_vars
    PROVE  StreamIsBytes'
<1>1. CASE UNCHANGED vars
  BY <1>1 DEF StreamIsBytes, vars, streamVars, istream, ostream
<1>2. CASE Build \/ DecodeStream
  <2>1. outcome' = "none"
    BY <1>2 DEF Build, DecodeStream, OpenStreams
  <2>2. QED
    BY <2>1 DEF StreamIsBytes
<1>3. CASE DecodeBlock
  BY <1>3 DEF StreamIsBytes, DecodeBlock, istream, ostream
<1>4. CASE AllocPlaintext \/ AllocCode \/ Read \/ Decode \/ Write
  <2>1. outcome = "none"
    BY <1>4 DEF Phase, AllocPlaintext, AllocCode, Read, Decode, Write
  <2>2. outcome' # "returned"
    BY <1>4, <2>1 DEF AllocPlaintext, AllocCode, Read, Decode, Write,
                      FailureOf, Proceed, Leave
  <2>3. QED
    BY <2>2 DEF StreamIsBytes
<1>5. CASE Reset
  BY <1>5, ResetIsBytes
<1>6. QED
  BY <1>1, <1>2, <1>3, <1>4, <1>5 DEF Next, Inside

(* Every variable of a call keeps its type.                                *)
THEOREM TypeCorrect == Spec => []TypeOK
<1>1. Init => TypeOK /\ Phase
  BY InitBytes
<1>2. TypeOK /\ Phase /\ [Next]_vars => (TypeOK /\ Phase)'
  BY TypesStep, PhaseStep
<1>3. QED
  BY <1>1, <1>2, PTL DEF Spec

(* decode(istream, ostream), decode.h:82-114, for every content and buffer *)
(* size: a call that returns has written the bytes of all it could read,   *)
(* as if it had been decoded in one piece, or a prefix of them when the    *)
(* ostream failed.                                                         *)
THEOREM ContentDecoded == Spec => []StreamIsBytes
<1> DEFINE I == TypeOK /\ Phase /\ Fed /\ OutIsDue /\ StreamIsBytes
<1>1. Init => I
  BY InitBytes
<1>2. I /\ [Next]_vars => I'
  BY TypesStep, PhaseStep, FedStep, OutStep, BytesStep
<1>3. QED
  BY <1>1, <1>2, PTL DEF Spec

-----------------------------------------------------------------------------
(* The room in the output buffer.                                          *)

(* The size asked of base64_decode_maxlength does not wrap around: the     *)
(* buffer size is an int, so this holds where size_t is as wide as int.    *)
SizesFit ==
    \A size \in BufferSizes : (Clamp(size) \div 4) * 3 + 3 <= SizeMax

(* Once taken the output buffer is as large as was asked for.              *)
Room ==
    /\ buffersize \in {Clamp(size) : size \in BufferSizes}
    /\ pc \in {"read", "decode", "write"} => live["plaintext"] = PlaintextSize

(* Every step keeps the sizes of the buffers as allocated.                 *)
LEMMA RoomStep == ASSUME TypeOK, Room, [Next]_vars PROVE Room'
<1>1. CASE UNCHANGED vars
  BY <1>1 DEF Room, PlaintextSize, vars, streamVars, object, memory
<1>2. CASE Build
  BY <1>2 DEF Build, BuildObject, Room
<1>3. CASE DecodeBlock \/ DecodeStream \/ Reset \/ AllocCode
  BY <1>3 DEF DecodeBlock, DecodeStream, Reset, AllocCode, Proceed, Leave,
              OutsideMemory, Room, object
<1>4. CASE AllocPlaintext
  <2>1. buffersize' = buffersize
    BY <1>4 DEF AllocPlaintext, OutsideMemory, object
  <2>2. PlaintextSize' = PlaintextSize
    BY <2>1 DEF PlaintextSize
  <2>3. \/ pc' = "idle"
        \/ pc' = "read" /\ live' = [live EXCEPT !["plaintext"] = PlaintextSize]
    BY <1>4 DEF AllocPlaintext, Allocated, Proceed, Leave
  <2>4. live \in [{"plaintext", "code"} -> Nat]
    BY DEF TypeOK, StreamTypeOK
  <2>5. QED
    BY <2>1, <2>2, <2>3, <2>4 DEF Room
<1>5. CASE Read \/ Decode \/ Write
  <2>1. UNCHANGED << buffersize, live >>
    BY <1>5 DEF Read, Decode, Write, object, memory
  <2>2. PlaintextSize' = PlaintextSize
    BY <2>1 DEF PlaintextSize
  <2>3. pc \in {"read", "decode", "write"}
    BY <1>5 DEF Read, Decode, Write
  <2>4. QED
    BY <2>1, <2>2, <2>3 DEF Room
<1>6. QED
  BY <1>1, <1>2, <1>3, <1>4, <1>5 DEF Next, Inside

(* A decoded chunk fits the plaintext buffer.                              *)
LEMMA FitsStep ==
    ASSUME SizesFit, TypeOK, Phase, Room, PlaintextFits, [Next]_vars
    PROVE  PlaintextFits'
<1>1. CASE UNCHANGED vars
  BY <1>1 DEF PlaintextFits, vars, streamVars, memory
<1>2. CASE \/ Build \/ DecodeBlock \/ DecodeStream
           \/ AllocPlaintext \/ AllocCode \/ Read \/ Write \/ Reset
  <2>1. pc' # "write"
    BY <1>2 DEF Build, DecodeBlock, DecodeStream, AllocPlaintext,
                AllocCode, Read, Write, Reset, Again, FailureOf, Proceed, Leave
  <2>2. QED
    BY <2>1 DEF PlaintextFits
<1>3. CASE Decode
  <2> DEFINE d == SubSeq(content, got - gcount + 1, got)
             begun == IF Len(Values(since \o d, Len(since \o d))) % 4 = 0 THEN 0 ELSE 1
  <2>1. d \in Seq(Char) /\ Len(d) <= buffersize /\ buffersize \in Nat /\ since \in Seq(Char)
    BY <1>3, PieceRead, StreamTypes DEF Decode
  <2>2. DecodePiece(d) /\ pc = "decode" /\ live' = live
    BY <1>3 DEF Decode, memory
  <2> HIDE DEF d
  <2>3. Len(Decoded(since \o d)) - Len(Decoded(since)) + begun <= (buffersize \div 4) * 3 + 3
    BY <2>1, DecodedGrows
  <2>4. since' = since \o d /\ Decoded(since') = Decoded(since) \o chunk'
        /\ chunk' \in Seq(Byte) /\ Decoded(since) \in Seq(Byte)
    BY <2>1, <2>2, DecodePieceIs
  <2>5. Len(Decoded(since \o d)) = Len(Decoded(since)) + Len(chunk')
        /\ Len(Decoded(since)) \in Nat /\ Len(chunk') \in Nat
    BY <2>4, ConcatProperties
  <2> HIDE DEF begun
  <2>6. begun \in Nat
    BY DEF begun
  <2>7. Len(chunk') + begun <= (buffersize \div 4) * 3 + 3
    BY <2>3, <2>5, <2>6, <2>1
  <2>8. live["plaintext"] = (buffersize \div 4) * 3 + 3
    <3>1. PICK size \in BufferSizes : buffersize = Clamp(size)
      BY DEF Room
    <3>2. (buffersize \div 4) * 3 + 3 <= SizeMax
      BY <3>1 DEF SizesFit
    <3>3. (buffersize \div 4) * 3 + 3 \in Nat /\ SizeMax \in Nat
      BY <2>1, SizeMaxAssumption
    <3>4. DecodeMaxLength(buffersize) = (buffersize \div 4) * 3 + 3
      BY <3>2, <3>3 DEF DecodeMaxLength, SizeT
    <3>5. QED
      BY <2>2, <3>4 DEF Room, PlaintextSize
  <2>9. QED
    BY <2>2, <2>4, <2>7, <2>8 DEF PlaintextFits, begun
<1>4. QED
  BY <1>1, <1>2, <1>3 DEF Next, Inside

(* What base64_decode_block stores fits the buffer that decode.h:92-93     *)
(* sizes by base64_decode_maxlength, the byte kept behind the delivered    *)
(* ones included, for every piece and whatever the pieces before it left   *)
(* incomplete, as long as that size is a size_t.                           *)
THEOREM PlaintextNeverOverruns ==
    ASSUME SizesFit
    PROVE  Spec => []PlaintextFits
<1> DEFINE I == TypeOK /\ Phase /\ Room /\ PlaintextFits
<1>1. Init => I
  <2>1. Init => Room /\ PlaintextFits
    BY DEF Init, InitStreams, Room, PlaintextFits
  <2>2. QED
    BY <2>1, InitBytes
<1>2. I /\ [Next]_vars => I'
  BY TypesStep, PhaseStep, RoomStep, FitsStep
<1>3. QED
  BY <1>1, <1>2, PTL DEF Spec

-----------------------------------------------------------------------------
(* How long a call takes.  CallEnds says that it ends, by the fairness of  *)
(* its steps.  A read that brings something is paid for by what is left of *)
(* the content, and the loop goes round again only after such a read.      *)

(* What is left of the turn of the loop and of what is behind it.          *)
TurnLeft ==
    CASE pc = "code"      -> 6
      [] pc = "plaintext" -> 5
      [] pc = "read"      -> 4
      [] pc = "decode"    -> IF gcount > 0 THEN 6 ELSE 3
      [] pc = "write"     -> IF gcount > 0 THEN 5 ELSE 2
      [] pc = "reset"     -> 1
      [] OTHER            -> 0

StepsLeft == 3 * (Len(content) - got) + TurnLeft

(* A call that finds n characters in the istream takes 3 * n + 6 steps at  *)
(* the most, whatever the buffer size and whichever of them fail.          *)
CallsBounded ==
    [][/\ DecodeStream => StepsLeft' = 3 * Len(content') + 6
       /\ Inside => StepsLeft' \in Nat /\ StepsLeft' < StepsLeft]_vars

(* What CallsBounded says of one step.                                     *)
LEMMA StepsCount ==
    ASSUME TypeOK, TypeOK', Next
    PROVE  /\ DecodeStream => StepsLeft' = 3 * Len(content') + 6
           /\ Inside => StepsLeft' \in Nat /\ StepsLeft' < StepsLeft
<1>1. /\ Len(content) \in Nat /\ Len(content') \in Nat
      /\ got \in 0..Len(content) /\ got' \in 0..Len(content')
      /\ gcount \in Nat /\ gcount' \in Nat
  <2>1. content \in Seq(Char) /\ content' \in Seq(Char)
    BY SizeMaxAssumption, StreamDecodeAssumption, EmptySeq DEF TypeOK, StreamTypeOK
  <2>2. /\ got \in 0..Len(content) /\ got' \in 0..Len(content')
        /\ gcount \in 0..buffersize /\ gcount' \in 0..buffersize'
        /\ buffersize \in Nat /\ buffersize' \in Nat
    BY DEF TypeOK, StreamTypeOK
  <2>3. Len(content) \in Nat /\ Len(content') \in Nat
    BY <2>1, LenProperties
  <2>4. QED
    BY <2>2, <2>3
<1>2. StepsLeft' \in Nat
  <2>1. TurnLeft' \in 0..6
    BY <1>1 DEF TurnLeft
  <2>2. Len(content') - got' \in Nat
    BY <1>1
  <2>3. QED
    BY <2>1, <2>2 DEF StepsLeft
<1>3. DecodeStream => StepsLeft' = 3 * Len(content') + 6
  BY <1>1 DEF DecodeStream, OpenStreams, StepsLeft, TurnLeft
<1>4. ASSUME Inside PROVE StepsLeft' < StepsLeft
  <2>1. CASE AllocCode
    <3>1. pc = "code" /\ pc' \in {"plaintext", "idle"}
          /\ content' = content /\ got' = got
      BY <2>1 DEF AllocCode, Proceed, Leave, OutsideMemory, istream
    <3>2. QED
      BY <1>1, <3>1 DEF StepsLeft, TurnLeft
  <2>2. CASE AllocPlaintext
    <3>1. pc = "plaintext" /\ pc' \in {"read", "idle"} /\ content' = content /\ got' = got
      BY <2>2 DEF AllocPlaintext, Proceed, Leave, OutsideMemory, istream
    <3>2. QED
      BY <1>1, <3>1 DEF StepsLeft, TurnLeft
  <2>3. CASE Read
    <3>1. pc = "read" /\ pc' \in {"decode", "idle"}
      BY <2>3 DEF Read, FailureOf, Proceed, Leave
    <3>2. content' = content /\ got' = got + gcount'
      BY <2>3, ReadIs DEF Read
    <3>3. TurnLeft = 4 /\ (TurnLeft' = 0 \/ TurnLeft' = IF gcount' > 0 THEN 6 ELSE 3)
      BY <3>1 DEF TurnLeft
    <3>4. CASE gcount' = 0
      <4>1. TurnLeft' = 0 \/ TurnLeft' = 3
        BY <3>3, <3>4
      <4>2. QED
        BY <1>1, <3>2, <3>3, <3>4, <4>1 DEF StepsLeft
    <3>5. CASE gcount' > 0
      <4>1. TurnLeft' = 0 \/ TurnLeft' = 6
        BY <3>3, <3>5
      <4>2. QED
        BY <1>1, <3>2, <3>3, <3>5, <4>1 DEF StepsLeft
    <3>6. QED
      BY <1>1, <3>4, <3>5
  <2>4. CASE Decode
    <3>1. pc = "decode" /\ pc' = "write" /\ content' = content /\ got' = got
          /\ gcount' = gcount
      BY <2>4 DEF Decode, Proceed, istream
    <3>2. QED
      BY <1>1, <3>1 DEF StepsLeft, TurnLeft
  <2>5. CASE Write
    <3>1. /\ pc = "write" /\ content' = content /\ got' = got
          /\ pc' \in {"read", "reset", "idle"}
          /\ pc' = "read" => gcount > 0
      BY <2>5 DEF Write, FailureOf, Proceed, Leave, Again, istream
    <3>2. QED
      BY <1>1, <3>1 DEF StepsLeft, TurnLeft
  <2>6. CASE Reset
    <3>1. pc = "reset" /\ pc' = "idle" /\ content' = content /\ got' = got
      BY <2>6 DEF Reset, Leave, istream
    <3>2. QED
      BY <1>1, <3>1 DEF StepsLeft, TurnLeft
  <2>7. QED
    BY <1>4, <2>1, <2>2, <2>3, <2>4, <2>5, <2>6 DEF Inside
<1>5. QED
  BY <1>2, <1>3, <1>4

(* Of any call, for every content, buffer size and sequence of failures:   *)
(* the loop of decode.h:101-108 never goes round without having read.      *)
THEOREM CallsEnd == Spec => CallsBounded
<1>1. Init => TypeOK /\ Phase
  BY InitBytes
<1>2. TypeOK /\ Phase /\ [Next]_vars => (TypeOK /\ Phase)'
  BY TypesStep, PhaseStep
<1>3. TypeOK /\ TypeOK' /\ [Next]_vars =>
        [/\ DecodeStream => StepsLeft' = 3 * Len(content') + 6
         /\ Inside => StepsLeft' \in Nat /\ StepsLeft' < StepsLeft]_vars
  BY StepsCount
<1>4. QED
  BY <1>1, <1>2, <1>3, PTL DEF Spec, CallsBounded

=============================================================================
