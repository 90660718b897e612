---------------------------- MODULE StreamDecode ----------------------------
(***************************************************************************)
(* base64::decoder of decode.h, followed like base64::encoder: one step    *)
(* for every operation of decode(istream, ostream) that can fail, the      *)
(* block API at the granularity of whole calls.  Since it was initialised  *)
(* the decoder has been given the characters `since', and a call of        *)
(* base64_decode_block delivers the PieceBytes of one more piece           *)
(* (CdecodeProofs!CallsDeliverPieces).                                     *)
(***************************************************************************)
EXTENDS Streams, B64Units, B64Lengths

CONSTANT MaxSince   \* bound: characters left over when a call is made

ASSUME StreamDecodeAssumption ==
    /\ Contents \subseteq Seq(Char)
    /\ MaxSince \in Nat

VARIABLE since      \* the characters given since the state was initialised

vars == << streamVars, since >>

TypeOK ==
    /\ StreamTypeOK(Byte)
    /\ pc \in {"idle", "code", "plaintext", "read", "decode", "write", "reset"}
    /\ since \in Seq(Char)

-----------------------------------------------------------------------------
(* decode(code_in, length_in, ...): base64_decode_block.                   *)
DecodePiece(piece) ==
    /\ since' = since \o piece
    /\ chunk' = PieceBytes(since, piece)

(* decoder_builder().build().                                              *)
Build ==
    /\ pc = "idle"
    /\ BuildObject
    /\ since' = << >>
    /\ pc' = "idle" /\ outcome' = "none" /\ live' = NoBlocks
    /\ content' = << >> /\ got' = 0 /\ inState' = "good" /\ gcount' = 0
    /\ out' = << >> /\ outState' = "good" /\ chunk' = << >>
    /\ UNCHANGED throws

(* The caller uses the block interface of the same object.                 *)
DecodeBlock ==
    /\ pc = "idle"
    /\ \E piece \in Contents :
          /\ piece # << >> /\ Len(since) + Len(piece) <= MaxSince
          /\ DecodePiece(piece)
    /\ UNCHANGED << pc, outcome, object, memory, throws, istream, ostream >>

-----------------------------------------------------------------------------
(* decode(istream_in, ostream_in).                                         *)

\* Mutant of DecodeStream: the state is only initialised when a call ends.
DecodeStreamAsIs ==
    /\ pc = "idle"
    /\ Len(since) <= MaxSince
    /\ OpenStreams
    /\ pc' = "code"
    /\ UNCHANGED << object, since >>

(* It begins by initialising the state.                                    *)
DecodeStream ==
    /\ pc = "idle"
    /\ OpenStreams
    /\ since' = << >>
    /\ pc' = "code"
    /\ UNCHANGED object

OutsideMemory == << object, throws, istream, chunk, ostream, since >>

AllocCode ==
    /\ pc = "code"
    /\ \/ Allocated("code", buffersize) /\ Proceed("plaintext")
       \/ AllocatedNull(buffersize) /\ Leave("bad_alloc") /\ UNCHANGED live
       \/ AllocationThrows(buffersize) /\ Leave("thrown") /\ UNCHANGED live
    /\ UNCHANGED OutsideMemory

\* Mutant of PlaintextSize: three bytes for four characters, rounded down.
PlaintextSizeShort == (buffersize * 3) \div 4

PlaintextSize == DecodeMaxLength(buffersize)

\* Mutant of AllocPlaintext: the first buffer is forgotten.
AllocPlaintextLeaky ==
    /\ pc = "plaintext"
    /\ \/ Allocated("plaintext", PlaintextSize) /\ Proceed("read")
       \/ AllocatedNull(PlaintextSize) /\ Leave("bad_alloc") /\ UNCHANGED live
       \/ AllocationThrows(PlaintextSize) /\ Leave("thrown") /\ UNCHANGED live
    /\ UNCHANGED OutsideMemory

(* A NULL gives the first buffer back, an exception does not.              *)
AllocPlaintext ==
    /\ pc = "plaintext"
    /\ \/ Allocated("plaintext", PlaintextSize) /\ Proceed("read")
       \/ AllocatedNull(PlaintextSize) /\ Leave("bad_alloc") /\ live' = NoBlocks
       \/ AllocationThrows(PlaintextSize) /\ Leave("thrown") /\ UNCHANGED live
    /\ UNCHANGED OutsideMemory

FailureOf(next) == IF throws THEN Leave("thrown") ELSE Proceed(next)

Read ==
    /\ pc = "read"
    /\ \/ ReadOk /\ Proceed("decode")
       \/ ReadFails /\ FailureOf("decode")
    /\ UNCHANGED << object, memory, throws, chunk, ostream, since >>

Decode ==
    /\ pc = "decode"
    /\ DecodePiece(SubSeq(content, got - gcount + 1, got))
    /\ Proceed("write")
    /\ UNCHANGED << object, memory, throws, istream, ostream >>

\* Mutant of Again: only the end of the content ends the loop.
AgainUntilEof == inState # "eof"

(* while (istream_in.good() && codelength > 0)                             *)
Again == inState = "good" /\ gcount > 0

Write ==
    /\ pc = "write"
    /\ LET next == IF Again THEN "read" ELSE "reset"
       IN  \/ WriteOk /\ Proceed(next)
           \/ WriteFails /\ FailureOf(next)
    /\ UNCHANGED << object, memory, throws, istream, chunk, since >>

(* The state is initialised and both buffers freed.                        *)
Reset ==
    /\ pc = "reset"
    /\ since' = << >>
    /\ live' = NoBlocks
    /\ Leave("returned")
    /\ UNCHANGED << object, throws, istream, chunk, ostream >>

-----------------------------------------------------------------------------
Init == InitStreams /\ since = << >>

(* What decode(istream_in, ostream_in) does once called.                   *)
Inside == AllocCode \/ AllocPlaintext \/ Read \/ Decode \/ Write \/ Reset

Next == Build \/ DecodeBlock \/ DecodeStream \/ Inside

Spec == Init /\ [][Next]_vars

(* A call keeps executing: allocator and streams return or throw.          *)
FairSpec == Spec /\ WF_vars(Inside)

-----------------------------------------------------------------------------
(* Properties.                                                             *)

(* A call that returns has written the bytes of everything it could read,  *)
(* or a prefix of them when the ostream failed.  Unlike the encoder's this *)
(* holds of every call, whatever was left of a stream that an exception    *)
(* broke off or of the block interface: the state is initialised at both   *)
(* ends.                                                                   *)
StreamIsBytes ==
    outcome = "returned" =>
        LET bytes == Decoded(SubSeq(content, 1, got))
        IN  /\ inState # "bad" => got = Len(content)
            /\ IF outState = "good" THEN out = bytes
               ELSE out = SubSeq(bytes, 1, Len(out))

(* The bytes of one piece fit the output buffer, and so does the byte the  *)
(* piece has begun, which base64_decode_block keeps behind them.           *)
PlaintextFits ==
    LET begun == IF Len(Values(since, Len(since))) % 4 = 0 THEN 0 ELSE 1
    IN  pc = "write" => Len(chunk) + begun <= live["plaintext"]

(* Return and bad_alloc leave no scratch buffer behind.                    *)
ExitsRelease ==
    pc = "idle" /\ outcome \in {"returned", "bad_alloc"} => live = NoBlocks

(* Every call ends, also when an error and not the end of the content      *)
(* stops the reads, and when what is converted can no longer be written.   *)
CallEnds == pc # "idle" ~> pc = "idle"

(* Scratch is released within the call that took it (alloc.h:25).          *)
ScratchIsTransient == pc = "idle" => live = NoBlocks

=============================================================================
