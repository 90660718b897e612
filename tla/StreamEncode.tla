---------------------------- MODULE StreamEncode ----------------------------
(***************************************************************************)
(* base64::encoder of encode.h.                                            *)
(*                                                                         *)
(* A call of encode(istream, ostream) is followed from allocation to       *)
(* return or exception, one step for every operation that can fail.  The   *)
(* block API it drives is Cencode, seen here at the granularity of whole   *)
(* calls: since base64_init_encodestate the encoder has been fed the bytes *)
(* `since' and its line has reached column `stepcount'.  A call of         *)
(* base64_encode_block adds the characters of one more piece, and breaks   *)
(* the lines from that column on (CencodeProofs!CallsWriteTheirPiece).     *)
(***************************************************************************)
EXTENDS Streams, B64Units, B64Lengths

CONSTANTS
    Widths,     \* the arguments of chars_per_line
    MaxSince    \* bound: how many bytes may be left over from outside a
                \*   stream, or from broken ones, when a call is made

ASSUME StreamEncodeAssumption ==
    /\ Contents \subseteq Seq(Byte)
    /\ Widths \subseteq 0..SizeMax
    /\ MaxSince \in Nat

VARIABLES
    since,          \* the bytes fed since the state was initialised
    stepcount,      \* the state's column, 0 while nothing is wrapped
    chars_per_line, \*   and its line width
    width,          \* the line width the encoder was built with
    spent,          \* history: was base64_encode_blockend called since then
    leftover,       \* history: the bytes fed that no finished stream took
    before,         \* history: when the current or last call began, leftover,
    begun           \*   the column, and whether the state was spent

history == << leftover, before, begun >>
state   == << since, stepcount, spent, chars_per_line >>
vars    == << streamVars, state, width, history >>

TypeOK ==
    /\ StreamTypeOK(Char)
    /\ pc \in {"idle", "ended", "plaintext", "code", "read", "encode", "write",
               "encode_end", "write_end", "reset"}
    /\ since \in Seq(Byte)
    /\ chars_per_line \in Widths
    /\ stepcount \in 0..chars_per_line
    /\ width \in Widths
    /\ spent \in BOOLEAN
    /\ begun \in [column : 0..width, spent : BOOLEAN]
    /\ leftover \in Seq(Byte) /\ before \in Seq(Byte)

-----------------------------------------------------------------------------
(* The block API.                                                          *)

(* The CHECK_BREAK before each character starts a line where this one is   *)
(* full, and counts.                                                       *)
Broken(chars) == Wrapped(chars, chars_per_line, stepcount)

Count(chars) == stepcount' = Column(stepcount + Len(chars), chars_per_line)

(* encode(code_in, length_in, ...): base64_encode_block.                   *)
EncodePiece(piece) ==
    LET chars == PieceText(since, piece, 0)
    IN  /\ since' = since \o piece
        /\ chunk' = Broken(chars)
        /\ Count(chars)

(* encode_end: base64_encode_blockend.  The bits it carries stay in the    *)
(* state; the characters it writes are counted, the newline behind them is *)
(* not.                                                                    *)
LastLine(text, w) == IF w = 0 THEN text ELSE Append(text, NL)

EncodeEnd ==
    LET chars == EndText(since, 0)
    IN  /\ chunk' = LastLine(Broken(chars), chars_per_line)
        /\ Count(chars)
        /\ spent' = TRUE
        /\ UNCHANGED << since, chars_per_line >>

-----------------------------------------------------------------------------
(* encoder_builder().build().                                              *)
Build ==
    /\ pc \in {"idle", "ended"}
    /\ BuildObject
    /\ width' \in Widths
    /\ chars_per_line' = width'
    /\ since' = << >> /\ stepcount' = 0 /\ spent' = FALSE
    /\ leftover' = << >> /\ before' = << >>
    /\ begun' = [column |-> 0, spent |-> FALSE]
    /\ pc' = "idle" /\ outcome' = "none" /\ live' = NoBlocks
    /\ content' = << >> /\ got' = 0 /\ inState' = "good" /\ gcount' = 0
    /\ out' = << >> /\ outState' = "good" /\ chunk' = << >>
    /\ UNCHANGED throws

(* The caller uses the block interface of the same object.  After          *)
(* encode_end the state is spent: only a new object is used.               *)
EncodeBlock ==
    /\ pc = "idle"
    /\ \E piece \in Contents :
          /\ piece # << >> /\ Len(since) + Len(piece) <= MaxSince
          /\ EncodePiece(piece)
          /\ leftover' = leftover \o piece
    /\ UNCHANGED << pc, outcome, object, memory, throws, istream, ostream,
                    chars_per_line, spent, width, before, begun >>

EncodeBlockEnd ==
    /\ pc = "idle"
    /\ EncodeEnd
    /\ pc' = "ended"
    /\ UNCHANGED << outcome, object, memory, throws, istream, ostream,
                    width, history >>

-----------------------------------------------------------------------------
(* encode(istream_in, ostream_in).                                         *)

EncodeStream ==
    /\ pc = "idle"
    /\ Len(since) <= MaxSince
    /\ OpenStreams
    /\ pc' = "plaintext"
    /\ before' = leftover
    /\ begun' = [column |-> stepcount, spent |-> spent]
    /\ UNCHANGED << object, state, width, leftover >>

OutsideMemory == << object, throws, istream, chunk, ostream, state, width, history >>

AllocPlaintext ==
    /\ pc = "plaintext"
    /\ \/ Allocated("plaintext", buffersize) /\ Proceed("code")
       \/ AllocatedNull(buffersize) /\ Leave("bad_alloc") /\ UNCHANGED live
       \/ AllocationThrows(buffersize) /\ Leave("thrown") /\ UNCHANGED live
    /\ UNCHANGED OutsideMemory

Cap == EncodeLength(buffersize, chars_per_line)

\* Mutant of CodeSize: the size before base64_encode_length was asked.
CodeSizeTwice == SizeT(2 * buffersize)

(* What is asked for the output, in size_t arithmetic.                     *)
CodeSize == SizeT(Cap + 16)

\* Mutant of AllocCode: the first buffer is forgotten when the second fails.
AllocCodeLeaky ==
    /\ pc = "code"
    /\ \/ Cap # 0 /\ Allocated("code", CodeSize) /\ Proceed("read")
       \/ /\ Cap = 0 \/ AllocatedNull(CodeSize)
          /\ UNCHANGED live
          /\ Leave("bad_alloc")
       \/ /\ Cap # 0 /\ AllocationThrows(CodeSize)
          /\ UNCHANGED live
          /\ Leave("thrown")
    /\ UNCHANGED OutsideMemory

(* base64_encode_length's 0 and a NULL give the first buffer back.  An     *)
(* allocator that throws leaves the function at once.                      *)
AllocCode ==
    /\ pc = "code"
    /\ \/ Cap # 0 /\ Allocated("code", CodeSize) /\ Proceed("read")
       \/ /\ Cap = 0 \/ AllocatedNull(CodeSize)
          /\ live' = NoBlocks
          /\ Leave("bad_alloc")
       \/ /\ Cap # 0 /\ AllocationThrows(CodeSize)
          /\ UNCHANGED live
          /\ Leave("thrown")
    /\ UNCHANGED OutsideMemory

(* An exception of a stream passes through: neither the buffers nor the    *)
(* state are looked after.                                                 *)
FailureOf(next) ==
    IF throws THEN /\ Leave("thrown")
                   /\ leftover' = before \o SubSeq(content, 1, got)
    ELSE Proceed(next) /\ UNCHANGED leftover

Read ==
    /\ pc = "read"
    /\ \/ ReadOk /\ Proceed("encode") /\ UNCHANGED leftover
       \/ ReadFails /\ FailureOf("encode")
    /\ UNCHANGED << object, memory, throws, chunk, ostream, state, width,
                    before, begun >>

Encode ==
    /\ pc = "encode"
    /\ EncodePiece(SubSeq(content, got - gcount + 1, got))
    /\ Proceed("write")
    /\ UNCHANGED << object, memory, throws, istream, ostream,
                    chars_per_line, spent, width, history >>

\* Mutant of Again: only the end of the content ends the loop.
AgainUntilEof == inState # "eof"

(* while (istream_in.good() && plainlength > 0)                            *)
Again == inState = "good" /\ gcount > 0

Write ==
    /\ pc = "write"
    /\ LET next == IF Again THEN "read" ELSE "encode_end"
       IN  \/ WriteOk /\ Proceed(next) /\ UNCHANGED leftover
           \/ WriteFails /\ FailureOf(next)
    /\ UNCHANGED << object, memory, throws, istream, chunk, state, width,
                    before, begun >>

End ==
    /\ pc = "encode_end"
    /\ EncodeEnd
    /\ Proceed("write_end")
    /\ UNCHANGED << object, memory, throws, istream, ostream, width, history >>

WriteEnd ==
    /\ pc = "write_end"
    /\ \/ WriteOk /\ Proceed("reset") /\ UNCHANGED leftover
       \/ WriteFails /\ FailureOf("reset")
    /\ UNCHANGED << object, memory, throws, istream, chunk, state, width,
                    before, begun >>

\* Mutant of Reset: the state is initialised and the line width with it.
ResetClobbers ==
    /\ pc = "reset"
    /\ since' = << >> /\ stepcount' = 0 /\ spent' = FALSE
    /\ chars_per_line' = 0
    /\ live' = NoBlocks
    /\ leftover' = << >>
    /\ Leave("returned")
    /\ UNCHANGED << object, throws, istream, chunk, ostream, width, before, begun >>

(* The state is initialised, the line width kept, both buffers freed.      *)
Reset ==
    /\ pc = "reset"
    /\ since' = << >> /\ stepcount' = 0 /\ spent' = FALSE
    /\ live' = NoBlocks
    /\ leftover' = << >>
    /\ Leave("returned")
    /\ UNCHANGED << object, throws, istream, chunk, ostream,
                    chars_per_line, width, before, begun >>

-----------------------------------------------------------------------------
Init ==
    /\ InitStreams
    /\ width \in Widths
    /\ chars_per_line = width
    /\ since = << >> /\ stepcount = 0 /\ spent = FALSE
    /\ leftover = << >> /\ before = << >>
    /\ begun = [column |-> 0, spent |-> FALSE]

(* What encode(istream_in, ostream_in) does once called.                   *)
Inside == \/ AllocPlaintext \/ AllocCode \/ Read \/ Encode \/ Write
          \/ End \/ WriteEnd \/ Reset

Next == Build \/ EncodeBlock \/ EncodeBlockEnd \/ EncodeStream \/ Inside

Spec == Init /\ [][Next]_vars

(* A call keeps executing: allocator and streams return or throw.          *)
FairSpec == Spec /\ WF_vars(Inside)

-----------------------------------------------------------------------------
(* Properties.                                                             *)

(* A call that returns has written the encoding of everything it could     *)
(* read, wrapped as the encoder was built to wrap, or a prefix of it when  *)
(* the ostream failed: however the buffer size cuts the content, and       *)
(* whichever streams the encoder finished before.  Bytes left from the     *)
(* block interface or from a stream that an exception broke off come first *)
(* and are not lost: the call writes what was not written of them.         *)
(*                                                                         *)
(* One thing a stream may take over from one before it: where an exception *)
(* broke that off in its last write, of what encode_end had made, the      *)
(* state is left spent.  The characters of this call are right then too,   *)
(* but its lines go on from the column that encode_end had reached.        *)
StreamIsText ==
    outcome = "returned" =>
        LET all  == before \o SubSeq(content, 1, got)
            rest(w) == Beyond(OpenText(before, Len(before), w),
                              ClosedText(all, Len(all), w))
            text == IF begun.spent
                    THEN LastLine(Wrapped(rest(0), width, begun.column), width)
                    ELSE rest(width)
        IN  /\ inState # "bad" => got = Len(content)
            /\ IF outState = "good" THEN out = text
               ELSE out = SubSeq(text, 1, Len(out))

(* What a call of the block API puts into the output buffer fits there,    *)
(* the carry of the piece before and the padding included.                 *)
CodeFits == pc \in {"write", "write_end"} => Len(chunk) <= live["code"]

(* The exits the function knows of, return and bad_alloc, leave no scratch *)
(* buffer behind.                                                          *)
ExitsRelease ==
    pc = "idle" /\ outcome \in {"returned", "bad_alloc"} => live = NoBlocks

(* Every call ends, also when an error and not the end of the content      *)
(* stops the reads, and when what is converted can no longer be written.   *)
CallEnds == pc \notin {"idle", "ended"} ~> pc = "idle"

(* A failed scratch allocation does not leak the buffer already allocated  *)
(* (test/alloc_tests.cpp:167), whichever way the allocator fails.          *)
FailureDoesNotLeak ==
    pc = "idle" => live = NoBlocks

=============================================================================
