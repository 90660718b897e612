# A verification of libb64

TLA+ models of the libb64 base64 library, model-checked with TLC on small
instances, and theorems about them proved with TLAPS for every value of the
constants. Paths such as `cencode.c:84` are relative to the repository's `src`
and `include/b64` directories.

## 1. The system

| Part | State it keeps | Operations | Modelled in |
|---|---|---|---|
| Streaming encoder (`cencode.c`, `cencode.h`) | `base64_encodestate`: `step`, `result`, `stepcount`, `chars_per_line` | init, block, scalar block, blockend, value, length | `Cencode`, `EncodeText`, `B64Lengths`, `Alphabet` |
| Encoder bulk kernels (`cencode_simd_*.c`) | none but the dispatch pointer | `base64_encode_bulk_simd` | `Cencode`, `Lanes`, `KernelCall` |
| Streaming decoder (`cdecode.c`, `cdecode.h`) | `base64_decodestate`: `step`, `plainchar` | init, block, scalar block, value, maxlength | `Cdecode`, `DecodeText`, `B64Lengths`, `Alphabet` |
| Decoder bulk kernels (`cdecode_simd_*.c`) | none but the dispatch pointer | `base64_decode_bulk_simd` | `Cdecode`, `Lanes`, `KernelCall` |
| Kernel dispatch, CPU detection (`cencode_simd_sse.c`, `cdecode_simd_sse.c`, `cpu_features.c`, `b64_internal.h`) | one function pointer per process and direction | resolve, load, store | `KernelCall` |
| Tables (`cencode12_table.h`, `cdecode_swar_table.h`, `tools/gen_*.c`) | constant data | lookup | `Alphabet`, `Lanes` |
| One-shot API (`balloc.c`, `alloc.h`) | the caller's pointer and length | `base64_encode_alloc`, `base64_decode_alloc`, `base64_free` | `Balloc` |
| C++ stream encoder (`encode.h`) | encode state, buffer size, allocator; per call two scratch blocks | build, block calls, `encode(istream, ostream)` | `StreamEncode`, `Streams` |
| C++ stream decoder (`decode.h`) | decode state, buffer size, allocator; per call two scratch blocks | build, block calls, `decode(istream, ostream)` | `StreamDecode`, `Streams` |
| Command line tool (`base64/base64.cc`) | none of its own; the files, two streams, the exit status | check the arguments, open, one stream call, flush, check | `Base64Tool` |
| `tools/gendata.c`, `examples/` | none | demonstrations of the API | not modelled |

How they interact: everything converts through `base64_encode_block` and
`base64_decode_block`, which are coroutines that may be left after any byte and
re-entered in the next call, and which hand as much as they can to a bulk
kernel. The one-shot API and the C++ wrappers size their buffers with
`base64_encode_length` and `base64_decode_maxlength`, and take them from an
allocator the caller supplies. Nothing is shared between two coroutine states;
the only state several threads share is the dispatch pointer.

What is hard here:

- **Protocol.** Text and bytes arrive in pieces cut anywhere. A piece is divided
  among a kernel, a bulk loop and a per-character path, and they must hand over
  a carried byte, a carried column and a resume point without a trace in the
  output. The line width may change between two pieces. The state outlives a
  call, also one that an exception broke off, and the next use goes on from it.
- **Stores ahead.** The decoder puts a byte together in the output buffer
  itself, so it stores one place beyond what it has completed and, at the end
  of a piece, reads that place back.
- **Numbers at the edge.** Buffer sizes are computed in `size_t`, where sums wrap.
- **Partial failure.** Two allocations and any number of reads and writes, of
  which each can fail, by a value or by an exception. In the tool also two
  opens, and a write that fails only when the stream's own buffer is flushed.
- **Interleaving and ordering.** First calls of several threads race to resolve
  the kernel; streamed stores leave the processor late and in any order.

Every one of these is listed under `hazards` in `PROJECT.json`, at its line,
with the properties that watch it.

## 2. The modules

Data. A byte is a tuple of four 2-bit fields ("crumbs"), a 6-bit value a tuple
of three, because every mask and shift of the scalar code moves whole such
fields (`B64Units`). In the TLC instances every crumb of every input byte is a
value of its own: a text that comes out right for these inputs comes out right
for all messages of the length. A character of the alphabet is identified with
its 6-bit value; `Alphabet` and `Lanes`, where characters are numbers, are where
this identification is checked.

| Module | What it is |
|---|---|
| `B64Units` | bytes, 6-bit values, and the text RFC 4648 assigns to bytes, wrapped or not; the bytes a text stands for; and what one more piece adds to either (`PieceText`, `EndText`, `PieceBytes`) |
| `B64Lengths` | the two size helpers, in `size_t` arithmetic |
| `EncodeText` | abstract: the text written so far is the one the bytes fed so far determine |
| `DecodeText` | abstract: the bytes delivered so far are those the characters taken so far determine |
| `Cencode` | the encoder, one action per kernel iteration, bulk-loop iteration and byte of the coroutine (`StepA`..`StepC` are the code between two resume points) |
| `Cdecode` | the decoder, in the same way, with the stores into the caller's buffer: `buf` is as much of it as has been written, a place beyond is `UNINIT` |
| `Streams` | what both C++ wrappers share: clamped buffer size, allocator, the two streams, the ways to leave |
| `StreamEncode`, `StreamDecode` | one stream call, one step for every operation that can fail, on an object that is reused |
| `Balloc` | the one-shot API over all lengths of a `size_t` |
| `Alphabet` | `encoding[]`, `decoding[]` and the tables derived from them, over numbers; `&` and `\|` of 32-bit words, defined bit by bit |
| `Lanes` | one 32-bit lane in the SSE4.1, AVX2, NEON, table and scalar paths: its arithmetic, and the permutations and shuffles that bring it its bytes and take them away again |
| `KernelCall` | threads calling through the dispatch pointer, and the streamed stores |
| `Base64Tool` | the command line tool, from arguments to exit status, one step for every operation on a file that can fail; invoked again and again on one disk |
| `MC*` | values of the constants for TLC |
| `B64Facts` | lemmas: `\div` and `%`, induction, and what follows for the texts and bytes of `B64Units` |
| `CencodeProofs`, `CdecodeProofs`, `BallocProofs`, `KernelProofs`, `StreamEncodeProofs`, `StreamDecodeProofs`, `Base64ToolProofs` | theorems |

Composition. `Cencode` and `Cdecode` implement `EncodeText` and `DecodeText`
(`INSTANCE ... WITH`, checked as the property `ImplementsText`). `StreamEncode`
and `StreamDecode` then take a whole call of the block API as one step: a call
of `base64_encode_block` writes the `PieceText` of its piece, which is what the
bytes fed so far determine beyond what was determined before, on lines from the
column `stepcount` on; `base64_encode_blockend` the `EndText` in the same way,
and a newline; and `base64_decode_block` delivers the `PieceBytes`. That the
calls of `Cencode` and `Cdecode` do exactly this, and leave `stepcount` at the
column they have reached, however many steps of kernel, bulk loop and coroutine
they consist of, is proved (`CallsWriteTheirPiece`, `CallsDeliverTheirPiece`) for
every stream up to its `base64_encode_blockend`. A C++ encoder may go on behind
that: `encode()` resets the state only after it has written the end, so an
exception of that write leaves the carried bits and the column that
`CHECK_BREAK` had counted to. `Cencode` ends there; `StreamEncode` goes on, with
the calls of such a state read from the code as those of any other. That
`CHECK_BREAK` and the character behind it lengthen a text on lines from any
column at all is the lemma `EmitWraps`. The wrappers' own carry between pieces,
buffer sizes and resets are on top of it. `Base64Tool` in turn takes a whole stream call as one
step, with the effect `StreamIsText` and `StreamIsBytes` give it: the object is
new, its streams do not throw, and no one else writes the files, so what reaches
the output stream is the conversion of what was read, or a prefix where writing
failed. What the tool adds is the order of its checks, the opening that
truncates, the buffering of the output stream and the status.

Correspondence that is not one to one:

- A coroutine's locals are loaded from the state on entry and stored back at
  every return, and nobody sees the state in between; each is one variable.
  For the same reason the addition to `stepcount` behind a bulk loop is made by
  each iteration.
- A kernel is its two numbers: how much must be left, how much an iteration
  takes. What it computes is `Lanes`, for one lane of a vector at a time; the
  bytes of the vector that belong to other lanes hold a fixed filler, so a
  permutation or shuffle that fetches from the wrong place shows.
- `base64_decode_block_scalar` is called with the clean run and its blocker, and
  the model's `CallScalar` picks exactly that end (`\E l` has one witness).
- The tables of `cencode12_table.h` and `cdecode_swar_table.h` are given by what
  their generators compute. The 4096 and 4 * 256 entries of the checked-in
  headers were compared with those definitions and are equal.
- In `Balloc` a message is its length, and a text its length and the number of
  its alphabet characters: all the sizes depend on, but for one byte. The scalar
  decoder stores the byte it carries whenever it is entered (`cdecode.c:65`), and
  whether that is a place further than the decoded bytes depends on where the
  other characters stand; `Touched` is the set of what the stores may reach.
  Contents of a pointer variable are `junk`, `NULL`, a block, or `dangling`.
- `KernelCall` keeps the stores of the pointer as a list; a relaxed load may
  return any of them that is not older than one the thread has seen (`Visible`). What
  it has loaded or chosen it calls (`Enter`), and that may be the resolver
  again. A streamed
  store is in `pending` until it drains, in any order; only the fence waits for
  it. The SSE4.1 and AVX2 kernels differ there in nothing but the vector width.
- A file in `Base64Tool` holds bytes or text; `-e` is asked of the one and `-d`
  of the other. Two names may lead to one file, which the tool's comparison of
  the names does not see.

## 3. The runs

Runs that pass:

| Run | Question | Bounds and why they are enough |
|---|---|---|
| `encode_fixed_width` | Does any way of cutting a message into pieces, at one width, with any kernel, give the text of `EncodeText`; is it as long as `base64_encode_length` said; does every call return? | 60 bytes: past the largest kernel block (48) by four triples, so kernel, bulk loop and coroutine all run in one call; real kernel sizes; widths 0, 1, 3, 4 and 76, that is none, every character, inside a group, a group, and the usual one, which wraps once |
| `encode_width_changes` | May the width change between any two pieces, and does the text still decode to what was fed at every point? | 10 bytes with kernels of one triple and of a triple plus one byte read ahead; widths 0, 2, 3 so that a line is longer, equal and shorter than the new width |
| `decode_any_text` | For any placement of characters outside the alphabet: right bytes, nothing past `base64_decode_maxlength`, nothing read that was not stored; does every call return? | 7 characters in all 128 placements, with no kernel and one of a group; and 36 characters with the real blocks of 16 and 32, blocked nowhere and at the 1st, 16th, 17th and 33rd and at two places: before, at the end of, behind and inside a block |
| `stream_encode` | Does every stream call write the encoding of its own input, however the buffer size cuts it and whatever the object was used for before; does every piece fit; do the exits `encode()` knows release the scratch; does every call end? | content of 0, 1 and 5 bytes, buffer sizes -1 to 8, widths 0, 1, 2, 4, failures of any allocation, read and write, among them the write of the end, behind which the object is used again; `MaxSince` bounds the bytes left over from calls outside |
| `stream_decode` | The same for the decoder | texts with blanks in front, inside and behind, ending in every part of a group, buffer sizes 0 to 16 |
| `alloc_any_length` | Do both one-shot calls store only inside their blocks and refuse what would wrap; can a caller that reuses its variables free what a call left, once, whatever it returned? | every length of a 5-bit `size_t`; the theorems cover all widths |
| `lanes` | Do all paths compute the same characters, block at the same ones, and invert each other? | any byte in each place among all-zero, all-one and alternating neighbours; any character in each place among `A`, `/`, `U`; every lane of each vector. Fields of different places never mix, so one arbitrary place at a time is enough; the theorems cover all places at once |
| `kernel_call` | Does no call run a kernel the machine lacks, do all run the same one, is output complete on return, does every call return? | 2 threads, 2 calls each (so a call follows one's own and another's resolution), all 32 combinations of features, 2 blocks of output; `MaxResolved` counts resolving up to 2, since more than once is what must not be |
| `tool_on_files` | Is a conversion that ends with status 0 all on the disk; is a file left alone when the arguments or its absence refuse it; do `-e` and `-d` in sequence, however often, give the message back? | 3 files, one of them under two names; a message that ends inside a group, and a text with a newline and no padding; every open, read, write and flush may fail; any number of invocations |

`decode_any_text` scales the caller's threshold of 16 down to 4 for the kernel
of one group. For the kernels of 16 and 32 this changes nothing: `KernelReady`
has the caller's threshold and the kernel's own test as two conjuncts, as the
code has them in two functions, and the second is the stronger one there.

Deadlock is checked except in `lanes`, where a lane ends, and `kernel_call`,
where `MaxCalls` bounds the calls a thread makes.

Fairness. `Cencode` and `Cdecode` have weak fairness of `Inside`, the steps of a
call that was made: the code has no waiting in it, so a call that is made keeps
executing. Nothing is assumed of the caller. `KernelCall` has it of each
thread's steps within a call, and of the draining of each thread's streamed
stores, which the processor guarantees. `StreamEncode` and `StreamDecode` have
it of `Inside`, the steps of a stream call: the allocator and the streams
return or throw, and the code between them does not wait. It does not say how they
answer: `CallEnds` holds for every sequence of failures, because what is read
from a stream is finite and a stream that has failed ends the loop.
`Base64Tool` has no liveness property; it has no loop.

Runs that TLC refutes, each a disagreement between the code and what the
repository says of it (details under `findings`):

| Run | What it shows |
|---|---|
| `stream_encode_new_throws` | `encode.h:110`: with the default allocator, `new[]`, which throws, the failure of the second scratch allocation leaks the first. `test/alloc_tests.cpp:167` says it does not; the path that frees it is taken only for a NULL. `decode.h:91` is the same. |
| `stream_decode_stream_throws` | `decode.h:103`: a stream with badbit in its exception mask throws out of the call and both scratch blocks stay allocated, though `alloc.h:25` has scratch released within the same call. `encode.h:121`, `:125`, `:129` are the same. |
| `stream_encode_size_edge` | `encode.h:110`: `cap + 16` has no overflow test of its own. With a 32-bit `size_t`, a buffer of 2147483646 and a width of 2 the sum wraps and 12 bytes are asked for. The run has the same in 8 bits, where 12 bytes are asked for and a piece of 9 bytes comes to 17 characters. |

Each property of a passing run has a mutant in `PROJECT.json`: a definition
with a plausible bug in it under which TLC finds that property violated.

## 4. The proofs

A theorem is of the form `Spec => []P`, `Spec => [][A]_vars` or
`Spec => Abstract!Spec` and holds for all values of the constants that satisfy
the named `ASSUME`s: any input, any set of widths, any kernel whose blocks are
whole groups and no longer than it tests for, any size of `size_t` of at least
four bits, any buffer size, allocator and exception mask, any files and names,
any number of threads. No definition in these modules is a `RECURSIVE` operator,
so all of them are open to the provers. Each proof has one step per action of
`Next`; each invariant was first checked by TLC.

Every safety property a passing run checks is also a theorem.

### The facts underneath (`B64Facts`)

What a text stands for is defined by going through it (`Among` filters a
sequence, `Values` are the 6-bit values of a text, `Bytes` what they complete),
so proofs about it need induction. An induction rule over predicates is beyond
the provers; one over sets is not. `LeastOf`, that a set of numbers has a least
member, follows from the library's `NatLessThanWellFounded`; from it come
`Induction` (a set that has 0 and, with any number, the next, is `Nat`) and
`SeqInduction` (a set of sequences that has the empty one and, with any one, the
longer ones, is `Seq(X)`). The recursive function inside `Among` is likewise a
`CHOOSE` to the provers: `FilterExists` shows that one satisfies its equations,
`AmongIs` that any that does gives the same value, and `AmongAppend` is then its
defining equation in the form every other proof uses.

With these: how a text wrapped at `w` grows by a character (`Column`,
`Separators`, `LaidMore`); which characters are settled when more bytes follow
(`PayloadSettled`); that more input extends the text (`OpenExtends`,
`ClosedExtends`) by no more than so many characters (`TextGrows`), and more text
the bytes (`DecodedExtends`, `DecodedGrows`); that characters put on lines in
two parts are the same as in one, when the second part goes on from the column
of the first (`WrappedJoins`, and `WrappedPieces` for a piece of a stream), and
by how many newlines they grow (`WrappedGrows`); what
one value or a run of whole groups adds to the bytes (`BytesAppend`,
`BytesJoin`, `ValuesRun`); and `RoundTrip`: decoding the text of a message, on
lines of any width, gives the message.

### The theorems

| Theorem | Says | Inductive invariant, and why |
|---|---|---|
| `CencodeProofs!TypeCorrect` | `TypeOK` of the encoder | inductive as it stands: kernels and bulk loop consume no more than they tested for |
| `CencodeProofs!ColumnCorrect` | `StepcountIsColumn` | inductive on top of `TypeOK`: whatever writes either ends the line and counts from there, or lengthens it by as much as it adds to `stepcount`. Rests on `SizeTPlus` (modular addition), `CharLengthensLine` and `TextLengthensLine` |
| `CencodeProofs!RefinesEncodeText` (one width) | `ImplementsText` | `Carried`: resume point and carried bits are a function of the number of bytes consumed, and a kernel runs between groups only. On it `TextSoFar`: the text is the one the consumed bytes determine and, while wrapping is on, `stepcount` is its last column. `ImplementsText` alone is not inductive: the next character depends on `result` |
| `CencodeProofs!LengthExact` (one width; `TextsFit`) | `LengthIsExact` | from `TextSoFar`; `EncodeLengthIs` shows that none of the helper's overflow tests and sums interferes |
| `CencodeProofs!NewlinesOnly` | `WidthOnlyAddsNewlines` | `Carried` and `BareSoFar`, the same statement about the characters alone, which no width disturbs |
| `CencodeProofs!Invertible` | `DecodesBack` | a consequence of `WidthOnlyAddsNewlines`: the decoder does not see newlines, and `OpenDecodes`, `ClosedDecodes` say what the characters give |
| `CencodeProofs!LinesWithin` (`LongestLineFits`) | `LinesStayWithin` | no further invariant: a line is no longer than the text without newlines, which `WidthOnlyAddsNewlines` bounds, so `stepcount` is the column itself and `CHECK_BREAK` compares what it means to |
| `CdecodeProofs!TypeCorrect`, `NeverUnwritten` | `TypeOK`, `NothingUnwritten` of the decoder | `Shape /\ WrittenAhead`: the buffer reaches at most one place past the complete bytes, and exactly so far when a byte is unfinished inside the coroutine. `NothingUnwritten` alone is not inductive: whether the byte read at `step_b` was stored depends on where the buffer ends |
| `CdecodeProofs!DecodeFits` | `Fits`: no store past `base64_decode_maxlength` | with `BitsPaidFor`, a count of bits: each character taken brings six, each complete byte uses eight, the unfinished one holds `Pending`, and a call starts with at most six carried in. The store ahead at a resume point `step_a` needs the second conjunct |
| `CdecodeProofs!RefinesDecodeText` | `ImplementsText` | `Progress` on top of these: the resume point is the number of values taken, modulo four; what has been delivered and completed is `Bytes` of them; and the bits they leave over stand in the unfinished byte, in the buffer during a call and in `plainchar` between calls |
| `StreamEncodeProofs!TypeCorrect`, `ContentEncoded` | `TypeOK`, `StreamIsText` | `Phase` (what each place of the code knows of the streams and counters), `Fed` (what the block API was given is what was left over before, and what was read), `Columns` (`stepcount` is the column of the text of all that was fed, unless an `encode_end` went before; and always the column this call has reached from where it began), `OutIsDue` (what was handed to the ostream, with the piece about to be, is what is due; a prefix of it once the ostream has failed). The step of one piece is `OpenExtends` and `WrappedJoins`, that of the end `ClosedExtends` and the same. Without `Columns` nothing is known of the lines a reused object goes on with |
| `StreamEncodeProofs!CodeNeverOverruns` (`SizesFit`) | `CodeFits` | with `Room`: the block is as large as was asked for. A piece adds at most what `base64_encode_length` says of a full buffer (`TextGrows`, `WrappedGrows`), from whatever column it begins in; the end at most seven characters, which the 16 covers |
| `StreamDecodeProofs!TypeCorrect`, `ContentDecoded` | `TypeOK`, `StreamIsBytes` | `Phase`, `Fed`, `OutIsDue` as above, over `DecodedExtends` |
| `StreamDecodeProofs!PlaintextNeverOverruns` (`SizesFit`) | `PlaintextFits` | with `Room`, and `DecodedGrows` |
| `StreamEncodeProofs!ScratchReleased`, `StreamDecodeProofs!ScratchReleased` | `ExitsRelease`: `return` and `bad_alloc` leave no scratch block | with `NothingTakenYet`: a call begins with none. Without it the failure of the first allocation, which frees nothing, might leave one |
| `BallocProofs!TypeCorrect`, `AllocFits` | `TypeOK`, and `Fits` of the one-shot API, for every `size_t` | `Inv`, all three properties together, from the two lemmas that say what is requested in exact arithmetic |
| `BallocProofs!OwnershipKept` | `FreeIsSafe`: what a call left can be freed once, and no block is lost | `Inv`: a variable that may be given to a call has no block behind it (`NothingLost`), so `Fail` and `Deliver` lose none |
| `Base64ToolProofs!RefusalIsSafe` | `RefusalTouchesNothing` | with `Untouched`: the disk is as it was until the output is opened, and by then every ground to refuse has been tested. The property alone forgets which tests are already behind |
| `Base64ToolProofs!TypeCorrect`, `NothingLost`, `ConversionsKeepMeaning` | `TypeOK`, `SuccessIsComplete`, `Identical` | `Held`, which adds `Kinds` (the input holds what the conversion takes, or is the output and empty by then), `Written` (while the ostream is good, the file and what is buffered make up the whole conversion) and `Known` (what the output stands for is unknown until the end; an input read to its end is what was read). Then `RoundTrip` |
| `KernelProofs!TypeCorrect`, `AllAgree` | `TypeOK`, `KernelsAgree` | `OneChoice`: behind its first value the pointer has only held what the CPU dictates; so whichever old value a relaxed load returns is `encode_resolve` or the right kernel |
| `KernelProofs!ResolvedOnce` | `ResolvesOnce` | `Remembers`: a thread that has resolved has seen its own store or is about to make it, and coherence forbids it the older value |
| `KernelProofs!OutputComplete` | `HandoverComplete` | `Ordered`: without streaming nothing is pending, and `encode_bulk_none` has written nothing |
| `KernelProofs!LaneTypeCorrect`, `EncodesAll`, `BlocksAll`, `InvertsAll` | `LaneTypeOK`, `LaneEncodes`, `LaneBlocks`, `LaneInverts`, for all three bytes and all four characters at once | `LaneInv`: which paths reach which step, that behind the split the registers hold the four fields of the bytes (`Field`), and behind the test the values of four characters that are all of the alphabet (`Symbols`). The properties alone speak of the last step only; the argument is below |
| `CencodeProofs!CallsWriteTheirPiece` (one width) | each call has on return written the characters of its `PieceText` on lines from the column it found, `base64_encode_blockend` those of the `EndText` and a newline, and `stepcount` is the column then | `TextSoFar` and `AllConsumed`: no call returns before all of its piece is consumed. `TextOfPrefix` (the text of some bytes does not depend on those behind them) and `WrappedPieces` then turn the text so far into that of the last piece |
| `CdecodeProofs!CallsDeliverTheirPiece` | each call has on return taken all of its piece and delivered its `PieceBytes` | `Progress` and `AllTaken`, with `BytesInPieces` |
| `CencodeProofs!CallsEnd`, `CdecodeProofs!CallsEnd` | a call on n bytes takes n + 2 steps at most, one on n characters 5n + 5 | each step within a call decreases `StepsLeft`. In the decoder that needs `AllTaken` and that the scalar core is called on one character at least and leaves only at its end: entering it takes nothing off the text |
| `StreamEncodeProofs!CallsEnd`, `StreamDecodeProofs!CallsEnd` | a stream call takes 3n + 8 and 3n + 6 steps at most, whatever fails | `StepsLeft`: a turn of the loop is paid for by what it has read, and the loop does not go round when nothing was |
| `KernelProofs!CallsAreWaitFree` (finitely many blocks) | a kernel call that writes n blocks takes 2n + 5 steps of its own thread at most, and no other thread's step adds to them | `StepsLeft(t)`: the resolver is entered once, since what it calls is `Choice` and that is never the resolver (`PublishEnters`, from `OneChoice`); a block is stored once and drains once. `Ordered` is needed: what is pending belongs to the current call |


### The arithmetic of a lane

The kernels move four 6-bit fields with masks, shifts, multiplications and byte
shuffles on 32-bit words; `Alphabet` defines `&` and `|` bit by bit, and the
lemmas turn them into `\div`, `%`, `*` and `+`, which is what the provers know.
`Masks` says what the code's masks select of an octet, `AndWord` that a word may
be taken octet by octet, `OrFields`, `OrBelow6`, `OrBelow12` and `OrBelow18` that
an OR of fields that do not overlap is their sum. On these, one lemma per path:

- encoding: `ScalarSplits`, `NEONSplits` and `SSESplits` (of whose two
  multiplications one shifts fields to the left and the other, by its high half,
  to the right) give `Field`; `OffsetEncodes` and `Encodes12`, that the range
  offsets and the 12-bit table give the alphabet's characters;
- refusing: `NibblesDecide`, that the two nibble tables have a bit in common
  exactly for the characters outside the alphabet, and `SwarJoins`, that the sum
  of four table entries keeps the sentinel exactly for them;
- decoding: `RollDecodes`, that the roll turns a character into its value;
  `SSEJoins`, `NEONJoins` and `SwarJoins`, that multiply-add, shifts and tables
  put the same 24-bit word together (`Joined`); `JoinedBytes` and `ScalarPacks`,
  that its octets are the bytes the coroutine makes; `FieldsBack`, that the
  fields of these are the values; `Stores`, that the shuffles and stores put
  them where they belong in every lane.

### The hypotheses

Some theorems say less than "always", and each hypothesis is one the code needs:

- *One width* (`~MidStreamWidth`): the width is set before the first byte only.
  `EncodeText` is the text of a stream of one width, and `base64_encode_length`
  is told one. For the other streams there are the three theorems that do not
  name no width or the one in force.
- *Finitely many blocks* (`IsFiniteSet(Blocks)`), for `CallsAreWaitFree`: the
  output of a call is finite.
- `TextsFit`, for `LengthExact`: `size_t` can count the text. Otherwise
  `base64_encode_length` returns 0.
- `LongestLineFits`, for `LinesWithin`: `size_t` can count the characters the
  stream determines. More of them might be written unwrapped until `stepcount`
  has wrapped round; the first line wrapped afterwards is too long.
- `SizesFit`: the sizes the C++ wrappers compute are in range. For the decoder
  this is so whenever `size_t` is as wide as `int`, the type of the buffer size.
  For the encoder it is the condition its finding shows the code not to test
  (`stream_encode_size_edge`).

`Base64Tool` assumes that a byte is not `PAD` or `NL`: the model tells files of
bytes from files of text, and in the code, where both are bytes, `-e` or `-d`
says which is meant.

## 5. What only TLC says

- Liveness (`BlockReturns`, `DecodeReturns`, `CallEnds`, `CallReturns`): the
  prover handles neither fairness nor `ENABLED`. Half of the argument is proved:
  `CallsEnd` and `CallsAreWaitFree` bound the steps of every call. What is left
  to TLC is that a call that has not ended can take a step, and by fairness
  takes it.
- The properties TLC refutes, which no theorem states but under the hypothesis
  that excludes the counterexample (`CodeFits`).

## 6. What is not modelled

- `tools/gendata.c` and the examples: they only call the API.
- Of the tool: its usage text; `-e` given a text and `-d` given anything that is
  not one; after a failed write, which prefix reached the file. Two of its
  hazards are in the model and have no property, because the code promises
  nothing there: an output that is the input under another name is truncated
  before it is read (`base64.cc:59` calls the comparison best-effort), and a read
  error ends the conversion early with status 0 (`base64.cc:95` speaks of write
  failures).
- The alignment test of streamed stores, and the build system's choice of files.
- Callers that break the contract: a buffer smaller than the helpers say, one
  state used by two threads, text or bytes overlapping the output.
- The compiler: where the C code is defined, it is taken to mean what it says.

## 7. The plan

Order of work, the most important behaviour first:

1. `B64Units`, `EncodeText`, `Cencode`; `DecodeText`, `Cdecode`: done, with type
   invariants and first safety theorems proved.
2. `StreamEncode`, `StreamDecode`, `Balloc`, `Lanes`, `KernelCall`: done, with
   the termination of every stream call, the release of scratch proved, and the
   movement of bytes between the lanes of a vector.
3. Encoder and decoder composed (`DecodesBack`), and the command line tool on
   top of the stream calls (`Base64Tool`): done.
4. Proved since: both refinements, what they imply for lengths and lines, the
   content and the room of both stream calls, and what the tool promises.
5. `Lanes` and `Alphabet` over numbers, with the arithmetic of a lane proved for
   all bytes and characters: done.
6. The step the two stream modules take for a call of the block API proved of
   `Cencode` and `Cdecode`, and the number of steps of every kind of call
   bounded: done.
7. Open: single calls of a stream whose width changes between two of them. For
   the stream there are `NewlinesOnly`, `Invertible` and `LinesWithin`. The C++
   encoder has no way to change its width.
