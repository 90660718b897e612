------------------------------ MODULE Cdecode -------------------------------
(***************************************************************************)
(* The streaming decoder of cdecode.c and the bulk kernels behind it.      *)
(*                                                                         *)
(* One base64_decodestate, used by one caller, who cuts a text into pieces *)
(* and decodes each into a buffer of base64_decode_maxlength bytes.  buf   *)
(* is as much of the present call's buffer as has been stored to, o the    *)
(* place the next byte goes.  The coroutine ORs a byte together in the     *)
(* buffer itself, so it stores ahead of the bytes it has completed, and it *)
(* parks the unfinished byte in the state at the end of every piece.       *)
(*                                                                         *)
(* A call alternates between the bulk kernel, which takes whole blocks of  *)
(* alphabet characters, and the scalar core, called on the clean run up to *)
(* and including the character that blocks the kernel.                     *)
(***************************************************************************)
EXTENDS B64Units, B64Lengths

CONSTANTS
    Inputs,     \* the texts there are to decode
    Kernels,    \* the block sizes a build may resolve to, 0 for no kernel
    SimdMin,    \* characters that must be left for the kernel to be tried
    UNINIT      \* what a byte of the buffer holds before it is stored to

ASSUME CdecodeAssumption ==
    /\ Inputs \subseteq Seq(Char)
    /\ \A t \in Inputs : Len(t) <= SizeMax
    /\ Kernels \subseteq {k \in Nat : k % 4 = 0}
    /\ SimdMin \in Nat
    /\ UNINIT \notin Byte

VARIABLES
    step,       \* base64_decodestate: the coroutine's resume point
    plainchar,  \*   and the unfinished byte
    kernel,     \* what base64_decode_bulk_simd runs on this machine
    pc,         \* where the current call stands
    input,      \* the text of this stream
    begin,      \* the current call decodes input[begin + 1 .. end],
    pos,        \*   is past character pos,
    end,
    lim,        \*   and its scalar core was called on input[.. lim]
    buf,        \* the buffer of the current call, as far as it is written
    o,          \* complete bytes in it
    plain       \* the bytes earlier calls delivered

state  == << step, plainchar >>
piece  == << input, begin, end >>
vars   == << state, kernel, pc, piece, pos, lim, buf, o, plain >>

ZeroByte == << Zero, Zero, Zero, Zero >>
Cell     == Byte \cup {UNINIT}

TypeOK ==
    /\ step \in {"a", "b", "c", "d"}
    /\ plainchar \in Cell
    /\ kernel \in Kernels
    /\ pc \in {"idle", "dispatch", "quads", "chars"}
    /\ input \in Inputs
    /\ end \in 0..Len(input)
    /\ begin \in 0..end
    /\ pos \in begin..end
    /\ lim \in 0..end
    /\ pc \in {"quads", "chars"} => pos <= lim
    /\ buf \in Seq(Cell)
    /\ o \in 0..Len(buf)
    /\ plain \in Seq(Cell)

-----------------------------------------------------------------------------
(* The characters: decoding[ch] >= 0 exactly for the alphabet.             *)

Alphabet(p) == input[p] \in Sextet

CleanRun(from, n) == \A p \in (from + 1)..(from + n) : Alphabet(p)

(* The buffer.                                                             *)

Load(i) == IF i <= Len(buf) THEN buf[i] ELSE UNINIT

Store(b, i, v) == IF i > Len(b) THEN Append(b, v) ELSE [b EXCEPT ![i] = v]

OrByte(x, y) ==
    IF x = UNINIT THEN UNINIT
    ELSE << OrCrumb(x[1], y[1]), OrCrumb(x[2], y[2]),
            OrCrumb(x[3], y[3]), OrCrumb(x[4], y[4]) >>

(* Four 6-bit values as three bytes.                                       *)
Triple(v1, v2, v3, v4) ==
    << << v1[1], v1[2], v1[3], v2[1] >>,
       << v2[2], v2[3], v3[1], v3[2] >>,
       << v3[3], v4[1], v4[2], v4[3] >> >>

(* n clean characters from pos, whole groups of four, stored at o.         *)
StoreGroups(n) ==
    LET value(i) == input[pos + i]
        out == [i \in 1..(3 * (n \div 4)) |->
                  LET g == 4 * ((i - 1) \div 3)
                  IN  Triple(value(g + 1), value(g + 2),
                             value(g + 3), value(g + 4))[((i - 1) % 3) + 1]]
    IN  SubSeq(buf, 1, o) \o out \o SubSeq(buf, o + Len(out) + 1, Len(buf))

TakeGroups(n) ==
    /\ buf' = StoreGroups(n)
    /\ o' = o + 3 * (n \div 4)
    /\ pos' = pos + n
    /\ UNCHANGED << state, kernel, pc, piece, lim, plain >>

-----------------------------------------------------------------------------
(* base64_decode_block_scalar.                                             *)

(* It is called on the characters up to l, and begins by storing the byte  *)
(* parked in the state.                                                    *)
EnterScalar(l) ==
    /\ lim' = l
    /\ buf' = Store(buf, o + 1, plainchar)
    /\ pc' = IF step = "a" THEN "quads" ELSE "chars"

(* At step_a: whole clean groups, until one is not clean.                  *)
QuadReady == lim - pos >= 4 /\ CleanRun(pos, 4)

QuadStep == pc = "quads" /\ QuadReady /\ TakeGroups(4)

QuadsDone ==
    /\ pc = "quads"
    /\ ~QuadReady
    /\ pc' = "chars"
    /\ UNCHANGED << state, kernel, piece, pos, lim, buf, o, plain >>

(* One character at a time: anything outside the alphabet is skipped.      *)
Skip ==
    /\ pc = "chars"
    /\ pos < lim
    /\ ~Alphabet(pos + 1)
    /\ pos' = pos + 1
    /\ UNCHANGED << state, kernel, pc, piece, lim, buf, o, plain >>

At(s) == pc = "chars" /\ step = s /\ pos < lim /\ Alphabet(pos + 1)

Value == input[pos + 1]

(* The byte being put together is completed by low, the next one begins    *)
(* with high.                                                              *)
Complete(low, high) ==
    /\ o' = o + 1
    /\ buf' = Store(Store(buf, o + 1, OrByte(Load(o + 1), low)), o + 2, high)

Resume(s) ==
    /\ step' = s
    /\ pos' = pos + 1
    /\ pc' = IF s = "a" THEN "quads" ELSE "chars"
    /\ UNCHANGED << plainchar, kernel, piece, lim, plain >>

StepA ==
    /\ At("a")
    /\ LET v == Value
       IN  buf' = Store(buf, o + 1, << v[1], v[2], v[3], Zero >>)
    /\ UNCHANGED o
    /\ Resume("b")

StepB ==
    /\ At("b")
    /\ LET v == Value
       IN  Complete(<< Zero, Zero, Zero, v[1] >>, << v[2], v[3], Zero, Zero >>)
    /\ Resume("c")

StepC ==
    /\ At("c")
    /\ LET v == Value
       IN  Complete(<< Zero, Zero, v[1], v[2] >>, << v[3], Zero, Zero, Zero >>)
    /\ Resume("d")

(* The fourth character completes its byte and begins no other.            *)
StepD ==
    /\ At("d")
    /\ LET v == Value
       IN  buf' = Store(buf, o + 1,
                        OrByte(Load(o + 1), << Zero, v[1], v[2], v[3] >>))
    /\ o' = o + 1
    /\ Resume("a")

\* Mutant of Leave: park *plainchar at step_a as well.
LeaveAlways ==
    /\ pc = "chars"
    /\ pos = lim
    /\ plainchar' = Load(o + 1)
    /\ pc' = "dispatch"
    /\ UNCHANGED << step, kernel, piece, pos, lim, buf, o, plain >>

\* Mutant of Leave: nothing is parked.
LeaveNothing ==
    /\ pc = "chars"
    /\ pos = lim
    /\ plainchar' = ZeroByte
    /\ pc' = "dispatch"
    /\ UNCHANGED << step, kernel, piece, pos, lim, buf, o, plain >>

(* codechar == codeend: park the unfinished byte.  At step_a there is none *)
(* and the place it would be in may never have been stored to.             *)
Leave ==
    /\ pc = "chars"
    /\ pos = lim
    /\ plainchar' = IF step = "a" THEN ZeroByte ELSE Load(o + 1)
    /\ pc' = "dispatch"
    /\ UNCHANGED << step, kernel, piece, pos, lim, buf, o, plain >>

-----------------------------------------------------------------------------
(* base64_decode_block.                                                    *)

BeginCall ==
    /\ pc = "idle"
    /\ begin' = pos
    /\ end' \in pos..Len(input)
    /\ UNCHANGED << state, kernel, input, pos, plain, o >>

DecodeBlock == BeginCall /\ pc' = "dispatch" /\ UNCHANGED << buf, lim >>

(* A direct call of the scalar core, as the tests make it.  With nothing   *)
(* to decode it returns before it stores anything.                         *)
DecodeBlockScalar == BeginCall /\ end' > pos /\ EnterScalar(end')

\* Mutant of KernelReady: the kernel is entered in the middle of a group.
KernelReadyAnyStep ==
    /\ end - pos >= SimdMin
    /\ kernel > 0
    /\ end - pos >= kernel
    /\ CleanRun(pos, kernel)

\* Mutant of KernelReady: rely on the caller's test for SimdMin characters.
KernelReadyShort ==
    /\ step = "a"
    /\ end - pos >= SimdMin
    /\ kernel > 0
    /\ CleanRun(pos, kernel)

KernelReady ==
    /\ step = "a"
    /\ end - pos >= SimdMin
    /\ kernel > 0
    /\ end - pos >= kernel
    /\ CleanRun(pos, kernel)

(* One iteration of decode_bulk_sse41, _avx2 or _neon.                     *)
KernelStep == pc = "dispatch" /\ KernelReady /\ TakeGroups(kernel)

\* Mutant of CallScalar: hand over the clean run without its blocker.
CallScalarClean ==
    /\ pc = "dispatch"
    /\ ~KernelReady
    /\ \E l \in pos..end :
          /\ pos < end
          /\ CleanRun(pos, l - pos)
          /\ l < end => ~Alphabet(l + 1)
          /\ EnterScalar(l)
    /\ UNCHANGED << state, kernel, piece, pos, o, plain >>

(* The kernel is blocked: hand over the clean run and its blocker.         *)
CallScalar ==
    /\ pc = "dispatch"
    /\ ~KernelReady
    /\ \E l \in (pos + 1)..end :
          /\ CleanRun(pos, l - pos - 1)
          /\ l = end \/ ~Alphabet(l)
          /\ EnterScalar(l)
    /\ UNCHANGED << state, kernel, piece, pos, o, plain >>

(* The caller takes the bytes the call returned and reuses the buffer.     *)
Return ==
    /\ pc = "dispatch"
    /\ pos = end
    /\ pc' = "idle"
    /\ plain' = plain \o SubSeq(buf, 1, o)
    /\ buf' = << >>
    /\ o' = 0
    /\ UNCHANGED << state, kernel, piece, pos, lim >>

(* base64_init_decodestate, to decode the text again from its beginning.   *)
InitState ==
    /\ pc = "idle"
    /\ step' = "a" /\ plainchar' = ZeroByte
    /\ begin' = 0 /\ pos' = 0 /\ end' = 0 /\ lim' = 0
    /\ plain' = << >>
    /\ UNCHANGED << kernel, pc, input, buf, o >>

-----------------------------------------------------------------------------
Init ==
    /\ step = "a" /\ plainchar = ZeroByte
    /\ kernel \in Kernels
    /\ pc = "idle"
    /\ input \in Inputs
    /\ begin = 0 /\ pos = 0 /\ end = 0 /\ lim = 0
    /\ buf = << >> /\ o = 0
    /\ plain = << >>

(* What a call does once made.                                             *)
Inside == \/ KernelStep \/ CallScalar \/ Return
          \/ QuadStep \/ QuadsDone \/ Skip
          \/ StepA \/ StepB \/ StepC \/ StepD \/ Leave

Next == InitState \/ DecodeBlock \/ DecodeBlockScalar \/ Inside

Spec == Init /\ [][Next]_vars

(* A call that has been made keeps executing: nothing in it waits.         *)
FairSpec == Spec /\ WF_vars(Inside)

-----------------------------------------------------------------------------
(* Properties.                                                             *)

(* Every step of every call implements DecodeText: block boundaries, the   *)
(* division of labour between kernel and scalar core, whitespace and       *)
(* padding leave no trace in the bytes delivered.                          *)
Text == INSTANCE DecodeText
            WITH taken <- pos, plain <- plain \o SubSeq(buf, 1, o)

ImplementsText == Text!Spec

(* A call never stores past base64_decode_maxlength of its own piece, the  *)
(* store ahead of the completed bytes and the byte carried in from the     *)
(* piece before it included.                                               *)
Fits == Len(buf) <= DecodeMaxLength(end - begin)

(* No byte of the buffer is read before the call has stored to it: neither *)
(* the parked byte nor a delivered one comes from memory the decoder never *)
(* wrote, although the bulk paths leave the byte after theirs unwritten.   *)
NothingUnwritten ==
    /\ plainchar # UNINIT
    /\ \A i \in 1..Len(buf) : buf[i] # UNINIT
    /\ \A i \in 1..Len(plain) : plain[i] # UNINIT

(* Every call returns, with all of its piece consumed: kernel and scalar   *)
(* core never hand the same characters back and forth.                     *)
DecodeReturns == pc # "idle" ~> (pc = "idle" /\ pos = end)

=============================================================================
