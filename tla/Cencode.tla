------------------------------ MODULE Cencode -------------------------------
(***************************************************************************)
(* The streaming encoder of cencode.c and the bulk kernels behind it.      *)
(*                                                                         *)
(* One base64_encodestate, used by one caller.  The caller initialises it, *)
(* sets chars_per_line, calls base64_encode_block on successive pieces of  *)
(* Input and ends with base64_encode_blockend; every character any call    *)
(* writes is appended to code.  A call of base64_encode_block runs as a    *)
(* sequence of steps: the kernel's iterations, the no-wrap bulk loop's     *)
(* iterations, and one step for each byte of the per-character coroutine.  *)
(*                                                                         *)
(* The locals `step' and `result' of the coroutine are loaded from the     *)
(* state on entry and stored back at every return, and the state is seen   *)
(* by nobody else in between, so each is one variable here.  For the same  *)
(* reason a bulk loop's addition to stepcount, made once after the loop,   *)
(* is made here by each iteration.                                         *)
(***************************************************************************)
EXTENDS B64Units, B64Lengths

CONSTANTS
    Input,          \* the bytes of the stream
    Widths,         \* the values the caller gives chars_per_line
    Kernels,        \* the bulk kernels a build may resolve to
    MidStreamWidth  \* may chars_per_line change between two blocks?

(* A kernel runs while at least `need' bytes are left and consumes `take'  *)
(* of them at a time.                                                      *)
KernelType == [need : Nat, take : Nat]

ASSUME CencodeAssumption ==
    /\ Input \in Seq(Byte)
    /\ Widths \subseteq 0..SizeMax
    /\ \A k \in Kernels : k \in KernelType /\ k.take <= k.need /\ k.take % 3 = 0
    /\ MidStreamWidth \in BOOLEAN

VARIABLES
    stepcount,      \* base64_encodestate: characters on the current line,
    chars_per_line, \*   where to wrap (0: nowhere),
    step,           \*   the coroutine's resume point
    result,         \*   and the bits carried over to the next character
    kernel,         \* what base64_encode_bulk_simd runs on this machine
    pc,             \* where the current call stands
    plainchar,      \* bytes of Input consumed so far
    plaintextend,   \* where the piece of Input being encoded ends
    code            \* every character written since the state was initialised

state == << stepcount, chars_per_line, step, result >>
vars  == << state, kernel, pc, plainchar, plaintextend, code >>

Idle == pc = "idle"
Left == plaintextend - plainchar

ZeroSextet == << Zero, Zero, Zero >>

TypeOK ==
    /\ stepcount \in 0..SizeMax
    /\ chars_per_line \in 0..SizeMax
    /\ step \in {"A", "B", "C"}
    /\ result \in Sextet
    /\ kernel \in Kernels
    /\ pc \in {"idle", "simd", "scalar", "ended"}
    /\ plainchar \in 0..Len(Input)
    /\ plaintextend \in plainchar..Len(Input)
    /\ code \in Seq(Char)

-----------------------------------------------------------------------------
(* Writing characters.  A line is the text so far with the state's count.  *)

Line == [text |-> code, count |-> stepcount]

SetLine(l) == code' = l.text /\ stepcount' = l.count

\* Mutant of CheckBreak: break only at the exact column.
CheckBreakAtColumn(l) ==
    IF chars_per_line # 0 /\ l.count = chars_per_line
    THEN [text |-> Append(l.text, NL), count |-> 1]
    ELSE [l EXCEPT !.count = SizeT(l.count + 1)]

(* The macro CHECK_BREAK: start a new line when this one is full, and      *)
(* count the character about to be written.                                *)
CheckBreak(l) ==
    IF chars_per_line # 0 /\ l.count >= chars_per_line
    THEN [text |-> Append(l.text, NL), count |-> 1]
    ELSE [l EXCEPT !.count = SizeT(l.count + 1)]

Emit(l, ch) ==
    LET b == CheckBreak(l) IN [b EXCEPT !.text = Append(b.text, ch)]

(* The four characters of three whole bytes.                               *)
Quad(b1, b2, b3) ==
    << << b1[1], b1[2], b1[3] >>,
       << b1[4], b2[1], b2[2] >>,
       << b2[3], b2[4], b3[1] >>,
       << b3[2], b3[3], b3[4] >> >>

(* The text of `groups' whole triples from byte i of Input.                *)
Quads(i, groups) ==
    [p \in 1..(4 * groups) |->
        LET t == i + 3 * ((p - 1) \div 4)
        IN  Quad(Input[t + 1], Input[t + 2], Input[t + 3])[((p - 1) % 4) + 1]]

-----------------------------------------------------------------------------
(* base64_encode_block: kernel first, then the scalar core.                *)

\* Mutant of EncodeBlock: enter the kernel without looking at step.
EncodeBlockAnyStep ==
    /\ Idle
    /\ plaintextend' \in plainchar..Len(Input)
    /\ pc' = IF chars_per_line = 0 THEN "simd" ELSE "scalar"
    /\ UNCHANGED << state, kernel, plainchar, code >>

EncodeBlock ==
    /\ Idle
    /\ plaintextend' \in plainchar..Len(Input)
    /\ pc' = IF step = "A" /\ chars_per_line = 0 THEN "simd" ELSE "scalar"
    /\ UNCHANGED << state, kernel, plainchar, code >>

\* Mutant of TakeTriples: bulk output is not counted.
TakeTriplesUncounted(n) ==
    /\ code' = code \o Quads(plainchar, n \div 3)
    /\ plainchar' = plainchar + n
    /\ UNCHANGED << state, kernel, pc, plaintextend >>

(* Consume n bytes, whole triples, without looking at the line width.      *)
TakeTriples(n) ==
    /\ code' = code \o Quads(plainchar, n \div 3)
    /\ stepcount' = SizeT(stepcount + (n \div 3) * 4)
    /\ plainchar' = plainchar + n
    /\ UNCHANGED << chars_per_line, step, result, kernel, pc, plaintextend >>

KernelRuns == kernel.take > 0 /\ Left >= kernel.need

(* One iteration of encode_bulk_sse41, _avx2 or _neon.                     *)
KernelStep ==
    /\ pc = "simd"
    /\ KernelRuns
    /\ TakeTriples(kernel.take)

\* Mutant of KernelDone: forget the build without a kernel.
KernelDoneShort ==
    /\ pc = "simd"
    /\ Left < kernel.need
    /\ pc' = "scalar"
    /\ UNCHANGED << state, kernel, plainchar, plaintextend, code >>

KernelDone ==
    /\ pc = "simd"
    /\ ~KernelRuns
    /\ pc' = "scalar"
    /\ UNCHANGED << state, kernel, plainchar, plaintextend, code >>

At(s) == pc = "scalar" /\ step = s

\* Mutant of BulkLoops: test for one more byte, not for three.
BulkLoopsToEnd == chars_per_line = 0 /\ Left > 0

(* One iteration of the no-wrap bulk loop at step_A.                       *)
BulkLoops == chars_per_line = 0 /\ Left >= 3

BulkStep == At("A") /\ BulkLoops /\ TakeTriples(3)

(* One byte through the coroutine: write what completes a character, keep  *)
(* the rest in result, move to the next resume point.                      *)
Fragment == Input[plainchar + 1]

Consume(l, carry, next) ==
    /\ SetLine(l)
    /\ result' = carry
    /\ step' = next
    /\ plainchar' = plainchar + 1
    /\ UNCHANGED << chars_per_line, kernel, pc, plaintextend >>

StepA ==
    /\ At("A")
    /\ ~BulkLoops
    /\ Left > 0
    /\ LET f == Fragment
       IN  Consume(Emit(Line, << f[1], f[2], f[3] >>),
                   << f[4], Zero, Zero >>, "B")

StepB ==
    /\ At("B")
    /\ Left > 0
    /\ LET f == Fragment
       IN  Consume(Emit(Line, << result[1], OrCrumb(result[2], f[1]),
                                 OrCrumb(result[3], f[2]) >>),
                   << f[3], f[4], Zero >>, "C")

StepC ==
    /\ At("C")
    /\ Left > 0
    /\ LET f    == Fragment
           last == << f[2], f[3], f[4] >>
       IN  Consume(Emit(Emit(Line, << result[1], result[2],
                                      OrCrumb(result[3], f[1]) >>), last),
                   last, "A")

(* plainchar == plaintextend at whichever resume point was reached.        *)
Return ==
    /\ pc = "scalar"
    /\ Left = 0
    /\ pc' = "idle"
    /\ UNCHANGED << state, kernel, plainchar, plaintextend, code >>

-----------------------------------------------------------------------------
(* The caller's other operations.                                          *)

(* base64_init_encodestate: also what a caller does to start again.        *)
InitState ==
    /\ pc \in {"idle", "ended"}
    /\ step' = "A" /\ result' = ZeroSextet /\ stepcount' = 0
    /\ chars_per_line' = 0
    /\ pc' = "idle"
    /\ plainchar' = 0 /\ plaintextend' = 0 /\ code' = << >>
    /\ UNCHANGED kernel

(* The caller assigns state.chars_per_line.                                *)
SetWidth ==
    /\ Idle
    /\ MidStreamWidth \/ plainchar = 0
    /\ chars_per_line' \in Widths
    /\ UNCHANGED << stepcount, step, result, kernel, pc,
                    plainchar, plaintextend, code >>

\* Mutant of LastGroup: padding is written without CHECK_BREAK.
LastGroupUnbroken(l) ==
    LET pad(m) == [m EXCEPT !.text = Append(m.text, PAD)]
    IN  CASE step = "B" -> pad(pad(Emit(l, result)))
          [] step = "C" -> pad(Emit(l, result))
          [] step = "A" -> l

\* Mutant of LastGroup: the bits still carried are dropped.
LastGroupDropped(l) ==
    CASE step = "B" -> Emit(Emit(l, PAD), PAD)
      [] step = "C" -> Emit(Emit(l, result), PAD)
      [] step = "A" -> l

(* The last, incomplete group with its padding.                            *)
LastGroup(l) ==
    CASE step = "B" -> Emit(Emit(Emit(l, result), PAD), PAD)
      [] step = "C" -> Emit(Emit(l, result), PAD)
      [] step = "A" -> l

(* base64_encode_blockend.  It does not reset the state.                   *)
Blockend ==
    /\ Idle
    /\ LET t == LastGroup(Line)
       IN  SetLine(IF chars_per_line = 0 THEN t
                   ELSE [t EXCEPT !.text = Append(t.text, NL)])
    /\ pc' = "ended"
    /\ UNCHANGED << chars_per_line, step, result, kernel,
                    plainchar, plaintextend >>

-----------------------------------------------------------------------------
Init ==
    /\ stepcount = 0 /\ chars_per_line = 0 /\ step = "A" /\ result = ZeroSextet
    /\ kernel \in Kernels
    /\ pc = "idle"
    /\ plainchar = 0 /\ plaintextend = 0
    /\ code = << >>

(* What base64_encode_block does once called.                              *)
Inside == \/ KernelStep \/ KernelDone \/ BulkStep
          \/ StepA \/ StepB \/ StepC \/ Return

Next == InitState \/ SetWidth \/ EncodeBlock \/ Blockend \/ Inside

Spec == Init /\ [][Next]_vars

(* A call that has been made keeps executing: nothing in it waits.         *)
FairSpec == Spec /\ WF_vars(Inside)

-----------------------------------------------------------------------------
(* Properties.                                                             *)

(* A stream of one width is an EncodeText stream: whatever the block sizes *)
(* and whichever kernel took whichever part, every step of every call      *)
(* leaves the text that the consumed bytes determine.  This is the chunk   *)
(* independence that result, step and stepcount exist for.                 *)
Text == INSTANCE EncodeText
            WITH fed <- plainchar, width <- chars_per_line, text <- code,
                 closed <- (pc = "ended")

ImplementsText == Text!Spec

(* base64_encode_length is exact: a finished stream of one width has       *)
(* written that many characters, the padding and every newline included,   *)
(* so the buffer it sizes is neither overrun nor left with a gap.          *)
LengthIsExact ==
    pc = "ended" => Len(code) = EncodeLength(plainchar, chars_per_line)

(* The last n characters of s are one unfinished line.                     *)
IsLastLine(s, n) ==
    /\ n \in 0..Len(s)
    /\ \A p \in (Len(s) - n + 1)..Len(s) : s[p] # NL
    /\ n = Len(s) \/ s[Len(s) - n] = NL

(* stepcount is the column, at every point of every call and whatever the  *)
(* width has been so far: the bulk paths keep it in step with the          *)
(* characters they write although nothing reads it while wrapping is off,  *)
(* so wrapping may be switched on between two blocks.                      *)
StepcountIsColumn ==
    pc # "ended" => \E n \in 0..Len(code) :
                        IsLastLine(code, n) /\ stepcount = SizeT(n)

Payload(s) == Among(Char \ {NL}, s)

(* Newlines are only ever inserted: without them the text is the unwrapped *)
(* encoding of the consumed bytes, even when the width changed meanwhile.  *)
WidthOnlyAddsNewlines ==
    Payload(code) = IF pc = "ended" THEN ClosedText(Input, plainchar, 0)
                                    ELSE OpenText(Input, plainchar, 0)

(* Encoder and decoder are inverse at every point of a stream, not only at *)
(* its end and whatever widths its lines were given: what a decoder makes  *)
(* of the characters written so far is what was fed, up to the byte that   *)
(* result still carries; after base64_encode_blockend it is all of it.     *)
DecodesBack ==
    LET back == Decoded(code)
    IN  /\ back = SubSeq(Input, 1, Len(back))
        /\ plainchar - Len(back) \in IF pc = "ended" THEN {0} ELSE {0, 1}

(* While chars_per_line is set no step puts a character past that column:  *)
(* a line that is longer already, because wrapping was off or wider before,*)
(* is broken before the next character.                                    *)
LinesStayWithin ==
    [][chars_per_line # 0 =>
          \A p \in (Len(code) + 1)..Len(code') : \A n \in 1..p :
              IsLastLine(SubSeq(code', 1, p), n) => n <= chars_per_line]_vars

(* A call of base64_encode_block returns, with all of its input consumed.  *)
BlockReturns ==
    pc \in {"simd", "scalar"} ~> (Idle /\ plainchar = plaintextend)

=============================================================================
