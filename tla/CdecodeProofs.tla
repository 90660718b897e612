---------------------------- MODULE CdecodeProofs ---------------------------
(***************************************************************************)
(* What Cdecode guarantees for every text, every way of cutting it into    *)
(* calls and every kernel: no call stores past the buffer                  *)
(* base64_decode_maxlength asks for, none uses a byte of the buffer it has *)
(* not stored to, and the calls together deliver the bytes DecodeText      *)
(* says the text stands for, in order.                                     *)
(***************************************************************************)
EXTENDS Cdecode, B64Facts, TLAPS

-----------------------------------------------------------------------------
(* Values stay within their types.                                         *)

LEMMA ByteParts ==
    ASSUME NEW b \in Byte
    PROVE  b[1] \in Crumb /\ b[2] \in Crumb /\ b[3] \in Crumb /\ b[4] \in Crumb
BY DEF Byte

(* The crumbs of a sextet.                                                 *)
LEMMA SextetParts ==
    ASSUME NEW s \in Sextet
    PROVE  s[1] \in Crumb /\ s[2] \in Crumb /\ s[3] \in Crumb
BY DEF Sextet

(* Four crumbs make a byte.                                                *)
LEMMA ByteMade ==
    ASSUME NEW a \in Crumb, NEW b \in Crumb, NEW c \in Crumb, NEW d \in Crumb
    PROVE  << a, b, c, d >> \in Byte
BY DEF Byte

(* The byte of zero crumbs, with which a partial byte starts.              *)
LEMMA ZeroByteType == ZeroByte \in Byte /\ Zero \in Crumb
BY UnitsAssumption DEF ZeroByte, Byte

(* The OR of two bytes is a byte.                                          *)
LEMMA OrByteType ==
    ASSUME NEW x \in Byte, NEW y \in Byte
    PROVE  OrByte(x, y) \in Byte
<1>1. x # UNINIT
  BY CdecodeAssumption
<1>2. /\ OrCrumb(x[1], y[1]) \in Crumb /\ OrCrumb(x[2], y[2]) \in Crumb
      /\ OrCrumb(x[3], y[3]) \in Crumb /\ OrCrumb(x[4], y[4]) \in Crumb
  BY ByteParts DEF OrCrumb
<1>3. QED
  BY <1>1, <1>2, ByteMade DEF OrByte

(* The three bytes of four sextets are bytes.                              *)
LEMMA TripleType ==
    ASSUME NEW v1 \in Sextet, NEW v2 \in Sextet, NEW v3 \in Sextet,
           NEW v4 \in Sextet, NEW k \in 1..3
    PROVE  Triple(v1, v2, v3, v4)[k] \in Byte
<1>1. /\ << v1[1], v1[2], v1[3], v2[1] >> \in Byte
      /\ << v2[2], v2[3], v3[1], v3[2] >> \in Byte
      /\ << v3[3], v4[1], v4[2], v4[3] >> \in Byte
  BY SextetParts, ByteMade
<1>2. k = 1 \/ k = 2 \/ k = 3
  OBVIOUS
<1>3. QED
  BY <1>1, <1>2 DEF Triple

-----------------------------------------------------------------------------
(* The inductive invariant.  The buffer holds only bytes that were stored; *)
(* inside the coroutine, when a byte is unfinished, its place is written;  *)
(* and the buffer never reaches further than one byte past the complete    *)
(* ones.  What bounds o is a count of bits: every character taken brings   *)
(* six, every complete byte uses eight, and those of the unfinished byte   *)
(* are Pending; a call starts with at most the six of a byte parked at     *)
(* step_b.                                                                 *)

Pending == CASE step = "a" -> 0 [] step = "b" -> 6
             [] step = "c" -> 4 [] step = "d" -> 2

Shape ==
    /\ step \in {"a", "b", "c", "d"}
    /\ kernel \in Kernels
    /\ pc \in {"idle", "dispatch", "quads", "chars"}
    /\ input \in Inputs
    /\ end \in 0..Len(input)
    /\ begin \in 0..end
    /\ pos \in begin..end
    /\ lim \in 0..end
    /\ IF pc \in {"quads", "chars"} THEN pos <= lim ELSE lim <= pos
    /\ plain \in Seq(Byte)
    /\ plainchar \in Byte
    /\ buf \in Seq(Byte)
    /\ o \in 0..Len(buf)

WrittenAhead ==
    /\ Len(buf) <= o + 1
    /\ pc = "chars" /\ step # "a" => Len(buf) = o + 1
    /\ pc = "quads" => step = "a"
    /\ pc = "idle" => Len(buf) = 0

BitsPaidFor ==
    pc # "idle" =>
        /\ 8 * o + Pending <= 6 * (pos - begin) + 6
        /\ step = "a" /\ Len(buf) = o + 1 =>
              \/ 8 * o <= 6 * (pos - begin)
              \/ pc \in {"quads", "chars"} /\ pos < lim

IInv == Shape /\ WrittenAhead /\ BitsPaidFor

(* The input has a length within size_t, and only characters.              *)
LEMMA InputChars ==
    ASSUME Shape
    PROVE  /\ Len(input) \in Nat
           /\ Len(input) <= SizeMax
           /\ \A p \in 1..Len(input) : input[p] \in Char
BY CdecodeAssumption DEF Shape

(* A store appends to the written part or overwrites within it.            *)
LEMMA StoreType ==
    ASSUME NEW b \in Seq(Byte), NEW i \in 1..(Len(b) + 1), NEW v \in Byte
    PROVE  /\ Store(b, i, v) \in Seq(Byte)
           /\ i > Len(b) => Len(Store(b, i, v)) = i
           /\ i <= Len(b) => Len(Store(b, i, v)) = Len(b)
<1>1. CASE i > Len(b)
  BY <1>1 DEF Store
<1>2. CASE i <= Len(b)
  BY <1>2 DEF Store
<1>3. QED
  BY <1>1, <1>2

(* What the bulk paths leave: only bytes, and none past the new o.         *)
LEMMA StoreGroupsType ==
    ASSUME Shape, Len(buf) <= o + 1, NEW n \in Nat, n % 4 = 0, n > 0,
           pos + n <= end, CleanRun(pos, n)
    PROVE  /\ StoreGroups(n) \in Seq(Byte)
           /\ Len(StoreGroups(n)) = o + 3 * (n \div 4)
<1> DEFINE m == 3 * (n \div 4)
           value(i) == input[pos + i]
           cell(i) == LET g == 4 * ((i - 1) \div 3)
                      IN  Triple(value(g + 1), value(g + 2), value(g + 3),
                                 value(g + 4))[((i - 1) % 3) + 1]
           out == [i \in 1..m |-> cell(i)]
<1>1. m \in Nat /\ m >= 3 /\ n \div 4 \in Nat /\ n = 4 * (n \div 4)
  OBVIOUS
<1>2. \A i \in 1..n : value(i) \in Sextet
  BY InputChars DEF CleanRun, Alphabet, Shape
<1>3. ASSUME NEW i \in 1..m PROVE cell(i) \in Byte
  <2> DEFINE g == 4 * ((i - 1) \div 3)
  <2>1. (i - 1) \div 3 \in 0..((n \div 4) - 1) /\ ((i - 1) % 3) + 1 \in 1..3
    BY <1>1
  <2>2. g + 1 \in 1..n /\ g + 2 \in 1..n /\ g + 3 \in 1..n /\ g + 4 \in 1..n
    BY <1>1, <2>1
  <2> HIDE DEF value
  <2>3. /\ value(g + 1) \in Sextet /\ value(g + 2) \in Sextet
        /\ value(g + 3) \in Sextet /\ value(g + 4) \in Sextet
    BY <1>2, <2>2
  <2>4. QED
    BY <2>1, <2>3, TripleType
<1> HIDE DEF cell
<1>4. out \in Seq(Byte) /\ Len(out) = m
  BY <1>1, <1>3
<1> HIDE DEF m, out
<1>5. SubSeq(buf, 1, o) \in Seq(Byte) /\ Len(SubSeq(buf, 1, o)) = o
  BY DEF Shape
<1>6. SubSeq(buf, o + m + 1, Len(buf)) = << >>
  BY <1>1 DEF Shape
<1>7. StoreGroups(n) = SubSeq(buf, 1, o) \o out \o << >>
  BY <1>4, <1>6 DEF StoreGroups, out, m, cell, value
<1> DEFINE all == SubSeq(buf, 1, o) \o out
<1>8. all \in Seq(Byte) /\ Len(all) = o + m
  BY <1>4, <1>5
<1> HIDE DEF all
<1>9. all \o << >> = all
  BY <1>8
<1>10. QED
  BY <1>7, <1>8, <1>9 DEF all, m

(* A kernel or the four-character loop takes whole groups inside its
   bounds and keeps the invariant.                                         *)
LEMMA TakeGroupsInv ==
    ASSUME IInv, step = "a", pc \in {"dispatch", "quads"},
           NEW n \in Nat, n % 4 = 0, n > 0, pos + n <= end,
           pc = "quads" => pos + n <= lim,
           CleanRun(pos, n), TakeGroups(n)
    PROVE  IInv'
<1>1. Len(buf) <= o + 1
  BY DEF IInv, WrittenAhead
<1>2. buf' \in Seq(Byte) /\ Len(buf') = o + 3 * (n \div 4)
  BY <1>1, StoreGroupsType DEF IInv, TakeGroups
<1>3. o' = o + 3 * (n \div 4) /\ pos' = pos + n /\ n = 4 * (n \div 4)
  BY DEF TakeGroups
<1>4. n \div 4 \in Nat /\ o \in Nat
  BY DEF IInv, Shape
<1>5. UNCHANGED << step, plainchar, kernel, pc, input, begin, end, lim, plain >>
  BY DEF TakeGroups, state, piece
<1>6. pos' \in begin'..end' /\ o' \in 0..Len(buf')
  BY <1>2, <1>3, <1>4, <1>5, InputChars DEF IInv, Shape
<1>7. Shape'
  BY <1>2, <1>3, <1>5, <1>6, InputChars DEF IInv, Shape
<1>8. WrittenAhead'
  BY <1>2, <1>3, <1>4, <1>5 DEF IInv, WrittenAhead
<1>9. 8 * o <= 6 * (pos - begin) + 6 /\ pos \in Int /\ begin \in Int
  <2>1. Pending = 0
    BY DEF Pending
  <2>2. 8 * o + Pending <= 6 * (pos - begin) + 6
    BY DEF IInv, BitsPaidFor
  <2>3. pos \in Int /\ begin \in Int
    BY InputChars DEF IInv, Shape
  <2>4. QED
    BY <1>4, <2>1, <2>2, <2>3
<1>10. 8 * o' <= 6 * (pos' - begin') + 6
  BY <1>3, <1>4, <1>5, <1>9
<1>11. Len(buf') # o' + 1
  BY <1>2, <1>3, <1>4
<1>12. Pending' = 0 /\ o' \in Nat
  BY <1>3, <1>4, <1>5 DEF Pending
<1>13. 8 * o' + Pending' <= 6 * (pos' - begin') + 6
  BY <1>10, <1>12
<1>14. BitsPaidFor'
  BY <1>11, <1>13 DEF BitsPaidFor
<1>15. QED
  BY <1>7, <1>8, <1>14 DEF IInv

(* The decoder as base64_init_decodestate leaves it.                       *)
LEMMA InvInit == Init => IInv
BY ZeroByteType, CdecodeAssumption
   DEF Init, IInv, Shape, WrittenAhead, BitsPaidFor

(* On entry, the scalar decoder stores the carried byte and jumps to its
   step.                                                                   *)
LEMMA EnterScalarFacts ==
    ASSUME IInv, NEW l, EnterScalar(l)
    PROVE  /\ lim' = l
           /\ buf' \in Seq(Byte) /\ Len(buf') = o + 1
           /\ pc' \in {"quads", "chars"}
           /\ pc' = "quads" <=> step = "a"
<1>1. Len(buf) <= o + 1 /\ o + 1 \in 1..(Len(buf) + 1)
  BY DEF IInv, WrittenAhead, Shape
<1>2. buf \in Seq(Byte) /\ plainchar \in Byte /\ o \in Nat /\ Len(buf) \in Nat
  BY DEF IInv, Shape
<1>3. /\ Store(buf, o + 1, plainchar) \in Seq(Byte)
      /\ Len(Store(buf, o + 1, plainchar)) = o + 1
  <2>1. CASE Len(buf) = o
    BY <1>1, <1>2, <2>1, StoreType
  <2>2. CASE Len(buf) = o + 1
    BY <1>1, <1>2, <2>2, StoreType
  <2>3. QED
    BY <1>1, <1>2, <2>1, <2>2
<1>4. QED
  BY <1>3 DEF EnterScalar

(* What the four steps of the coroutine have in common.                    *)
LEMMA StepFacts ==
    ASSUME IInv, NEW s \in {"a", "b", "c", "d"}, At(s)
    PROVE  /\ Value \in Sextet
           /\ pc = "chars" /\ step = s
           /\ pos + 1 \in begin..end /\ pos + 1 <= lim
           /\ o + 1 \in 1..(Len(buf) + 1) /\ Len(buf) <= o + 1
           /\ s # "a" => Len(buf) = o + 1 /\ Load(o + 1) \in Byte
<1>1. Value \in Sextet
  BY DEF At, Alphabet, Value
<1>2. Len(buf) <= o + 1 /\ o + 1 \in 1..(Len(buf) + 1)
  BY DEF IInv, WrittenAhead, Shape
<1>3. s # "a" => Len(buf) = o + 1 /\ Load(o + 1) \in Byte
  BY <1>2 DEF At, IInv, WrittenAhead, Shape, Load
<1>4. pos + 1 \in begin..end /\ pos + 1 <= lim
  BY InputChars DEF At, IInv, Shape
<1>5. QED
  BY <1>1, <1>2, <1>3, <1>4 DEF At

(* Steps b and c complete one byte and open the next.                      *)
LEMMA CompleteFacts ==
    ASSUME IInv, NEW s \in {"b", "c"}, At(s),
           NEW low \in Byte, NEW high \in Byte, Complete(low, high)
    PROVE  o' = o + 1 /\ buf' \in Seq(Byte) /\ Len(buf') = o' + 1
<1> DEFINE b == Store(buf, o + 1, OrByte(Load(o + 1), low))
<1>1. Len(buf) = o + 1 /\ o \in Nat /\ buf \in Seq(Byte)
      /\ OrByte(Load(o + 1), low) \in Byte
  BY StepFacts, OrByteType DEF IInv, Shape
<1>2. b \in Seq(Byte) /\ Len(b) = o + 1
  BY <1>1, StoreType
<1> HIDE DEF b
<1>3. Store(b, o + 2, high) \in Seq(Byte) /\ Len(Store(b, o + 2, high)) = o + 2
  BY <1>1, <1>2, StoreType
<1>4. QED
  BY <1>1, <1>3 DEF Complete, b

(* A step of the coroutine that leaves the buffer in the right shape and   *)
(* moves to the next resume point preserves the invariant.                 *)
LEMMA ResumeInv ==
    ASSUME IInv, NEW s \in {"a", "b", "c", "d"}, At(s),
           NEW t \in {"a", "b", "c", "d"}, Resume(t),
           buf' \in Seq(Byte), o' \in Nat,
           t = "a" => Len(buf') = o', t # "a" => Len(buf') = o' + 1,
           8 * o' + Pending' = 8 * o + Pending + 6
    PROVE  IInv'
<1>1. UNCHANGED << plainchar, kernel, input, begin, end, lim, plain >>
      /\ step' = t /\ pos' = pos + 1
      /\ pc' = IF t = "a" THEN "quads" ELSE "chars"
  BY DEF Resume, piece
<1>2. pos + 1 \in begin..end /\ pos + 1 <= lim /\ pc = "chars"
  BY StepFacts
<1>3. o' \in 0..Len(buf') /\ Len(buf') <= o' + 1
  <2>1. CASE t = "a"
    BY <2>1
  <2>2. CASE t # "a"
    BY <2>2
  <2>3. QED
    BY <2>1, <2>2
<1>4. begin' \in 0..end' /\ pos' \in begin'..end' /\ pos' <= lim'
  BY <1>1, <1>2, InputChars DEF IInv, Shape
<1>5. Shape'
  BY <1>1, <1>2, <1>3, <1>4 DEF IInv, Shape
<1>6. WrittenAhead'
  BY <1>1, <1>3 DEF WrittenAhead
<1>7. 8 * o + Pending <= 6 * (pos - begin) + 6
  BY <1>2 DEF IInv, BitsPaidFor
<1>8. pos \in Int /\ begin \in Int /\ o \in Int /\ Pending \in Int
  BY InputChars DEF IInv, Shape, Pending
<1>9. 8 * o' + Pending' <= 6 * (pos' - begin') + 6
  BY <1>1, <1>7, <1>8
<1>10. step' = "a" => Len(buf') # o' + 1
  <2>1. ASSUME t = "a" PROVE Len(buf') # o' + 1
    <3>1. Len(buf') = o'
      BY <2>1
    <3>2. o' \in Nat /\ \A x \in Nat : x # x + 1
      OBVIOUS
    <3>3. QED
      BY <3>1, <3>2
  <2>2. step' = t
    BY <1>1
  <2>3. QED
    BY <2>1, <2>2
<1>11. BitsPaidFor'
  BY <1>9, <1>10 DEF BitsPaidFor
<1>12. QED
  BY <1>5, <1>6, <1>11 DEF IInv

(* Every step keeps the invariant.                                         *)
LEMMA InvStep == IInv /\ [Next]_vars => IInv'
<1> SUFFICES ASSUME IInv, [Next]_vars PROVE IInv'
  OBVIOUS
<1> USE InputChars
<1>1. CASE InitState
  BY <1>1, ZeroByteType DEF InitState, IInv, Shape, WrittenAhead, BitsPaidFor
<1>2. CASE DecodeBlock
  <2>1. o = 0 /\ Len(buf) = 0
    BY <1>2 DEF DecodeBlock, BeginCall, IInv, Shape, WrittenAhead
  <2>2. Shape'
    BY <1>2 DEF DecodeBlock, BeginCall, IInv, Shape, state
  <2>3. WrittenAhead' /\ BitsPaidFor'
    BY <1>2, <2>1 DEF DecodeBlock, BeginCall, IInv, Shape, WrittenAhead,
                      BitsPaidFor, Pending, state
  <2>4. QED
    BY <2>2, <2>3 DEF IInv
<1>3. CASE DecodeBlockScalar
  <2>1. o = 0 /\ Len(buf) = 0 /\ o' = o
    BY <1>3 DEF DecodeBlockScalar, BeginCall, IInv, Shape, WrittenAhead
  <2>2. /\ lim' = end' /\ buf' \in Seq(Byte) /\ Len(buf') = o + 1
        /\ pc' \in {"quads", "chars"} /\ (pc' = "quads" <=> step = "a")
    BY <1>3, EnterScalarFacts DEF DecodeBlockScalar
  <2>3. /\ begin' = pos /\ pos' = pos /\ end' \in pos..Len(input) /\ end' > pos
        /\ UNCHANGED << step, plainchar, kernel, input, plain >>
    BY <1>3 DEF DecodeBlockScalar, BeginCall, state
  <2>4. Shape'
    BY <2>1, <2>2, <2>3 DEF IInv, Shape
  <2>5. WrittenAhead'
    BY <2>1, <2>2, <2>3 DEF WrittenAhead
  <2>6. BitsPaidFor'
    BY <2>1, <2>2, <2>3 DEF IInv, Shape, BitsPaidFor, Pending
  <2>7. QED
    BY <2>4, <2>5, <2>6 DEF IInv
<1>4. CASE KernelStep
  <2>1. /\ kernel \in Nat /\ kernel % 4 = 0 /\ kernel > 0 /\ pos + kernel <= end
        /\ CleanRun(pos, kernel) /\ step = "a" /\ pc = "dispatch"
    BY <1>4, CdecodeAssumption DEF KernelStep, KernelReady, IInv, Shape
  <2>2. QED
    BY <1>4, <2>1, TakeGroupsInv DEF KernelStep
<1>5. CASE CallScalar
  <2>1. PICK l \in (pos + 1)..end : EnterScalar(l)
    BY <1>5 DEF CallScalar
  <2>2. /\ lim' = l /\ buf' \in Seq(Byte) /\ Len(buf') = o + 1
        /\ pc' \in {"quads", "chars"} /\ (pc' = "quads" <=> step = "a")
    BY <2>1, EnterScalarFacts
  <2>3. UNCHANGED << step, plainchar, kernel, input, begin, end, pos, o, plain >>
        /\ pc = "dispatch"
    BY <1>5 DEF CallScalar, state, piece
  <2>4. Shape'
    BY <2>2, <2>3 DEF IInv, Shape
  <2>5. WrittenAhead'
    BY <2>2, <2>3 DEF WrittenAhead
  <2>6. 8 * o' + Pending' <= 6 * (pos' - begin') + 6
    <3>1. Pending' = Pending
      BY <2>3 DEF Pending
    <3>2. QED
      BY <2>3, <3>1 DEF IInv, BitsPaidFor
  <2>7. pos' < lim'
    BY <2>2, <2>3 DEF IInv, Shape
  <2>8. BitsPaidFor'
    BY <2>2, <2>6, <2>7 DEF BitsPaidFor
  <2>9. QED
    BY <2>4, <2>5, <2>8 DEF IInv
<1>6. CASE Return
  <2>1. SubSeq(buf, 1, o) \in Seq(Byte)
    BY DEF IInv, Shape
  <2>2. plain' \in Seq(Byte)
    BY <1>6, <2>1 DEF Return, IInv, Shape
  <2>3. QED
    BY <1>6, <2>2 DEF Return, IInv, Shape, WrittenAhead, BitsPaidFor, state, piece
<1>7. CASE QuadStep
  <2>1. pos + 4 <= lim /\ pos + 4 <= end /\ CleanRun(pos, 4)
        /\ step = "a" /\ pc = "quads"
    BY <1>7 DEF QuadStep, QuadReady, IInv, Shape, WrittenAhead
  <2>2. QED
    BY <1>7, <2>1, TakeGroupsInv, 4 % 4 = 0 DEF QuadStep
<1>8. CASE QuadsDone
  BY <1>8 DEF QuadsDone, IInv, Shape, WrittenAhead, BitsPaidFor, Pending,
              state, piece
<1>9. CASE Skip
  <2>1. /\ pc = "chars" /\ pos < lim /\ pos' = pos + 1
        /\ UNCHANGED << step, plainchar, kernel, pc, input, begin, end, lim,
                        buf, o, plain >>
    BY <1>9 DEF Skip, state, piece
  <2>2. Shape'
    BY <2>1 DEF IInv, Shape
  <2>3. WrittenAhead'
    BY <2>1 DEF IInv, WrittenAhead
  <2>4. /\ 8 * o + Pending <= 6 * (pos - begin) + 6
        /\ pos \in Int /\ begin \in Int /\ o \in Int /\ Pending \in Int
    BY <2>1 DEF IInv, Shape, BitsPaidFor, Pending
  <2>5. 8 * o + Pending <= 6 * (pos' - begin) + 6
    BY <2>1, <2>4
  <2>6. step = "a" => 8 * o <= 6 * (pos' - begin)
    BY <2>1, <2>4 DEF Pending
  <2>7. BitsPaidFor'
    BY <2>1, <2>5, <2>6 DEF BitsPaidFor, Pending
  <2>8. QED
    BY <2>2, <2>3, <2>7 DEF IInv
<1>10. CASE StepA
  <2> DEFINE v == Value
  <2>1. At("a") /\ Resume("b") /\ o' = o
    BY <1>10 DEF StepA
  <2>2. << v[1], v[2], v[3], Zero >> \in Byte
    BY <2>1, StepFacts, SextetParts, ByteMade, ZeroByteType
  <2>a. /\ buf \in Seq(Byte) /\ o \in Nat
        /\ o + 1 \in 1..(Len(buf) + 1) /\ Len(buf) <= o + 1
    BY <2>1, StepFacts DEF IInv, Shape
  <2>3. buf' \in Seq(Byte) /\ Len(buf') = o' + 1
    BY <1>10, <2>1, <2>2, <2>a, StoreType DEF StepA
  <2>4. 8 * o' + Pending' = 8 * o + Pending + 6
    BY <2>1 DEF At, Resume, Pending, IInv, Shape
  <2>5. QED
    BY <2>1, <2>3, <2>4, ResumeInv DEF IInv, Shape
<1>11. CASE StepB
  <2> DEFINE v == Value
  <2>1. At("b") /\ Resume("c")
    BY <1>11 DEF StepB
  <2>2. /\ << Zero, Zero, Zero, v[1] >> \in Byte
        /\ << v[2], v[3], Zero, Zero >> \in Byte
    BY <2>1, StepFacts, SextetParts, ByteMade, ZeroByteType
  <2>3. o' = o + 1 /\ buf' \in Seq(Byte) /\ Len(buf') = o' + 1
    BY <1>11, <2>1, <2>2, CompleteFacts DEF StepB
  <2>4. 8 * o' + Pending' = 8 * o + Pending + 6
    <3>1. Pending = 6 /\ Pending' = 4
      BY <2>1 DEF At, Resume, Pending
    <3>2. o \in Nat
      BY DEF IInv, Shape
    <3>3. QED
      BY <2>3, <3>1, <3>2
  <2>5. QED
    BY <2>1, <2>3, <2>4, ResumeInv DEF IInv, Shape
<1>12. CASE StepC
  <2> DEFINE v == Value
  <2>1. At("c") /\ Resume("d")
    BY <1>12 DEF StepC
  <2>2. /\ << Zero, Zero, v[1], v[2] >> \in Byte
        /\ << v[3], Zero, Zero, Zero >> \in Byte
    BY <2>1, StepFacts, SextetParts, ByteMade, ZeroByteType
  <2>3. o' = o + 1 /\ buf' \in Seq(Byte) /\ Len(buf') = o' + 1
    BY <1>12, <2>1, <2>2, CompleteFacts DEF StepC
  <2>4. 8 * o' + Pending' = 8 * o + Pending + 6
    <3>1. Pending = 4 /\ Pending' = 2
      BY <2>1 DEF At, Resume, Pending
    <3>2. o \in Nat
      BY DEF IInv, Shape
    <3>3. QED
      BY <2>3, <3>1, <3>2
  <2>5. QED
    BY <2>1, <2>3, <2>4, ResumeInv DEF IInv, Shape
<1>13. CASE StepD
  <2> DEFINE v == Value
  <2>1. At("d") /\ Resume("a") /\ o' = o + 1
    BY <1>13 DEF StepD
  <2>2. << Zero, v[1], v[2], v[3] >> \in Byte
    BY <2>1, StepFacts, SextetParts, ByteMade, ZeroByteType
  <2> DEFINE w == OrByte(Load(o + 1), << Zero, v[1], v[2], v[3] >>)
  <2>a. w \in Byte
    BY <2>1, <2>2, StepFacts, OrByteType
  <2>b. buf' = Store(buf, o + 1, w)
    BY <1>13 DEF StepD
  <2> HIDE DEF w
  <2>c. /\ buf \in Seq(Byte) /\ o \in Nat /\ Len(buf) = o + 1
        /\ o + 1 \in 1..(Len(buf) + 1)
    BY <2>1, StepFacts DEF IInv, Shape
  <2>3. buf' \in Seq(Byte) /\ Len(buf') = o'
    BY <2>1, <2>a, <2>b, <2>c, StoreType
  <2>4. 8 * o' + Pending' = 8 * o + Pending + 6
    BY <2>1 DEF At, Resume, Pending, IInv, Shape
  <2>5. QED
    BY <2>1, <2>3, <2>4, ResumeInv DEF IInv, Shape
<1>14. CASE Leave
  <2>1. plainchar' \in Byte
    BY <1>14, ZeroByteType DEF Leave, Load, IInv, Shape, WrittenAhead
  <2>2. /\ pc = "chars" /\ pos = lim /\ pc' = "dispatch"
        /\ UNCHANGED << step, kernel, input, begin, end, pos, lim, buf, o, plain >>
    BY <1>14 DEF Leave, piece
  <2>3. Shape' /\ WrittenAhead'
    BY <2>1, <2>2 DEF IInv, Shape, WrittenAhead
  <2>4. BitsPaidFor'
    BY <2>2 DEF IInv, Shape, BitsPaidFor, Pending
  <2>5. QED
    BY <2>3, <2>4 DEF IInv
<1>15. CASE UNCHANGED vars
  BY <1>15 DEF vars, state, piece, IInv, Shape, WrittenAhead, BitsPaidFor, Pending
<1>16. QED
  BY <1>1, <1>2, <1>3, <1>4, <1>5, <1>6, <1>7, <1>8, <1>9, <1>10, <1>11, <1>12,
     <1>13, <1>14, <1>15 DEF Next, Inside

(* The invariant holds of every behaviour.                                 *)
LEMMA Invariant == Spec => []IInv
BY InvInit, InvStep, PTL DEF Spec

-----------------------------------------------------------------------------
(* The type invariant of cdecode.c; in particular the kernels and the quad *)
(* loop never take more characters than the piece has.                     *)
THEOREM TypeCorrect == Spec => []TypeOK
<1>1. IInv => TypeOK
  <2> SUFFICES ASSUME IInv PROVE TypeOK
    OBVIOUS
  <2>1. \A s \in Seq(Byte) : s \in Seq(Cell)
    BY DEF Cell
  <2>2. lim \in 0..end /\ (pc \in {"quads", "chars"} => pos <= lim)
    BY DEF IInv, Shape
  <2>3. QED
    BY <2>1, <2>2 DEF IInv, Shape, TypeOK, Cell
<1>2. QED
  BY <1>1, Invariant, PTL

(* The parked byte, the delivered bytes and everything in the buffer come  *)
(* from stores of this stream, whichever mixture of kernel, quad loop and  *)
(* coroutine ran: what the comment at step_a's return is about.            *)
THEOREM NeverUnwritten == Spec => []NothingUnwritten
<1>1. IInv => NothingUnwritten
  <2> SUFFICES ASSUME IInv PROVE NothingUnwritten
    OBVIOUS
  <2>1. \A s \in Seq(Byte) : \A i \in 1..Len(s) : s[i] # UNINIT
    BY CdecodeAssumption
  <2>2. QED
    BY <2>1, CdecodeAssumption DEF IInv, Shape, NothingUnwritten
<1>2. QED
  BY <1>1, Invariant, PTL

(* n characters of input end in at most so many bytes of output.           *)
LEMMA MaxLengthIs ==
    ASSUME NEW n \in 0..SizeMax
    PROVE  DecodeMaxLength(n) = (n \div 4) * 3 + 3
<1> DEFINE q == n \div 4
<1>1. q \in Nat /\ 4 * q <= n /\ n < 4 * q + 4
  BY SizeMaxAssumption
<1>2. q * 3 + 3 \in 0..SizeMax
  BY <1>1, SizeMaxAssumption
<1> HIDE DEF q
<1>3. \A x \in 0..SizeMax : SizeT(x) = x
  BY SizeMaxAssumption DEF SizeT
<1>4. QED
  BY <1>2, <1>3 DEF DecodeMaxLength, q

(* A call never stores outside the buffer base64_decode_maxlength sizes,   *)
(* for any text, any piece of it, any state left by the pieces before and  *)
(* any kernel: the +3 in that function is enough.                          *)
THEOREM DecodeFits == Spec => []Fits
<1>1. IInv => Fits
  <2> SUFFICES ASSUME IInv PROVE Fits
    OBVIOUS
  <2> DEFINE n == end - begin
             q == n \div 4
  <2>1. n \in 0..SizeMax /\ pos - begin \in 0..n /\ o \in Nat /\ Len(buf) \in Nat
    <3>1. /\ end \in 0..Len(input) /\ begin \in 0..end /\ pos \in begin..end
          /\ Len(input) \in Nat /\ Len(input) <= SizeMax
      BY InputChars DEF IInv, Shape
    <3>2. o \in Nat /\ Len(buf) \in Nat
      BY DEF IInv, Shape
    <3>3. QED
      BY <3>1, <3>2, SizeMaxAssumption
  <2>2. DecodeMaxLength(n) = q * 3 + 3
    BY <2>1, MaxLengthIs
  <2>3. q \in Nat /\ 4 * q <= n /\ n <= 4 * q + 3
    BY <2>1
  <2> HIDE DEF n, q
  <2>4. Len(buf) = 0 \/ Len(buf) = o \/ Len(buf) = o + 1
    BY <2>1 DEF IInv, Shape, WrittenAhead
  <2>5. pc # "idle" => 8 * o + Pending <= 6 * n + 6
    <3>1. pos - begin <= n
      BY <2>1
    <3>2. 6 * (pos - begin) + 6 <= 6 * n + 6
      BY <2>1
    <3>3. Pending \in Nat
      BY DEF Pending, IInv, Shape
    <3>4. QED
      BY <2>1, <3>2, <3>3 DEF IInv, BitsPaidFor
  <2>6. CASE pc = "idle"
    BY <2>2, <2>3, <2>6 DEF IInv, WrittenAhead, Fits, n
  <2>7. CASE pc # "idle" /\ Len(buf) = o
    <3>0. Pending \in Nat
      BY DEF Pending, IInv, Shape
    <3>1. 8 * o <= 6 * n + 6
      BY <2>1, <2>5, <2>7, <3>0
    <3>2. o <= q * 3 + 3
      BY <2>1, <2>3, <3>1
    <3>3. QED
      BY <2>2, <2>7, <3>2 DEF Fits, n
  <2>8. CASE pc # "idle" /\ Len(buf) = o + 1
    <3>1. 8 * o <= 6 * n + 4
      <4>1. CASE step # "a"
        <5>1. Pending \in Nat /\ Pending >= 2
          BY <4>1 DEF Pending, IInv, Shape
        <5>2. QED
          BY <2>1, <2>5, <2>8, <5>1
      <4>2. CASE step = "a"
        <5>1. 8 * o <= 6 * (pos - begin) \/ pos < lim
          BY <2>8, <4>2 DEF IInv, BitsPaidFor
        <5>2. CASE 8 * o <= 6 * (pos - begin)
          BY <2>1, <5>2
        <5>3. CASE pos < lim
          <6>1. pos - begin <= n - 1
            BY <5>3, InputChars DEF IInv, Shape, n
          <6>2. 8 * o <= 6 * (pos - begin) + 6
            BY <2>8, <4>2 DEF IInv, BitsPaidFor, Pending, Shape
          <6>3. QED
            BY <2>1, <6>1, <6>2
        <5>4. QED
          BY <5>1, <5>2, <5>3
      <4>3. QED
        BY <4>1, <4>2
    <3>2. o + 1 <= q * 3 + 3
      BY <2>1, <2>3, <3>1
    <3>3. QED
      BY <2>2, <2>8, <3>2 DEF Fits, n
  <2>9. CASE pc # "idle" /\ Len(buf) = 0
    BY <2>2, <2>3, <2>9 DEF Fits, n
  <2>10. QED
    BY <2>4, <2>6, <2>7, <2>8, <2>9
<1>2. QED
  BY <1>1, Invariant, PTL

-----------------------------------------------------------------------------
(* The bytes delivered.  What a call has completed is what the 6-bit       *)
(* values taken so far make, the resume point is their place in the group  *)
(* of four, and the bits that complete no byte yet wait in the buffer      *)
(* behind the complete ones, or between two calls in plainchar.            *)

Seen == Values(input, pos)

GroupPlace == CASE step = "a" -> 0 [] step = "b" -> 1
                [] step = "c" -> 2 [] step = "d" -> 3

(* The byte that v begins and does not complete.                           *)
Begun(v) ==
    LET last == v[Len(v)]
    IN  CASE Len(v) % 4 = 1 -> << last[1], last[2], last[3], Zero >>
          [] Len(v) % 4 = 2 -> << last[2], last[3], Zero, Zero >>
          [] Len(v) % 4 = 3 -> << last[3], Zero, Zero, Zero >>

Delivered == plain \o SubSeq(buf, 1, o)

Progress ==
    /\ Len(Seen) % 4 = GroupPlace
    /\ Delivered = Bytes(Seen)
    /\ step # "a" => Begun(Seen) = IF pc = "chars" THEN buf[o + 1] ELSE plainchar

(* The types of what is read so far and of what is delivered for it.       *)
LEMMA SeenType ==
    ASSUME IInv
    PROVE  /\ input \in Seq(Char) /\ pos \in 0..Len(input)
           /\ Seen \in Seq(Sextet) /\ Len(Seen) \in Nat
           /\ Bytes(Seen) \in Seq(Byte)
           /\ plain \in Seq(Byte) /\ buf \in Seq(Byte) /\ o \in 0..Len(buf)
           /\ o \in Nat
           /\ SubSeq(buf, 1, o) \in Seq(Byte)
<1>1. input \in Seq(Char) /\ pos \in 0..Len(input)
  BY InputChars, CdecodeAssumption DEF IInv, Shape
<1>2. Seen \in Seq(Sextet)
  BY <1>1, ValuesType DEF Seen
<1>3. plain \in Seq(Byte) /\ buf \in Seq(Byte) /\ o \in 0..Len(buf)
  BY DEF IInv, Shape
<1>4. SubSeq(buf, 1, o) \in Seq(Byte) /\ o \in Nat
  BY <1>3
<1>5. Bytes(Seen) \in Seq(Byte)
  BY <1>2, BytesType
<1>6. Len(Seen) \in Nat
  BY <1>2
<1>7. QED
  BY <1>1, <1>2, <1>3, <1>4, <1>5, <1>6

(* Storing at place i leaves what is in front of it alone.                 *)
LEMMA StoreKeeps ==
    ASSUME NEW b \in Seq(Byte), NEW i \in 1..(Len(b) + 1), NEW v \in Byte
    PROVE  /\ Store(b, i, v)[i] = v
           /\ \A n \in 0..(i - 1) : SubSeq(Store(b, i, v), 1, n) = SubSeq(b, 1, n)
           /\ SubSeq(Store(b, i, v), 1, i) = Append(SubSeq(b, 1, i - 1), v)
<1> DEFINE s == Store(b, i, v)
<1>1. /\ s \in Seq(Byte) /\ s[i] = v /\ Len(s) >= i /\ Len(s) \in Nat
      /\ \A j \in 1..(i - 1) : s[j] = b[j]
  <2>1. CASE i > Len(b)
    BY <2>1 DEF Store
  <2>2. CASE i <= Len(b)
    BY <2>2 DEF Store
  <2>3. QED
    BY <2>1, <2>2
<1> HIDE DEF s
<1>2. ASSUME NEW n \in 0..(i - 1) PROVE SubSeq(s, 1, n) = SubSeq(b, 1, n)
  <2>1. n \in 0..Len(s) /\ n \in 0..Len(b) /\ \A j \in 1..n : s[j] = b[j]
    BY <1>1
  <2>2. SubSeq(s, 1, n) = [j \in 1..n |-> s[j]]
        /\ SubSeq(b, 1, n) = [j \in 1..n |-> b[j]]
    BY <1>1, <2>1
  <2>3. QED
    BY <2>1, <2>2
<1>3. SubSeq(s, 1, i) = Append(SubSeq(s, 1, i - 1), s[i])
  <2>1. i - 1 \in 0..(Len(s) - 1) /\ (i - 1) + 1 = i
    BY <1>1
  <2>2. \A n \in 0..(Len(s) - 1) :
          SubSeq(s, 1, n + 1) = Append(SubSeq(s, 1, n), s[n + 1])
    BY <1>1
  <2>3. QED
    BY <2>1, <2>2
<1>4. i - 1 \in 0..(i - 1)
  OBVIOUS
<1>5. QED
  BY <1>1, <1>2, <1>3, <1>4 DEF s

(* No characters have no values and no bytes.                              *)
LEMMA NothingSeen ==
    ASSUME NEW t \in Seq(Char)
    PROVE  /\ Values(t, 0) = << >> /\ Bytes(<< >>) = << >>
           /\ SubSeq(<< >>, 1, 0) = << >>
<1>1. SubSeq(t, 1, 0) = << >> /\ SubSeq(<< >>, 1, 0) = << >>
  BY SubSeqEmpty
<1>2. Values(t, 0) = << >>
  BY <1>1, AmongEmpty DEF Values
<1>3. << >> \in Seq(Sextet) /\ Len(<< >>) = 0 /\ (3 * 0) \div 4 = 0
  OBVIOUS
<1>4. Bytes(<< >>) \in Seq(Byte) /\ Len(Bytes(<< >>)) = 0
  BY <1>3, BytesType
<1>5. QED
  BY <1>1, <1>2, <1>4, EmptySeq

(* A step that moves neither input nor output keeps Progress, if the
   partial byte is the same in memory or in the state.                     *)
LEMMA SameProgress ==
    ASSUME Progress, UNCHANGED << input, pos, step, plain, buf, o >>,
           step # "a" => (IF pc' = "chars" THEN buf[o + 1] ELSE plainchar')
                         = (IF pc = "chars" THEN buf[o + 1] ELSE plainchar)
    PROVE  Progress'
BY DEF Progress, Seen, GroupPlace, Delivered

(* A call of the scalar core takes the parked byte back into the buffer.   *)
LEMMA EnterScalarProgress ==
    ASSUME IInv, Progress, pc # "chars", NEW l, EnterScalar(l),
           UNCHANGED << input, pos, step, plain, o >>
    PROVE  Progress'
<1>1. /\ Seen' = Seen /\ GroupPlace' = GroupPlace
      /\ pc' = IF step = "a" THEN "quads" ELSE "chars"
      /\ buf' = Store(buf, o + 1, plainchar)
  BY DEF Seen, GroupPlace, EnterScalar
<1>2. buf \in Seq(Byte) /\ plainchar \in Byte /\ o + 1 \in 1..(Len(buf) + 1)
      /\ o \in 0..((o + 1) - 1)
  BY DEF IInv, Shape
<1>3. buf'[o + 1] = plainchar /\ SubSeq(buf', 1, o) = SubSeq(buf, 1, o)
  BY <1>1, <1>2, StoreKeeps
<1>4. Delivered' = Delivered
  BY <1>3 DEF Delivered
<1>5. QED
  BY <1>1, <1>3, <1>4 DEF Progress

(* What TakeGroups stores is what its characters stand for.                *)
LEMMA GroupsAreBytes ==
    ASSUME IInv, NEW n \in Nat, n % 4 = 0, n > 0, pos + n <= end, CleanRun(pos, n)
    PROVE  LET r == SubSeq(input, pos + 1, pos + n)
           IN  /\ r \in Seq(Sextet) /\ Len(r) = n
               /\ Values(input, pos + n) = Seen \o r
               /\ StoreGroups(n) = SubSeq(buf, 1, o) \o Bytes(r)
<1> DEFINE r == SubSeq(input, pos + 1, pos + n)
           m == 3 * (n \div 4)
           value(i) == input[pos + i]
           cell(i) == LET g == 4 * ((i - 1) \div 3)
                      IN  Triple(value(g + 1), value(g + 2), value(g + 3),
                                 value(g + 4))[((i - 1) % 3) + 1]
           out == [i \in 1..m |-> cell(i)]
<1>1. input \in Seq(Char) /\ pos \in 0..Len(input) /\ n \in 0..(Len(input) - pos)
      /\ \A i \in (pos + 1)..(pos + n) : input[i] \in Sextet
  BY SeenType, InputChars DEF IInv, Shape, CleanRun, Alphabet
<1>2. /\ r \in Seq(Sextet) /\ Len(r) = n
      /\ \A i \in 1..n : r[i] = value(i)
      /\ Values(input, pos + n) = Seen \o r
  BY <1>1, ValuesRun DEF Seen
<1>3. m \in Nat /\ n \div 4 \in Nat /\ n = 4 * (n \div 4) /\ (3 * n) \div 4 = m
  OBVIOUS
<1> HIDE DEF r, value
<1>4. ASSUME NEW i \in 1..m
      PROVE  << ValueCrumb(r, 4 * (i - 1)),     ValueCrumb(r, 4 * (i - 1) + 1),
                ValueCrumb(r, 4 * (i - 1) + 2), ValueCrumb(r, 4 * (i - 1) + 3) >> = cell(i)
  <2> DEFINE k == (i - 1) \div 3
             g == 4 * k
             e == (i - 1) % 3
  <2>1. k \in 0..((n \div 4) - 1) /\ e \in 0..2 /\ i - 1 = 3 * k + e
    BY <1>3
  <2> HIDE DEF k, e
  <2>2. g + 1 \in 1..n /\ g + 2 \in 1..n /\ g + 3 \in 1..n /\ g + 4 \in 1..n
    BY <1>3, <2>1
  <2>3. /\ r[g + 1] = value(g + 1) /\ r[g + 2] = value(g + 2)
        /\ r[g + 3] = value(g + 3) /\ r[g + 4] = value(g + 4)
    BY <1>2, <2>2
  <2>4. \A q \in 0..3 : \A d \in 0..2 : ValueCrumb(r, 3 * (g + q) + d) = r[g + q + 1][d + 1]
    <3>1. ASSUME NEW q \in 0..3, NEW d \in 0..2
          PROVE  ValueCrumb(r, 3 * (g + q) + d) = r[g + q + 1][d + 1]
      <4>1. (3 * (g + q) + d) \div 3 = g + q /\ (3 * (g + q) + d) % 3 = d
        BY <2>1
      <4>2. QED
        BY <4>1 DEF ValueCrumb
    <3>2. QED
      BY <3>1
  <2>5. cell(i) = Triple(value(g + 1), value(g + 2), value(g + 3), value(g + 4))[e + 1]
    BY DEF k, e
  <2> HIDE DEF cell
  <2>6. /\ ValueCrumb(r, 3 * (g + 0) + 0) = value(g + 1)[1]
        /\ ValueCrumb(r, 3 * (g + 0) + 1) = value(g + 1)[2]
        /\ ValueCrumb(r, 3 * (g + 0) + 2) = value(g + 1)[3]
        /\ ValueCrumb(r, 3 * (g + 1) + 0) = value(g + 2)[1]
        /\ ValueCrumb(r, 3 * (g + 1) + 1) = value(g + 2)[2]
        /\ ValueCrumb(r, 3 * (g + 1) + 2) = value(g + 2)[3]
        /\ ValueCrumb(r, 3 * (g + 2) + 0) = value(g + 3)[1]
        /\ ValueCrumb(r, 3 * (g + 2) + 1) = value(g + 3)[2]
        /\ ValueCrumb(r, 3 * (g + 2) + 2) = value(g + 3)[3]
        /\ ValueCrumb(r, 3 * (g + 3) + 0) = value(g + 4)[1]
        /\ ValueCrumb(r, 3 * (g + 3) + 1) = value(g + 4)[2]
        /\ ValueCrumb(r, 3 * (g + 3) + 2) = value(g + 4)[3]
    <3>1. /\ g + 0 + 1 = g + 1 /\ g + 1 + 1 = g + 2 /\ g + 2 + 1 = g + 3
          /\ g + 3 + 1 = g + 4
      BY <2>1
    <3> HIDE DEF g
    <3>2. QED
      BY <2>3, <2>4, <3>1
  <2>7. CASE e = 0
    <3>1. /\ 4 * (i - 1) = 3 * (g + 0) + 0 /\ 4 * (i - 1) + 1 = 3 * (g + 0) + 1
          /\ 4 * (i - 1) + 2 = 3 * (g + 0) + 2 /\ 4 * (i - 1) + 3 = 3 * (g + 1) + 0
      BY <2>1, <2>7
    <3> HIDE DEF g
    <3>2. QED
      BY <2>5, <2>6, <2>7, <3>1 DEF Triple
  <2>8. CASE e = 1
    <3>1. /\ 4 * (i - 1) = 3 * (g + 1) + 1 /\ 4 * (i - 1) + 1 = 3 * (g + 1) + 2
          /\ 4 * (i - 1) + 2 = 3 * (g + 2) + 0 /\ 4 * (i - 1) + 3 = 3 * (g + 2) + 1
      BY <2>1, <2>8
    <3> HIDE DEF g
    <3>2. QED
      BY <2>5, <2>6, <2>8, <3>1 DEF Triple
  <2>9. CASE e = 2
    <3>1. /\ 4 * (i - 1) = 3 * (g + 2) + 2 /\ 4 * (i - 1) + 1 = 3 * (g + 3) + 0
          /\ 4 * (i - 1) + 2 = 3 * (g + 3) + 1 /\ 4 * (i - 1) + 3 = 3 * (g + 3) + 2
      BY <2>1, <2>9
    <3> HIDE DEF g
    <3>2. QED
      BY <2>5, <2>6, <2>9, <3>1 DEF Triple
  <2>10. QED
    BY <2>1, <2>7, <2>8, <2>9
<1>5. Bytes(r) = out
  <2> HIDE DEF cell
  <2>1. Bytes(r) = [i \in 1..m |->
                    << ValueCrumb(r, 4 * (i - 1)),     ValueCrumb(r, 4 * (i - 1) + 1),
                       ValueCrumb(r, 4 * (i - 1) + 2), ValueCrumb(r, 4 * (i - 1) + 3) >>]
    BY <1>2, <1>3 DEF Bytes
  <2>2. QED
    BY <1>4, <2>1
<1>6. Len(out) = m /\ Bytes(r) \in Seq(Byte)
  BY <1>2, <1>3, <1>5, BytesType
<1>7. SubSeq(buf, o + Len(out) + 1, Len(buf)) = << >>
  <2>1. Len(buf) <= o + 1 /\ o \in Nat /\ Len(buf) \in Nat /\ m >= 3
    BY <1>3 DEF IInv, WrittenAhead, Shape
  <2>2. Len(buf) < o + Len(out) + 1
    BY <1>6, <2>1
  <2>3. QED
    BY <2>1, <2>2, <1>6 DEF IInv, Shape
<1>8. StoreGroups(n) = SubSeq(buf, 1, o) \o out \o << >>
  BY <1>7 DEF StoreGroups, out, m, cell, value
<1>9. SubSeq(buf, 1, o) \o Bytes(r) \in Seq(Byte)
  BY <1>6, SeenType, ConcatProperties
<1> HIDE DEF out, m
<1>10. (SubSeq(buf, 1, o) \o Bytes(r)) \o << >> = SubSeq(buf, 1, o) \o Bytes(r)
  BY <1>9, ConcatEmptySeq
<1>11. StoreGroups(n) = SubSeq(buf, 1, o) \o Bytes(r)
  BY <1>5, <1>8, <1>10
<1>12. QED
  BY <1>2, <1>11 DEF r

(* The bytes a kernel stores are those of the groups it takes.             *)
LEMMA TakeGroupsProgress ==
    ASSUME IInv, Progress, step = "a", pc \in {"dispatch", "quads"},
           NEW n \in Nat, n % 4 = 0, n > 0, pos + n <= end,
           CleanRun(pos, n), TakeGroups(n)
    PROVE  Progress'
<1> DEFINE r == SubSeq(input, pos + 1, pos + n)
           done == SubSeq(buf, 1, o)
<1>1. /\ r \in Seq(Sextet) /\ Len(r) = n /\ Values(input, pos + n) = Seen \o r
      /\ StoreGroups(n) = done \o Bytes(r)
  BY GroupsAreBytes
<1> HIDE DEF r
<1>2. /\ Seen \in Seq(Sextet) /\ Len(Seen) \in Nat /\ plain \in Seq(Byte)
      /\ done \in Seq(Byte) /\ Bytes(r) \in Seq(Byte)
  BY <1>1, SeenType, BytesType
<1> HIDE DEF done
<1>3. /\ buf' = done \o Bytes(r) /\ o' = o + 3 * (n \div 4) /\ pos' = pos + n
      /\ UNCHANGED << step, pc, input, plain >>
  BY <1>1 DEF TakeGroups, state, piece
<1>4. Seen' = Seen \o r
  BY <1>1, <1>3 DEF Seen
<1>5. Len(Seen) % 4 = 0 /\ plain \o done = Bytes(Seen)
  BY DEF Progress, GroupPlace, Delivered, done
<1>6. Len(Seen') % 4 = 0
  <2>1. Len(Seen \o r) = Len(Seen) + n
    BY <1>1, <1>2, ConcatProperties
  <2>2. QED
    BY <1>2, <1>4, <1>5, <2>1, AfterWholeGroups
<1>7. SubSeq(buf', 1, o') = buf'
  <2>1. Len(buf') = o + 3 * (n \div 4)
    BY <1>1, <1>3, StoreGroupsType DEF IInv, WrittenAhead
  <2>2. buf' \in Seq(Byte)
    BY <1>2, <1>3, ConcatProperties
  <2>3. QED
    BY <1>3, <2>1, <2>2, SubSeqFull
<1>8. Delivered' = Bytes(Seen')
  <2>1. plain \o (done \o Bytes(r)) = (plain \o done) \o Bytes(r)
    <3>1. \A x, y, z \in Seq(Byte) : (x \o y) \o z = x \o (y \o z)
      BY Associative
    <3>2. QED
      BY <1>2, <3>1, Zenon
  <2>2. Bytes(Seen \o r) = Bytes(Seen) \o Bytes(r)
    BY <1>1, <1>2, <1>5, BytesJoin
  <2>3. Delivered' = plain \o (done \o Bytes(r))
    BY <1>3, <1>7 DEF Delivered
  <2>4. QED
    BY <1>4, <1>5, <2>1, <2>2, <2>3, Zenon
<1>9. GroupPlace' = 0 /\ step' = "a"
  BY <1>3 DEF GroupPlace
<1>10. QED
  BY <1>6, <1>8, <1>9 DEF Progress

(* One alphabet character through the coroutine.                           *)
LEMMA OneMoreValue ==
    ASSUME IInv, Progress, NEW s \in {"a", "b", "c", "d"}, At(s),
           NEW t \in {"a", "b", "c", "d"}, Resume(t),
           t = CASE s = "a" -> "b" [] s = "b" -> "c" [] s = "c" -> "d" [] s = "d" -> "a"
    PROVE  /\ Seen' = Append(Seen, Value) /\ Value \in Sextet
           /\ Seen'[Len(Seen')] = Value
           /\ Len(Seen) % 4 = GroupPlace /\ Len(Seen') % 4 = GroupPlace'
           /\ step = s /\ step' = t /\ pc' = IF t = "a" THEN "quads" ELSE "chars"
           /\ Bytes(Seen') = IF s = "a" THEN Bytes(Seen)
                             ELSE Append(Bytes(Seen), Completed(Seen, Value))
           /\ s # "a" => Begun(Seen) = buf[o + 1] /\ Load(o + 1) = buf[o + 1]
           /\ UNCHANGED plain
<1>1. /\ input \in Seq(Char) /\ pos \in 0..Len(input)
      /\ Seen \in Seq(Sextet) /\ Len(Seen) \in Nat
  BY SeenType
<1>2. /\ UNCHANGED << input, plain >> /\ pos' = pos + 1 /\ step' = t
      /\ pc' = IF t = "a" THEN "quads" ELSE "chars"
  BY DEF Resume, piece
<1>3. /\ Value \in Sextet /\ pc = "chars" /\ step = s
      /\ s # "a" => Len(buf) = o + 1
  BY StepFacts
<1>4. pos \in 0..(Len(input) - 1)
  <2>1. pos < lim /\ lim <= end /\ end <= Len(input) /\ lim \in Nat /\ end \in Nat
        /\ Len(input) \in Nat
    BY InputChars DEF At, IInv, Shape
  <2>2. QED
    BY <1>1, <2>1
<1>5. Seen' = Append(Seen, Value)
  BY <1>1, <1>2, <1>3, <1>4, ValuesNext DEF Seen, Value
<1>6. Len(Seen') = Len(Seen) + 1 /\ Seen'[Len(Seen')] = Value
  BY <1>1, <1>3, <1>5
<1>7. Len(Seen) % 4 = GroupPlace
  BY DEF Progress
<1>8. Len(Seen') % 4 = GroupPlace'
  <2>1. \A n \in Nat : (n + 1) % 4 = IF n % 4 = 3 THEN 0 ELSE (n % 4) + 1
    OBVIOUS
  <2>2. Len(Seen') % 4 = IF GroupPlace = 3 THEN 0 ELSE GroupPlace + 1
    BY <1>1, <1>6, <1>7, <2>1
  <2>3. QED
    BY <1>2, <1>3, <2>2 DEF GroupPlace
<1>9. Bytes(Seen') = IF s = "a" THEN Bytes(Seen)
                     ELSE Append(Bytes(Seen), Completed(Seen, Value))
  <2>1. Bytes(Append(Seen, Value)) = IF Len(Seen) % 4 = 0 THEN Bytes(Seen)
                                     ELSE Append(Bytes(Seen), Completed(Seen, Value))
    BY <1>1, <1>3, BytesAppend
  <2>2. Len(Seen) % 4 = 0 <=> s = "a"
    BY <1>3, <1>7 DEF GroupPlace
  <2>3. QED
    BY <1>5, <2>1, <2>2
<1>10. s # "a" => Begun(Seen) = buf[o + 1] /\ Load(o + 1) = buf[o + 1]
  <2>1. s # "a" => Begun(Seen) = buf[o + 1]
    BY <1>3 DEF Progress
  <2>2. s # "a" => Load(o + 1) = buf[o + 1]
    BY <1>3, SeenType DEF Load
  <2>3. QED
    BY <2>1, <2>2
<1>11. QED
  BY <1>2, <1>3, <1>5, <1>6, <1>7, <1>8, <1>9, <1>10

(* OR with a zero crumb changes nothing.                                   *)
LEMMA OrZero == \A a \in Crumb : OrCrumb(a, Zero) = a /\ OrCrumb(Zero, a) = a
BY DEF OrCrumb

(* One byte completed is one byte more delivered.                          *)
LEMMA DeliverOne ==
    ASSUME IInv, NEW b \in Byte, SubSeq(buf', 1, o') = Append(SubSeq(buf, 1, o), b),
           UNCHANGED plain
    PROVE  Delivered' = Append(Delivered, b)
<1>1. plain \in Seq(Byte) /\ SubSeq(buf, 1, o) \in Seq(Byte)
  BY SeenType
<1>2. plain \o Append(SubSeq(buf, 1, o), b) = Append(plain \o SubSeq(buf, 1, o), b)
  <2>1. \A x, y \in Seq(Byte) : x \o Append(y, b) = Append(x \o y, b)
    BY AppendConcat
  <2>2. QED
    BY <1>1, <2>1, Zenon
<1>3. QED
  BY <1>2 DEF Delivered

(* A character at step a is skipped, or its sextet opens a byte.           *)
LEMMA StepAProgress == ASSUME IInv, Progress, StepA PROVE Progress'
<1> DEFINE v == Value
           first == << v[1], v[2], v[3], Zero >>
<1>1. At("a") /\ Resume("b") /\ o' = o /\ buf' = Store(buf, o + 1, first)
  BY DEF StepA
<1>2. /\ v \in Sextet /\ Seen'[Len(Seen')] = v /\ Len(Seen') % 4 = GroupPlace'
      /\ step' = "b" /\ pc' = "chars"
      /\ Bytes(Seen') = Bytes(Seen) /\ UNCHANGED plain
  BY <1>1, OneMoreValue
<1>3. /\ first \in Byte /\ buf \in Seq(Byte) /\ o + 1 \in 1..(Len(buf) + 1)
      /\ o \in 0..((o + 1) - 1)
  <2>1. first \in Byte
    BY <1>2, SextetParts, ByteMade, ZeroByteType
  <2>2. QED
    BY <2>1, SeenType
<1> HIDE DEF first
<1>4. buf'[o + 1] = first /\ SubSeq(buf', 1, o) = SubSeq(buf, 1, o)
  BY <1>1, <1>3, StoreKeeps
<1>5. Delivered' = Delivered
  BY <1>1, <1>2, <1>4 DEF Delivered
<1>6. Len(Seen') % 4 = 1
  BY <1>2 DEF GroupPlace
<1>7. Begun(Seen') = first
  BY <1>2, <1>6 DEF Begun, first
<1>8. QED
  BY <1>1, <1>2, <1>4, <1>5, <1>7 DEF Progress

(* A character that completes a byte and begins the next.                  *)
LEMMA CompleteProgress ==
    ASSUME IInv, NEW low \in Byte, NEW high \in Byte, NEW done \in Byte,
           Len(buf) = o + 1, OrByte(Load(o + 1), low) = done,
           Complete(low, high), UNCHANGED plain
    PROVE  Delivered' = Append(Delivered, done) /\ buf'[o' + 1] = high
<1> DEFINE b == Store(buf, o + 1, done)
<1>1. o \in Nat /\ buf \in Seq(Byte) /\ o + 1 \in 1..(Len(buf) + 1)
      /\ (o + 1) - 1 = o
  <2>1. o \in Nat /\ buf \in Seq(Byte)
    BY SeenType
  <2>2. QED
    BY <2>1
<1>2. b \in Seq(Byte) /\ Len(b) = o + 1
  BY <1>1, StoreType
<1>3. SubSeq(b, 1, o + 1) = Append(SubSeq(buf, 1, o), done)
  BY <1>1, StoreKeeps
<1>4. o' = o + 1 /\ buf' = Store(b, o + 2, high)
  BY DEF Complete
<1> HIDE DEF b
<1>5. o + 2 \in 1..(Len(b) + 1) /\ o + 1 \in 0..((o + 2) - 1) /\ o' + 1 = o + 2
  BY <1>1, <1>2, <1>4
<1> DEFINE at == o + 2
<1>6. at \in 1..(Len(b) + 1) /\ o + 1 \in 0..(at - 1) /\ buf' = Store(b, at, high)
  BY <1>4, <1>5
<1> HIDE DEF at
<1>7. Store(b, at, high)[at] = high
      /\ SubSeq(Store(b, at, high), 1, o + 1) = SubSeq(b, 1, o + 1)
  BY <1>2, <1>6, StoreKeeps
<1>8. buf'[o + 2] = high /\ SubSeq(buf', 1, o + 1) = SubSeq(b, 1, o + 1)
  BY <1>6, <1>7, Zenon DEF at
<1>9. SubSeq(buf', 1, o') = Append(SubSeq(buf, 1, o), done)
  BY <1>3, <1>4, <1>8
<1>10. QED
  BY <1>5, <1>8, <1>9, DeliverOne

(* A character at step b is skipped, or its sextet completes the first
   byte.                                                                   *)
LEMMA StepBProgress == ASSUME IInv, Progress, StepB PROVE Progress'
<1> DEFINE v == Value
           last == Seen[Len(Seen)]
           low == << Zero, Zero, Zero, v[1] >>
           high == << v[2], v[3], Zero, Zero >>
<1>1. At("b") /\ Resume("c") /\ Complete(low, high)
  BY DEF StepB
<1>2. /\ v \in Sextet /\ Seen'[Len(Seen')] = v
      /\ Len(Seen) % 4 = GroupPlace /\ Len(Seen') % 4 = GroupPlace'
      /\ step = "b" /\ step' = "c" /\ pc' = "chars"
      /\ Bytes(Seen') = Append(Bytes(Seen), Completed(Seen, v))
      /\ Begun(Seen) = buf[o + 1] /\ Load(o + 1) = buf[o + 1] /\ UNCHANGED plain
  BY <1>1, OneMoreValue
<1>3. Len(Seen) % 4 = 1 /\ Len(Seen') % 4 = 2
  BY <1>2 DEF GroupPlace
<1>4. last \in Sextet
  <2>1. Len(Seen) # 0
    BY <1>3, 0 % 4 = 0
  <2>2. QED
    BY <2>1, SeenType
<1>5. /\ Begun(Seen) = << last[1], last[2], last[3], Zero >>
      /\ Completed(Seen, v) = << last[1], last[2], last[3], v[1] >>
      /\ Begun(Seen') = high
  BY <1>2, <1>3 DEF Begun, Completed
<1>6. /\ last[1] \in Crumb /\ last[2] \in Crumb /\ last[3] \in Crumb
      /\ v[1] \in Crumb /\ v[2] \in Crumb /\ v[3] \in Crumb /\ Zero \in Crumb
  BY <1>2, <1>4, SextetParts, ZeroByteType
<1>7. low \in Byte /\ high \in Byte /\ Completed(Seen, v) \in Byte
      /\ Begun(Seen) \in Byte
  BY <1>5, <1>6, ByteMade
<1> HIDE DEF last, v
<1>8. OrByte(Load(o + 1), low) = Completed(Seen, v)
  <2>1. Load(o + 1) = << last[1], last[2], last[3], Zero >> /\ Load(o + 1) # UNINIT
    BY <1>2, <1>5, <1>7, CdecodeAssumption
  <2>2. QED
    BY <1>5, <1>6, <2>1, OrZero DEF OrByte
<1> HIDE DEF low, high
<1>9. Len(buf) = o + 1
  BY <1>1, StepFacts
<1>10. Delivered' = Append(Delivered, Completed(Seen, v)) /\ buf'[o' + 1] = high
  BY <1>1, <1>2, <1>7, <1>8, <1>9, CompleteProgress
<1>11. Delivered = Bytes(Seen)
  BY DEF Progress
<1>12. QED
  BY <1>2, <1>5, <1>10, <1>11 DEF Progress

(* A character at step c is skipped, or its sextet completes the second
   byte.                                                                   *)
LEMMA StepCProgress == ASSUME IInv, Progress, StepC PROVE Progress'
<1> DEFINE v == Value
           last == Seen[Len(Seen)]
           low == << Zero, Zero, v[1], v[2] >>
           high == << v[3], Zero, Zero, Zero >>
<1>1. At("c") /\ Resume("d") /\ Complete(low, high)
  BY DEF StepC
<1>2. /\ v \in Sextet /\ Seen'[Len(Seen')] = v
      /\ Len(Seen) % 4 = GroupPlace /\ Len(Seen') % 4 = GroupPlace'
      /\ step = "c" /\ step' = "d" /\ pc' = "chars"
      /\ Bytes(Seen') = Append(Bytes(Seen), Completed(Seen, v))
      /\ Begun(Seen) = buf[o + 1] /\ Load(o + 1) = buf[o + 1] /\ UNCHANGED plain
  BY <1>1, OneMoreValue
<1>3. Len(Seen) % 4 = 2 /\ Len(Seen') % 4 = 3
  BY <1>2 DEF GroupPlace
<1>4. last \in Sextet
  <2>1. Len(Seen) # 0
    BY <1>3, 0 % 4 = 0
  <2>2. QED
    BY <2>1, SeenType
<1>5. /\ Begun(Seen) = << last[2], last[3], Zero, Zero >>
      /\ Completed(Seen, v) = << last[2], last[3], v[1], v[2] >>
      /\ Begun(Seen') = high
  BY <1>2, <1>3 DEF Begun, Completed
<1>6. /\ last[1] \in Crumb /\ last[2] \in Crumb /\ last[3] \in Crumb
      /\ v[1] \in Crumb /\ v[2] \in Crumb /\ v[3] \in Crumb /\ Zero \in Crumb
  BY <1>2, <1>4, SextetParts, ZeroByteType
<1>7. low \in Byte /\ high \in Byte /\ Completed(Seen, v) \in Byte
      /\ Begun(Seen) \in Byte
  BY <1>5, <1>6, ByteMade
<1> HIDE DEF last, v
<1>8. OrByte(Load(o + 1), low) = Completed(Seen, v)
  <2>1. Load(o + 1) = << last[2], last[3], Zero, Zero >> /\ Load(o + 1) # UNINIT
    BY <1>2, <1>5, <1>7, CdecodeAssumption
  <2>2. QED
    BY <1>5, <1>6, <2>1, OrZero DEF OrByte
<1> HIDE DEF low, high
<1>9. Len(buf) = o + 1
  BY <1>1, StepFacts
<1>10. Delivered' = Append(Delivered, Completed(Seen, v)) /\ buf'[o' + 1] = high
  BY <1>1, <1>2, <1>7, <1>8, <1>9, CompleteProgress
<1>11. Delivered = Bytes(Seen)
  BY DEF Progress
<1>12. QED
  BY <1>2, <1>5, <1>10, <1>11 DEF Progress

(* A character at step d is skipped, or its sextet completes the third
   byte.                                                                   *)
LEMMA StepDProgress == ASSUME IInv, Progress, StepD PROVE Progress'
<1> DEFINE v == Value
           last == Seen[Len(Seen)]
           low == << Zero, v[1], v[2], v[3] >>
           done == Completed(Seen, v)
<1>1. /\ At("d") /\ Resume("a") /\ o' = o + 1
      /\ buf' = Store(buf, o + 1, OrByte(Load(o + 1), low))
  BY DEF StepD
<1>2. /\ v \in Sextet
      /\ Len(Seen) % 4 = GroupPlace /\ Len(Seen') % 4 = GroupPlace'
      /\ step = "d" /\ step' = "a"
      /\ Bytes(Seen') = Append(Bytes(Seen), done)
      /\ Begun(Seen) = buf[o + 1] /\ Load(o + 1) = buf[o + 1] /\ UNCHANGED plain
  BY <1>1, OneMoreValue
<1>3. Len(Seen) % 4 = 3
  BY <1>2 DEF GroupPlace
<1>4. last \in Sextet
  <2>1. Len(Seen) # 0
    BY <1>3, 0 % 4 = 0
  <2>2. QED
    BY <2>1, SeenType
<1>5. /\ Begun(Seen) = << last[3], Zero, Zero, Zero >>
      /\ done = << last[3], v[1], v[2], v[3] >>
  BY <1>2, <1>3 DEF Begun, Completed
<1>6. /\ last[3] \in Crumb /\ v[1] \in Crumb /\ v[2] \in Crumb /\ v[3] \in Crumb
      /\ Zero \in Crumb
  BY <1>2, <1>4, SextetParts, ZeroByteType
<1>7. done \in Byte /\ Begun(Seen) \in Byte
  BY <1>5, <1>6, ByteMade
<1> HIDE DEF last, v, done
<1>8. OrByte(Load(o + 1), low) = done
  <2>1. Load(o + 1) = << last[3], Zero, Zero, Zero >> /\ Load(o + 1) # UNINIT
    BY <1>2, <1>5, <1>7, CdecodeAssumption
  <2>2. QED
    BY <1>5, <1>6, <2>1, OrZero DEF OrByte
<1> HIDE DEF low
<1>9. buf \in Seq(Byte) /\ o + 1 \in 1..(Len(buf) + 1) /\ (o + 1) - 1 = o
  BY SeenType
<1>10. SubSeq(buf', 1, o') = Append(SubSeq(buf, 1, o), done)
  <2>1. SubSeq(Store(buf, o + 1, done), 1, o + 1)
          = Append(SubSeq(buf, 1, (o + 1) - 1), done)
    BY <1>7, <1>9, StoreKeeps
  <2>2. QED
    BY <1>1, <1>8, <1>9, <2>1
<1>11. Delivered' = Append(Delivered, done)
  BY <1>2, <1>7, <1>10, DeliverOne
<1>12. Delivered = Bytes(Seen)
  BY DEF Progress
<1>13. QED
  BY <1>2, <1>11, <1>12 DEF Progress

(* Nothing is read and nothing delivered at first.                         *)
LEMMA ProgressInit == Init => Progress
<1> SUFFICES ASSUME Init PROVE Progress
  OBVIOUS
<1>1. input \in Seq(Char) /\ pos = 0 /\ step = "a" /\ plain = << >> /\ buf = << >>
      /\ o = 0
  BY CdecodeAssumption DEF Init
<1>2. Seen = << >> /\ Bytes(<< >>) = << >> /\ SubSeq(<< >>, 1, 0) = << >>
  BY <1>1, NothingSeen DEF Seen
<1>3. Delivered = << >> /\ Len(Seen) % 4 = 0
  BY <1>1, <1>2 DEF Delivered
<1>4. QED
  BY <1>1, <1>2, <1>3 DEF Progress, GroupPlace

(* Every step keeps what is delivered equal to the bytes of what is read.  *)
LEMMA ProgressStep == IInv /\ Progress /\ [Next]_vars => Progress'
<1> SUFFICES ASSUME IInv, Progress, [Next]_vars PROVE Progress'
  OBVIOUS
<1>1. CASE InitState
  <2>1. input \in Seq(Char) /\ o \in 0..Len(buf) /\ buf \in Seq(Byte)
    BY SeenType
  <2>2. Len(buf) = 0
    BY <1>1 DEF InitState, IInv, WrittenAhead
  <2>3. buf = << >> /\ o = 0
    BY <2>1, <2>2, EmptySeq
  <2>4. input' = input /\ pos' = 0 /\ step' = "a" /\ plain' = << >>
        /\ buf' = << >> /\ o' = 0
    BY <1>1, <2>3 DEF InitState
  <2>5. Seen' = << >> /\ Bytes(<< >>) = << >> /\ SubSeq(<< >>, 1, 0) = << >>
    BY <2>1, <2>4, NothingSeen DEF Seen
  <2>6. Delivered' = << >> /\ Len(Seen') % 4 = 0
    BY <2>4, <2>5 DEF Delivered
  <2>7. QED
    BY <2>4, <2>5, <2>6 DEF Progress, GroupPlace
<1>2. CASE DecodeBlock
  BY <1>2, SameProgress DEF DecodeBlock, BeginCall, state
<1>3. CASE DecodeBlockScalar
  BY <1>3, EnterScalarProgress DEF DecodeBlockScalar, BeginCall, state
<1>4. CASE KernelStep
  <2>1. /\ kernel \in Nat /\ kernel % 4 = 0 /\ kernel > 0 /\ pos + kernel <= end
        /\ CleanRun(pos, kernel) /\ step = "a" /\ pc = "dispatch"
    BY <1>4, InputChars, CdecodeAssumption DEF KernelStep, KernelReady, IInv, Shape
  <2>2. QED
    BY <1>4, <2>1, TakeGroupsProgress DEF KernelStep
<1>5. CASE CallScalar
  BY <1>5, EnterScalarProgress DEF CallScalar, state, piece
<1>6. CASE Return
  <2>1. /\ plain' = Delivered /\ buf' = << >> /\ o' = 0 /\ pc' = "idle" /\ pc = "dispatch"
        /\ UNCHANGED << step, plainchar, input, pos >>
    BY <1>6 DEF Return, Delivered, state, piece
  <2>2. Delivered \in Seq(Byte)
    BY SeenType, ConcatProperties DEF Delivered
  <2>3. SubSeq(<< >>, 1, 0) = << >>
    BY SubSeqEmpty
  <2>4. Delivered' = Delivered
    BY <2>1, <2>2, <2>3, ConcatEmptySeq DEF Delivered
  <2>5. Seen' = Seen /\ GroupPlace' = GroupPlace
    BY <2>1 DEF Seen, GroupPlace
  <2>6. QED
    BY <2>1, <2>4, <2>5 DEF Progress
<1>7. CASE QuadStep
  <2>1. pos + 4 <= lim /\ pos + 4 <= end /\ CleanRun(pos, 4)
        /\ step = "a" /\ pc = "quads"
    BY <1>7, InputChars DEF QuadStep, QuadReady, IInv, Shape, WrittenAhead
  <2>2. QED
    BY <1>7, <2>1, TakeGroupsProgress, 4 % 4 = 0 DEF QuadStep
<1>8. CASE QuadsDone
  <2>1. step = "a"
    BY <1>8 DEF QuadsDone, IInv, WrittenAhead
  <2>2. QED
    BY <1>8, <2>1, SameProgress DEF QuadsDone, state, piece
<1>9. CASE Skip
  <2>1. /\ pc = "chars" /\ pos < lim /\ pos' = pos + 1 /\ input[pos + 1] \notin Sextet
        /\ UNCHANGED << step, plainchar, pc, input, buf, o, plain >>
    BY <1>9 DEF Skip, Alphabet, state, piece
  <2>2. input \in Seq(Char) /\ pos \in 0..(Len(input) - 1)
    <3>1. lim <= end /\ end <= Len(input) /\ lim \in Nat /\ end \in Nat
      BY InputChars DEF IInv, Shape
    <3>2. QED
      BY <2>1, <3>1, SeenType
  <2>3. Seen' = Seen
    BY <2>1, <2>2, ValuesNext DEF Seen
  <2>4. QED
    BY <2>1, <2>3 DEF Progress, Delivered, GroupPlace
<1>10. CASE StepA \/ StepB \/ StepC \/ StepD
  BY <1>10, StepAProgress, StepBProgress, StepCProgress, StepDProgress
<1>11. CASE Leave
  <2>1. /\ pc = "chars" /\ pc' = "dispatch"
        /\ UNCHANGED << step, input, pos, plain, buf, o >>
        /\ step # "a" => plainchar' = Load(o + 1)
    BY <1>11 DEF Leave, piece
  <2>2. step # "a" => Load(o + 1) = buf[o + 1]
    <3>1. step # "a" => Len(buf) = o + 1
      BY <2>1 DEF IInv, WrittenAhead
    <3>2. QED
      BY <3>1, SeenType DEF Load
  <2>3. QED
    BY <2>1, <2>2, SameProgress
<1>12. CASE UNCHANGED vars
  BY <1>12, SameProgress DEF vars, state, piece
<1>13. QED
  BY <1>1, <1>2, <1>3, <1>4, <1>5, <1>6, <1>7, <1>8, <1>9, <1>10, <1>11, <1>12
     DEF Next, Inside

(* The abstract specification's bytes are the ones of B64Units.            *)
LEMMA SameBytes ==
    ASSUME NEW t, NEW m
    PROVE  Text!Bytes(Text!Values(t, m)) = Bytes(Values(t, m))
BY DEF Text!Bytes, Bytes, Text!ValueCrumb, ValueCrumb, Text!Values, Values,
       Text!Among, Among, Text!Sextet, Sextet

(* Characters are only ever taken forwards, within the text.               *)
LEMMA Advances ==
    ASSUME IInv, IInv', [Next]_vars, ~InitState
    PROVE  /\ UNCHANGED input
           /\ pos' = pos \/ pos' \in (pos + 1)..Len(input)
<1>1. UNCHANGED input
  BY DEF Next, Inside, DecodeBlock, DecodeBlockScalar, BeginCall, KernelStep,
         CallScalar, Return, QuadStep, QuadsDone, Skip, StepA, StepB, StepC,
         StepD, Leave, TakeGroups, Resume, state, piece, vars
<1>2. pos \in 0..Len(input) /\ pos' \in 0..Len(input')
  <2>1. Len(input) \in Nat
    BY SeenType
  <2>2. end' \in 0..Len(input') /\ begin' \in 0..end' /\ pos' \in begin'..end'
    BY DEF IInv, Shape
  <2>3. pos' \in 0..Len(input')
    BY <1>1, <2>1, <2>2
  <2>4. QED
    BY <2>3, SeenType
<1>3. \/ pos' = pos \/ pos' = pos + 1 \/ pos' = pos + 4
      \/ KernelStep /\ pos' = pos + kernel
  BY DEF Next, Inside, DecodeBlock, DecodeBlockScalar, BeginCall, KernelStep,
         CallScalar, Return, QuadStep, QuadsDone, Skip, StepA, StepB, StepC,
         StepD, Leave, TakeGroups, Resume, state, piece, vars
<1>4. KernelStep => kernel \in Nat /\ kernel > 0
  BY CdecodeAssumption DEF KernelStep, KernelReady, IInv, Shape
<1>5. Len(input) \in Nat
  BY SeenType
<1>6. QED
  BY <1>1, <1>2, <1>3, <1>4, <1>5

(* Every step is a step of DecodeText or leaves its variables alone.       *)
LEMMA DecodeRefines ==
    ASSUME IInv, IInv', Progress, Progress', [Next]_vars
    PROVE  [Text!Next]_(Text!vars)
<1>1. CASE InitState
  <2>1. input' = input /\ pos' = 0
    BY <1>1 DEF InitState
  <2>2. Seen' = << >> /\ Bytes(<< >>) = << >>
    BY <2>1, SeenType, NothingSeen DEF Seen
  <2>3. Delivered' = << >>
    BY <2>2 DEF Progress
  <2>4. Text!Restart
    BY <2>1, <2>3 DEF Text!Restart, Delivered
  <2>5. QED
    BY <2>4 DEF Text!Next
<1>2. CASE ~InitState /\ pos' = pos
  <2>1. input' = input
    BY <1>2, Advances
  <2>2. Seen' = Seen
    BY <1>2, <2>1 DEF Seen
  <2>3. Delivered' = Delivered
    BY <2>2 DEF Progress
  <2>4. QED
    BY <1>2, <2>1, <2>3 DEF Text!vars, Delivered
<1>3. CASE ~InitState /\ pos' # pos
  <2>1. input' = input /\ pos' \in (pos + 1)..Len(input)
    BY <1>3, Advances
  <2>2. Delivered' = Bytes(Values(input, pos'))
    BY <2>1 DEF Progress, Seen
  <2>3. Text!Take
    BY <2>1, <2>2, SameBytes DEF Text!Take, Delivered
  <2>4. QED
    BY <2>3 DEF Text!Next
<1>4. QED
  BY <1>1, <1>2, <1>3

(* The decoder is a DecodeText: for every text, every cut of it into       *)
(* calls, every kernel and every mixture of characters outside the         *)
(* alphabet, what has been delivered and completed at any step of any call *)
(* is what the 6-bit values taken so far determine.                        *)
THEOREM RefinesDecodeText == Spec => ImplementsText
<1>1. Init => Text!Init
  <2> SUFFICES ASSUME Init PROVE Text!Init
    OBVIOUS
  <2>1. SubSeq(<< >>, 1, 0) = << >>
    BY SubSeqEmpty
  <2>2. QED
    BY <2>1 DEF Init, Text!Init
<1>2. Init => IInv /\ Progress
  BY InvInit, ProgressInit
<1>3. IInv /\ Progress /\ [Next]_vars =>
        (IInv /\ Progress)' /\ [Text!Next]_(Text!vars)
  BY InvStep, ProgressStep, DecodeRefines
<1>4. QED
  BY <1>1, <1>2, <1>3, PTL DEF Spec, ImplementsText, Text!Spec

-----------------------------------------------------------------------------
(* What a piece adds completes the bytes of the text.                      *)
LEMMA BytesInPieces ==
    ASSUME NEW t \in Seq(Char), NEW u \in Seq(Char)
    PROVE  Decoded(t) \o PieceBytes(t, u) = Decoded(t \o u)
<1>1. Decoded(t) \in Seq(Byte)
  BY DecodedType
<1>2. Extends(Byte, Decoded(t \o u), Decoded(t))
  BY DecodedExtends
<1>3. QED
  BY <1>1, <1>2, RestOf DEF PieceBytes, Beyond

-----------------------------------------------------------------------------
(* What the callers of whole calls may rely on.                            *)

(* Between two calls all of every piece has been taken, and delivered are  *)
(* the bytes of the text given: if the last call began when n characters   *)
(* had been, what had been delivered then and one PieceBytes.              *)
CallsDeliverPieces ==
    LET text(n) == SubSeq(input, 1, n)
    IN  pc = "idle" =>
            /\ pos = end
            /\ plain = Decoded(text(end))
            /\ \A n \in 0..end :
                 plain = Decoded(text(n))
                           \o PieceBytes(text(n), SubSeq(input, n + 1, end))

AllTaken == pc = "idle" => pos = end

(* No step leaves a call before its end.                                   *)
LEMMA AllTakenStep == AllTaken /\ [Next]_vars => AllTaken'
<1> SUFFICES ASSUME AllTaken, [Next]_vars PROVE AllTaken'
  OBVIOUS
<1>1. CASE InitState
  BY <1>1 DEF AllTaken, InitState
<1>2. CASE DecodeBlock \/ DecodeBlockScalar
  BY <1>2 DEF AllTaken, DecodeBlock, DecodeBlockScalar, EnterScalar
<1>3. CASE KernelStep \/ CallScalar \/ QuadStep \/ QuadsDone \/ Skip \/ Leave
  BY <1>3 DEF AllTaken, KernelStep, CallScalar, EnterScalar, QuadStep, QuadsDone,
              Skip, Leave, TakeGroups
<1>4. CASE StepA \/ StepB \/ StepC \/ StepD
  BY <1>4 DEF AllTaken, StepA, StepB, StepC, StepD, Resume
<1>5. CASE Return \/ UNCHANGED vars
  BY <1>5 DEF AllTaken, Return, piece, vars
<1>6. QED
  BY <1>1, <1>2, <1>3, <1>4, <1>5 DEF Next, Inside

(* What the C++ decoder and base64_decode_alloc take a call of             *)
(* base64_decode_block to do: whatever was decoded before, each call on    *)
(* return has delivered the PieceBytes of its piece, for every text, every *)
(* kernel and however often kernel and scalar core took turns.             *)
THEOREM CallsDeliverTheirPiece == Spec => []CallsDeliverPieces
<1>1. Init => IInv /\ Progress /\ AllTaken
  BY InvInit, ProgressInit DEF Init, AllTaken
<1>2. IInv /\ Progress /\ AllTaken /\ [Next]_vars => (IInv /\ Progress /\ AllTaken)'
  BY InvStep, ProgressStep, AllTakenStep
<1>3. IInv /\ Progress /\ AllTaken => CallsDeliverPieces
  <2> SUFFICES ASSUME IInv, Progress, AllTaken, pc = "idle"
               PROVE  CallsDeliverPieces
    BY DEF CallsDeliverPieces
  <2> DEFINE text(n) == SubSeq(input, 1, n)
  <2>1. /\ input \in Seq(Char) /\ end \in 0..Len(input) /\ pos = end
        /\ plain \in Seq(Byte)
    BY SeenType DEF AllTaken
  <2>2. buf = << >> /\ o = 0
    <3>1. buf \in Seq(Byte) /\ Len(buf) = 0 /\ o \in 0..Len(buf)
      BY DEF IInv, Shape, WrittenAhead
    <3>2. QED
      BY <3>1
  <2>3. plain = Bytes(Values(input, end))
    <3>1. SubSeq(buf, 1, o) = << >>
      BY <2>2, SubSeqEmpty
    <3>2. plain \o << >> = plain
      BY <2>1, ConcatProperties
    <3>3. QED
      BY <2>1, <3>1, <3>2 DEF Progress, Delivered, Seen
  <2>4. ASSUME NEW n \in 0..end PROVE text(n) \in Seq(Char) /\ n \in 0..Len(input)
    BY <2>1
  <2>5. plain = Decoded(text(end))
    <3>1. text(end) \in Seq(Char)
      BY <2>1
    <3>2. Values(text(end), Len(text(end))) = Among(Sextet, text(end))
      BY <3>1, ValuesIs
    <3>3. Values(input, end) = Among(Sextet, text(end))
      BY DEF Values
    <3>4. QED
      BY <2>3, <3>2, <3>3 DEF Decoded
  <2>6. ASSUME NEW n \in 0..end
        PROVE  plain = Decoded(text(n)) \o PieceBytes(text(n), SubSeq(input, n + 1, end))
    <3> DEFINE last == SubSeq(input, n + 1, end)
    <3>1. n \in 0..Len(input) /\ end \in n..Len(input)
      BY <2>1, <2>4
    <3>2. last \in Seq(Char) /\ text(n) \in Seq(Char)
      BY <2>1, <2>4, <3>1, PieceType
    <3>3. text(n) \o last = text(end)
      BY <2>1, <3>1, PiecesJoin
    <3> HIDE DEF last, text
    <3>4. QED
      BY <2>5, <3>2, <3>3, BytesInPieces DEF last
  <2>7. QED
    BY <2>1, <2>5, <2>6 DEF CallsDeliverPieces
<1>4. QED
  BY <1>1, <1>2, <1>3, PTL DEF Spec

-----------------------------------------------------------------------------
(* How long a call takes.  DecodeReturns says that it ends, by the         *)
(* fairness of its steps; what every step brings nearer is the end of the  *)
(* piece or of the turn of kernel or scalar core.                          *)

(* Entering the scalar core brings nothing nearer by itself: that it is    *)
(* called on one character at least, and leaves only when its characters   *)
(* are used up, is what ends the alternation.                              *)
StepsLeft ==
    5 * (end - pos) +
      CASE pc = "idle" -> 0
        [] pc = "dispatch" -> 3
        [] pc = "quads" -> IF pos < lim THEN 2 ELSE 5
        [] pc = "chars" -> IF pos < lim THEN 1 ELSE 4

(* A call on n characters takes 5 * n + 5 steps at the most: each leaves   *)
(* fewer to be taken, and there are none to take outside a call.           *)
CallsBounded ==
    [][/\ DecodeBlock \/ DecodeBlockScalar =>
            StepsLeft' \in 1..(5 * (end' - begin') + 5)
       /\ Inside => StepsLeft' \in Nat /\ StepsLeft' < StepsLeft
       /\ pc' = "idle" => StepsLeft' = 0]_vars

(* What CallsBounded says of one step.                                     *)
LEMMA StepsCount ==
    ASSUME IInv, IInv', AllTaken', Next
    PROVE  /\ DecodeBlock \/ DecodeBlockScalar =>
                StepsLeft' \in 1..(5 * (end' - begin') + 5)
           /\ Inside => StepsLeft' \in Nat /\ StepsLeft' < StepsLeft
           /\ pc' = "idle" => StepsLeft' = 0
<1>1. /\ end \in Nat /\ pos \in Nat /\ pos <= end /\ lim \in Nat
      /\ end' \in Nat /\ pos' \in Nat /\ pos' <= end' /\ lim' \in Nat
      /\ begin' \in Nat /\ begin' <= pos'
      /\ pc \in {"idle", "dispatch", "quads", "chars"}
      /\ pc' \in {"idle", "dispatch", "quads", "chars"}
      /\ pc \in {"quads", "chars"} => pos <= lim
  <2>1. Len(input) \in Nat /\ Len(input') \in Nat
    BY InputChars, CdecodeAssumption DEF IInv, Shape
  <2>2. QED
    BY <2>1 DEF IInv, Shape
<1>2. StepsLeft' \in Nat
  BY <1>1 DEF StepsLeft
<1>3. ASSUME DecodeBlock \/ DecodeBlockScalar
      PROVE  StepsLeft' \in 1..(5 * (end' - begin') + 5)
  <2>1. begin' = pos /\ pos' = pos
    BY <1>3 DEF DecodeBlock, DecodeBlockScalar, BeginCall
  <2>2. pc' = "dispatch" \/ (pc' \in {"quads", "chars"} /\ lim' = end' /\ end' > pos)
    BY <1>3 DEF DecodeBlock, DecodeBlockScalar, EnterScalar
  <2>3. QED
    BY <1>1, <2>1, <2>2 DEF StepsLeft
<1>4. ASSUME Inside PROVE StepsLeft' < StepsLeft
  <2>1. CASE KernelStep
    <3>1. kernel \in Nat \ {0}
      BY <2>1, CdecodeAssumption DEF KernelStep, KernelReady, IInv, Shape
    <3>2. pc = "dispatch" /\ pc' = pc /\ pos' = pos + kernel /\ end' = end
      BY <2>1 DEF KernelStep, TakeGroups, piece
    <3>3. QED
      BY <1>1, <3>1, <3>2 DEF StepsLeft
  <2>2. CASE CallScalar
    <3>1. pc = "dispatch" /\ pc' \in {"quads", "chars"} /\ pos' = pos /\ end' = end
      BY <2>2 DEF CallScalar, EnterScalar, piece
    <3>2. lim' \in (pos + 1)..end
      BY <2>2 DEF CallScalar, EnterScalar
    <3>3. QED
      BY <1>1, <3>1, <3>2 DEF StepsLeft
  <2>3. CASE Return
    BY <1>1, <2>3 DEF Return, piece, StepsLeft
  <2>4. CASE QuadStep
    <3>1. pc = "quads" /\ pc' = pc /\ pos' = pos + 4 /\ end' = end /\ lim' = lim
          /\ lim - pos >= 4
      BY <2>4 DEF QuadStep, QuadReady, TakeGroups, piece
    <3>2. QED
      BY <1>1, <3>1 DEF StepsLeft
  <2>5. CASE QuadsDone
    <3>1. pc = "quads" /\ pc' = "chars" /\ pos' = pos /\ end' = end /\ lim' = lim
      BY <2>5 DEF QuadsDone, piece
    <3>2. QED
      BY <1>1, <3>1 DEF StepsLeft
  <2>6. CASE Skip \/ StepA \/ StepB \/ StepC \/ StepD
    <3>1. pc = "chars" /\ pc' \in {"quads", "chars"} /\ pos < lim
          /\ pos' = pos + 1 /\ end' = end /\ lim' = lim
      BY <2>6 DEF Skip, StepA, StepB, StepC, StepD, At, Resume, piece
    <3>2. QED
      BY <1>1, <3>1 DEF StepsLeft
  <2>7. CASE Leave
    <3>1. pc = "chars" /\ pc' = "dispatch" /\ pos = lim /\ pos' = pos /\ end' = end
      BY <2>7 DEF Leave, piece
    <3>2. QED
      BY <1>1, <3>1 DEF StepsLeft
  <2>8. QED
    BY <1>4, <2>1, <2>2, <2>3, <2>4, <2>5, <2>6, <2>7 DEF Inside
<1>5. pc' = "idle" => StepsLeft' = 0
  BY <1>1 DEF AllTaken, StepsLeft
<1>6. QED
  BY <1>2, <1>3, <1>4, <1>5

(* Of any call, with any kernel, on any text: kernel and scalar core never *)
(* hand the same characters back and forth.                                *)
THEOREM CallsEnd == Spec => CallsBounded
<1>1. Init => IInv /\ AllTaken
  BY InvInit DEF Init, AllTaken
<1>2. IInv /\ AllTaken /\ [Next]_vars => (IInv /\ AllTaken)'
  BY InvStep, AllTakenStep
<1>3. IInv /\ IInv' /\ AllTaken' /\ [Next]_vars =>
        [/\ DecodeBlock \/ DecodeBlockScalar =>
              StepsLeft' \in 1..(5 * (end' - begin') + 5)
         /\ Inside => StepsLeft' \in Nat /\ StepsLeft' < StepsLeft
         /\ pc' = "idle" => StepsLeft' = 0]_vars
  BY StepsCount
<1>4. QED
  BY <1>1, <1>2, <1>3, PTL DEF Spec, CallsBounded

=============================================================================
