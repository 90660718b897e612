--------------------------- MODULE CencodeProofs ----------------------------
(***************************************************************************)
(* What Cencode guarantees for every input, every set of widths, every set *)
(* of kernels and every width of size_t: the column, the text of a stream  *)
(* of one width and its length, and of a stream whose width changes that   *)
(* it decodes to what was fed and keeps to the width in force.             *)
(***************************************************************************)
EXTENDS Cencode, B64Facts, TLAPS

-----------------------------------------------------------------------------
(* The text helpers stay within their types.                               *)

LEMMA ByteParts ==
    ASSUME NEW b \in Byte
    PROVE  b[1] \in Crumb /\ b[2] \in Crumb /\ b[3] \in Crumb /\ b[4] \in Crumb
BY DEF Byte

(* The crumbs of a sextet.                                                 *)
LEMMA SextetParts ==
    ASSUME NEW s \in Sextet
    PROVE  s[1] \in Crumb /\ s[2] \in Crumb /\ s[3] \in Crumb
BY DEF Sextet

(* Three crumbs make a sextet.                                             *)
LEMMA SextetMade ==
    ASSUME NEW a \in Crumb, NEW b \in Crumb, NEW c \in Crumb
    PROVE  << a, b, c >> \in Sextet
BY DEF Sextet

(* The OR of two crumbs is a crumb.                                        *)
LEMMA OrCrumbType ==
    ASSUME NEW a \in Crumb, NEW b \in Crumb
    PROVE  OrCrumb(a, b) \in Crumb
BY DEF OrCrumb

(* The four characters of three bytes are sextets.                         *)
LEMMA QuadType ==
    ASSUME NEW b1 \in Byte, NEW b2 \in Byte, NEW b3 \in Byte, NEW k \in 1..4
    PROVE  Quad(b1, b2, b3)[k] \in Sextet
<1>1. /\ << b1[1], b1[2], b1[3] >> \in Sextet
      /\ << b1[4], b2[1], b2[2] >> \in Sextet
      /\ << b2[3], b2[4], b3[1] >> \in Sextet
      /\ << b3[2], b3[3], b3[4] >> \in Sextet
  BY ByteParts, SextetMade
<1>2. k = 1 \/ k = 2 \/ k = 3 \/ k = 4
  OBVIOUS
<1>3. QED
  BY <1>1, <1>2 DEF Quad

(* The characters of whole groups: four sextets each.                      *)
LEMMA QuadsType ==
    ASSUME NEW i \in Nat, NEW groups \in Nat,
           Input \in Seq(Byte), i + 3 * groups <= Len(Input)
    PROVE  /\ Quads(i, groups) \in Seq(Sextet)
           /\ Len(Quads(i, groups)) = 4 * groups
<1>1. ASSUME NEW p \in 1..(4 * groups)
      PROVE  LET t == i + 3 * ((p - 1) \div 4)
             IN  Quad(Input[t + 1], Input[t + 2], Input[t + 3])[((p - 1) % 4) + 1]
                   \in Sextet
  <2> DEFINE t == i + 3 * ((p - 1) \div 4)
  <2>1. (p - 1) \div 4 \in 0..(groups - 1) /\ ((p - 1) % 4) + 1 \in 1..4
    OBVIOUS
  <2>2. t + 1 \in 1..Len(Input) /\ t + 2 \in 1..Len(Input) /\ t + 3 \in 1..Len(Input)
    BY <2>1
  <2>3. Input[t + 1] \in Byte /\ Input[t + 2] \in Byte /\ Input[t + 3] \in Byte
    BY <2>2
  <2>4. QED
    BY <2>1, <2>3, QuadType
<1>2. Quads(i, groups) \in [1..(4 * groups) -> Sextet]
  BY <1>1 DEF Quads
<1>3. QED
  BY <1>2, 4 * groups \in Nat


(* A size_t is in its range.                                               *)
LEMMA SizeTType ==
    ASSUME NEW x \in Nat
    PROVE  SizeT(x) \in 0..SizeMax
BY SizeMaxAssumption DEF SizeT

-----------------------------------------------------------------------------
(* Type correctness.                                                       *)

LineType == [text : Seq(Char), count : 0..SizeMax]

(* The text and stepcount are a line that Emit can lengthen.               *)
LEMMA LineIsLine == ASSUME TypeOK PROVE Line \in LineType
BY DEF TypeOK, Line, LineType

(* Emitting a character gives a line.                                      *)
LEMMA EmitType ==
    ASSUME TypeOK, NEW l \in LineType, NEW ch \in Char
    PROVE  Emit(l, ch) \in LineType
<1>1. CheckBreak(l) \in LineType
  <2>1. CASE chars_per_line # 0 /\ l.count >= chars_per_line
    <3>1. Append(l.text, NL) \in Seq(Char) /\ 1 \in 0..SizeMax
      BY SizeMaxAssumption DEF LineType, Char
    <3>2. QED
      BY <2>1, <3>1 DEF CheckBreak, LineType
  <2>2. CASE ~(chars_per_line # 0 /\ l.count >= chars_per_line)
    BY <2>2, SizeTType DEF CheckBreak, LineType
  <2>3. QED
    BY <2>1, <2>2
<1>2. Append(CheckBreak(l).text, ch) \in Seq(Char)
  BY <1>1 DEF LineType
<1>3. QED
  BY <1>1, <1>2 DEF Emit, LineType

(* Writing a line back gives a text and a stepcount in range.              *)
LEMMA SetLineType ==
    ASSUME NEW l \in LineType, SetLine(l)
    PROVE  code' \in Seq(Char) /\ stepcount' \in 0..SizeMax
BY DEF SetLine, LineType

(* With input left, the fragment read is a byte and the pointer stays
   inside.                                                                 *)
LEMMA FragmentType ==
    ASSUME TypeOK, Left > 0
    PROVE  /\ Fragment \in Byte
           /\ plainchar + 1 \in 0..Len(Input)
           /\ plaintextend \in (plainchar + 1)..Len(Input)
BY CencodeAssumption DEF TypeOK, Left, Fragment

(* Consume preserves the type invariant when the line and the carry it is  *)
(* given are well typed.                                                   *)
LEMMA ConsumeType ==
    ASSUME TypeOK, Left > 0,
           NEW l \in LineType, NEW carry \in Sextet, NEW next \in {"A", "B", "C"},
           Consume(l, carry, next)
    PROVE  TypeOK'
BY SetLineType, FragmentType DEF Consume, TypeOK

(* Taking whole groups keeps the types.                                    *)
LEMMA TakeTriplesType ==
    ASSUME TypeOK, NEW n \in Nat, n % 3 = 0, n <= Left, TakeTriples(n)
    PROVE  TypeOK'
<1>1. n \div 3 \in Nat /\ plainchar + 3 * (n \div 3) <= Len(Input)
  BY CencodeAssumption DEF TypeOK, Left
<1>2. Quads(plainchar, n \div 3) \in Seq(Char)
  BY <1>1, QuadsType, CencodeAssumption DEF TypeOK, Char
<1>3. code' \in Seq(Char)
  BY <1>2 DEF TakeTriples, TypeOK
<1>4. stepcount' \in 0..SizeMax
  BY <1>1, SizeTType, stepcount + (n \div 3) * 4 \in Nat DEF TakeTriples, TypeOK
<1>5. plainchar' \in 0..Len(Input) /\ plaintextend' \in plainchar'..Len(Input)
  BY CencodeAssumption DEF TakeTriples, TypeOK, Left
<1>6. QED
  BY <1>3, <1>4, <1>5 DEF TakeTriples, TypeOK

(* The types hold as base64_init_encodestate leaves the encoder.           *)
LEMMA TypeInit == Init => TypeOK
<1>1. ZeroSextet \in Sextet
  BY UnitsAssumption, SextetMade DEF ZeroSextet
<1>2. QED
  BY <1>1, SizeMaxAssumption, CencodeAssumption DEF Init, TypeOK

(* The last group of base64_encode_blockend gives a line.                  *)
LEMMA LastGroupType ==
    ASSUME TypeOK
    PROVE  LastGroup(Line) \in LineType
<1>1. result \in Char /\ PAD \in Char
  BY DEF TypeOK, Char
<1>2. step \in {"A", "B", "C"}
  BY DEF TypeOK
<1>3. CASE step = "A"
  BY <1>3, LineIsLine DEF LastGroup
<1>4. CASE step = "B"
  BY <1>1, <1>4, LineIsLine, EmitType DEF LastGroup
<1>5. CASE step = "C"
  BY <1>1, <1>5, LineIsLine, EmitType DEF LastGroup
<1>6. QED
  BY <1>2, <1>3, <1>4, <1>5

(* Every step keeps the types.                                             *)
LEMMA TypeStep == TypeOK /\ [Next]_vars => TypeOK'
<1> SUFFICES ASSUME TypeOK, [Next]_vars PROVE TypeOK'
  OBVIOUS
<1>1. CASE InitState
  <2>1. ZeroSextet \in Sextet
    BY UnitsAssumption, SextetMade DEF ZeroSextet
  <2>2. QED
    BY <1>1, <2>1, SizeMaxAssumption, CencodeAssumption DEF InitState, TypeOK
<1>2. CASE SetWidth
  BY <1>2, CencodeAssumption DEF SetWidth, TypeOK
<1>3. CASE EncodeBlock
  BY <1>3 DEF EncodeBlock, TypeOK, state
<1>4. CASE Blockend
  <2> DEFINE t == LastGroup(Line)
             l == IF chars_per_line = 0 THEN t
                  ELSE [t EXCEPT !.text = Append(t.text, NL)]
  <2>1. t \in LineType
    BY LastGroupType
  <2>2. l \in LineType
    BY <2>1 DEF LineType, Char
  <2>3. SetLine(l)
    BY <1>4 DEF Blockend
  <2> HIDE DEF l
  <2>4. code' \in Seq(Char) /\ stepcount' \in 0..SizeMax
    BY <2>2, <2>3, SetLineType
  <2>5. QED
    BY <1>4, <2>4 DEF Blockend, TypeOK
<1>5. CASE KernelStep
  <2>1. kernel.take \in Nat /\ kernel.take % 3 = 0 /\ kernel.take <= Left
    BY <1>5, CencodeAssumption
       DEF KernelStep, KernelRuns, TypeOK, KernelType, Left
  <2>2. QED
    BY <1>5, <2>1, TakeTriplesType DEF KernelStep
<1>6. CASE KernelDone
  BY <1>6 DEF KernelDone, TypeOK, state
<1>7. CASE BulkStep
  <2>1. 3 <= Left
    BY <1>7 DEF BulkStep, BulkLoops, TypeOK, Left
  <2>2. QED
    BY <1>7, <2>1, TakeTriplesType, 3 % 3 = 0 DEF BulkStep
<1>8. CASE StepA
  <2> DEFINE f == Fragment
  <2>1. f \in Byte
    BY <1>8, FragmentType DEF StepA
  <2>2. << f[1], f[2], f[3] >> \in Sextet /\ << f[4], Zero, Zero >> \in Sextet
    BY <2>1, ByteParts, SextetMade, UnitsAssumption
  <2>3. Emit(Line, << f[1], f[2], f[3] >>) \in LineType
    BY <2>2, LineIsLine, EmitType DEF Char
  <2>4. QED
    BY <1>8, <2>2, <2>3, ConsumeType DEF StepA
<1>9. CASE StepB
  <2> DEFINE f  == Fragment
             ch == << result[1], OrCrumb(result[2], f[1]),
                      OrCrumb(result[3], f[2]) >>
  <2>1. f \in Byte
    BY <1>9, FragmentType DEF StepB
  <2>2. ch \in Sextet /\ << f[3], f[4], Zero >> \in Sextet
    BY <2>1, ByteParts, SextetParts, OrCrumbType, SextetMade, UnitsAssumption
       DEF TypeOK
  <2>3. Emit(Line, ch) \in LineType
    BY <2>2, LineIsLine, EmitType DEF Char
  <2>4. QED
    BY <1>9, <2>2, <2>3, ConsumeType DEF StepB
<1>10. CASE StepC
  <2> DEFINE f    == Fragment
             ch   == << result[1], result[2], OrCrumb(result[3], f[1]) >>
             last == << f[2], f[3], f[4] >>
  <2>1. f \in Byte
    BY <1>10, FragmentType DEF StepC
  <2>2. ch \in Sextet /\ last \in Sextet
    BY <2>1, ByteParts, SextetParts, OrCrumbType, SextetMade DEF TypeOK
  <2>3. Emit(Emit(Line, ch), last) \in LineType
    BY <2>2, LineIsLine, EmitType DEF Char
  <2>4. QED
    BY <1>10, <2>2, <2>3, ConsumeType DEF StepC
<1>11. CASE Return
  BY <1>11 DEF Return, TypeOK, state
<1>12. CASE UNCHANGED vars
  BY <1>12 DEF vars, state, TypeOK
<1>13. QED
  BY <1>1, <1>2, <1>3, <1>4, <1>5, <1>6, <1>7, <1>8, <1>9, <1>10, <1>11, <1>12
     DEF Next, Inside

(* TypeOK of cencode.c: in particular no call reads past the piece of      *)
(* input it was given, whatever kernel runs first, and the carried bits    *)
(* are always a 6-bit value.                                               *)
THEOREM TypeCorrect == Spec => []TypeOK
BY TypeInit, TypeStep, PTL DEF Spec

-----------------------------------------------------------------------------
(* stepcount is the column.  The invariant is inductive on top of TypeOK:  *)
(* every way of writing either ends the line and counts from one or        *)
(* lengthens it by as much as it adds to the count.                        *)

HasColumn(s, count) ==
    \E n \in 0..Len(s) : IsLastLine(s, n) /\ count = SizeT(n)

(* Reduction modulo 2^w passes through an addition.                        *)
LEMMA SizeTPlus ==
    ASSUME NEW n \in Nat, NEW k \in Nat
    PROVE  SizeT(SizeT(n) + k) = SizeT(n + k)
<1>1. SizeMax + 1 \in Nat \ {0}
  BY SizeMaxAssumption
<1>2. QED
  BY <1>1, ModPlus DEF SizeT

(* Zero and one are themselves as a size_t.                                *)
LEMMA SizeTSmall ==
    ASSUME NEW n \in Nat, n < 2
    PROVE  SizeT(n) = n
BY SizeMaxAssumption DEF SizeT

(* After a newline the last line is empty.                                 *)
LEMMA NewlineStartsLine ==
    ASSUME NEW s \in Seq(Char)
    PROVE  IsLastLine(Append(s, NL), 0)
BY DEF IsLastLine

(* Any other character lengthens the last line by one.                     *)
LEMMA CharLengthensLine ==
    ASSUME NEW s \in Seq(Char), NEW n \in Nat, IsLastLine(s, n),
           NEW ch \in Char, ch # NL
    PROVE  IsLastLine(Append(s, ch), n + 1)
<1> DEFINE t == Append(s, ch)
<1>1. /\ Len(t) = Len(s) + 1 /\ Len(s) \in Nat
      /\ t[Len(s) + 1] = ch
      /\ \A p \in 1..Len(s) : t[p] = s[p]
  OBVIOUS
<1> HIDE DEF t
<1>2. n <= Len(s) /\ n + 1 \in 0..Len(t) /\ Len(t) - (n + 1) = Len(s) - n
  BY <1>1 DEF IsLastLine
<1>3. ASSUME NEW p \in (Len(t) - (n + 1) + 1)..Len(t) PROVE t[p] # NL
  <2>1. p \in (Len(s) - n + 1)..Len(s) \/ p = Len(s) + 1
    BY <1>1, <1>2
  <2>2. CASE p = Len(s) + 1
    BY <1>1, <2>2
  <2>3. CASE p \in (Len(s) - n + 1)..Len(s)
    <3>1. s[p] # NL
      BY <2>3 DEF IsLastLine
    <3>2. p \in 1..Len(s)
      BY <1>1, <1>2, <2>3
    <3>3. QED
      BY <1>1, <3>1, <3>2
  <2>4. QED
    BY <2>1, <2>2, <2>3
<1>4. n + 1 = Len(t) \/ t[Len(t) - (n + 1)] = NL
  <2>1. CASE n = Len(s)
    BY <1>1, <2>1
  <2>2. CASE n # Len(s)
    <3>1. s[Len(s) - n] = NL
      BY <2>2 DEF IsLastLine
    <3>2. Len(s) - n \in 1..Len(s)
      <4>1. \A k \in Nat : n <= k /\ n # k => k - n \in 1..k
        OBVIOUS
      <4>2. QED
        BY <1>1, <1>2, <2>2, <4>1
    <3>3. QED
      BY <1>1, <1>2, <3>1, <3>2
  <2>3. QED
    BY <2>1, <2>2
<1>5. QED
  BY <1>2, <1>3, <1>4 DEF IsLastLine, t

(* Sextets lengthen the last line by their number.                         *)
LEMMA TextLengthensLine ==
    ASSUME NEW s \in Seq(Char), NEW n \in Nat, IsLastLine(s, n),
           NEW t \in Seq(Sextet)
    PROVE  IsLastLine(s \o t, n + Len(t))
<1>1. \A p \in 1..Len(t) : t[p] # NL
  BY UnitsAssumption
<1>2. s \o t \in Seq(Char) /\ Len(s \o t) = Len(s) + Len(t)
  BY DEF Char
<1>3. \A p \in 1..Len(s \o t) :
        (s \o t)[p] = IF p <= Len(s) THEN s[p] ELSE t[p - Len(s)]
  OBVIOUS
<1>4. n + Len(t) \in 0..Len(s \o t)
  BY <1>2 DEF IsLastLine
<1>5. ASSUME NEW p \in (Len(s \o t) - (n + Len(t)) + 1)..Len(s \o t)
      PROVE  (s \o t)[p] # NL
  <2>1. CASE p <= Len(s)
    BY <1>2, <1>3, <1>4, <2>1 DEF IsLastLine
  <2>2. CASE p > Len(s)
    BY <1>1, <1>2, <1>3, <1>4, <2>2
  <2>3. QED
    BY <2>1, <2>2, <1>2, <1>4
<1>6. n + Len(t) = Len(s \o t) \/ (s \o t)[Len(s \o t) - (n + Len(t))] = NL
  <2>1. CASE n = Len(s)
    BY <1>2, <2>1
  <2>2. CASE n # Len(s)
    <3>1. s[Len(s) - n] = NL /\ Len(s) - n \in 1..Len(s)
      BY <2>2 DEF IsLastLine
    <3>2. Len(s \o t) - (n + Len(t)) = Len(s) - n /\ Len(s) - n \in 1..Len(s \o t)
      BY <1>2, <3>1
    <3>3. QED
      BY <1>3, <3>1, <3>2
  <2>3. QED
    BY <2>1, <2>2
<1>7. QED
  BY <1>4, <1>5, <1>6 DEF IsLastLine

(* Emit counts what it appends, and starts counting at its newline.        *)
LEMMA EmitKeepsColumn ==
    ASSUME TypeOK, NEW l \in LineType, HasColumn(l.text, l.count),
           NEW ch \in Char, ch # NL
    PROVE  HasColumn(Emit(l, ch).text, Emit(l, ch).count)
<1> DEFINE b == CheckBreak(l)
<1>1. Emit(l, ch).text = Append(b.text, ch) /\ Emit(l, ch).count = b.count
  BY DEF Emit, CheckBreak, LineType
<1>2. CASE chars_per_line # 0 /\ l.count >= chars_per_line
  <2>1. b.text = Append(l.text, NL) /\ b.count = 1
    BY <1>2 DEF CheckBreak
  <2>2. b.text \in Seq(Char) /\ IsLastLine(b.text, 0)
    BY <2>1, NewlineStartsLine DEF LineType, Char
  <2>3. IsLastLine(Append(b.text, ch), 1)
    BY <2>2, CharLengthensLine
  <2>4. 1 \in 0..Len(Append(b.text, ch))
    BY <2>2
  <2>5. QED
    BY <1>1, <2>1, <2>3, <2>4, SizeTSmall DEF HasColumn
<1>3. CASE ~(chars_per_line # 0 /\ l.count >= chars_per_line)
  <2>1. b.text = l.text /\ b.count = SizeT(l.count + 1)
    BY <1>3 DEF CheckBreak, LineType
  <2>2. PICK n \in 0..Len(l.text) : IsLastLine(l.text, n) /\ l.count = SizeT(n)
    BY DEF HasColumn
  <2>3. l.text \in Seq(Char) /\ n \in Nat
    BY DEF LineType
  <2>4. IsLastLine(Append(l.text, ch), n + 1)
    BY <2>2, <2>3, CharLengthensLine
  <2>5. b.count = SizeT(n + 1)
    BY <2>1, <2>2, <2>3, SizeTPlus
  <2>6. n + 1 \in 0..Len(Append(l.text, ch))
    BY <2>3
  <2>7. QED
    BY <1>1, <2>1, <2>4, <2>5, <2>6 DEF HasColumn
<1>4. QED
  BY <1>2, <1>3

(* Whole groups taken add to stepcount the characters they write.          *)
LEMMA TakeTriplesKeepsColumn ==
    ASSUME TypeOK, HasColumn(code, stepcount),
           NEW n \in Nat, n % 3 = 0, n <= Left, TakeTriples(n)
    PROVE  HasColumn(code', stepcount')
<1> DEFINE g == n \div 3
           t == Quads(plainchar, g)
<1>1. g \in Nat /\ plainchar + 3 * g <= Len(Input) /\ plainchar \in Nat
  BY CencodeAssumption DEF TypeOK, Left
<1>2. t \in Seq(Sextet) /\ Len(t) = 4 * g
  BY <1>1, QuadsType, CencodeAssumption
<1>3. PICK k \in 0..Len(code) : IsLastLine(code, k) /\ stepcount = SizeT(k)
  BY DEF HasColumn
<1>4. code \in Seq(Char) /\ k \in Nat /\ 4 * g \in Nat
  BY <1>1 DEF TypeOK
<1>5. code' = code \o t /\ stepcount' = SizeT(stepcount + 4 * g)
  BY <1>1 DEF TakeTriples
<1> HIDE DEF g, t
<1>6. IsLastLine(code', k + 4 * g)
  BY <1>2, <1>3, <1>4, <1>5, TextLengthensLine
<1>7. stepcount' = SizeT(k + 4 * g)
  BY <1>3, <1>4, <1>5, SizeTPlus
<1>8. k + 4 * g \in 0..Len(code')
  BY <1>6 DEF IsLastLine
<1>9. QED
  BY <1>6, <1>7, <1>8 DEF HasColumn

(* The empty text has an empty line and stepcount is 0.                    *)
LEMMA ColumnInit == Init => StepcountIsColumn
<1> SUFFICES ASSUME Init PROVE HasColumn(code, stepcount)
  BY DEF StepcountIsColumn, HasColumn
<1>1. IsLastLine(<< >>, 0) /\ 0 \in 0..Len(<< >>)
  BY DEF IsLastLine
<1>2. QED
  BY <1>1, SizeTSmall DEF Init, HasColumn

(* Every step keeps stepcount the length of the last line, modulo 2^w.     *)
LEMMA ColumnStep == TypeOK /\ StepcountIsColumn /\ [Next]_vars => StepcountIsColumn'
<1> SUFFICES ASSUME TypeOK, StepcountIsColumn, [Next]_vars,
                    pc' # "ended"
             PROVE  HasColumn(code', stepcount')
  BY DEF StepcountIsColumn, HasColumn
<1>1. CASE InitState
  <2>1. IsLastLine(<< >>, 0) /\ 0 \in 0..Len(<< >>)
    BY DEF IsLastLine
  <2>2. QED
    BY <1>1, <2>1, SizeTSmall DEF InitState, HasColumn
<1>2. CASE Blockend
  BY <1>2 DEF Blockend
<1> SUFFICES ASSUME HasColumn(code, stepcount), ~InitState, ~Blockend
             PROVE  HasColumn(code', stepcount')
  <2>1. CASE pc # "ended"
    BY <1>1, <1>2, <2>1 DEF StepcountIsColumn, HasColumn
  <2>2. CASE pc = "ended" /\ ~InitState
    BY <2>2, <1>2 DEF Next, Inside, SetWidth, EncodeBlock, Idle, KernelStep,
          KernelDone, BulkStep, StepA, StepB, StepC, Return, At, vars
  <2>3. QED
    BY <1>1, <2>1, <2>2
<1>3. CASE UNCHANGED << code, stepcount >>
  BY <1>3
<1>4. CASE KernelStep
  <2>1. kernel.take \in Nat /\ kernel.take % 3 = 0 /\ kernel.take <= Left
    BY <1>4, CencodeAssumption
       DEF KernelStep, KernelRuns, TypeOK, KernelType, Left
  <2>2. QED
    BY <1>4, <2>1, TakeTriplesKeepsColumn DEF KernelStep
<1>5. CASE BulkStep
  <2>1. 3 <= Left
    BY <1>5 DEF BulkStep, BulkLoops, TypeOK, Left
  <2>2. QED
    BY <1>5, <2>1, TakeTriplesKeepsColumn, 3 % 3 = 0 DEF BulkStep
<1>6. Line \in LineType /\ HasColumn(Line.text, Line.count)
  BY LineIsLine DEF Line
<1>7. ASSUME NEW l \in LineType, HasColumn(l.text, l.count), SetLine(l)
      PROVE  HasColumn(code', stepcount')
  BY <1>7 DEF SetLine
<1>8. \A ch \in Sextet : ch \in Char /\ ch # NL
  BY UnitsAssumption DEF Char
<1>9. CASE StepA
  <2> DEFINE f  == Fragment
             ch == << f[1], f[2], f[3] >>
  <2>1. ch \in Sextet
    BY <1>9, FragmentType, ByteParts, SextetMade DEF StepA
  <2>2. SetLine(Emit(Line, ch))
    BY <1>9 DEF StepA, Consume
  <2> HIDE DEF ch
  <2>3. QED
    BY <2>1, <2>2, <1>6, <1>7, <1>8, EmitType, EmitKeepsColumn
<1>10. CASE StepB
  <2> DEFINE f  == Fragment
             ch == << result[1], OrCrumb(result[2], f[1]),
                      OrCrumb(result[3], f[2]) >>
  <2>1. ch \in Sextet
    BY <1>10, FragmentType, ByteParts, SextetParts, OrCrumbType, SextetMade
       DEF StepB, TypeOK
  <2>2. SetLine(Emit(Line, ch))
    BY <1>10 DEF StepB, Consume
  <2> HIDE DEF ch
  <2>3. QED
    BY <2>1, <2>2, <1>6, <1>7, <1>8, EmitType, EmitKeepsColumn
<1>11. CASE StepC
  <2> DEFINE f    == Fragment
             ch   == << result[1], result[2], OrCrumb(result[3], f[1]) >>
             last == << f[2], f[3], f[4] >>
  <2>1. ch \in Sextet /\ last \in Sextet
    BY <1>11, FragmentType, ByteParts, SextetParts, OrCrumbType, SextetMade
       DEF StepC, TypeOK
  <2>2. SetLine(Emit(Emit(Line, ch), last))
    BY <1>11 DEF StepC, Consume
  <2> HIDE DEF ch, last
  <2>3. Emit(Line, ch) \in LineType
        /\ HasColumn(Emit(Line, ch).text, Emit(Line, ch).count)
    BY <2>1, <1>6, <1>8, EmitType, EmitKeepsColumn
  <2>4. QED
    BY <2>1, <2>2, <2>3, <1>7, <1>8, EmitType, EmitKeepsColumn
<1>12. QED
  BY <1>3, <1>4, <1>5, <1>9, <1>10, <1>11
     DEF Next, Inside, SetWidth, EncodeBlock, KernelDone, Return, state, vars

(* Until the stream is ended stepcount is the number of characters on the  *)
(* unfinished last line (in size_t arithmetic), at every point of every    *)
(* call, for every kernel and every sequence of widths: the claim of       *)
(* cencode.c's bulk paths that the state stays identical if wrapping is    *)
(* enabled later.                                                          *)
THEOREM ColumnCorrect == Spec => []StepcountIsColumn
BY TypeInit, TypeStep, ColumnInit, ColumnStep, PTL DEF Spec

-----------------------------------------------------------------------------
(* The coroutine between two bytes.  What it carries is determined by the  *)
(* number of bytes consumed: where it resumes, and the bits of the last    *)
(* byte that no character has yet.  The bulk paths run between groups only.*)

Carried ==
    /\ step = IF plainchar % 3 = 0 THEN "A"
              ELSE IF plainchar % 3 = 1 THEN "B" ELSE "C"
    /\ plainchar % 3 = 1 => result = << Input[plainchar][4], Zero, Zero >>
    /\ plainchar % 3 = 2 =>
          result = << Input[plainchar][3], Input[plainchar][4], Zero >>
    /\ pc = "simd" => chars_per_line = 0 /\ step = "A"

(* Nothing is carried at first.                                            *)
LEMMA CarriedInit == Init => Carried
BY DEF Init, Carried

(* The kernels run only with no width and at a group's boundary, on whole
   groups.                                                                 *)
LEMMA TriplesTaken ==
    ASSUME TypeOK, Carried, KernelStep \/ BulkStep
    PROVE  /\ chars_per_line = 0 /\ plainchar % 3 = 0
           /\ \E n \in Nat : n % 3 = 0 /\ n > 0 /\ n <= Left /\ TakeTriples(n)
<1>1. plainchar \in Nat
  BY CencodeAssumption DEF TypeOK
<1>2. chars_per_line = 0 /\ plainchar % 3 = 0
  BY <1>1 DEF Carried, KernelStep, BulkStep, BulkLoops, At
<1>3. CASE KernelStep
  <2>1. /\ kernel.take \in Nat /\ kernel.take % 3 = 0 /\ kernel.take > 0
        /\ kernel.take <= Left
    BY <1>3, CencodeAssumption
       DEF KernelStep, KernelRuns, TypeOK, KernelType, Left
  <2>2. QED
    BY <1>2, <1>3, <2>1 DEF KernelStep
<1>4. CASE BulkStep
  <2>1. 3 <= Left
    BY <1>4 DEF BulkStep, BulkLoops, TypeOK, Left
  <2>2. QED
    BY <1>2, <1>4, <2>1, 3 % 3 = 0 DEF BulkStep
<1>5. QED
  BY <1>3, <1>4

(* Every step keeps the carried bits those of the last byte read.          *)
LEMMA CarriedStep == TypeOK /\ Carried /\ [Next]_vars => Carried'
<1> SUFFICES ASSUME TypeOK, Carried, [Next]_vars PROVE Carried'
  OBVIOUS
<1>1. plainchar \in Nat
  BY CencodeAssumption DEF TypeOK
<1>2. CASE InitState
  BY <1>2 DEF InitState, Carried
<1>3. CASE SetWidth \/ Blockend
  BY <1>3 DEF SetWidth, Blockend, Idle, Carried
<1>4. CASE EncodeBlock \/ KernelDone \/ Return \/ UNCHANGED vars
  BY <1>4 DEF EncodeBlock, KernelDone, Return, vars, state, Carried
<1>5. CASE KernelStep \/ BulkStep
  <2>1. PICK n \in Nat : n % 3 = 0 /\ n > 0 /\ TakeTriples(n)
    BY <1>5, TriplesTaken
  <2>2. plainchar % 3 = 0 /\ plainchar' = plainchar + n /\ (plainchar + n) % 3 = 0
    <3>1. plainchar % 3 = 0
      BY <1>5, TriplesTaken
    <3>2. plainchar' = plainchar + n
      BY <2>1 DEF TakeTriples
    <3>3. QED
      BY <1>1, <2>1, <3>1, <3>2
  <2>3. UNCHANGED << step, chars_per_line, pc >>
    BY <2>1 DEF TakeTriples
  <2>4. QED
    BY <2>2, <2>3 DEF Carried
<1>6. /\ (plainchar + 1) % 3 = 0 <=> plainchar % 3 = 2
      /\ (plainchar + 1) % 3 = 1 <=> plainchar % 3 = 0
      /\ (plainchar + 1) % 3 = 2 <=> plainchar % 3 = 1
  BY <1>1
<1>7. CASE StepA
  BY <1>6, <1>7 DEF StepA, At, Consume, Fragment, Carried
<1>8. CASE StepB
  BY <1>6, <1>8 DEF StepB, At, Consume, Fragment, Carried
<1>9. CASE StepC
  BY <1>6, <1>9 DEF StepC, At, Consume, Fragment, Carried
<1>10. QED
  BY <1>2, <1>3, <1>4, <1>5, <1>7, <1>8, <1>9 DEF Next, Inside

-----------------------------------------------------------------------------
(* What the steps write.  All the characters that the input will ever      *)
(* determine, and how many of them the consumed bytes do.                  *)

All  == PayloadOf(Input, Len(Input))
Done == OpenCount(plainchar)

(* The payload of the whole input, in which no character is a newline.     *)
LEMMA AllType ==
    /\ All \in [Nat -> Char] /\ NL \in Char
    /\ \A j \in Nat : All[j] \in Char \ {NL}
<1>1. Input \in Seq(Byte) /\ Len(Input) \in 0..Len(Input)
  BY CencodeAssumption
<1>2. \A j \in Nat : All[j] \in Sextet \cup {PAD}
  BY <1>1, SextetAtType DEF All, PayloadOf, PayloadChar
<1>3. QED
  BY <1>1, <1>2, PayloadType, UnitsAssumption DEF All, Char

(* The four characters of group k of the first m bytes, as far as the      *)
(* bytes reach.                                                            *)
LEMMA GroupChars ==
    ASSUME NEW m \in 0..Len(Input), NEW k \in Nat, 3 * k <= m
    PROVE  LET b(i) == Input[3 * k + i]
               c(j) == PayloadOf(Input, m)[4 * k + j]
           IN  /\ 3 * k + 1 <= m =>
                     c(0) = << b(1)[1], b(1)[2], b(1)[3] >>
               /\ 3 * k + 1 = m =>
                     c(1) = << b(1)[4], Zero, Zero >> /\ c(2) = PAD /\ c(3) = PAD
               /\ 3 * k + 2 <= m =>
                     c(1) = << b(1)[4], b(2)[1], b(2)[2] >>
               /\ 3 * k + 2 = m =>
                     c(2) = << b(2)[3], b(2)[4], Zero >> /\ c(3) = PAD
               /\ 3 * k + 3 <= m =>
                     /\ c(2) = << b(2)[3], b(2)[4], b(3)[1] >>
                     /\ c(3) = << b(3)[2], b(3)[3], b(3)[4] >>
<1> DEFINE crumb(r) == CrumbAt(Input, m, 12 * k + r)
<1>1. m \in Nat
  BY CencodeAssumption
<1>2. \A i \in 0..2 : 3 * k + i + 1 <= m =>
         /\ crumb(4 * i)     = Input[3 * k + (i + 1)][1]
         /\ crumb(4 * i + 1) = Input[3 * k + (i + 1)][2]
         /\ crumb(4 * i + 2) = Input[3 * k + (i + 1)][3]
         /\ crumb(4 * i + 3) = Input[3 * k + (i + 1)][4]
  <2> SUFFICES ASSUME NEW i \in 0..2, 3 * k + i + 1 <= m
               PROVE  /\ crumb(4 * i)     = Input[3 * k + (i + 1)][1]
                      /\ crumb(4 * i + 1) = Input[3 * k + (i + 1)][2]
                      /\ crumb(4 * i + 2) = Input[3 * k + (i + 1)][3]
                      /\ crumb(4 * i + 3) = Input[3 * k + (i + 1)][4]
    OBVIOUS
  <2> DEFINE a == 3 * k + i
  <2>1. /\ a \in 0..(m - 1) /\ a + 1 = 3 * k + (i + 1)
        /\ 12 * k + 4 * i = 4 * a + 0 /\ 12 * k + (4 * i + 1) = 4 * a + 1
        /\ 12 * k + (4 * i + 2) = 4 * a + 2 /\ 12 * k + (4 * i + 3) = 4 * a + 3
    BY <1>1
  <2>2. \A r \in 0..3 : CrumbAt(Input, m, 4 * a + r) = Input[a + 1][r + 1]
    <3> HIDE DEF a
    <3>1. QED
      BY <1>1, <2>1, CrumbIs
  <2> HIDE DEF a
  <2>3. /\ CrumbAt(Input, m, 4 * a + 0) = Input[a + 1][1]
        /\ CrumbAt(Input, m, 4 * a + 1) = Input[a + 1][2]
        /\ CrumbAt(Input, m, 4 * a + 2) = Input[a + 1][3]
        /\ CrumbAt(Input, m, 4 * a + 3) = Input[a + 1][4]
    BY <2>2
  <2>4. QED
    BY <2>1, <2>3
<1>3. \A r \in Nat : 12 * k + r >= 4 * m => crumb(r) = Zero
  BY <1>1 DEF CrumbAt
<1>4. \A j \in 0..3 :
        PayloadOf(Input, m)[4 * k + j] =
          IF 12 * k + 3 * j < 4 * m
          THEN << crumb(3 * j), crumb(3 * j + 1), crumb(3 * j + 2) >> ELSE PAD
  <2> SUFFICES ASSUME NEW j \in 0..3
               PROVE  PayloadOf(Input, m)[4 * k + j] =
                        IF 12 * k + 3 * j < 4 * m
                        THEN << crumb(3 * j), crumb(3 * j + 1), crumb(3 * j + 2) >>
                        ELSE PAD
    OBVIOUS
  <2>1. /\ 4 * k + j \in Nat
        /\ 3 * (4 * k + j) = 12 * k + 3 * j
        /\ 3 * (4 * k + j) + 1 = 12 * k + (3 * j + 1)
        /\ 3 * (4 * k + j) + 2 = 12 * k + (3 * j + 2)
    OBVIOUS
  <2>2. QED
    BY <2>1 DEF PayloadOf, PayloadChar, SextetAt
<1>5. /\ 3 * k + 1 <= m =>
            /\ crumb(0) = Input[3 * k + 1][1] /\ crumb(1) = Input[3 * k + 1][2]
            /\ crumb(2) = Input[3 * k + 1][3] /\ crumb(3) = Input[3 * k + 1][4]
      /\ 3 * k + 2 <= m =>
            /\ crumb(4) = Input[3 * k + 2][1] /\ crumb(5) = Input[3 * k + 2][2]
            /\ crumb(6) = Input[3 * k + 2][3] /\ crumb(7) = Input[3 * k + 2][4]
      /\ 3 * k + 3 <= m =>
            /\ crumb(8) = Input[3 * k + 3][1] /\ crumb(9) = Input[3 * k + 3][2]
            /\ crumb(10) = Input[3 * k + 3][3] /\ crumb(11) = Input[3 * k + 3][4]
  <2> HIDE DEF crumb
  <2>1. QED
    BY <1>1, <1>2
<1>6. /\ 3 * k + 1 = m => crumb(4) = Zero /\ crumb(5) = Zero
      /\ 3 * k + 2 = m => crumb(8) = Zero
  <2> HIDE DEF crumb
  <2>1. QED
    BY <1>1, <1>3
<1>7. /\ 3 * k + 1 <= m =>
            PayloadOf(Input, m)[4 * k + 0] = << crumb(0), crumb(1), crumb(2) >>
      /\ 3 * k + 1 <= m =>
            PayloadOf(Input, m)[4 * k + 1] = << crumb(3), crumb(4), crumb(5) >>
      /\ 3 * k + 2 <= m =>
            PayloadOf(Input, m)[4 * k + 2] = << crumb(6), crumb(7), crumb(8) >>
      /\ 3 * k + 3 <= m =>
            PayloadOf(Input, m)[4 * k + 3] = << crumb(9), crumb(10), crumb(11) >>
      /\ 3 * k + 1 = m => PayloadOf(Input, m)[4 * k + 2] = PAD
      /\ 3 * k + 2 >= m => PayloadOf(Input, m)[4 * k + 3] = PAD
  <2> HIDE DEF crumb
  <2>1. QED
    BY <1>1, <1>4
<1> HIDE DEF crumb
<1> DEFINE x == 3 * k
<1>8. /\ x \in Nat
      /\ PayloadOf(Input, m)[4 * k + 0] = PayloadOf(Input, m)[4 * k]
      /\ x + 3 <= m => x + 2 <= m /\ x + 1 <= m
      /\ x + 2 <= m => x + 1 <= m
      /\ x + 2 = m => x + 2 <= m /\ x + 2 >= m
      /\ x + 1 = m => x + 1 <= m /\ x + 2 >= m
  BY <1>1
<1> HIDE DEF x
<1>9. x = 3 * k
  BY DEF x
<1>10. QED
  BY <1>5, <1>6, <1>7, <1>8, <1>9

(* StepA and StepB write the next of the characters, StepC the next two.   *)
LEMMA StepsWrite ==
    ASSUME TypeOK, Carried
    PROVE  /\ Done \in Nat
           /\ StepA \/ StepB =>
                 Done' = Done + 1 /\ SetLine(Emit(Line, All[Done]))
           /\ StepC =>
                 /\ Done' = Done + 2
                 /\ SetLine(Emit(Emit(Line, All[Done]), All[Done + 1]))
<1> DEFINE m == plainchar
           M == Len(Input)
           k == m \div 3
           f == Fragment
<1>1. /\ m \in Nat /\ M \in Nat /\ k \in Nat /\ M \in 0..M
      /\ Left > 0 => m + 1 <= M
      /\ Done \in Nat
  BY CencodeAssumption DEF TypeOK, Left, Done, OpenCount
<1>2. f = Input[m + 1]
  BY DEF Fragment
<1>3. \A x \in Crumb : OrCrumb(Zero, x) = x
  BY DEF OrCrumb
<1>4. Left > 0 => f \in Byte /\ f[1] \in Crumb /\ f[2] \in Crumb
  BY FragmentType, ByteParts
<1>5. CASE StepA
  <2>1. /\ m % 3 = 0 /\ Left > 0 /\ m' = m + 1
        /\ SetLine(Emit(Line, << f[1], f[2], f[3] >>))
    BY <1>1, <1>5 DEF StepA, At, Consume, Carried
  <2>2. m = 3 * k /\ Done = 4 * k + 0 /\ Done' = Done + 1 /\ 3 * k + 1 <= M
    BY <1>1, <2>1 DEF Done, OpenCount
  <2>3. All[Done] = << f[1], f[2], f[3] >>
    <3> HIDE DEF k, M, f
    <3>1. M \in 0..Len(Input) /\ 3 * k <= M /\ 3 * k + 1 <= M
      BY <1>1, <2>2 DEF M
    <3>2. PayloadOf(Input, M)[4 * k + 0] =
            << Input[3 * k + 1][1], Input[3 * k + 1][2], Input[3 * k + 1][3] >>
      BY <1>1, <3>1, GroupChars
    <3>3. QED
      BY <1>2, <2>2, <3>2 DEF All, M
  <2>4. QED
    BY <1>1, <1>5, <2>1, <2>2, <2>3 DEF StepB, StepC, StepA, At
<1>6. CASE StepB
  <2>1. /\ m % 3 = 1 /\ Left > 0 /\ m' = m + 1
        /\ SetLine(Emit(Line, << result[1], OrCrumb(result[2], f[1]),
                                 OrCrumb(result[3], f[2]) >>))
        /\ result = << Input[m][4], Zero, Zero >>
    BY <1>1, <1>6 DEF StepB, At, Consume, Carried
  <2>2. m = 3 * k + 1 /\ Done = 4 * k + 1 /\ Done' = Done + 1 /\ 3 * k + 2 <= M
    BY <1>1, <2>1 DEF Done, OpenCount
  <2>3. All[Done] = << Input[m][4], f[1], f[2] >>
    <3> HIDE DEF k, M, f
    <3>1. M \in 0..Len(Input) /\ 3 * k <= M /\ 3 * k + 2 <= M
      BY <1>1, <2>2 DEF M
    <3>2. PayloadOf(Input, M)[4 * k + 1] =
            << Input[3 * k + 1][4], Input[3 * k + 2][1], Input[3 * k + 2][2] >>
      BY <1>1, <3>1, GroupChars
    <3>3. Input[m + 1] = Input[3 * k + 2] /\ Input[m] = Input[3 * k + 1]
      BY <1>1, <2>2
    <3>4. QED
      BY <1>2, <2>2, <3>2, <3>3 DEF All, M
  <2>4. All[Done] = << result[1], OrCrumb(result[2], f[1]), OrCrumb(result[3], f[2]) >>
    BY <1>3, <1>4, <2>1, <2>3
  <2>5. QED
    BY <1>1, <1>6, <2>1, <2>2, <2>4 DEF StepB, StepC, StepA, At
<1>7. CASE StepC
  <2>1. /\ m % 3 = 2 /\ Left > 0 /\ m' = m + 1
        /\ SetLine(Emit(Emit(Line, << result[1], result[2],
                                      OrCrumb(result[3], f[1]) >>),
                        << f[2], f[3], f[4] >>))
        /\ result = << Input[m][3], Input[m][4], Zero >>
    BY <1>1, <1>7 DEF StepC, At, Consume, Carried
  <2>2. /\ m = 3 * k + 2 /\ Done = 4 * k + 2 /\ Done + 1 = 4 * k + 3
        /\ Done' = Done + 2 /\ 3 * k + 3 <= M
    <3>1. m = 3 * k + 2 /\ 3 * k + 3 <= M
      BY <1>1, <2>1
    <3>2. Done = (4 * m) \div 3 /\ Done' = (4 * (m + 1)) \div 3
      BY <2>1 DEF Done, OpenCount
    <3>3. /\ 4 * m = 3 * (4 * k + 2) + 2 /\ 4 * (m + 1) = 3 * (4 * k + 4)
          /\ k \in Nat
      BY <1>1, <3>1
    <3> HIDE DEF k, m, M
    <3>4. Done = 4 * k + 2 /\ Done' = 4 * k + 4
      BY <3>2, <3>3
    <3>5. QED
      BY <3>1, <3>3, <3>4
  <2>3. /\ All[Done] = << Input[m][3], Input[m][4], f[1] >>
        /\ All[Done + 1] = << f[2], f[3], f[4] >>
    <3> HIDE DEF k, M, f
    <3>1. M \in 0..Len(Input) /\ 3 * k <= M /\ 3 * k + 3 <= M
      BY <1>1, <2>2 DEF M
    <3>2. /\ PayloadOf(Input, M)[4 * k + 2] =
               << Input[3 * k + 2][3], Input[3 * k + 2][4], Input[3 * k + 3][1] >>
          /\ PayloadOf(Input, M)[4 * k + 3] =
               << Input[3 * k + 3][2], Input[3 * k + 3][3], Input[3 * k + 3][4] >>
      BY <1>1, <3>1, GroupChars
    <3>3. Input[m + 1] = Input[3 * k + 3] /\ Input[m] = Input[3 * k + 2]
      BY <1>1, <2>2
    <3>4. QED
      BY <1>2, <2>2, <3>2, <3>3 DEF All, M
  <2>4. All[Done] = << result[1], result[2], OrCrumb(result[3], f[1]) >>
    BY <1>3, <1>4, <2>1, <2>3
  <2>5. QED
    BY <1>1, <1>7, <2>1, <2>2, <2>3, <2>4 DEF StepB, StepC, StepA, At
<1>8. QED
  BY <1>1, <1>5, <1>6, <1>7

(* The bulk paths write the characters of whole groups.                    *)
LEMMA QuadsAre ==
    ASSUME NEW k \in Nat, NEW g \in Nat, 3 * k + 3 * g <= Len(Input)
    PROVE  /\ Quads(3 * k, g) \in Seq(Sextet) /\ Len(Quads(3 * k, g)) = 4 * g
           /\ \A p \in 1..(4 * g) : Quads(3 * k, g)[p] = All[4 * k + (p - 1)]
<1> DEFINE M == Len(Input)
<1>1. M \in Nat /\ M \in 0..M /\ Input \in Seq(Byte) /\ 3 * k \in Nat
  BY CencodeAssumption
<1>2. Quads(3 * k, g) \in Seq(Sextet) /\ Len(Quads(3 * k, g)) = 4 * g
  <2>1. \A i \in Nat : i + 3 * g <= Len(Input) =>
          Quads(i, g) \in Seq(Sextet) /\ Len(Quads(i, g)) = 4 * g
    BY <1>1, QuadsType
  <2>2. QED
    BY <1>1, <2>1
<1>3. ASSUME NEW p \in 1..(4 * g)
      PROVE  Quads(3 * k, g)[p] = All[4 * k + (p - 1)]
  <2> DEFINE a == (p - 1) \div 4
             r == (p - 1) % 4
             h == k + a
  <2>1. /\ a \in Nat /\ r \in 0..3 /\ p - 1 = 4 * a + r /\ a <= g - 1
        /\ h \in Nat /\ 3 * h + 3 <= M /\ 3 * k + 3 * a = 3 * h
        /\ 4 * k + (p - 1) = 4 * h + r
    BY <1>1
  <2>2. Quads(3 * k, g)[p] =
          Quad(Input[3 * h + 1], Input[3 * h + 2], Input[3 * h + 3])[r + 1]
    BY <2>1 DEF Quads
  <2> HIDE DEF a, r, h, M
  <2>3. r = 0 \/ r = 1 \/ r = 2 \/ r = 3
    BY <2>1
  <2>4. Quad(Input[3 * h + 1], Input[3 * h + 2], Input[3 * h + 3])[r + 1]
          = PayloadOf(Input, M)[4 * h + r]
    <3>1. /\ M \in 0..Len(Input) /\ h \in Nat /\ 3 * h <= M
          /\ 3 * h + 1 <= M /\ 3 * h + 2 <= M /\ 3 * h + 3 <= M
      BY <1>1, <2>1 DEF M
    <3>2. /\ PayloadOf(Input, M)[4 * h + 0] =
               << Input[3 * h + 1][1], Input[3 * h + 1][2], Input[3 * h + 1][3] >>
          /\ PayloadOf(Input, M)[4 * h + 1] =
               << Input[3 * h + 1][4], Input[3 * h + 2][1], Input[3 * h + 2][2] >>
          /\ PayloadOf(Input, M)[4 * h + 2] =
               << Input[3 * h + 2][3], Input[3 * h + 2][4], Input[3 * h + 3][1] >>
          /\ PayloadOf(Input, M)[4 * h + 3] =
               << Input[3 * h + 3][2], Input[3 * h + 3][3], Input[3 * h + 3][4] >>
      BY <3>1, GroupChars
    <3> DEFINE x == Input[3 * h + 1]
               y == Input[3 * h + 2]
               z == Input[3 * h + 3]
    <3>3. /\ Quad(x, y, z)[1] = << x[1], x[2], x[3] >>
          /\ Quad(x, y, z)[2] = << x[4], y[1], y[2] >>
          /\ Quad(x, y, z)[3] = << y[3], y[4], z[1] >>
          /\ Quad(x, y, z)[4] = << z[2], z[3], z[4] >>
      BY DEF Quad
    <3> HIDE DEF x, y, z
    <3>4. 0 + 1 = 1 /\ 1 + 1 = 2 /\ 2 + 1 = 3 /\ 3 + 1 = 4
      OBVIOUS
    <3>5. Quad(x, y, z)[r + 1] = PayloadOf(Input, M)[4 * h + r]
      BY <2>3, <3>2, <3>3, <3>4, Zenon DEF x, y, z
    <3>6. QED
      BY <3>5 DEF x, y, z
  <2>5. QED
    BY <2>1, <2>2, <2>4 DEF All, M
<1>4. QED
  BY <1>2, <1>3

(* The characters of g groups after k groups continue the payload laid in
   one line.                                                               *)
LEMMA QuadsExtend ==
    ASSUME NEW k \in Nat, NEW g \in Nat, 3 * k + 3 * g <= Len(Input)
    PROVE  Laid(All, 4 * k, 0) \o Quads(3 * k, g) = Laid(All, 4 * k + 4 * g, 0)
<1> DEFINE s == Laid(All, 4 * k, 0)
           q == Quads(3 * k, g)
           t == Laid(All, 4 * k + 4 * g, 0)
           N == 4 * k
           G == 4 * g
<1>1. N \in Nat /\ G \in Nat /\ N + G \in Nat
  OBVIOUS
<1>2. /\ q \in Seq(Char) /\ Len(q) = G
      /\ \A p \in 1..G : q[p] = All[N + (p - 1)]
  BY QuadsAre DEF Char
<1> HIDE DEF q
<1>3. s \in Seq(Char) /\ Len(s) = N /\ \A p \in 1..N : s[p] = All[p - 1]
  <2> HIDE DEF N
  <2>1. QED
    BY <1>1, AllType, OneLine DEF N
<1>4. t \in Seq(Char) /\ Len(t) = N + G /\ \A p \in 1..(N + G) : t[p] = All[p - 1]
  <2> DEFINE M == N + G
  <2>1. M \in Nat /\ t = Laid(All, M, 0)
    BY <1>1
  <2> HIDE DEF M, t
  <2>2. All \in [Nat -> Char] /\ NL \in Char
    BY AllType, Zenon
  <2>3. t \in Seq(Char) /\ Len(t) = M /\ \A p \in 1..M : t[p] = All[p - 1]
    BY <2>1, <2>2, OneLine
  <2>4. QED
    BY <2>3 DEF M
<1> HIDE DEF s, t, N, G
<1>5. /\ s \o q \in Seq(Char) /\ Len(s \o q) = N + G
      /\ \A p \in 1..(N + G) : (s \o q)[p] = IF p <= N THEN s[p] ELSE q[p - N]
  <2>1. /\ s \o q \in Seq(Char) /\ Len(s \o q) = Len(s) + Len(q)
        /\ \A p \in 1..(Len(s) + Len(q)) :
               (s \o q)[p] = IF p <= Len(s) THEN s[p] ELSE q[p - Len(s)]
    BY <1>2, <1>3, ConcatProperties
  <2>2. Len(s) = N /\ Len(q) = G
    BY <1>2, <1>3
  <2>3. QED
    BY <2>1, <2>2, Zenon
<1>6. ASSUME NEW p \in 1..(N + G) PROVE (s \o q)[p] = t[p]
  <2>1. CASE p <= N
    <3>1. p \in 1..N
      BY <1>1, <2>1
    <3>2. (s \o q)[p] = s[p]
      BY <1>5, <2>1, Zenon
    <3>3. QED
      BY <1>3, <1>4, <3>1, <3>2
  <2>2. CASE p > N
    <3>1. (s \o q)[p] = q[p - N] /\ p - N \in 1..G
      BY <1>1, <1>5, <2>2
    <3>2. q[p - N] = All[N + ((p - N) - 1)]
      BY <1>2, <3>1
    <3>3. N + ((p - N) - 1) = p - 1
      BY <1>1
    <3>4. t[p] = All[p - 1]
      BY <1>4
    <3>5. QED
      BY <3>1, <3>2, <3>3, <3>4, Zenon
  <2>3. p <= N \/ p > N
    BY <1>1
  <2>4. QED
    BY <2>1, <2>2, <2>3, Zenon
<1>7. s \o q = t
  BY <1>4, <1>5, <1>6, SeqEqual
<1>8. QED
  BY <1>7 DEF s, q, t, N, G

(* A kernel's step, as so many groups of the payload appended to the
   text.                                                                   *)
LEMMA TriplesWrite ==
    ASSUME TypeOK, Carried, KernelStep \/ BulkStep
    PROVE  \E k \in Nat, g \in Nat :
              /\ 3 * k + 3 * g <= Len(Input)
              /\ Done = 4 * k /\ Done' = 4 * k + 4 * g
              /\ code' = code \o Quads(3 * k, g)
              /\ plainchar < plainchar'
              /\ chars_per_line = 0
              /\ UNCHANGED << chars_per_line, pc >>
<1>1. PICK n \in Nat : n % 3 = 0 /\ n > 0 /\ n <= Left /\ TakeTriples(n)
  BY TriplesTaken
<1>2. chars_per_line = 0 /\ plainchar % 3 = 0
  BY TriplesTaken
<1> DEFINE k == plainchar \div 3
           g == n \div 3
<1>3. /\ k \in Nat /\ g \in Nat /\ plainchar = 3 * k /\ n = 3 * g
      /\ plainchar + n <= Len(Input) /\ plainchar \in Nat
  BY <1>1, <1>2, CencodeAssumption DEF TypeOK, Left
<1>4. plainchar' = plainchar + n /\ code' = code \o Quads(plainchar, g)
      /\ UNCHANGED << chars_per_line, pc >>
  BY <1>1 DEF TakeTriples
<1> HIDE DEF k, g
<1>5. Done = 4 * k /\ Done' = 4 * k + 4 * g
  BY <1>3, <1>4 DEF Done, OpenCount
<1>6. QED
  BY <1>1, <1>2, <1>3, <1>4, <1>5

-----------------------------------------------------------------------------
(* A stream of one width.                                                  *)

(* l is the line after the first n characters of pl, all at one width.     *)
OnLine(l, pl, n) ==
    /\ l \in LineType
    /\ l.text = Laid(pl, n, chars_per_line)
    /\ chars_per_line # 0 => l.count = Column(n, chars_per_line)

(* Emitting the next payload character lays one more of it.                *)
LEMMA EmitLaid ==
    ASSUME TypeOK, NEW pl \in [Nat -> Char], NEW n \in Nat,
           NEW l, OnLine(l, pl, n)
    PROVE  OnLine(Emit(l, pl[n]), pl, n + 1)
<1> DEFINE w == chars_per_line
           b == CheckBreak(l)
           e == Emit(l, pl[n])
<1>1. l \in LineType /\ pl[n] \in Char /\ NL \in Char /\ w \in Nat /\ w <= SizeMax
  BY SizeMaxAssumption DEF OnLine, TypeOK, Char
<1>2. e \in LineType
  BY <1>1, EmitType
<1>3. e.text = Append(b.text, pl[n]) /\ e.count = b.count
  BY <1>1 DEF Emit, CheckBreak, LineType
<1>4. CASE w = 0
  <2>1. b.text = l.text
    BY <1>1, <1>4 DEF CheckBreak, LineType
  <2>2. Laid(pl, n + 1, 0) = Append(Laid(pl, n, 0), pl[n])
    BY <1>1, LaidMore
  <2>3. QED
    BY <1>2, <1>3, <1>4, <2>1, <2>2 DEF OnLine
<1>5. CASE w # 0 /\ Column(n, w) = w
  <2>1. l.count = w /\ w >= w
    BY <1>1, <1>5 DEF OnLine
  <2>2. b.text = Append(l.text, NL) /\ b.count = 1
    BY <1>5, <2>1 DEF CheckBreak
  <2>3. Laid(pl, n + 1, w) = Append(Append(Laid(pl, n, w), NL), pl[n])
    BY <1>1, <1>5, LaidMore
  <2>4. Column(n + 1, w) = 1
    BY <1>1, <1>5, ColumnNext
  <2>5. QED
    BY <1>2, <1>3, <2>2, <2>3, <2>4 DEF OnLine
<1>6. CASE w # 0 /\ Column(n, w) # w
  <2>1. l.count = Column(n, w) /\ Column(n, w) \in 0..w
    BY <1>1, <1>6, ColumnIs DEF OnLine
  <2>2. ~(l.count >= w) /\ l.count + 1 \in 0..SizeMax
    BY <1>1, <1>6, <2>1, SizeMaxAssumption
  <2>3. SizeT(l.count + 1) = l.count + 1
    BY <2>2, SizeMaxAssumption DEF SizeT
  <2>4. b.text = l.text /\ b.count = l.count + 1
    BY <1>1, <2>2, <2>3 DEF CheckBreak, LineType
  <2>5. Laid(pl, n + 1, w) = Append(Laid(pl, n, w), pl[n])
    BY <1>1, <1>6, LaidMore
  <2>6. Column(n + 1, w) = Column(n, w) + 1
    BY <1>1, <1>6, ColumnNext
  <2>7. QED
    BY <1>2, <1>3, <2>1, <2>4, <2>5, <2>6 DEF OnLine
<1>7. QED
  BY <1>4, <1>5, <1>6

(* What base64_encode_blockend adds, as characters of the closed text.     *)
Closing == PayloadOf(Input, plainchar)

(* The end of a stream emits no, two or three more characters of the
   closing payload.                                                        *)
LEMMA LastGroupIs ==
    ASSUME TypeOK, Carried
    PROVE  LET l1 == Emit(Line, Closing[Done])
               l2 == Emit(l1, Closing[Done + 1])
           IN  \/ ClosedCount(plainchar) = Done /\ LastGroup(Line) = Line
               \/ ClosedCount(plainchar) = Done + 2 /\ LastGroup(Line) = l2
               \/ /\ ClosedCount(plainchar) = Done + 3
                  /\ LastGroup(Line) = Emit(l2, Closing[Done + 2])
<1> DEFINE m == plainchar
           k == m \div 3
<1>1. m \in 0..Len(Input) /\ m \in Nat /\ k \in Nat /\ Done \in Nat
  BY CencodeAssumption DEF TypeOK, Done, OpenCount
<1>2. CASE m % 3 = 0
  <2>1. ClosedCount(m) = Done
    BY <1>1, <1>2 DEF Done, OpenCount, ClosedCount
  <2>2. LastGroup(Line) = Line
    BY <1>2 DEF LastGroup, Carried
  <2>3. QED
    BY <2>1, <2>2
<1>3. CASE m % 3 = 1
  <2>1. m = 3 * k + 1 /\ Done = 4 * k + 1
    BY <1>1, <1>3 DEF Done, OpenCount
  <2>2. ClosedCount(m) = Done + 3
    BY <1>1, <2>1 DEF ClosedCount
  <2>3. step = "B" /\ result = << Input[m][4], Zero, Zero >>
    BY <1>3 DEF Carried
  <2> HIDE DEF k
  <2>4. 3 * k <= m /\ 3 * k + 1 = m
    BY <1>1, <2>1
  <2>5. /\ PayloadOf(Input, m)[4 * k + 1] = << Input[3 * k + 1][4], Zero, Zero >>
        /\ PayloadOf(Input, m)[4 * k + 2] = PAD
        /\ PayloadOf(Input, m)[4 * k + 3] = PAD
    BY <1>1, <2>4, GroupChars
  <2>6. 4 * k + 2 = Done + 1 /\ 4 * k + 3 = Done + 2
    BY <1>1, <2>1
  <2>7. Closing[Done] = result /\ Closing[Done + 1] = PAD /\ Closing[Done + 2] = PAD
    BY <2>1, <2>3, <2>4, <2>5, <2>6 DEF Closing
  <2>8. LastGroup(Line) = Emit(Emit(Emit(Line, result), PAD), PAD)
    BY <2>3 DEF LastGroup
  <2>9. QED
    BY <2>2, <2>7, <2>8
<1>4. CASE m % 3 = 2
  <2>1. m = 3 * k + 2 /\ Done = 4 * k + 2
    BY <1>1, <1>4 DEF Done, OpenCount
  <2>2. ClosedCount(m) = Done + 2
    BY <1>1, <2>1 DEF ClosedCount
  <2>3. step = "C" /\ result = << Input[m][3], Input[m][4], Zero >>
    BY <1>4 DEF Carried
  <2> HIDE DEF k
  <2>4. 3 * k <= m /\ 3 * k + 2 = m
    BY <1>1, <2>1
  <2>5. /\ PayloadOf(Input, m)[4 * k + 2] =
             << Input[3 * k + 2][3], Input[3 * k + 2][4], Zero >>
        /\ PayloadOf(Input, m)[4 * k + 3] = PAD
    BY <1>1, <2>4, GroupChars
  <2>6. 4 * k + 3 = Done + 1
    BY <1>1, <2>1
  <2>7. Closing[Done] = result /\ Closing[Done + 1] = PAD
    BY <2>1, <2>3, <2>4, <2>5, <2>6 DEF Closing
  <2>8. LastGroup(Line) = Emit(Emit(Line, result), PAD)
    BY <2>3 DEF LastGroup
  <2>9. QED
    BY <2>2, <2>7, <2>8
<1>5. QED
  BY <1>1, <1>2, <1>3, <1>4

(* The closing payload: no newline, and equal to the whole one as far as
   that is written.                                                        *)
LEMMA ClosingType ==
    ASSUME TypeOK
    PROVE  /\ Closing \in [Nat -> Char] /\ \A j \in Nat : Closing[j] # NL
           /\ \A j \in 0..(Done - 1) : All[j] = Closing[j]
           /\ Done \in Nat /\ ClosedCount(plainchar) \in Nat
<1>1. /\ plainchar \in 0..Len(Input) /\ plainchar \in Nat
      /\ Input \in Seq(Byte) /\ Len(Input) \in Nat
  BY CencodeAssumption DEF TypeOK
<1>2. Closing \in [Nat -> Char]
  BY <1>1, PayloadType DEF Closing
<1>3. \A j \in Nat : Closing[j] # NL
  BY <1>1, SextetAtType, UnitsAssumption DEF Closing, PayloadOf, PayloadChar
<1>4. \A j \in 0..(Done - 1) : All[j] = Closing[j]
  BY <1>1, PayloadSettled DEF All, Closing, Done
<1>5. QED
  BY <1>1, <1>2, <1>3, <1>4, CountTypes DEF Done

(* The invariant: until it is ended the text is that of the bytes consumed,*)
(* and stepcount the column of its end.                                    *)
TextSoFar ==
    IF pc = "ended"
    THEN /\ code = ClosedText(Input, plainchar, chars_per_line)
         /\ chars_per_line # 0 =>
               stepcount = Column(ClosedCount(plainchar), chars_per_line)
    ELSE /\ OnLine(Line, All, Done)
         /\ plainchar = 0 => stepcount = 0

(* The empty text is a line at column 0 for any width.                     *)
LEMMA NoTextYet ==
    ASSUME NEW w \in Nat, w <= SizeMax
    PROVE  [text |-> << >>, count |-> 0] \in LineType
           /\ Laid(All, OpenCount(0), w) = << >> /\ Column(OpenCount(0), w) = 0
<1>1. OpenCount(0) = 0
  BY DEF OpenCount
<1>2. QED
  BY <1>1, LaidNone, SizeMaxAssumption DEF LineType, Column

(* The text so far holds at first.                                         *)
LEMMA TextInit == Init => TextSoFar
<1> SUFFICES ASSUME Init PROVE TextSoFar
  OBVIOUS
<1>1. 0 \in Nat /\ 0 <= SizeMax
  BY SizeMaxAssumption
<1>2. QED
  BY <1>1, NoTextYet DEF Init, TextSoFar, OnLine, Line, Done

(* While the width is set before the first character, every step keeps
   the text so far.                                                        *)
LEMMA TextStep ==
    ASSUME ~MidStreamWidth, TypeOK, TypeOK', Carried, TextSoFar, [Next]_vars
    PROVE  TextSoFar'
<1>1. CASE InitState
  <2>1. 0 \in Nat /\ 0 <= SizeMax
    BY SizeMaxAssumption
  <2>2. QED
    BY <1>1, <2>1, NoTextYet DEF InitState, TextSoFar, OnLine, Line, Done
<1>2. CASE SetWidth
  <2>1. plainchar = 0 /\ stepcount = 0 /\ UNCHANGED << code, stepcount, plainchar, pc >>
        /\ pc # "ended" /\ OnLine(Line, All, Done)
    BY <1>2 DEF SetWidth, Idle, TextSoFar
  <2>2. /\ chars_per_line \in Nat /\ chars_per_line <= SizeMax
        /\ chars_per_line' \in Nat /\ chars_per_line' <= SizeMax
    BY SizeMaxAssumption DEF TypeOK
  <2>3. code = << >>
    BY <2>1, <2>2, NoTextYet DEF OnLine, Line, Done
  <2>4. QED
    BY <2>1, <2>2, <2>3, NoTextYet DEF TextSoFar, OnLine, Line, Done
<1>3. CASE EncodeBlock \/ KernelDone \/ Return \/ UNCHANGED vars
  <2>1. UNCHANGED << code, stepcount, plainchar, chars_per_line >>
        /\ (pc' = "ended" <=> pc = "ended")
    BY <1>3 DEF EncodeBlock, KernelDone, Return, Idle, vars, state
  <2>2. QED
    BY <2>1 DEF TextSoFar, OnLine, Line, Done
<1>4. CASE KernelStep \/ BulkStep
  <2>1. PICK k \in Nat, g \in Nat :
              /\ 3 * k + 3 * g <= Len(Input)
              /\ Done = 4 * k /\ Done' = 4 * k + 4 * g
              /\ code' = code \o Quads(3 * k, g)
              /\ plainchar < plainchar'
              /\ chars_per_line = 0
              /\ UNCHANGED << chars_per_line, pc >>
    BY <1>4, TriplesWrite
  <2>2. pc # "ended"
    BY <1>4 DEF KernelStep, BulkStep, At
  <2>3. code = Laid(All, 4 * k, 0)
    BY <2>1, <2>2 DEF TextSoFar, OnLine, Line
  <2>4. code' = Laid(All, 4 * k + 4 * g, 0)
    BY <2>1, <2>3, QuadsExtend
  <2>5. plainchar' # 0
    BY <2>1, CencodeAssumption DEF TypeOK
  <2>6. Line' \in LineType
    BY DEF TypeOK, Line, LineType
  <2>7. QED
    BY <2>1, <2>2, <2>4, <2>5, <2>6 DEF TextSoFar, OnLine, Line
<1>5. CASE StepA \/ StepB \/ StepC
  <2>1. /\ pc # "ended" /\ UNCHANGED << chars_per_line, pc >> /\ plainchar' # 0
    <3>1. /\ pc # "ended" /\ UNCHANGED << chars_per_line, pc >>
          /\ plainchar' = plainchar + 1
      BY <1>5 DEF StepA, StepB, StepC, At, Consume
    <3>2. plainchar \in Nat
      BY CencodeAssumption DEF TypeOK
    <3>3. QED
      BY <3>1, <3>2
  <2>2. OnLine(Line, All, Done) /\ Done \in Nat /\ All \in [Nat -> Char]
    BY <2>1, StepsWrite, AllType DEF TextSoFar
  <2>3. OnLine(Emit(Line, All[Done]), All, Done + 1)
    BY <2>2, EmitLaid
  <2>4. OnLine(Emit(Emit(Line, All[Done]), All[Done + 1]), All, Done + 2)
    <3>1. Done + 1 \in Nat /\ (Done + 1) + 1 = Done + 2
      BY <2>2
    <3>2. QED
      BY <2>2, <2>3, <3>1, EmitLaid
  <2>5. \A l : OnLine(l, All, Done') /\ SetLine(l) => OnLine(Line', All, Done')
    <3> SUFFICES ASSUME NEW l, OnLine(l, All, Done'), SetLine(l)
                 PROVE  OnLine(Line', All, Done')
      OBVIOUS
    <3>1. Line' = l
      BY DEF OnLine, LineType, SetLine, Line
    <3>2. QED
      BY <3>1
  <2>6. OnLine(Line', All, Done')
    BY <1>5, <2>3, <2>4, <2>5, StepsWrite
  <2>7. OnLine(Line, All, Done)'
    BY <2>1, <2>6 DEF OnLine, LineType, All
  <2>8. QED
    BY <2>1, <2>7 DEF TextSoFar
<1>6. CASE Blockend
  <2> DEFINE t == LastGroup(Line)
             N == ClosedCount(plainchar)
  <2>1. /\ pc # "ended" /\ pc' = "ended" /\ UNCHANGED << chars_per_line, plainchar >>
        /\ code' = IF chars_per_line = 0 THEN t.text ELSE Append(t.text, NL)
        /\ stepcount' = t.count
    <3>1. t \in LineType
      BY LastGroupType
    <3> HIDE DEF t
    <3>2. SetLine(IF chars_per_line = 0 THEN t
                  ELSE [t EXCEPT !.text = Append(t.text, NL)])
      BY <1>6 DEF Blockend, t
    <3>3. QED
      BY <1>6, <3>1, <3>2 DEF Blockend, SetLine, LineType, Idle
  <2>2. OnLine(Line, Closing, Done)
    <3>1. OnLine(Line, All, Done)
      BY <2>1 DEF TextSoFar
    <3>2. chars_per_line \in Nat
      BY SizeMaxAssumption DEF TypeOK
    <3>3. Laid(All, Done, chars_per_line) = Laid(Closing, Done, chars_per_line)
      BY <3>2, AllType, ClosingType, LaidSame
    <3>4. QED
      BY <3>1, <3>3 DEF OnLine
  <2>3. OnLine(t, Closing, N)
    <3>1. /\ Closing \in [Nat -> Char] /\ Done \in Nat
          /\ Done + 1 \in Nat /\ Done + 2 \in Nat
          /\ (Done + 1) + 1 = Done + 2 /\ (Done + 2) + 1 = Done + 3
      BY ClosingType
    <3> DEFINE l1 == Emit(Line, Closing[Done])
               l2 == Emit(l1, Closing[Done + 1])
    <3>2. OnLine(l1, Closing, Done + 1)
      BY <2>2, <3>1, EmitLaid
    <3> HIDE DEF l1
    <3>3. OnLine(l2, Closing, Done + 2)
      BY <3>1, <3>2, EmitLaid
    <3> HIDE DEF l2
    <3>4. OnLine(Emit(l2, Closing[Done + 2]), Closing, Done + 3)
      BY <3>1, <3>3, EmitLaid
    <3>5. \/ N = Done /\ t = Line
          \/ N = Done + 2 /\ t = l2
          \/ N = Done + 3 /\ t = Emit(l2, Closing[Done + 2])
      BY LastGroupIs DEF l1, l2
    <3> HIDE DEF N, t
    <3>6. QED
      BY <2>2, <3>3, <3>4, <3>5
  <2>4. ClosedText(Input, plainchar, chars_per_line) =
          IF chars_per_line = 0 THEN t.text ELSE Append(t.text, NL)
    <3>1. /\ plainchar \in 0..Len(Input) /\ Input \in Seq(Byte) /\ chars_per_line \in Nat
      BY CencodeAssumption, SizeMaxAssumption DEF TypeOK
    <3>2. t.text = Laid(PayloadOf(Input, plainchar), N, chars_per_line)
      BY <2>3 DEF OnLine, Closing
    <3> HIDE DEF t
    <3>3. QED
      BY <3>1, <3>2, ClosedIsLaid
  <2>5. chars_per_line # 0 => t.count = Column(N, chars_per_line)
    BY <2>3 DEF OnLine
  <2> HIDE DEF t
  <2>6. QED
    BY <2>1, <2>4, <2>5 DEF TextSoFar
<1>7. QED
  BY <1>1, <1>2, <1>3, <1>4, <1>5, <1>6 DEF Next, Inside

(* Types and carried bits hold at first.                                   *)
LEMMA IndInit == Init => TypeOK /\ Carried
BY TypeInit, CarriedInit

(* Every step keeps types and carried bits.                                *)
LEMMA IndStep == TypeOK /\ Carried /\ [Next]_vars => (TypeOK /\ Carried)'
BY TypeStep, CarriedStep

(* Before the end the text is the open text of what was read.              *)
LEMMA SoFarIsOpen ==
    ASSUME TypeOK, TextSoFar, pc # "ended"
    PROVE  code = OpenText(Input, plainchar, chars_per_line)
<1>1. plainchar \in 0..Len(Input) /\ Input \in Seq(Byte) /\ chars_per_line \in Nat
  BY CencodeAssumption, SizeMaxAssumption DEF TypeOK
<1>2. OpenText(Input, plainchar, chars_per_line) = Laid(All, Done, chars_per_line)
  BY <1>1, OpenIsLaid DEF All, Done
<1>3. QED
  BY <1>2 DEF TextSoFar, OnLine, Line

(* The abstract specification's texts are the ones of B64Units.            *)
LEMMA SameTexts ==
    ASSUME NEW b, NEW m, NEW w
    PROVE  /\ Text!OpenText(b, m, w) = OpenText(b, m, w)
           /\ Text!ClosedText(b, m, w) = ClosedText(b, m, w)
BY DEF Text!OpenText, OpenText, Text!ClosedText, ClosedText,
       Text!TextChar, TextChar, Text!PayloadChar, PayloadChar,
       Text!SextetAt, SextetAt, Text!CrumbAt, CrumbAt,
       Text!Separators, Separators, Text!OpenCount, OpenCount,
       Text!ClosedCount, ClosedCount

(* Every step is a step of EncodeText or leaves its variables alone.       *)
LEMMA TextRefines ==
    ASSUME ~MidStreamWidth, TypeOK, TypeOK', Carried, TextSoFar, TextSoFar',
           [Next]_vars
    PROVE  [Text!Next]_(Text!vars)
<1>1. plainchar \in 0..Len(Input) /\ plainchar' \in 0..Len(Input)
      /\ plainchar \in Nat /\ plainchar' \in Nat
  BY CencodeAssumption DEF TypeOK
<1>2. CASE InitState
  BY <1>2 DEF InitState, Text!Next, Text!Restart
<1>3. CASE SetWidth
  <2>1. Text!SetWidth
    BY <1>3 DEF SetWidth, Idle, TextSoFar, Text!SetWidth
  <2>2. QED
    BY <2>1 DEF Text!Next
<1>4. CASE EncodeBlock \/ KernelDone \/ Return \/ UNCHANGED vars
  BY <1>4 DEF EncodeBlock, KernelDone, Return, Idle, vars, state, Text!vars
<1>5. CASE KernelStep \/ BulkStep \/ StepA \/ StepB \/ StepC
  <2>1. plainchar < plainchar' /\ UNCHANGED << chars_per_line, pc >> /\ pc # "ended"
    <3>1. CASE KernelStep \/ BulkStep
      BY <3>1, TriplesWrite DEF KernelStep, BulkStep, At
    <3>2. CASE StepA \/ StepB \/ StepC
      BY <1>1, <3>2 DEF StepA, StepB, StepC, At, Consume
    <3>3. QED
      BY <1>5, <3>1, <3>2
  <2>2. plainchar' \in (plainchar + 1)..Len(Input)
    BY <1>1, <2>1, CencodeAssumption
  <2>3. code' = OpenText(Input, plainchar', chars_per_line')
    <3>1. TypeOK' /\ TextSoFar' /\ pc' # "ended"
      BY <2>1
    <3>2. plainchar' \in 0..Len(Input) /\ Input \in Seq(Byte) /\ chars_per_line' \in Nat
      BY CencodeAssumption, SizeMaxAssumption DEF TypeOK
    <3>3. OpenText(Input, plainchar', chars_per_line') = Laid(All, Done', chars_per_line')
      BY <3>2, OpenIsLaid DEF All, Done
    <3>4. QED
      BY <3>1, <3>3 DEF TextSoFar, OnLine, Line, All
  <2>4. Text!Feed
    BY <2>1, <2>2, <2>3, SameTexts DEF Text!Feed
  <2>5. QED
    BY <2>4 DEF Text!Next
<1>6. CASE Blockend
  <2>1. pc # "ended" /\ pc' = "ended" /\ UNCHANGED << plainchar, chars_per_line >>
    BY <1>6 DEF Blockend, Idle
  <2>2. code' = ClosedText(Input, plainchar, chars_per_line)
    BY <2>1 DEF TextSoFar
  <2>3. Text!Close
    BY <2>1, <2>2, SameTexts DEF Text!Close
  <2>4. QED
    BY <2>3 DEF Text!Next
<1>7. QED
  BY <1>2, <1>3, <1>4, <1>5, <1>6 DEF Next, Inside

(* When the line width is chosen before the first byte of a stream, the    *)
(* encoder is an EncodeText: for every input, every cut of it into blocks, *)
(* every kernel and every width, each step of each call of                 *)
(* base64_encode_block leaves the text of the bytes consumed, and          *)
(* base64_encode_blockend completes it.                                    *)
THEOREM RefinesEncodeText ==
    ASSUME ~MidStreamWidth
    PROVE  Spec => ImplementsText
<1>1. Init => Text!Init
  BY DEF Init, Text!Init, Text!Fresh
<1>2. Init => TypeOK /\ Carried /\ TextSoFar
  BY IndInit, TextInit
<1>3. TypeOK /\ Carried /\ TextSoFar /\ [Next]_vars =>
        (TypeOK /\ Carried /\ TextSoFar)' /\ [Text!Next]_(Text!vars)
  <2> SUFFICES ASSUME TypeOK, Carried, TextSoFar, [Next]_vars
               PROVE  (TypeOK /\ Carried /\ TextSoFar)' /\ [Text!Next]_(Text!vars)
    OBVIOUS
  <2>1. TypeOK' /\ Carried'
    BY IndStep
  <2>2. TextSoFar'
    BY <2>1, TextStep
  <2>3. [Text!Next]_(Text!vars)
    BY <2>1, <2>2, TextRefines
  <2>4. QED
    BY <2>1, <2>2, <2>3
<1>4. QED
  BY <1>1, <1>2, <1>3, PTL DEF Spec, ImplementsText, Text!Spec

(* size_t can count every text of the stream and a terminating NUL.        *)
TextsFit ==
    \A m \in 0..Len(Input) : \A w \in Widths \cup {0} :
        Len(ClosedText(Input, m, w)) < SizeMax

(* base64_encode_length is the length of the finished text while that is
   below SIZE_MAX.                                                         *)
LEMMA EncodeLengthIs ==
    ASSUME NEW m \in 0..Len(Input), NEW w \in Nat,
           Len(ClosedText(Input, m, w)) < SizeMax
    PROVE  EncodeLength(m, w) = Len(ClosedText(Input, m, w))
<1> DEFINE n == ClosedCount(m)
<1>1. m \in Nat /\ n \in Nat /\ SizeMax \in Nat /\ SizeMax >= 15
  BY CencodeAssumption, SizeMaxAssumption, CountTypes
<1>2. n = 4 * Groups(m) /\ Groups(m) \in Nat /\ 4 * m <= 3 * n /\ (n = 0 <=> m = 0)
  BY <1>1 DEF ClosedCount, Groups
<1> Input \in Seq(Byte)
  BY CencodeAssumption
<1>3. w = 0 => Len(ClosedText(Input, m, w)) = n
  BY ClosedLength
<1>4. w # 0 => Len(ClosedText(Input, m, w)) = n + Separators(n, w) + 1
  BY ClosedLength
<1>5. Separators(n, w) \in Nat
  <2>1. CASE w = 0
    BY <2>1 DEF Separators
  <2>2. CASE w # 0
    BY <1>1, <2>2, ColumnIs
  <2>3. QED
    BY <2>1, <2>2
<1>6. n \in Nat /\ (n # 0 /\ w # 0 => Newlines(n, w) = Separators(n, w) + 1)
      /\ (n = 0 => Separators(n, w) = 0)
  BY <1>1 DEF Newlines, Separators
<1> HIDE DEF n
<1>7. n < SizeMax
  BY <1>1, <1>3, <1>4, <1>5
<1>8. ~(m > SizeMax - 2 \/ Groups(m) > SizeMax \div 4)
  BY <1>1, <1>2, <1>7
<1>9. CASE w = 0
  BY <1>2, <1>3, <1>8, <1>9 DEF EncodeLength
<1>10. CASE w # 0 /\ n = 0
  <2>1. EncodeLength(m, w) = 1
    BY <1>2, <1>8, <1>10 DEF EncodeLength
  <2>2. QED
    BY <1>4, <1>6, <1>10, <2>1
<1>11. CASE w # 0 /\ n # 0
  <2>1. Newlines(n, w) = Separators(n, w) + 1 /\ Newlines(n, w) \in Nat
    BY <1>5, <1>6, <1>11
  <2>2. Newlines(n, w) < SizeMax - n
    BY <1>1, <1>4, <1>5, <1>11, <2>1
  <2>3. EncodeLength(m, w) = Newlines(n, w) + n
    BY <1>2, <1>8, <1>11, <2>2 DEF EncodeLength
  <2>4. QED
    BY <1>1, <1>4, <1>5, <1>11, <2>1, <2>3
<1>12. QED
  BY <1>9, <1>10, <1>11

(* base64_encode_length is exact for a stream of one width: what           *)
(* base64_encode_block and base64_encode_blockend have written together is *)
(* as long as it says, provided size_t can count the text at all.          *)
THEOREM LengthExact ==
    ASSUME ~MidStreamWidth, TextsFit
    PROVE  Spec => []LengthIsExact
<1> DEFINE WidthChosen == chars_per_line \in Widths \cup {0}
<1>1. Init => TypeOK /\ Carried /\ TextSoFar /\ WidthChosen
  BY IndInit, TextInit DEF Init
<1>2. TypeOK /\ Carried /\ TextSoFar /\ WidthChosen /\ [Next]_vars =>
        (TypeOK /\ Carried /\ TextSoFar /\ WidthChosen)'
  <2> SUFFICES ASSUME TypeOK, Carried, TextSoFar, WidthChosen, [Next]_vars
               PROVE  (TypeOK /\ Carried /\ TextSoFar /\ WidthChosen)'
    OBVIOUS
  <2>1. TypeOK' /\ Carried'
    BY IndStep
  <2>2. TextSoFar'
    BY <2>1, TextStep
  <2>3. chars_per_line' \in Widths \cup {0, chars_per_line}
    BY DEF Next, Inside, InitState, SetWidth, EncodeBlock, Blockend, KernelStep,
           KernelDone, BulkStep, TakeTriples, StepA, StepB, StepC, Consume,
           Return, vars, state
  <2>4. QED
    BY <2>1, <2>2, <2>3
<1>3. TypeOK /\ TextSoFar /\ WidthChosen => LengthIsExact
  <2> SUFFICES ASSUME TypeOK, TextSoFar, WidthChosen, pc = "ended"
               PROVE  Len(code) = EncodeLength(plainchar, chars_per_line)
    BY DEF LengthIsExact
  <2>1. plainchar \in 0..Len(Input) /\ chars_per_line \in Nat
    BY SizeMaxAssumption DEF TypeOK
  <2>2. Len(ClosedText(Input, plainchar, chars_per_line)) < SizeMax
    BY <2>1 DEF TextsFit
  <2>3. QED
    BY <2>1, <2>2, EncodeLengthIs DEF TextSoFar
<1> HIDE DEF WidthChosen
<1>4. QED
  BY <1>1, <1>2, <1>3, PTL DEF Spec

-----------------------------------------------------------------------------
(* A stream whose width may change at any time: the characters other than  *)
(* the newlines are those of the unwrapped text.                           *)

NotNL == Char \ {NL}

(* l holds, newlines apart, the first n characters of pl.                  *)
Bare(l, pl, n) == l \in LineType /\ Payload(l.text) = Laid(pl, n, 0)

(* A newline adds nothing to the payload of a text, another character
   adds itself.                                                            *)
LEMMA PayloadAppend ==
    ASSUME NEW s \in Seq(Char), NEW e \in Char
    PROVE  Payload(Append(s, e)) = IF e = NL THEN Payload(s) ELSE Append(Payload(s), e)
<1>1. Among(NotNL, Append(s, e)) =
        IF e \in NotNL THEN Append(Among(NotNL, s), e) ELSE Among(NotNL, s)
  BY AmongAppend
<1>2. e \in NotNL <=> e # NL
  BY DEF NotNL
<1>3. QED
  BY <1>1, <1>2 DEF Payload, NotNL

(* Emit adds exactly its character to the payload, wherever the line
   breaks.                                                                 *)
LEMMA EmitBare ==
    ASSUME TypeOK, NEW pl \in [Nat -> Char], NEW n \in Nat, pl[n] # NL,
           NEW l, Bare(l, pl, n)
    PROVE  Bare(Emit(l, pl[n]), pl, n + 1)
<1> DEFINE b == CheckBreak(l)
<1>1. l \in LineType /\ pl[n] \in Char /\ NL \in Char
  BY DEF Bare, Char
<1>2. Emit(l, pl[n]) \in LineType
  BY <1>1, EmitType
<1>3. Emit(l, pl[n]).text = Append(b.text, pl[n])
  BY <1>1 DEF Emit, CheckBreak, LineType
<1>4. b.text = l.text \/ b.text = Append(l.text, NL)
  BY <1>1 DEF CheckBreak, LineType
<1> HIDE DEF b
<1>5. l.text \in Seq(Char) /\ b.text \in Seq(Char)
  <2>1. l.text \in Seq(Char)
    BY <1>1 DEF LineType
  <2>2. Append(l.text, NL) \in Seq(Char)
    BY <1>1, <2>1, AppendProperties
  <2>3. QED
    BY <1>4, <2>1, <2>2
<1>6. Payload(b.text) = Payload(l.text)
  BY <1>1, <1>4, <1>5, PayloadAppend
<1>7. Payload(Append(b.text, pl[n])) = Append(Laid(pl, n, 0), pl[n])
  BY <1>1, <1>5, <1>6, PayloadAppend DEF Bare
<1>8. Laid(pl, n + 1, 0) = Append(Laid(pl, n, 0), pl[n])
  BY <1>1, LaidMore
<1>9. QED
  BY <1>2, <1>3, <1>7, <1>8 DEF Bare

(* The invariant, beside what the coroutine carries.                       *)
BareSoFar ==
    Payload(code) = IF pc = "ended" THEN ClosedText(Input, plainchar, 0)
                                    ELSE Laid(All, Done, 0)

(* The empty text has no payload.                                          *)
LEMMA BareInit == Init => BareSoFar
<1>1. OpenCount(0) = 0
  BY DEF OpenCount
<1>2. QED
  BY <1>1, AmongEmpty, LaidNone DEF Init, BareSoFar, Payload, Done

(* Every step, a change of width included, keeps the payload of the text
   that of the input.                                                      *)
LEMMA BareStep ==
    ASSUME TypeOK, TypeOK', Carried, BareSoFar, [Next]_vars
    PROVE  BareSoFar'
<1>1. CASE InitState
  <2>1. OpenCount(0) = 0
    BY DEF OpenCount
  <2>2. QED
    BY <1>1, <2>1, AmongEmpty, LaidNone DEF InitState, BareSoFar, Payload, Done
<1>2. CASE SetWidth \/ EncodeBlock \/ KernelDone \/ Return \/ UNCHANGED vars
  <2>1. UNCHANGED << code, plainchar >> /\ (pc' = "ended" <=> pc = "ended")
    BY <1>2 DEF SetWidth, EncodeBlock, KernelDone, Return, Idle, vars, state
  <2>2. QED
    BY <2>1 DEF BareSoFar, Payload, Done, All
<1>3. CASE KernelStep \/ BulkStep
  <2>1. PICK k \in Nat, g \in Nat :
              /\ 3 * k + 3 * g <= Len(Input)
              /\ Done = 4 * k /\ Done' = 4 * k + 4 * g
              /\ code' = code \o Quads(3 * k, g)
              /\ UNCHANGED pc
    BY <1>3, TriplesWrite
  <2>2. pc # "ended"
    BY <1>3 DEF KernelStep, BulkStep, At
  <2>3. Payload(code) = Laid(All, 4 * k, 0)
    BY <2>1, <2>2 DEF BareSoFar
  <2> DEFINE q == Quads(3 * k, g)
  <2>4. q \in Seq(Sextet)
    BY <2>1, QuadsAre
  <2>5. q \in Seq(NotNL) /\ q \in Seq(Char) /\ code \in Seq(Char)
    <3>1. Sextet \subseteq NotNL /\ Sextet \subseteq Char
      BY UnitsAssumption DEF NotNL, Char
    <3>2. QED
      BY <2>4, <3>1 DEF TypeOK
  <2> HIDE DEF q
  <2>6. Among(NotNL, code \o q) = Among(NotNL, code) \o Among(NotNL, q)
    BY <2>5, AmongConcat, Zenon
  <2>7. Among(NotNL, q) = q
    BY <2>5, AmongAll
  <2>8. Payload(code') = Laid(All, 4 * k + 4 * g, 0)
    <3>1. code' = code \o q
      BY <2>1 DEF q
    <3>2. Payload(code') = Payload(code) \o q
      BY <2>6, <2>7, <3>1 DEF Payload, NotNL
    <3>3. Laid(All, 4 * k, 0) \o q = Laid(All, 4 * k + 4 * g, 0)
      BY <2>1, QuadsExtend DEF q
    <3>4. QED
      BY <2>3, <3>2, <3>3, Zenon
  <2>9. QED
    BY <2>1, <2>2, <2>8 DEF BareSoFar, Payload, All
<1>4. CASE StepA \/ StepB \/ StepC
  <2>1. pc # "ended" /\ UNCHANGED pc
    BY <1>4 DEF StepA, StepB, StepC, At, Consume
  <2>2. /\ Bare(Line, All, Done) /\ Done \in Nat /\ All \in [Nat -> Char]
        /\ \A j \in Nat : All[j] # NL
    BY <2>1, StepsWrite, AllType, LineIsLine DEF BareSoFar, Bare, Line
  <2>3. Bare(Emit(Line, All[Done]), All, Done + 1)
    BY <2>2, EmitBare
  <2>4. Bare(Emit(Emit(Line, All[Done]), All[Done + 1]), All, Done + 2)
    <3>1. Done + 1 \in Nat /\ (Done + 1) + 1 = Done + 2
      BY <2>2
    <3>2. QED
      BY <2>2, <2>3, <3>1, EmitBare
  <2>5. \A l : Bare(l, All, Done') /\ SetLine(l) => Payload(code') = Laid(All, Done', 0)
    BY DEF Bare, SetLine
  <2>6. Payload(code') = Laid(All, Done', 0)
    BY <1>4, <2>3, <2>4, <2>5, StepsWrite
  <2>7. QED
    BY <2>1, <2>6 DEF BareSoFar, Payload, All
<1>5. CASE Blockend
  <2> DEFINE t == LastGroup(Line)
             N == ClosedCount(plainchar)
  <2>1. /\ pc # "ended" /\ pc' = "ended" /\ UNCHANGED plainchar
        /\ code' = IF chars_per_line = 0 THEN t.text ELSE Append(t.text, NL)
        /\ t \in LineType
    <3>1. t \in LineType
      BY LastGroupType
    <3> HIDE DEF t
    <3>2. SetLine(IF chars_per_line = 0 THEN t
                  ELSE [t EXCEPT !.text = Append(t.text, NL)])
      BY <1>5 DEF Blockend, t
    <3>3. QED
      BY <1>5, <3>1, <3>2 DEF Blockend, SetLine, LineType, Idle
  <2>2. Bare(Line, Closing, Done)
    <3>1. Laid(All, Done, 0) = Laid(Closing, Done, 0)
      BY AllType, ClosingType, LaidSame
    <3>2. QED
      BY <2>1, <3>1, LineIsLine DEF BareSoFar, Bare, Line
  <2>3. Bare(t, Closing, N)
    <3>1. /\ Closing \in [Nat -> Char] /\ Done \in Nat
          /\ Done + 1 \in Nat /\ Done + 2 \in Nat
          /\ (Done + 1) + 1 = Done + 2 /\ (Done + 2) + 1 = Done + 3
          /\ \A j \in Nat : Closing[j] # NL
      BY ClosingType
    <3> DEFINE l1 == Emit(Line, Closing[Done])
               l2 == Emit(l1, Closing[Done + 1])
    <3>2. Bare(l1, Closing, Done + 1)
      BY <2>2, <3>1, EmitBare
    <3> HIDE DEF l1
    <3>3. Bare(l2, Closing, Done + 2)
      BY <3>1, <3>2, EmitBare
    <3> HIDE DEF l2
    <3>4. Bare(Emit(l2, Closing[Done + 2]), Closing, Done + 3)
      BY <3>1, <3>3, EmitBare
    <3>5. \/ N = Done /\ t = Line
          \/ N = Done + 2 /\ t = l2
          \/ N = Done + 3 /\ t = Emit(l2, Closing[Done + 2])
      BY LastGroupIs DEF l1, l2
    <3> HIDE DEF N, t
    <3>6. QED
      BY <2>2, <3>3, <3>4, <3>5
  <2>4. Payload(code') = Payload(t.text)
    <3> HIDE DEF t
    <3>1. t.text \in Seq(Char) /\ NL \in Char
      BY <2>1 DEF LineType, Char
    <3>2. QED
      BY <2>1, <3>1, PayloadAppend
  <2>5. ClosedText(Input, plainchar, 0) = Laid(Closing, N, 0)
    <3>1. plainchar \in 0..Len(Input) /\ Input \in Seq(Byte)
      BY CencodeAssumption DEF TypeOK
    <3>2. QED
      BY <3>1, ClosedIsLaid DEF Closing
  <2> HIDE DEF t, N
  <2>6. QED
    BY <2>1, <2>3, <2>4, <2>5 DEF BareSoFar, Bare, Payload
<1>6. QED
  BY <1>1, <1>2, <1>3, <1>4, <1>5 DEF Next, Inside

(* What is kept implies that a width only adds newlines.                   *)
LEMMA BareIsProperty ==
    ASSUME TypeOK, BareSoFar
    PROVE  WidthOnlyAddsNewlines
<1>1. plainchar \in 0..Len(Input) /\ Input \in Seq(Byte)
  BY CencodeAssumption DEF TypeOK
<1>2. OpenText(Input, plainchar, 0) = Laid(All, Done, 0)
  BY <1>1, OpenIsLaid DEF All, Done
<1>3. QED
  BY <1>2 DEF BareSoFar, WidthOnlyAddsNewlines

(* Types and payload hold of every behaviour.                              *)
LEMMA WidthInvariant == Spec => [](TypeOK /\ WidthOnlyAddsNewlines)
<1>1. Init => TypeOK /\ Carried /\ BareSoFar
  BY IndInit, BareInit
<1>2. TypeOK /\ Carried /\ BareSoFar /\ [Next]_vars => (TypeOK /\ Carried /\ BareSoFar)'
  <2> SUFFICES ASSUME TypeOK, Carried, BareSoFar, [Next]_vars
               PROVE  (TypeOK /\ Carried /\ BareSoFar)'
    OBVIOUS
  <2>1. TypeOK' /\ Carried'
    BY IndStep
  <2>2. QED
    BY <2>1, BareStep
<1>3. TypeOK /\ BareSoFar => TypeOK /\ WidthOnlyAddsNewlines
  BY BareIsProperty
<1>4. QED
  BY <1>1, <1>2, <1>3, PTL DEF Spec

(* Whatever widths the caller sets and whenever: without its newlines the  *)
(* text is the unwrapped encoding of the bytes consumed.                   *)
THEOREM NewlinesOnly == Spec => []WidthOnlyAddsNewlines
BY WidthInvariant, PTL

(* Whatever widths the caller sets and whenever: at every point the        *)
(* characters written decode to the bytes consumed, all but the one that   *)
(* result still carries, and after base64_encode_blockend to all of them.  *)
THEOREM Invertible == Spec => []DecodesBack
<1>1. TypeOK /\ WidthOnlyAddsNewlines => DecodesBack
  <2> SUFFICES ASSUME TypeOK, WidthOnlyAddsNewlines PROVE DecodesBack
    OBVIOUS
  <2> DEFINE m == plainchar
             k == (3 * OpenCount(m)) \div 4
  <2>1. m \in 0..Len(Input) /\ Input \in Seq(Byte) /\ code \in Seq(Char) /\ m \in Nat
    BY CencodeAssumption DEF TypeOK
  <2>2. CASE pc = "ended"
    <3>1. Decoded(code) = SubSeq(Input, 1, m)
      BY <2>1, <2>2, ClosedDecodes DEF WidthOnlyAddsNewlines, Payload
    <3>2. Len(SubSeq(Input, 1, m)) = m
      BY <2>1
    <3>3. QED
      BY <2>1, <2>2, <3>1, <3>2 DEF DecodesBack
  <2>3. CASE pc # "ended"
    <3>1. /\ Decoded(code) = SubSeq(Input, 1, k) /\ k \in 0..m /\ m - k \in {0, 1}
      BY <2>1, <2>3, OpenDecodes DEF WidthOnlyAddsNewlines, Payload
    <3> HIDE DEF k
    <3>2. Len(SubSeq(Input, 1, k)) = k
      BY <2>1, <3>1
    <3>3. QED
      BY <2>1, <2>3, <3>1, <3>2 DEF DecodesBack
  <2>4. QED
    BY <2>2, <2>3
<1>2. QED
  BY <1>1, WidthInvariant, PTL

-----------------------------------------------------------------------------
(* Lines keep within the width.  The argument needs stepcount itself to be *)
(* the column, not only up to what size_t drops.                           *)

(* stepcount is the column of l, exactly.                                  *)
OnColumn(l) == l \in LineType /\ IsLastLine(l.text, l.count)

(* No character t has beyond those of s stands past the width.             *)
Within(s, t) ==
    \A p \in (Len(s) + 1)..Len(t) : \A n \in 1..p :
        IsLastLine(SubSeq(t, 1, p), n) => n <= chars_per_line

(* A line has no more characters than the text has, newlines apart.        *)
LEMMA LineWithinPayload ==
    ASSUME NEW s \in Seq(Char), NEW n, IsLastLine(s, n)
    PROVE  n <= Len(Payload(s)) /\ n \in Nat /\ Len(Payload(s)) \in Nat
<1> DEFINE k == Len(s) - n
           u == SubSeq(s, 1, k)
           t == SubSeq(s, k + 1, Len(s))
<1>1. n \in 0..Len(s) /\ Len(s) \in Nat
  BY DEF IsLastLine
<1>2. k \in 0..Len(s) /\ Len(s) - k = n
  BY <1>1
<1>3. \A p \in (k + 1)..Len(s) : s[p] \in NotNL
  <2> SUFFICES ASSUME NEW p \in (k + 1)..Len(s) PROVE s[p] \in NotNL
    OBVIOUS
  <2>1. p \in 1..Len(s)
    BY <1>1, <1>2
  <2>2. s[p] # NL
    BY DEF IsLastLine
  <2>3. QED
    BY <2>1, <2>2 DEF NotNL
<1>4. /\ u \in Seq(Char) /\ Len(u) = k
      /\ t \in Seq(Char) /\ Len(t) = n
      /\ \A i \in 1..k : u[i] = s[i]
      /\ \A i \in 1..n : t[i] = s[k + i]
  BY <1>1, <1>2
<1> HIDE DEF k, u, t
<1>5. t \in Seq(NotNL)
  <2>1. \A i \in 1..n : t[i] \in NotNL
    BY <1>1, <1>2, <1>3, <1>4
  <2> HIDE DEF t
  <2>2. n \in Nat /\ Len(t) = n /\ t \in Seq(Char)
    BY <1>1, <1>4
  <2>3. t = [i \in 1..Len(t) |-> t[i]]
    BY <2>2
  <2>4. [i \in 1..n |-> t[i]] \in Seq(NotNL)
    BY <2>1, <2>2
  <2>5. QED
    BY <2>2, <2>3, <2>4
<1>6. s = u \o t
  <2>1. /\ u \o t \in Seq(Char) /\ Len(u \o t) = Len(u) + Len(t)
        /\ \A i \in 1..(Len(u) + Len(t)) :
               (u \o t)[i] = IF i <= Len(u) THEN u[i] ELSE t[i - Len(u)]
    BY <1>4, ConcatProperties
  <2>2. Len(u) + Len(t) = Len(s)
    BY <1>1, <1>2, <1>4
  <2>3. ASSUME NEW i \in 1..Len(s) PROVE s[i] = (u \o t)[i]
    <3>1. CASE i <= k
      <4>1. i \in 1..k /\ i \in 1..(Len(u) + Len(t)) /\ i <= Len(u)
        BY <1>1, <1>2, <1>4, <2>2, <3>1
      <4>2. u[i] = s[i]
        BY <1>4, <4>1
      <4>3. QED
        BY <2>1, <4>1, <4>2
    <3>2. CASE i > k
      <4>1. i - k \in 1..n /\ k + (i - k) = i
        BY <1>1, <1>2, <3>2
      <4>2. t[i - k] = s[i]
        BY <1>4, <4>1
      <4>3. i \in 1..(Len(u) + Len(t)) /\ ~(i <= Len(u)) /\ Len(u) = k
        BY <1>1, <1>2, <1>4, <2>2, <3>2
      <4>4. (u \o t)[i] = t[i - Len(u)]
        BY <2>1, <4>3
      <4>5. QED
        BY <4>2, <4>3, <4>4
    <3>3. i <= k \/ i > k
      BY <1>1, <1>2
    <3>4. QED
      BY <3>1, <3>2, <3>3, Zenon
  <2>4. QED
    BY <2>1, <2>2, <2>3, SeqEqual
<1>7. Payload(s) = Among(NotNL, u) \o t
  <2>1. Among(NotNL, u \o t) = Among(NotNL, u) \o Among(NotNL, t)
    BY <1>4, AmongConcat
  <2>2. Among(NotNL, t) = t
    BY <1>5, AmongAll
  <2>3. Payload(s) = Among(NotNL, s)
    BY DEF Payload, NotNL
  <2>4. QED
    BY <1>6, <2>1, <2>2, <2>3
<1>8. Among(NotNL, u) \in Seq(NotNL \cap Char)
  BY <1>4, AmongType
<1>9. Len(Payload(s)) = Len(Among(NotNL, u)) + n /\ Len(Among(NotNL, u)) \in Nat
  <2> DEFINE a == Among(NotNL, u)
  <2>1. a \in Seq(Char)
    BY <1>8 DEF NotNL
  <2> HIDE DEF a
  <2>2. Len(a \o t) = Len(a) + Len(t) /\ Len(a) \in Nat
    BY <1>4, <2>1, ConcatProperties, LenProperties
  <2>3. QED
    BY <1>4, <1>7, <2>2 DEF a
<1>10. QED
  BY <1>1, <1>9

(* A text has one last line.                                               *)
LEMMA LastLineUnique ==
    ASSUME NEW s \in Seq(Char), NEW n, NEW k, IsLastLine(s, n), IsLastLine(s, k)
    PROVE  n = k
<1>1. n \in 0..Len(s) /\ k \in 0..Len(s) /\ Len(s) \in Nat
  BY DEF IsLastLine
<1>2. ~(n < k)
  <2> SUFFICES ASSUME n < k PROVE FALSE
    OBVIOUS
  <2>1. s[Len(s) - n] = NL
    BY <1>1 DEF IsLastLine
  <2>2. Len(s) - n \in (Len(s) - k + 1)..Len(s)
    BY <1>1
  <2>3. QED
    BY <2>1, <2>2 DEF IsLastLine
<1>3. ~(k < n)
  <2> SUFFICES ASSUME k < n PROVE FALSE
    OBVIOUS
  <2>1. s[Len(s) - k] = NL
    BY <1>1 DEF IsLastLine
  <2>2. Len(s) - k \in (Len(s) - n + 1)..Len(s)
    BY <1>1
  <2>3. QED
    BY <2>1, <2>2 DEF IsLastLine
<1>4. QED
  BY <1>1, <1>2, <1>3

(* A character that leaves the last line within the width keeps every
   line within it.                                                         *)
LEMMA AppendWithin ==
    ASSUME NEW s \in Seq(Char), NEW ch \in Char, NEW k \in Nat,
           IsLastLine(Append(s, ch), k), k <= chars_per_line
    PROVE  Within(s, Append(s, ch))
<1> DEFINE t == Append(s, ch)
<1>1. t \in Seq(Char) /\ Len(t) = Len(s) + 1 /\ Len(s) \in Nat
  OBVIOUS
<1>2. SubSeq(t, 1, Len(t)) = t
  BY <1>1, SubSeqFull
<1> HIDE DEF t
<1>3. ASSUME NEW p \in (Len(s) + 1)..Len(t), NEW n \in 1..p,
             IsLastLine(SubSeq(t, 1, p), n)
      PROVE  n <= chars_per_line
  <2>1. p = Len(t)
    BY <1>1
  <2>2. IsLastLine(t, n) /\ IsLastLine(t, k)
    BY <1>2, <1>3, <2>1 DEF t
  <2>3. n = k
    BY <1>1, <2>2, LastLineUnique
  <2>4. QED
    BY <2>3
<1>4. QED
  BY <1>3 DEF Within, t

(* Lines within the width stay so over two writes.                         *)
LEMMA WithinTrans ==
    ASSUME NEW s \in Seq(Char), NEW t \in Seq(Char), NEW ch \in Char,
           Len(s) <= Len(t), Within(s, t), Within(t, Append(t, ch))
    PROVE  Within(s, Append(t, ch)) /\ Len(s) <= Len(Append(t, ch))
<1> DEFINE u == Append(t, ch)
<1>1. /\ Len(u) = Len(t) + 1 /\ Len(t) \in Nat /\ Len(s) \in Nat
      /\ u \in Seq(Char) /\ \A i \in 1..Len(t) : u[i] = t[i]
  OBVIOUS
<1> HIDE DEF u
<1>2. ASSUME NEW p \in (Len(s) + 1)..Len(u), NEW n \in 1..p,
             IsLastLine(SubSeq(u, 1, p), n)
      PROVE  n <= chars_per_line
  <2>1. CASE p > Len(t)
    <3>1. p \in (Len(t) + 1)..Len(u)
      BY <1>1, <2>1
    <3>2. QED
      BY <1>2, <3>1 DEF Within, u
  <2>2. CASE p <= Len(t)
    <3>1. p \in (Len(s) + 1)..Len(t)
      BY <1>1, <2>2
    <3>2. SubSeq(u, 1, p) = SubSeq(t, 1, p)
      BY <1>1, <2>2
    <3>3. QED
      BY <1>2, <3>1, <3>2 DEF Within
  <2>3. QED
    BY <1>1, <2>1, <2>2
<1>3. Within(s, u)
  BY <1>2 DEF Within
<1>4. QED
  BY <1>1, <1>3 DEF u

(* CHECK_BREAK and the character after it.                                 *)
LEMMA EmitWithin ==
    ASSUME TypeOK, chars_per_line # 0, NEW l, OnColumn(l),
           NEW s \in Seq(Char), Len(s) <= Len(l.text), Within(s, l.text),
           NEW ch \in Char, ch # NL
    PROVE  /\ OnColumn(Emit(l, ch))
           /\ Within(s, Emit(l, ch).text) /\ Len(s) <= Len(Emit(l, ch).text)
<1> DEFINE b == CheckBreak(l)
<1>1. Emit(l, ch).text = Append(b.text, ch) /\ Emit(l, ch).count = b.count
  BY DEF Emit, CheckBreak, LineType, OnColumn
<1>2. Emit(l, ch) \in LineType
  BY EmitType DEF OnColumn
<1>3. /\ l.text \in Seq(Char) /\ l.count \in Nat
      /\ chars_per_line \in Nat /\ chars_per_line <= SizeMax /\ NL \in Char
  BY SizeMaxAssumption DEF OnColumn, LineType, TypeOK, Char
<1>4. CASE l.count >= chars_per_line
  <2>1. b.text = Append(l.text, NL) /\ b.count = 1
    BY <1>4 DEF CheckBreak
  <2>2. IsLastLine(b.text, 0)
    BY <1>3, <2>1, NewlineStartsLine
  <2>3. Within(l.text, b.text)
    BY <1>3, <2>1, <2>2, AppendWithin
  <2>4. b.text \in Seq(Char)
    BY <1>3, <2>1
  <2>5. Within(s, b.text) /\ Len(s) <= Len(b.text)
    BY <1>3, <2>1, <2>3, WithinTrans
  <2>6. IsLastLine(Append(b.text, ch), 0 + 1)
    BY <2>2, <2>4, CharLengthensLine
  <2>7. IsLastLine(Append(b.text, ch), 1) /\ 1 <= chars_per_line
    BY <1>3, <2>6
  <2> HIDE DEF b
  <2>8. Within(b.text, Append(b.text, ch))
    BY <2>4, <2>7, AppendWithin
  <2>9. Within(s, Append(b.text, ch)) /\ Len(s) <= Len(Append(b.text, ch))
    BY <2>4, <2>5, <2>8, WithinTrans
  <2>10. QED
    BY <1>1, <1>2, <2>1, <2>7, <2>9 DEF OnColumn
<1>5. CASE l.count < chars_per_line
  <2>1. b.text = l.text /\ b.count = SizeT(l.count + 1)
    BY <1>3, <1>5 DEF CheckBreak, OnColumn, LineType
  <2>2. l.count + 1 \in 0..SizeMax
    BY <1>3, <1>5, SizeMaxAssumption
  <2>3. b.count = l.count + 1
    BY <2>1, <2>2, SizeMaxAssumption DEF SizeT
  <2>4. IsLastLine(Append(l.text, ch), l.count + 1) /\ l.count + 1 <= chars_per_line
    BY <1>3, <1>5, CharLengthensLine DEF OnColumn
  <2>5. Within(l.text, Append(l.text, ch))
    BY <1>3, <2>4, AppendWithin
  <2>6. Within(s, Append(l.text, ch)) /\ Len(s) <= Len(Append(l.text, ch))
    BY <1>3, <2>5, WithinTrans
  <2>7. QED
    BY <1>1, <1>2, <2>1, <2>3, <2>4, <2>6 DEF OnColumn
<1>6. QED
  BY <1>3, <1>4, <1>5

(* size_t can count the characters of the longest line there could be.     *)
LongestLineFits == OpenCount(Len(Input)) <= SizeMax

(* While lines fit a size_t, stepcount is the last line's length, not
   only modulo 2^w.                                                        *)
LEMMA ColumnExact ==
    ASSUME LongestLineFits, TypeOK, StepcountIsColumn, WidthOnlyAddsNewlines,
           pc # "ended"
    PROVE  OnColumn(Line)
<1>1. PICK n \in 0..Len(code) : IsLastLine(code, n) /\ stepcount = SizeT(n)
  BY DEF StepcountIsColumn
<1>2. /\ code \in Seq(Char) /\ Input \in Seq(Byte) /\ Len(Input) \in Nat
      /\ plainchar \in 0..Len(Input) /\ plainchar \in Nat
  BY CencodeAssumption DEF TypeOK
<1>3. n <= Len(Payload(code)) /\ n \in Nat /\ Len(Payload(code)) \in Nat
  BY <1>1, <1>2, LineWithinPayload
<1>4. Payload(code) = OpenText(Input, plainchar, 0)
  BY DEF WidthOnlyAddsNewlines
<1>5. Len(OpenText(Input, plainchar, 0)) = OpenCount(plainchar)
  <2>1. /\ OpenText(Input, plainchar, 0) = Laid(All, OpenCount(plainchar), 0)
        /\ OpenCount(plainchar) \in Nat
    BY <1>2, OpenIsLaid, CountTypes DEF All
  <2>2. All \in [Nat -> Char] /\ NL \in Char
    BY AllType DEF Char
  <2>3. Len(Laid(All, OpenCount(plainchar), 0))
          = OpenCount(plainchar) + Separators(OpenCount(plainchar), 0)
    BY <2>1, <2>2, LaidType
  <2>4. Separators(OpenCount(plainchar), 0) = 0
    BY DEF Separators
  <2>5. QED
    BY <2>1, <2>3, <2>4
<1>6. OpenCount(plainchar) <= OpenCount(Len(Input)) /\ OpenCount(Len(Input)) \in Nat
  BY <1>2 DEF OpenCount
<1>7. n \in 0..SizeMax
  BY <1>3, <1>4, <1>5, <1>6, CountTypes, <1>2, SizeMaxAssumption DEF LongestLineFits
<1>8. stepcount = n
  BY <1>1, <1>7, SizeMaxAssumption DEF SizeT
<1>9. QED
  BY <1>1, <1>8, LineIsLine DEF OnColumn, Line

(* The last group breaks its lines at the width.                           *)
LEMMA LastGroupWithin ==
    ASSUME TypeOK, chars_per_line # 0, OnColumn(Line)
    PROVE  /\ OnColumn(LastGroup(Line))
           /\ Within(code, LastGroup(Line).text)
           /\ Len(code) <= Len(LastGroup(Line).text)
<1>1. /\ code \in Seq(Char) /\ Line.text = code /\ Within(code, Line.text)
      /\ Len(code) <= Len(Line.text)
  BY DEF TypeOK, Line, Within
<1>2. /\ result \in Char /\ PAD \in Char /\ result # NL /\ PAD # NL
      /\ step \in {"A", "B", "C"}
  BY UnitsAssumption DEF TypeOK, Char
<1>3. CASE step = "A"
  BY <1>1, <1>3 DEF LastGroup
<1> DEFINE e == Emit(Line, result)
<1>4. OnColumn(e) /\ Within(code, e.text) /\ Len(code) <= Len(e.text)
  BY <1>1, <1>2, EmitWithin
<1> HIDE DEF e
<1> DEFINE f == Emit(e, PAD)
<1>5. OnColumn(f) /\ Within(code, f.text) /\ Len(code) <= Len(f.text)
  BY <1>1, <1>2, <1>4, EmitWithin
<1> HIDE DEF f
<1> DEFINE g == Emit(f, PAD)
<1>6. OnColumn(g) /\ Within(code, g.text) /\ Len(code) <= Len(g.text)
  BY <1>1, <1>2, <1>5, EmitWithin
<1>7. CASE step = "B"
  BY <1>6, <1>7 DEF LastGroup, e, f
<1>8. CASE step = "C"
  BY <1>5, <1>8 DEF LastGroup, e, f
<1>9. QED
  BY <1>2, <1>3, <1>7, <1>8

(* Characters the coroutine writes are 6-bit values.                       *)
LEMMA StepsEmit ==
    ASSUME TypeOK
    PROVE  /\ StepA \/ StepB => \E ch \in Sextet : code' = Emit(Line, ch).text
           /\ StepC => \E c1 \in Sextet, c2 \in Sextet :
                          code' = Emit(Emit(Line, c1), c2).text
<1>1. result \in Sextet
  BY DEF TypeOK
<1>2. result[1] \in Crumb /\ result[2] \in Crumb /\ result[3] \in Crumb
  BY <1>1, SextetParts
<1>3. ASSUME StepA \/ StepB PROVE \E ch \in Sextet : code' = Emit(Line, ch).text
  <2> DEFINE f == Fragment
  <2>1. f[1] \in Crumb /\ f[2] \in Crumb /\ f[3] \in Crumb /\ f[4] \in Crumb
    BY <1>3, FragmentType, ByteParts DEF StepA, StepB
  <2> HIDE DEF f
  <2>2. CASE StepA
    <3>1. << f[1], f[2], f[3] >> \in Sextet
      BY <2>1, SextetMade
    <3>2. code' = Emit(Line, << f[1], f[2], f[3] >>).text
      BY <2>2 DEF StepA, Consume, SetLine, f
    <3>3. QED
      BY <3>1, <3>2
  <2>3. CASE StepB
    <3> DEFINE ch == << result[1], OrCrumb(result[2], f[1]), OrCrumb(result[3], f[2]) >>
    <3>1. ch \in Sextet
      BY <1>2, <2>1, OrCrumbType, SextetMade
    <3>2. code' = Emit(Line, ch).text
      BY <2>3 DEF StepB, Consume, SetLine, f
    <3> HIDE DEF ch
    <3>3. QED
      BY <3>1, <3>2
  <2>4. QED
    BY <1>3, <2>2, <2>3
<1>4. ASSUME StepC
      PROVE  \E c1 \in Sextet, c2 \in Sextet : code' = Emit(Emit(Line, c1), c2).text
  <2> DEFINE f == Fragment
             c1 == << result[1], result[2], OrCrumb(result[3], f[1]) >>
             c2 == << f[2], f[3], f[4] >>
  <2>1. f[1] \in Crumb /\ f[2] \in Crumb /\ f[3] \in Crumb /\ f[4] \in Crumb
    BY <1>4, FragmentType, ByteParts DEF StepC
  <2>2. code' = Emit(Emit(Line, c1), c2).text
    BY <1>4 DEF StepC, Consume, SetLine
  <2> HIDE DEF f
  <2>3. c1 \in Sextet /\ c2 \in Sextet
    BY <1>2, <2>1, OrCrumbType, SextetMade
  <2> HIDE DEF c1, c2
  <2>4. QED
    BY <2>2, <2>3
<1>5. QED
  BY <1>3, <1>4

(* No step writes past the width.                                          *)
LEMMA StepStaysWithin ==
    ASSUME LongestLineFits, TypeOK, Carried, StepcountIsColumn,
           WidthOnlyAddsNewlines, [Next]_vars, chars_per_line # 0
    PROVE  Within(code, code')
<1>1. /\ code \in Seq(Char) /\ Len(code) \in Nat
      /\ Within(code, code) /\ Len(code) <= Len(code)
  BY DEF TypeOK, Within
<1>2. CASE InitState
  BY <1>1, <1>2 DEF InitState, Within
<1>3. CASE SetWidth \/ EncodeBlock \/ KernelDone \/ Return \/ UNCHANGED vars
  <2>1. code' = code
    BY <1>3 DEF SetWidth, EncodeBlock, KernelDone, Return, vars, state
  <2>2. QED
    BY <1>1, <2>1
<1>4. CASE KernelStep \/ BulkStep
  BY <1>4, TriplesTaken
<1>5. CASE StepA \/ StepB
  <2>1. PICK ch \in Sextet : code' = Emit(Line, ch).text
    BY <1>5, StepsEmit DEF StepA, StepB
  <2>2. ch \in Char /\ ch # NL /\ OnColumn(Line) /\ Line.text = code
    BY <1>5, ColumnExact, UnitsAssumption DEF StepA, StepB, At, Char, Line
  <2>3. QED
    BY <1>1, <2>1, <2>2, EmitWithin
<1>6. CASE StepC
  <2>1. PICK c1 \in Sextet, c2 \in Sextet :
            code' = Emit(Emit(Line, c1), c2).text
    BY <1>6, StepsEmit DEF StepC
  <2>2. /\ c1 \in Char /\ c1 # NL /\ c2 \in Char /\ c2 # NL
        /\ OnColumn(Line) /\ Line.text = code
    BY <1>6, ColumnExact, UnitsAssumption DEF StepC, At, Char, Line
  <2> DEFINE e == Emit(Line, c1)
  <2>3. OnColumn(e) /\ Within(code, e.text) /\ Len(code) <= Len(e.text)
    BY <1>1, <2>2, EmitWithin
  <2> HIDE DEF e
  <2>4. Within(code, Emit(e, c2).text)
    BY <1>1, <2>2, <2>3, EmitWithin
  <2>5. QED
    BY <2>1, <2>4 DEF e
<1>7. CASE Blockend
  <2> DEFINE t == LastGroup(Line)
  <2>1. OnColumn(Line)
    BY <1>7, ColumnExact DEF Blockend, Idle
  <2>2. Within(code, t.text) /\ Len(code) <= Len(t.text) /\ t \in LineType
    BY <2>1, LastGroupWithin DEF OnColumn
  <2>3. code' = Append(t.text, NL)
    <3>1. SetLine([t EXCEPT !.text = Append(t.text, NL)])
      BY <1>7 DEF Blockend
    <3> HIDE DEF t
    <3>2. QED
      BY <2>2, <3>1 DEF SetLine, LineType
  <2> HIDE DEF t
  <2>4. t.text \in Seq(Char) /\ NL \in Char
    BY <2>2 DEF LineType, Char
  <2>5. IsLastLine(Append(t.text, NL), 0) /\ 0 <= chars_per_line
    BY <2>4, NewlineStartsLine, SizeMaxAssumption DEF TypeOK
  <2>6. Within(t.text, Append(t.text, NL))
    BY <2>4, <2>5, AppendWithin
  <2>7. QED
    BY <1>1, <2>2, <2>3, <2>4, <2>6, WithinTrans
<1>8. QED
  BY <1>2, <1>3, <1>4, <1>5, <1>6, <1>7 DEF Next, Inside

(* Whatever widths the caller sets and whenever, wrapping on and off: no   *)
(* step puts a character past the width in force, provided size_t can      *)
(* count the characters of the stream.  (A longer stream may be written    *)
(* unwrapped until stepcount has wrapped round, and the first line that is *)
(* wrapped then is too long.)                                              *)
THEOREM LinesWithin ==
    ASSUME LongestLineFits
    PROVE  Spec => LinesStayWithin
<1>1. TypeOK /\ Carried /\ StepcountIsColumn /\ WidthOnlyAddsNewlines /\ [Next]_vars
        => [chars_per_line # 0 =>
              \A p \in (Len(code) + 1)..Len(code') : \A n \in 1..p :
                  IsLastLine(SubSeq(code', 1, p), n) => n <= chars_per_line]_vars
  BY StepStaysWithin DEF Within
<1>2. TypeOK /\ Carried /\ [Next]_vars => (TypeOK /\ Carried)'
  BY IndStep
<1>3. QED
  BY <1>1, <1>2, IndInit, ColumnCorrect, NewlinesOnly, PTL
     DEF Spec, LinesStayWithin

-----------------------------------------------------------------------------
(* The text of the first m bytes does not depend on those behind them.     *)
LEMMA TextOfPrefix ==
    ASSUME NEW b \in Seq(Byte), NEW m \in 0..Len(b), NEW w \in Nat
    PROVE  /\ SubSeq(b, 1, m) \in Seq(Byte) /\ Len(SubSeq(b, 1, m)) = m
           /\ OpenText(SubSeq(b, 1, m), m, w) = OpenText(b, m, w)
           /\ ClosedText(SubSeq(b, 1, m), m, w) = ClosedText(b, m, w)
<1> DEFINE d == SubSeq(b, 1, m)
<1>1. d \in Seq(Byte) /\ Len(d) = m /\ m \in Nat /\ m \in 0..m
  OBVIOUS
<1>2. \A i \in 1..m : d[i] = b[i]
  OBVIOUS
<1> HIDE DEF d
<1>3. ASSUME NEW j \in Nat PROVE PayloadChar(d, m, j) = PayloadChar(b, m, j)
  <2>1. ASSUME NEW c \in Nat PROVE CrumbAt(d, m, c) = CrumbAt(b, m, c)
    <3>1. CASE c < 4 * m
      <4>1. c \in 0..(4 * m - 1) /\ m \in Nat /\ m <= m
        BY <1>1, <2>1, <3>1
      <4>2. QED
        BY ONLY <1>2, <4>1, CrumbSame
    <3>2. CASE ~(c < 4 * m)
      BY <3>2 DEF CrumbAt
    <3>3. QED
      BY <3>1, <3>2
  <2>2. 3 * j \in Nat /\ 3 * j + 1 \in Nat /\ 3 * j + 2 \in Nat
    OBVIOUS
  <2>3. QED
    BY <2>1, <2>2 DEF PayloadChar, SextetAt
<1>4. PayloadOf(d, m) = PayloadOf(b, m)
  BY <1>3 DEF PayloadOf
<1>5. OpenCount(m) \in Nat /\ ClosedCount(m) \in Nat
  BY <1>1, CountTypes
<1>6. OpenText(d, m, w) = OpenText(b, m, w)
  <2>1. m \in 0..Len(d) /\ m \in 0..Len(b)
    BY <1>1
  <2>2. OpenText(d, m, w) = Laid(PayloadOf(d, m), OpenCount(m), w)
    BY <1>1, <1>5, <2>1, TextIsLaid DEF OpenText
  <2>3. OpenText(b, m, w) = Laid(PayloadOf(b, m), OpenCount(m), w)
    BY <1>5, TextIsLaid DEF OpenText
  <2>4. QED
    BY <1>4, <2>2, <2>3
<1>7. ClosedText(d, m, w) = ClosedText(b, m, w)
  <2>1. m \in 0..Len(d) /\ m \in 0..Len(b)
    BY <1>1
  <2> DEFINE body == Laid(PayloadOf(b, m), ClosedCount(m), w)
  <2>2. ClosedText(d, m, w) = IF w = 0 THEN body ELSE Append(body, NL)
    BY ONLY <1>1, <1>4, <2>1, w \in Nat, ClosedIsLaid
  <2>3. ClosedText(b, m, w) = IF w = 0 THEN body ELSE Append(body, NL)
    BY ONLY b \in Seq(Byte), <2>1, w \in Nat, ClosedIsLaid
  <2>4. QED
    BY <2>2, <2>3
<1>8. QED
  BY <1>1, <1>6, <1>7 DEF d

-----------------------------------------------------------------------------
(* What the callers of whole calls may rely on.                            *)

(* Whenever no call is being made the text is that of the bytes given: if  *)
(* the last call began when n of them had been, what stood there then, and *)
(* the characters of one PieceText, put on lines from the column on that   *)
(* stepcount stood at; it stands at the new one.  base64_encode_blockend   *)
(* adds the characters of the EndText in the same way, and a newline.      *)
CallsWritePieces ==
    LET w        == chars_per_line
        since(n) == SubSeq(Input, 1, n)
        text(n)  == OpenText(since(n), n, w)
        col(n)   == Column(OpenCount(n), w)
        end      == Wrapped(EndText(since(plaintextend), 0), w, col(plaintextend))
    IN  /\ Idle =>
             /\ code = text(plaintextend)
             /\ w # 0 => stepcount = col(plaintextend)
             /\ \A n \in 0..plaintextend :
                  code = text(n) \o Wrapped(PieceText(since(n),
                                                      SubSeq(Input, n + 1, plaintextend),
                                                      0),
                                            w, col(n))
        /\ pc = "ended" =>
             /\ code = text(plaintextend) \o (IF w = 0 THEN end ELSE Append(end, NL))
             /\ w # 0 => stepcount = Column(ClosedCount(plaintextend), w)

(* A call does not return, nor the stream end, before all of the piece has *)
(* been consumed.                                                          *)
AllConsumed == pc \in {"idle", "ended"} => plainchar = plaintextend

(* Every step keeps that.                                                  *)
LEMMA AllConsumedStep ==
    ASSUME TypeOK, AllConsumed, [Next]_vars
    PROVE  AllConsumed'
<1>1. CASE Return
  BY <1>1 DEF AllConsumed, Return, Left, TypeOK
<1>2. CASE InitState
  BY <1>2 DEF AllConsumed, InitState
<1>3. CASE SetWidth \/ Blockend \/ UNCHANGED vars
  BY <1>3 DEF AllConsumed, SetWidth, Blockend, Idle, vars
<1>4. CASE EncodeBlock
  BY <1>4 DEF AllConsumed, EncodeBlock
<1>5. CASE KernelStep \/ KernelDone \/ BulkStep \/ StepA \/ StepB \/ StepC
  BY <1>5 DEF AllConsumed, KernelStep, KernelDone, BulkStep, TakeTriples,
              StepA, StepB, StepC, At, Consume
<1>6. QED
  BY <1>1, <1>2, <1>3, <1>4, <1>5 DEF Next, Inside

(* CHECK_BREAK and the character after it, from any column that stepcount  *)
(* may stand at, whatever came before: one more character put on lines.    *)
LEMMA EmitWraps ==
    ASSUME TypeOK, chars_per_line # 0, NEW l \in LineType,
           l.count \in 0..chars_per_line, NEW ch \in Char
    PROVE  /\ Emit(l, ch).text = l.text \o Wrapped(<< ch >>, chars_per_line, l.count)
           /\ Emit(l, ch).count = Column(l.count + 1, chars_per_line)
<1> DEFINE w == chars_per_line
           c == l.count
           b == CheckBreak(l)
           one == << ch >>
           x == Wrapped(one, w, c)
<1>1. w \in Nat \ {0} /\ w <= SizeMax /\ SizeMax \in Nat /\ c \in 0..w
      /\ l.text \in Seq(Char) /\ NL \in Char
  BY SizeMaxAssumption DEF TypeOK, LineType, Char
<1>2. Emit(l, ch).text = Append(b.text, ch) /\ Emit(l, ch).count = b.count
  BY DEF Emit, CheckBreak, LineType
<1>3. one \in Seq(Char) /\ Len(one) = 1 /\ one[1] = ch
  OBVIOUS
<1> HIDE DEF one
<1>4. x \in Seq(Char) /\ Len(x) = 1 + Separators(c + 1, w)
  <2>1. /\ Wrapped(one, w, c) \in Seq(Char)
        /\ Len(Wrapped(one, w, c)) = Len(one) + Separators(c + Len(one), w)
    BY <1>1, <1>3, WrappedType
  <2>2. QED
    BY <1>3, <2>1
<1>5. \A p \in 1..(1 + Separators(c + 1, w)) :
            x[p] = IF (c + p) % (w + 1) = 0 THEN NL
                   ELSE one[p - (c + p) \div (w + 1)]
  <2> DEFINE P(y, s, d) ==
          \A p \in 1..(Len(s) + Separators(d + Len(s), w)) :
              y[p] = IF (d + p) % (w + 1) = 0 THEN NL
                     ELSE s[p - (d + p) \div (w + 1)]
  <2>1. \A s, d : P(Wrapped(s, w, d), s, d)
    BY <1>1, WrappedAt
  <2> HIDE DEF P
  <2>2. P(x, one, c)
    BY <2>1, Zenon
  <2> HIDE DEF x, w, c
  <2> USE DEF P
  <2>3. QED
    BY <1>3, <2>2, Zenon
<1> HIDE DEF x
<1>6. CASE c = w
  <2>1. c + 1 = w * 1 + 1 /\ c + 1 \in Nat /\ 1 \in 1..w /\ 1 \in Nat
    BY <1>1, <1>6
  <2>2. Separators(c + 1, w) = 1 /\ Column(c + 1, w) = 1
    BY <1>1, <2>1, ColumnUnique
  <2>3. /\ c + 1 = (w + 1) * 1 + 0 /\ c + 2 = (w + 1) * 1 + 1
        /\ w + 1 \in Nat \ {0} /\ 0 \in 0..((w + 1) - 1) /\ 1 \in 0..((w + 1) - 1)
    BY <1>1, <1>6
  <2>4. (c + 1) % (w + 1) = 0
    BY <2>3, DivisionIs
  <2>5. (c + 2) % (w + 1) = 1 /\ (c + 2) \div (w + 1) = 1
    BY <2>3, DivisionIs
  <2>6. Len(x) = 2 /\ x[1] = NL /\ x[2] = ch
    BY <1>3, <1>4, <1>5, <2>2, <2>4, <2>5
  <2>7. x = << NL, ch >>
    <3>1. \A s \in Seq(Char) : Len(s) = 2 => s = << s[1], s[2] >>
      OBVIOUS
    <3>2. QED
      BY <1>4, <2>6, <3>1
  <2>8. b.text = Append(l.text, NL) /\ b.count = 1
    BY <1>1, <1>6 DEF CheckBreak
  <2>9. Append(Append(l.text, NL), ch) = l.text \o << NL, ch >>
    <3>1. \A s \in Seq(Char) : \A d, e \in Char :
              Append(Append(s, d), e) = s \o << d, e >>
      OBVIOUS
    <3>2. QED
      BY <1>1, <3>1
  <2>10. QED
    BY <1>2, <2>2, <2>7, <2>8, <2>9 DEF x, one
<1>7. CASE c # w
  <2>1. c + 1 = w * 0 + (c + 1) /\ c + 1 \in Nat /\ c + 1 \in 1..w /\ 0 \in Nat
    BY <1>1, <1>7
  <2>2. Separators(c + 1, w) = 0 /\ Column(c + 1, w) = c + 1
    BY <1>1, <2>1, ColumnUnique
  <2>3. c + 1 = (w + 1) * 0 + (c + 1) /\ w + 1 \in Nat \ {0} /\ c + 1 \in 0..((w + 1) - 1)
    BY <1>1, <1>7
  <2>4. (c + 1) % (w + 1) = c + 1 /\ (c + 1) \div (w + 1) = 0
    BY <2>3, DivisionIs
  <2>5. Len(x) = 1 /\ x[1] = ch
    <3>1. 1 + Separators(c + 1, w) = 1 /\ 1 \in 1..1 /\ 1 - 0 = 1 /\ c + 1 # 0
      BY <1>1, <2>2
    <3>2. Len(x) = 1 /\ x[1] = one[1 - 0]
      BY <1>4, <1>5, <2>2, <2>4, <3>1
    <3>3. QED
      BY <1>3, <3>1, <3>2
  <2>6. x = << ch >>
    <3>1. \A s \in Seq(Char) : Len(s) = 1 => s = << s[1] >>
      OBVIOUS
    <3>2. QED
      BY <1>4, <2>5, <3>1
  <2>7. ~(c >= w) /\ SizeT(c + 1) = c + 1
    <3>1. c + 1 \in 0..SizeMax
      BY <1>1, <1>7
    <3>2. SizeT(c + 1) = c + 1
      BY <3>1, SizeMaxAssumption DEF SizeT
    <3>3. \A i, j \in Int : i <= j /\ i # j => ~(i >= j)
      OBVIOUS
    <3>4. c \in Int /\ w \in Int /\ c <= w
      BY <1>1
    <3>5. QED
      BY <1>7, <3>2, <3>3, <3>4
  <2>8. b.text = l.text /\ b.count = c + 1
    BY <2>7 DEF CheckBreak, LineType
  <2>9. Append(l.text, ch) = l.text \o << ch >>
    BY <1>1
  <2>10. QED
    BY <1>2, <2>2, <2>6, <2>8, <2>9 DEF x, one
<1>8. QED
  BY <1>6, <1>7 DEF one

(* What the C++ encoder and base64_encode_alloc take a call of the block   *)
(* API to do, for every stream of one width: whatever was fed before, each *)
(* call has on return written the characters of its piece, on lines from   *)
(* the column left by the calls before, wherever kernel, bulk loop and     *)
(* coroutine took over from each other, and blockend those of the end.     *)
THEOREM CallsWriteTheirPiece ==
    ASSUME ~MidStreamWidth
    PROVE  Spec => []CallsWritePieces
<1>1. Init => TypeOK /\ Carried /\ TextSoFar /\ AllConsumed
  BY IndInit, TextInit DEF Init, AllConsumed
<1>2. TypeOK /\ Carried /\ TextSoFar /\ AllConsumed /\ [Next]_vars =>
        (TypeOK /\ Carried /\ TextSoFar /\ AllConsumed)'
  <2> SUFFICES ASSUME TypeOK, Carried, TextSoFar, AllConsumed, [Next]_vars
               PROVE  (TypeOK /\ Carried /\ TextSoFar /\ AllConsumed)'
    OBVIOUS
  <2>1. TypeOK' /\ Carried'
    BY IndStep
  <2>2. TextSoFar'
    BY <2>1, TextStep
  <2>3. QED
    BY <2>1, <2>2, AllConsumedStep
<1>3. TypeOK /\ TextSoFar /\ AllConsumed => CallsWritePieces
  <2> SUFFICES ASSUME TypeOK, TextSoFar, AllConsumed
               PROVE  CallsWritePieces
    OBVIOUS
  <2> DEFINE w == chars_per_line
             m == plaintextend
             since(n) == SubSeq(Input, 1, n)
             text(n) == OpenText(since(n), n, w)
             col(n) == Column(OpenCount(n), w)
             end == Wrapped(EndText(since(m), 0), w, col(m))
  <2>1. /\ Input \in Seq(Byte) /\ w \in Nat /\ m \in 0..Len(Input)
        /\ plainchar \in 0..Len(Input)
    BY CencodeAssumption, SizeMaxAssumption DEF TypeOK
  <2>2. ASSUME NEW n \in 0..Len(Input)
        PROVE  /\ since(n) \in Seq(Byte) /\ Len(since(n)) = n
               /\ text(n) = OpenText(Input, n, w)
               /\ ClosedText(since(n), n, w) = ClosedText(Input, n, w)
    BY <2>1, TextOfPrefix
  <2>3. ASSUME Idle PROVE code = text(m) /\ (w # 0 => stepcount = col(m))
    <3>1. plainchar = m /\ pc # "ended"
      BY <2>3 DEF AllConsumed, Idle
    <3>2. code = OpenText(Input, m, w)
      BY <3>1, SoFarIsOpen
    <3>3. w # 0 => stepcount = col(m)
      BY <3>1 DEF TextSoFar, OnLine, Line, Done
    <3>4. QED
      BY <2>1, <2>2, <3>2, <3>3
  <2>4. ASSUME Idle, NEW n \in 0..m
        PROVE  code = text(n) \o Wrapped(PieceText(since(n), SubSeq(Input, n + 1, m), 0),
                                         w, col(n))
    <3> DEFINE piece == SubSeq(Input, n + 1, m)
    <3>1. n \in 0..Len(Input) /\ m \in n..Len(Input)
      BY <2>1
    <3>2. piece \in Seq(Byte)
      BY <2>1, <3>1, PieceType
    <3>3. since(n) \o piece = since(m)
      BY <2>1, <3>1, PiecesJoin
    <3>4. since(n) \in Seq(Byte) /\ Len(since(n)) = n /\ Len(since(m)) = m
      BY <2>1, <2>2, <3>1
    <3> HIDE DEF piece, since
    <3>5. OpenText(since(n) \o piece, Len(since(n) \o piece), w)
            = OpenText(since(n), Len(since(n)), w)
                \o Wrapped(PieceText(since(n), piece, 0), w,
                           Column(OpenCount(Len(since(n))), w))
      BY <2>1, <3>2, <3>4, WrappedPieces
    <3>6. text(m) = text(n) \o Wrapped(PieceText(since(n), piece, 0), w, col(n))
      BY <3>3, <3>4, <3>5
    <3>7. QED
      BY <2>3, <2>4, <3>6 DEF piece
  <2>5. ASSUME pc = "ended"
        PROVE  /\ code = text(m) \o (IF w = 0 THEN end ELSE Append(end, NL))
               /\ w # 0 => stepcount = Column(ClosedCount(m), w)
    <3>1. plainchar = m
      BY <2>5 DEF AllConsumed
    <3>2. /\ code = ClosedText(Input, m, w)
          /\ w # 0 => stepcount = Column(ClosedCount(m), w)
      BY <2>5, <3>1 DEF TextSoFar
    <3>3. since(m) \in Seq(Byte) /\ Len(since(m)) = m
          /\ ClosedText(since(m), m, w) = ClosedText(Input, m, w)
      BY <2>1, <2>2
    <3> HIDE DEF since
    <3>4. ClosedText(since(m), Len(since(m)), w)
            = OpenText(since(m), Len(since(m)), w)
                \o (IF w = 0
                    THEN Wrapped(EndText(since(m), 0), w,
                                 Column(OpenCount(Len(since(m))), w))
                    ELSE Append(Wrapped(EndText(since(m), 0), w,
                                        Column(OpenCount(Len(since(m))), w)), NL))
      BY <2>1, <3>3, WrappedPieces
    <3>5. QED
      BY <3>2, <3>3, <3>4
  <2>6. QED
    BY <2>3, <2>4, <2>5 DEF CallsWritePieces
<1>4. QED
  BY <1>1, <1>2, <1>3, PTL DEF Spec

-----------------------------------------------------------------------------
(* How long a call takes.  BlockReturns says that it ends, by the fairness *)
(* of its steps; what every step brings nearer is the end of the piece or  *)
(* the hand-over from kernel to coroutine.                                 *)

StepsLeft == CASE pc = "simd" -> Left + 2
               [] pc = "scalar" -> Left + 1
               [] OTHER -> 0

(* A call on n bytes takes n + 2 steps at the most: each leaves fewer to   *)
(* be taken, and there are none to take outside a call.                    *)
CallsBounded ==
    [][/\ EncodeBlock => StepsLeft' \in 1..((plaintextend' - plainchar') + 2)
       /\ Inside => StepsLeft' \in Nat /\ StepsLeft' < StepsLeft
       /\ Idle' => StepsLeft' = 0]_vars

(* Of any call, with any kernel, from any state left by the calls before.  *)
THEOREM CallsEnd == Spec => CallsBounded
<1>1. ASSUME TypeOK, TypeOK', Next
      PROVE  /\ EncodeBlock => StepsLeft' \in 1..((plaintextend' - plainchar') + 2)
             /\ Inside => StepsLeft' \in Nat /\ StepsLeft' < StepsLeft
             /\ Idle' => StepsLeft' = 0
  <2>1. plainchar \in Nat /\ plaintextend \in Nat /\ plainchar <= plaintextend
        /\ plainchar' \in Nat /\ plaintextend' \in Nat /\ plainchar' <= plaintextend'
    BY <1>1, CencodeAssumption DEF TypeOK
  <2>2. ASSUME EncodeBlock PROVE StepsLeft' \in 1..((plaintextend' - plainchar') + 2)
    BY <2>1, <2>2 DEF EncodeBlock, StepsLeft, Left
  <2>3. ASSUME Inside PROVE StepsLeft' \in Nat /\ StepsLeft' < StepsLeft
    <3>1. CASE KernelStep \/ BulkStep
      <4>1. PICK n \in Nat \ {0} : TakeTriples(n)
        <5>1. CASE KernelStep
          <6>1. kernel \in KernelType /\ kernel.take > 0
            BY <1>1, <5>1, CencodeAssumption DEF KernelStep, KernelRuns, TypeOK
          <6>2. kernel.take \in Nat \ {0}
            BY <6>1 DEF KernelType
          <6>3. QED
            BY <5>1, <6>2 DEF KernelStep
        <5>2. CASE BulkStep
          BY <5>2 DEF BulkStep
        <5>3. QED
          BY <3>1, <5>1, <5>2
      <4>2. pc' = pc /\ pc \in {"simd", "scalar"} /\ plainchar' = plainchar + n
            /\ plaintextend' = plaintextend
        BY <3>1, <4>1 DEF KernelStep, BulkStep, At, TakeTriples
      <4>3. QED
        BY <2>1, <4>2 DEF StepsLeft, Left
    <3>2. CASE KernelDone \/ Return
      BY <2>1, <3>2 DEF KernelDone, Return, StepsLeft, Left
    <3>3. CASE StepA \/ StepB \/ StepC
      <4>1. pc = "scalar" /\ pc' = pc /\ plainchar' = plainchar + 1
            /\ plaintextend' = plaintextend
        BY <3>3 DEF StepA, StepB, StepC, At, Consume
      <4>2. QED
        BY <2>1, <4>1 DEF StepsLeft, Left
    <3>4. QED
      BY <2>3, <3>1, <3>2, <3>3 DEF Inside
  <2>4. Idle' => StepsLeft' = 0
    BY DEF Idle, StepsLeft
  <2>5. QED
    BY <2>2, <2>3, <2>4
<1>2. TypeOK /\ TypeOK' /\ [Next]_vars =>
        [/\ EncodeBlock => StepsLeft' \in 1..((plaintextend' - plainchar') + 2)
         /\ Inside => StepsLeft' \in Nat /\ StepsLeft' < StepsLeft
         /\ Idle' => StepsLeft' = 0]_vars
  BY <1>1
<1>3. QED
  BY <1>2, TypeInit, TypeStep, PTL DEF Spec, CallsBounded

=============================================================================
