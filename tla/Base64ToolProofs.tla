-------------------------- MODULE Base64ToolProofs --------------------------
(***************************************************************************)
(* What holds of Base64Tool for any names, any aliases among them, any     *)
(* disk and any number of invocations: its type, that a refusal touches    *)
(* nothing (IInv), that status 0 means the whole conversion, and that      *)
(* successful conversions keep what a file stands for (Held).              *)
(***************************************************************************)
EXTENDS Base64Tool, B64Facts, TLAPS

(* What main can refuse, of the arguments and of the disk it finds.        *)
Refusable ==
    \/ Len(argv) # 3
    \/ Choice \notin {"-e", "-d"}
    \/ argv[2] = argv[3]
    \/ before[Input] = NoFile

(* The disk is as it was until the output is opened, and whatever can be   *)
(* refused has been by then.                                               *)
Untouched ==
    /\ pc \in {"arguments", "open_input", "open_output"} => disk = before
    /\ pc = "open_input" =>
          Len(argv) = 3 /\ Choice \in {"-e", "-d"} /\ argv[2] # argv[3]
    /\ pc \in {"open_output", "stream", "flush", "check"} => ~Refusable

IInv == Untouched /\ RefusalTouchesNothing

(* What the chosen conversion reads, and what it writes.                   *)
Source == IF Choice = "-d" THEN Seq(Char) ELSE Seq(Byte)
Result == IF Choice = "-d" THEN Seq(Byte) ELSE Seq(Char)

(* The files hold what the conversion needs, from the shell's choice to    *)
(* the end; a file that both names lead to is empty by then.               *)
Kinds ==
    /\ /\ pc \in {"arguments", "open_input"}
       /\ Len(argv) = 3 /\ Choice \in {"-e", "-d"}
       => disk[Input] \in Source \cup {NoFile}
    /\ pc \in {"open_output", "stream"} => disk[Input] \in Source
    /\ pc \in {"flush", "check"} => consumed \in Source /\ buffered \in Result

(* While the ostream is good, the file and what the ostream keeps make up  *)
(* the whole conversion.                                                   *)
Written ==
    /\ pc # "shell" => status = Running
    /\ pc = "stream" => disk[Output] = << >>
    /\ pc \in {"flush", "check"} => disk[Output] \in Result
    /\ pc \in {"flush", "check"} /\ outState = "good" =>
          disk[Output] \o buffered = Conversion(Choice, consumed)
    /\ pc = "check" => buffered = << >>

(* Nothing is known of the output before the end, and an input that was    *)
(* read to its end is still what was read.                                 *)
Known ==
    /\ pc \in {"stream", "flush", "check"} => stands[Output] = Unknown
    /\ pc \in {"flush", "check"} /\ inState = "eof" =>
          Input = Output \/ consumed = disk[Input]

Held == TypeOK /\ Kinds /\ Written /\ Known /\ SuccessIsComplete /\ Identical

(* A new invocation remembers the files as they are.                       *)
LEMMA InvokeStep == ASSUME IInv, Invoke PROVE IInv'
<1>1. pc' = "arguments" /\ before' = disk /\ disk' = disk
  BY DEF Invoke
<1>2. QED
  BY <1>1 DEF IInv, Untouched, RefusalTouchesNothing

(* While the arguments stand, what is refusable, the mode and the input
   stay.                                                                   *)
LEMMA SameArguments ==
    ASSUME UNCHANGED << argv, before >>
    PROVE  /\ Refusable' = Refusable
           /\ Choice' = Choice /\ Input' = Input
           /\ RefusalTouchesNothing <=> (Refusable => disk = before)
           /\ RefusalTouchesNothing' <=> (Refusable => disk' = before)
BY DEF Refusable, RefusalTouchesNothing, Choice, Input

(* The argument checks refuse before a file is opened.                     *)
LEMMA CheckStep == ASSUME IInv, CheckArguments PROVE IInv'
<1>1. UNCHANGED << argv, before, disk >> /\ disk = before
  BY DEF CheckArguments, history, IInv, Untouched
<1>2. RefusalTouchesNothing'
  BY <1>1, SameArguments
<1>3. pc' = "shell" \/ pc' = "open_input"
  BY DEF CheckArguments, Exit, Proceed
<1>4. pc' = "open_input" =>
          Len(argv) = 3 /\ Choice \in {"-e", "-d"} /\ argv[2] # argv[3]
  BY DEF CheckArguments, Exit, Proceed
<1>5. QED
  BY <1>1, <1>2, <1>3, <1>4, SameArguments DEF IInv, Untouched

(* A refusal at the input comes before the output is opened.               *)
LEMMA OpenInputStep == ASSUME IInv, OpenInput PROVE IInv'
<1>1. UNCHANGED << argv, before, disk >> /\ disk = before
  BY DEF OpenInput, history, IInv, Untouched
<1>2. RefusalTouchesNothing'
  BY <1>1, SameArguments
<1>3. \/ pc' = "shell"
      \/ pc' = "open_output" /\ disk[Input] # NoFile
  BY DEF OpenInput, Exit, Proceed
<1>4. pc' = "open_output" => ~Refusable
  BY <1>1, <1>3 DEF OpenInput, IInv, Untouched, Refusable
<1>5. QED
  BY <1>1, <1>2, <1>3, <1>4, SameArguments DEF IInv, Untouched

(* From here on nothing is left that could be refused.                     *)
LEMMA LaterStep ==
    ASSUME IInv,
           OpenOutput \/ Stream \/ StreamThrows \/ Flush \/ CheckOutput
    PROVE  IInv'
<1>1. UNCHANGED << argv, before >> /\ ~Refusable
  BY DEF OpenOutput, Stream, StreamThrows, Flush, CheckOutput, history,
         IInv, Untouched
<1>2. RefusalTouchesNothing'
  BY <1>1, SameArguments
<1>3. pc' \in {"shell", "stream", "flush", "check"}
  BY DEF OpenOutput, Stream, StreamThrows, Flush, CheckOutput, Exit, Proceed
<1>4. QED
  BY <1>1, <1>2, <1>3, SameArguments DEF IInv, Untouched

(* The invariant holds of every behaviour.                                 *)
LEMMA RefusalInvariant == Spec => []IInv
<1>1. Init => IInv
  BY DEF Init, IInv, Untouched, RefusalTouchesNothing
<1>2. IInv /\ [Next]_vars => IInv'
  <2> SUFFICES ASSUME IInv, [Next]_vars PROVE IInv'
    OBVIOUS
  <2>1. CASE UNCHANGED vars
    BY <2>1, SameArguments
       DEF vars, history, IInv, Untouched
  <2>2. CASE Next
    BY <2>2, InvokeStep, CheckStep, OpenInputStep, LaterStep DEF Next
  <2>3. QED
    BY <2>1, <2>2
<1>3. QED
  BY <1>1, <1>2, PTL DEF Spec

(* Whatever main refuses, arguments or an input that is not there, leaves  *)
(* every file as it was: base64.cc:49 validates before it truncates.       *)
THEOREM RefusalIsSafe == Spec => []RefusalTouchesNothing
<1>1. IInv => RefusalTouchesNothing
  BY DEF IInv
<1>2. QED
  BY <1>1, RefusalInvariant, PTL

-----------------------------------------------------------------------------
(* The conversions.                                                        *)

LEMMA Disjoint == \A c \in Char : c \notin Byte
<1>1. \A s \in Sextet : s \notin Byte
  BY DEF Sextet, Byte
<1>2. QED
  BY <1>1, Base64ToolAssumption DEF Char

(* A text stands for what it decodes to, also where it is empty.           *)
LEMMA TextMeans ==
    ASSUME NEW c \in Seq(Char)
    PROVE  Meaning(c) = Decoded(c) /\ Decoded(c) \in Seq(Byte)
<1>1. Decoded(c) \in Seq(Byte)
  BY DecodedType
<1>2. CASE c = << >>
  <2>1. /\ Len(c) = 0 /\ Len(Values(c, Len(c))) \in 0..Len(c)
        /\ Len(Decoded(c)) = (3 * Len(Values(c, Len(c)))) \div 4
    BY <1>2, DecodedType
  <2>2. Len(Decoded(c)) = 0
    BY <2>1
  <2>3. Decoded(c) = << >>
    BY <1>1, <2>2, EmptySeq
  <2>4. QED
    BY <1>1, <1>2, <2>3 DEF Meaning
<1>3. CASE c # << >>
  <2>1. 1 \in 1..Len(c)
    BY <1>3, EmptySeq
  <2>2. c[1] \in Char
    BY <2>1
  <2>3. c \notin Seq(Byte)
    BY <2>1, <2>2, Disjoint
  <2>4. QED
    BY <1>1, <2>3 DEF Meaning
<1>4. QED
  BY <1>2, <1>3

(* The tool's encoding, with no line width, is a text that decodes to its
   bytes.                                                                  *)
LEMMA EncodedType ==
    ASSUME NEW c \in Seq(Byte)
    PROVE  /\ ClosedText(c, Len(c), 0) \in Seq(Char)
           /\ Decoded(ClosedText(c, Len(c), 0)) = c
<1>1. 0 \in Nat /\ Len(c) \in 0..Len(c) /\ ClosedCount(Len(c)) \in Nat
  BY DEF ClosedCount
<1>2. ClosedText(c, Len(c), 0) = Laid(PayloadOf(c, Len(c)), ClosedCount(Len(c)), 0)
  BY <1>1, ClosedIsLaid
<1>3. PayloadOf(c, Len(c)) \in [Nat -> Char] /\ NL \in Char
  BY <1>1, PayloadType DEF Char
<1>4. Laid(PayloadOf(c, Len(c)), ClosedCount(Len(c)), 0) \in Seq(Char)
  BY <1>1, <1>3, LaidType
<1>5. QED
  BY <1>1, <1>2, <1>4, RoundTrip

(* The conversion of what the source holds is of the result's kind and     *)
(* stands for the same bytes.                                              *)
LEMMA Converted ==
    ASSUME NEW c \in Source
    PROVE  /\ Conversion(Choice, c) \in Result
           /\ Meaning(Conversion(Choice, c)) = Meaning(c)
<1>1. CASE Choice = "-d"
  <2>1. c \in Seq(Char) /\ Conversion(Choice, c) = Decoded(c) /\ Result = Seq(Byte)
    BY <1>1 DEF Source, Result, Conversion
  <2>2. Decoded(c) \in Seq(Byte) /\ Meaning(c) = Decoded(c)
    BY <2>1, TextMeans
  <2>3. Meaning(Decoded(c)) = Decoded(c)
    BY <2>2 DEF Meaning
  <2>4. QED
    BY <2>1, <2>2, <2>3
<1>2. CASE Choice # "-d"
  <2> DEFINE t == ClosedText(c, Len(c), 0)
  <2>1. c \in Seq(Byte) /\ Conversion(Choice, c) = t /\ Result = Seq(Char)
    BY <1>2 DEF Source, Result, Conversion
  <2>2. t \in Seq(Char) /\ Decoded(t) = c
    BY <2>1, EncodedType
  <2> HIDE DEF t
  <2>3. Meaning(t) = Decoded(t)
    BY <2>2, TextMeans
  <2>4. Meaning(c) = c
    BY <2>1 DEF Meaning
  <2>5. QED
    BY <2>1, <2>2, <2>3, <2>4
<1>3. QED
  BY <1>1, <1>2

(* What is read and what is written are contents, and either may be
   empty.                                                                  *)
LEMMA KindsAreContents ==
    Source \subseteq Content /\ Result \subseteq Content /\ << >> \in Source
    /\ << >> \in Result
BY DEF Source, Result, Content

(* A prefix of a content is a content, and the rest completes it.          *)
LEMMA PrefixSplits ==
    ASSUME NEW X, NEW t \in Seq(X), NEW part \in Prefixes(t)
    PROVE  /\ part \in Seq(X)
           /\ SubSeq(t, Len(part) + 1, Len(t)) \in Seq(X)
           /\ part \o SubSeq(t, Len(part) + 1, Len(t)) = t
<1>1. PICK k \in 0..Len(t) : part = SubSeq(t, 1, k)
  BY DEF Prefixes
<1>2. 0 \in 0..Len(t) /\ Len(t) \in Nat /\ Len(t) \in k..Len(t) /\ k \in Int
      /\ k - 0 = k /\ 0 + 1 = 1 /\ 0 <= k
  OBVIOUS
<1>3. part \in Seq(X) /\ Len(part) = k
  BY <1>1, <1>2, PieceType
<1>4. SubSeq(t, k + 1, Len(t)) \in Seq(X)
  BY <1>2, PieceType
<1>5. SubSeq(t, 1, k) \o SubSeq(t, k + 1, Len(t)) = SubSeq(t, 1, Len(t))
  BY <1>2, PiecesJoin
<1>6. SubSeq(t, 1, Len(t)) = t
  BY SubSeqFull
<1>7. QED
  BY <1>1, <1>3, <1>4, <1>5, <1>6, Zenon

(* A prefix of an input is an input, and a result splits into results at
   any prefix.                                                             *)
LEMMA PrefixKinds ==
    /\ \A c \in Source : Prefixes(c) \subseteq Source
    /\ \A t \in Result : \A part \in Prefixes(t) :
          /\ part \in Result
          /\ SubSeq(t, Len(part) + 1, Len(t)) \in Result
          /\ part \o SubSeq(t, Len(part) + 1, Len(t)) = t
<1>1. \A c \in Seq(Char) : \A part \in Prefixes(c) :
          /\ part \in Seq(Char)
          /\ SubSeq(c, Len(part) + 1, Len(c)) \in Seq(Char)
          /\ part \o SubSeq(c, Len(part) + 1, Len(c)) = c
  BY PrefixSplits
<1>2. \A c \in Seq(Byte) : \A part \in Prefixes(c) :
          /\ part \in Seq(Byte)
          /\ SubSeq(c, Len(part) + 1, Len(c)) \in Seq(Byte)
          /\ part \o SubSeq(c, Len(part) + 1, Len(c)) = c
  BY PrefixSplits
<1>3. QED
  BY <1>1, <1>2 DEF Source, Result

-----------------------------------------------------------------------------
(* What an invocation keeps true, action by action.                        *)

LEMMA Targets ==
    ASSUME argv \in Arguments, Len(argv) = 3
    PROVE  Input \in Files /\ Output \in Files
<1>1. argv \in Choices \X Paths \X Paths
  BY DEF Arguments
<1>2. argv[2] \in Paths /\ argv[3] \in Paths
  BY <1>1
<1>3. QED
  BY <1>2 DEF Input, Output, Files

(* While the arguments stand, the files and the kinds of content stay.     *)
LEMMA SameTargets ==
    ASSUME UNCHANGED argv
    PROVE  /\ Choice' = Choice /\ Input' = Input /\ Output' = Output
           /\ Source' = Source /\ Result' = Result
BY DEF Choice, Input, Output, Source, Result

(* Where neither a file nor what it stands for changes.                    *)
LEMMA SameMeaning ==
    ASSUME Identical, UNCHANGED << disk, stands >>
    PROVE  Identical'
BY DEF Identical

(* A new invocation starts with the strengthened invariant.                *)
LEMMA InvokeHolds == ASSUME Held, Invoke PROVE Held'
<1>1. /\ pc' = "arguments" /\ status' = Running
      /\ disk' = disk /\ stands' = stands
  BY DEF Invoke
<1>2. TypeOK'
  BY <1>1 DEF Held, TypeOK, Invoke, Content, Running
<1>3. Kinds'
  BY <1>1 DEF Invoke, Kinds, Choice, Input, Source
<1>4. Written' /\ Known'
  BY <1>1 DEF Written, Known
<1>5. SuccessIsComplete'
  BY <1>1 DEF SuccessIsComplete, Running
<1>6. Identical'
  BY <1>1, SameMeaning DEF Held
<1>7. QED
  BY <1>2, <1>3, <1>4, <1>5, <1>6 DEF Held

(* The argument checks keep it: they write no file.                        *)
LEMMA CheckArgumentsHolds == ASSUME Held, CheckArguments PROVE Held'
<1>1. /\ pc = "arguments" /\ status = Running
      /\ UNCHANGED << disk, argv, inState, outState, buffered, consumed,
                      before, stands >>
  BY DEF CheckArguments, streams, history, Held, Written
<1>2. \/ pc' = "shell" /\ status' \in {1, 255}
      \/ /\ pc' = "open_input" /\ status' = Running
         /\ Len(argv) = 3 /\ Choice \in {"-e", "-d"}
  BY <1>1 DEF CheckArguments, Exit, Proceed
<1>3. TypeOK'
  BY <1>1, <1>2 DEF Held, TypeOK
<1>4. Kinds'
  BY <1>1, <1>2, SameTargets DEF Held, Kinds
<1>5. Written' /\ Known'
  BY <1>1, <1>2 DEF Written, Known
<1>6. SuccessIsComplete'
  BY <1>1, <1>2 DEF SuccessIsComplete, Running
<1>7. Identical'
  BY <1>1, SameMeaning DEF Held
<1>8. QED
  BY <1>3, <1>4, <1>5, <1>6, <1>7 DEF Held

(* Opening the input keeps it: the content is read as it is.               *)
LEMMA OpenInputHolds == ASSUME IInv, Held, OpenInput PROVE Held'
<1>1. /\ pc = "open_input" /\ status = Running
      /\ Len(argv) = 3 /\ Choice \in {"-e", "-d"}
      /\ UNCHANGED << disk, argv, inState, outState, buffered, consumed,
                      before, stands >>
  BY DEF OpenInput, streams, history, Held, Written, IInv, Untouched
<1>2. \/ pc' = "shell" /\ status' = 1
      \/ pc' = "open_output" /\ status' = Running /\ disk[Input] # NoFile
  BY <1>1 DEF OpenInput, Exit, Proceed
<1>3. TypeOK'
  BY <1>1, <1>2 DEF Held, TypeOK
<1>4. Kinds'
  BY <1>1, <1>2, SameTargets DEF Held, Kinds
<1>5. Written' /\ Known'
  BY <1>1, <1>2 DEF Written, Known
<1>6. SuccessIsComplete'
  BY <1>1, <1>2 DEF SuccessIsComplete, Running
<1>7. Identical'
  BY <1>1, SameMeaning DEF Held
<1>8. QED
  BY <1>3, <1>4, <1>5, <1>6, <1>7 DEF Held

(* Truncation keeps what is known of the other files.                      *)
LEMMA OpenOutputHolds == ASSUME Held, OpenOutput PROVE Held'
<1>1. /\ pc = "open_output" /\ status = Running /\ Len(argv) = 3
      /\ UNCHANGED << argv, inState, outState, buffered, consumed, before >>
  BY DEF OpenOutput, streams, Held, Written, TypeOK
<1>2. Input \in Files /\ Output \in Files
  BY <1>1, Targets DEF Held, TypeOK
<1>3. CASE /\ pc' = "shell" /\ status' = 1
           /\ UNCHANGED << disk, stands >>
  <2>1. TypeOK'
    BY <1>1, <1>3 DEF Held, TypeOK
  <2>2. Kinds' /\ Written' /\ Known'
    BY <1>3 DEF Kinds, Written, Known
  <2>3. SuccessIsComplete'
    BY <1>3 DEF SuccessIsComplete
  <2>4. Identical'
    BY <1>3, SameMeaning DEF Held
  <2>5. QED
    BY <2>1, <2>2, <2>3, <2>4 DEF Held
<1>4. CASE /\ pc' = "stream" /\ status' = Running
           /\ disk' = [disk EXCEPT ![Output] = << >>]
           /\ stands' = [stands EXCEPT ![Output] = Unknown]
  <2>1. TypeOK'
    BY <1>1, <1>2, <1>4 DEF Held, TypeOK, Content
  <2>2. /\ disk'[Output] = << >> /\ stands'[Output] = Unknown
        /\ \A f \in Files \ {Output} : disk'[f] = disk[f] /\ stands'[f] = stands[f]
    BY <1>2, <1>4 DEF Held, TypeOK
  <2>3. disk'[Input] \in Source
    BY <1>1, <1>2, <2>2, KindsAreContents DEF Held, Kinds
  <2>4. Kinds'
    BY <1>1, <1>4, <2>3, SameTargets DEF Kinds
  <2>5. Written' /\ Known'
    BY <1>1, <1>4, <2>2, SameTargets DEF Written, Known
  <2>6. SuccessIsComplete'
    BY <1>4 DEF SuccessIsComplete, Running
  <2>7. Identical'
    BY <1>2, <2>2 DEF Held, Identical
  <2>8. QED
    BY <2>1, <2>4, <2>5, <2>6, <2>7 DEF Held
<1>5. QED
  BY <1>1, <1>3, <1>4 DEF OpenOutput, Exit, Proceed

(* Before anything is flushed the whole result is still buffered.          *)
LEMMA EmptyFirst ==
    ASSUME NEW t \in Result
    PROVE  << >> \o t = t
<1>1. CASE t \in Seq(Byte)
  BY <1>1, ConcatEmptySeq
<1>2. CASE t \in Seq(Char)
  BY <1>2, ConcatEmptySeq
<1>3. QED
  BY <1>1, <1>2 DEF Result

(* What the stream call leaves in the file and in the ostream, whether the *)
(* ostream stayed good or not.                                             *)
LEMMA StreamWrites ==
    ASSUME Held, Stream
    PROVE  \E part \in Result :
              /\ disk' = [disk EXCEPT ![Output] = part]
              /\ buffered' \in Result
              /\ outState' = "good" => part \o buffered' = Conversion(Choice, consumed')
              /\ outState' \in {"good", "bad"}
<1> DEFINE text == Conversion(Choice, consumed')
<1>1. pc = "stream" /\ Len(argv) = 3 /\ disk[Output] = << >>
  BY DEF Stream, Held, TypeOK, Written
<1>2. disk[Input] \in Source
  BY <1>1 DEF Held, Kinds
<1>3. consumed' \in Source
  BY <1>2, PrefixKinds DEF Stream
<1>4. text \in Result
  BY <1>3, Converted
<1> HIDE DEF text
<1>5. \A part \in Prefixes(text) :
         /\ part \in Result
         /\ SubSeq(text, Len(part) + 1, Len(text)) \in Result
         /\ part \o SubSeq(text, Len(part) + 1, Len(text)) = text
         /\ disk[Output] \o part = part
  BY <1>1, <1>4, PrefixKinds, EmptyFirst
<1>6. CASE WriteOut(text) /\ UNCHANGED outState
  <2>1. PICK part \in Prefixes(text) :
           /\ disk' = [disk EXCEPT ![Output] = disk[Output] \o part]
           /\ buffered' = SubSeq(text, Len(part) + 1, Len(text))
    BY <1>6 DEF WriteOut
  <2>2. outState' \in {"good", "bad"}
    BY <1>6 DEF Held, TypeOK
  <2>3. QED
    BY <1>5, <2>1, <2>2 DEF text
<1>7. CASE /\ \E part \in Prefixes(text) \ {text} :
                 disk' = [disk EXCEPT ![Output] = @ \o part]
           /\ outState' = "bad" /\ buffered' = << >>
  BY <1>5, <1>7, KindsAreContents
<1>8. QED
  BY <1>6, <1>7 DEF Stream, text

(* The stream call keeps it.                                               *)
LEMMA StreamHolds == ASSUME Held, Stream PROVE Held'
<1>1. /\ pc = "stream" /\ Len(argv) = 3 /\ status = Running
      /\ pc' = "flush" /\ status' = Running
      /\ UNCHANGED << argv, before, stands >>
  BY DEF Stream, Proceed, Held, TypeOK, Written
<1>2. Input \in Files /\ Output \in Files
  BY <1>1, Targets DEF Held, TypeOK
<1>3. disk[Input] \in Source /\ stands[Output] = Unknown
  BY <1>1 DEF Held, Kinds, Known
<1>4. consumed' \in Source
  BY <1>3, PrefixKinds DEF Stream
<1>5. inState' \in {"bad", "eof"} /\ (inState' = "eof" => consumed' = disk[Input])
  BY DEF Stream
<1>6. PICK part \in Result :
              /\ disk' = [disk EXCEPT ![Output] = part]
              /\ buffered' \in Result
              /\ outState' = "good" => part \o buffered' = Conversion(Choice, consumed')
              /\ outState' \in {"good", "bad"}
  BY StreamWrites
<1>7. /\ disk'[Output] = part
      /\ \A f \in Files \ {Output} : disk'[f] = disk[f]
  BY <1>2, <1>6 DEF Held, TypeOK
<1>8. TypeOK'
  BY <1>1, <1>2, <1>4, <1>5, <1>6, KindsAreContents DEF Held, TypeOK
<1>9. Kinds'
  BY <1>1, <1>4, <1>6, SameTargets DEF Kinds
<1>10. Written'
  BY <1>1, <1>6, <1>7, SameTargets DEF Written
<1>11. Known'
  BY <1>1, <1>2, <1>3, <1>5, <1>7, SameTargets DEF Known
<1>12. SuccessIsComplete'
  BY <1>1 DEF SuccessIsComplete, Running
<1>13. Identical'
  BY <1>1, <1>3, <1>7 DEF Held, Identical
<1>14. QED
  BY <1>8, <1>9, <1>10, <1>11, <1>12, <1>13 DEF Held

(* new[] throws: the file stays empty and unknown.                         *)
LEMMA StreamThrowsHolds == ASSUME Held, StreamThrows PROVE Held'
<1>1. /\ pc' = "shell" /\ status' = Aborted
      /\ UNCHANGED << disk, argv, inState, outState, buffered, consumed,
                      before, stands >>
  BY DEF StreamThrows, Exit, streams, history
<1>2. TypeOK'
  BY <1>1 DEF Held, TypeOK
<1>3. Kinds' /\ Written' /\ Known'
  BY <1>1 DEF Kinds, Written, Known
<1>4. SuccessIsComplete'
  BY <1>1 DEF SuccessIsComplete, Aborted
<1>5. Identical'
  BY <1>1, SameMeaning DEF Held
<1>6. QED
  BY <1>2, <1>3, <1>4, <1>5 DEF Held

(* The flush completes the conversion, or the ostream is bad from now on.  *)
LEMMA FlushWrites ==
    ASSUME Held, Flush
    PROVE  \E part \in Result :
              /\ disk' = [disk EXCEPT ![Output] = part]
              /\ buffered' = << >>
              /\ outState' = "good" => part = Conversion(Choice, consumed)
              /\ outState' \in {"good", "bad"}
<1>1. /\ pc = "flush" /\ disk[Output] \in Result /\ buffered \in Result
      /\ outState = "good" => disk[Output] \o buffered = Conversion(Choice, consumed)
      /\ outState \in {"good", "bad"}
  BY DEF Flush, Held, Kinds, Written, TypeOK
<1>2. \A s, t \in Result : s \o t \in Result
  BY ConcatProperties DEF Result
<1>3. CASE /\ outState = "good"
           /\ disk' = [disk EXCEPT ![Output] = @ \o buffered]
           /\ buffered' = << >>
           /\ UNCHANGED outState
  BY <1>1, <1>2, <1>3
<1>4. CASE /\ outState' = "bad"
           /\ \E part \in Prefixes(buffered) :
                 /\ part = buffered => part = << >>
                 /\ disk' = [disk EXCEPT ![Output] = @ \o part]
           /\ buffered' = << >>
  <2>1. PICK part \in Prefixes(buffered) :
           disk' = [disk EXCEPT ![Output] = disk[Output] \o part]
    BY <1>4
  <2>2. disk[Output] \o part \in Result
    BY <1>1, <1>2, <2>1, PrefixKinds
  <2>3. QED
    BY <1>4, <2>1, <2>2
<1>5. QED
  BY <1>3, <1>4 DEF Flush

(* Flushing a part, all or none of what is buffered keeps it.              *)
LEMMA FlushHolds == ASSUME Held, Flush PROVE Held'
<1>1. /\ pc = "flush" /\ Len(argv) = 3 /\ status = Running
      /\ pc' = "check" /\ status' = Running
      /\ UNCHANGED << argv, inState, consumed, before, stands >>
  BY DEF Flush, Proceed, history, Held, TypeOK, Written
<1>2. Input \in Files /\ Output \in Files
  BY <1>1, Targets DEF Held, TypeOK
<1>3. /\ consumed \in Source /\ stands[Output] = Unknown
      /\ inState = "eof" => Input = Output \/ consumed = disk[Input]
  BY <1>1 DEF Held, Kinds, Known
<1>4. PICK part \in Result :
              /\ disk' = [disk EXCEPT ![Output] = part]
              /\ buffered' = << >>
              /\ outState' = "good" => part = Conversion(Choice, consumed)
              /\ outState' \in {"good", "bad"}
  BY FlushWrites
<1>5. /\ disk'[Output] = part
      /\ \A f \in Files \ {Output} : disk'[f] = disk[f]
  BY <1>2, <1>4 DEF Held, TypeOK
<1>6. part \o << >> = part
  BY ConcatEmptySeq DEF Result
<1>7. TypeOK'
  BY <1>1, <1>2, <1>4, KindsAreContents DEF Held, TypeOK
<1>8. Kinds'
  BY <1>1, <1>3, <1>4, SameTargets, KindsAreContents DEF Kinds
<1>9. Written'
  BY <1>1, <1>4, <1>5, <1>6, SameTargets DEF Written
<1>10. Known'
  BY <1>1, <1>2, <1>3, <1>5, SameTargets DEF Known
<1>11. SuccessIsComplete'
  BY <1>1 DEF SuccessIsComplete, Running
<1>12. Identical'
  BY <1>1, <1>3, <1>5 DEF Held, Identical
<1>13. QED
  BY <1>7, <1>8, <1>9, <1>10, <1>11, <1>12 DEF Held

(* Status 0 leaves the whole conversion in the file, so what the input is  *)
(* known to stand for, the output stands for.                              *)
LEMMA CheckOutputHolds == ASSUME Held, CheckOutput PROVE Held'
<1>1. /\ pc = "check" /\ Len(argv) = 3 /\ pc' = "shell"
      /\ status' = IF outState = "bad" THEN 1 ELSE 0
      /\ UNCHANGED << disk, argv, inState, outState, buffered, consumed, before >>
  BY DEF CheckOutput, Exit, streams, Held, TypeOK
<1>2. Input \in Files /\ Output \in Files
  BY <1>1, Targets DEF Held, TypeOK
<1>3. /\ consumed \in Source /\ stands[Output] = Unknown
      /\ inState = "eof" => Input = Output \/ consumed = disk[Input]
      /\ buffered = << >> /\ disk[Output] \in Result
      /\ outState = "good" => disk[Output] \o buffered = Conversion(Choice, consumed)
      /\ outState \in {"good", "bad"}
  BY <1>1 DEF Held, TypeOK, Kinds, Written, Known
<1>4. disk[Output] \o << >> = disk[Output]
  BY <1>3, ConcatEmptySeq DEF Result
<1>5. status' = 0 => disk[Output] = Conversion(Choice, consumed)
  BY <1>1, <1>3, <1>4
<1>6. stands' = IF status' = 0 /\ inState = "eof"
                THEN [stands EXCEPT ![Output] = stands[Input]] ELSE stands
  BY DEF CheckOutput, PassOn
<1>7. TypeOK'
  BY <1>1, <1>2, <1>6 DEF Held, TypeOK
<1>8. Kinds' /\ Written' /\ Known'
  BY <1>1 DEF Kinds, Written, Known
<1>9. SuccessIsComplete'
  BY <1>1, <1>5, SameTargets DEF SuccessIsComplete
<1>10. Identical'
  <2>1. CASE status' = 0 /\ inState = "eof"
    <3>1. /\ stands'[Output] = stands[Input]
          /\ \A f \in Files \ {Output} : stands'[f] = stands[f]
      BY <1>2, <1>6, <2>1 DEF Held, TypeOK
    <3>2. ASSUME stands[Input] # Unknown
          PROVE  Meaning(disk[Output]) = stands[Input]
      <4>1. consumed = disk[Input] /\ Meaning(disk[Input]) = stands[Input]
        BY <1>2, <1>3, <2>1, <3>2 DEF Held, Identical
      <4>2. Meaning(Conversion(Choice, consumed)) = Meaning(consumed)
        BY <1>3, Converted
      <4>3. QED
        BY <1>5, <2>1, <4>1, <4>2
    <3>3. QED
      BY <1>1, <3>1, <3>2 DEF Held, Identical
  <2>2. CASE ~(status' = 0 /\ inState = "eof")
    BY <1>1, <1>6, <2>2, SameMeaning DEF Held
  <2>3. QED
    BY <2>1, <2>2
<1>11. QED
  BY <1>7, <1>8, <1>9, <1>10 DEF Held

(* It holds before the first invocation.                                   *)
LEMMA HeldAtFirst == Init => Held
<1> SUFFICES ASSUME Init PROVE Held
  OBVIOUS
<1>1. /\ disk \in [Files -> Content \cup {NoFile}]
      /\ pc = "shell" /\ argv = << >> /\ status = Running
      /\ inState = "good" /\ outState = "good" /\ buffered = << >>
      /\ consumed = << >>
      /\ stands = [f \in Files |-> IF disk[f] = NoFile THEN Unknown
                                                       ELSE Meaning(disk[f])]
  BY Base64ToolAssumption DEF Init
<1>2. \A c \in Content : Meaning(c) \in Seq(Byte)
  <2>1. \A c \in Seq(Char) : Meaning(c) \in Seq(Byte)
    BY TextMeans
  <2>2. \A c \in Seq(Byte) : Meaning(c) \in Seq(Byte)
    BY DEF Meaning
  <2>3. QED
    BY <2>1, <2>2 DEF Content
<1>3. stands \in [Files -> Seq(Byte) \cup {Unknown}]
  BY <1>1, <1>2
<1>4. TypeOK
  BY <1>1, <1>3 DEF TypeOK, Content, Arguments
<1>5. Kinds /\ Written /\ Known
  BY <1>1 DEF Kinds, Written, Known
<1>6. SuccessIsComplete
  BY <1>1 DEF SuccessIsComplete, Running
<1>7. Identical
  BY <1>1 DEF Identical
<1>8. QED
  BY <1>4, <1>5, <1>6, <1>7 DEF Held

(* It holds of every behaviour.                                            *)
LEMMA HeldAlways == Spec => []Held
<1>1. IInv /\ Held /\ [Next]_vars => Held'
  <2> SUFFICES ASSUME IInv, Held, [Next]_vars PROVE Held'
    OBVIOUS
  <2>1. CASE Next
    BY <2>1, InvokeHolds, CheckArgumentsHolds, OpenInputHolds, OpenOutputHolds,
       StreamHolds, StreamThrowsHolds, FlushHolds, CheckOutputHolds DEF Next
  <2>2. CASE UNCHANGED vars
    <3>1. UNCHANGED << disk, pc, argv, inState, outState, buffered, status,
                       consumed, before, stands >>
      BY <2>2 DEF vars, streams, history
    <3>2. TypeOK'
      BY <3>1 DEF Held, TypeOK
    <3>3. Kinds' /\ Written' /\ Known' /\ SuccessIsComplete'
      BY <3>1, SameTargets DEF Held, Kinds, Written, Known, SuccessIsComplete
    <3>4. QED
      BY <3>1, <3>2, <3>3, SameMeaning DEF Held
  <2>3. QED
    BY <2>1, <2>2
<1>2. QED
  BY <1>1, HeldAtFirst, RefusalInvariant, PTL DEF Spec

(* Every state the tool reaches has its type.                              *)
THEOREM TypeCorrect == Spec => []TypeOK
<1>1. Held => TypeOK
  BY DEF Held
<1>2. QED
  BY <1>1, HeldAlways, PTL

(* main returns 0 only after the whole conversion of what it read is in    *)
(* the output file, for every choice of what the ostream buffers and of    *)
(* where it fails: base64.cc flushes before it asks for the state.         *)
THEOREM NothingLost == Spec => []SuccessIsComplete
<1>1. Held => SuccessIsComplete
  BY DEF Held
<1>2. QED
  BY <1>1, HeldAlways, PTL

(* Over any sequence of invocations, successful conversions that met no    *)
(* read error keep what a file stands for, whatever names share a file:    *)
(* -d undoes -e.                                                           *)
THEOREM ConversionsKeepMeaning == Spec => []Identical
<1>1. Held => Identical
  BY DEF Held
<1>2. QED
  BY <1>1, HeldAlways, PTL

=============================================================================
