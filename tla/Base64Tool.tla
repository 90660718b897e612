----------------------------- MODULE Base64Tool -----------------------------
(***************************************************************************)
(* The command line tool base64.cc, invoked again and again on the files   *)
(* of one disk, of which two names may be the same.                        *)
(*                                                                         *)
(* An invocation is followed from its arguments to its exit status, one    *)
(* step for every operation that can fail.  The stream call is one step:   *)
(* the object is new, no stream throws, and nobody else touches the files, *)
(* so it hands the ostream the conversion of what it reads, or a prefix    *)
(* (StreamEncode!StreamIsText, StreamDecode!StreamIsBytes).  The ostream   *)
(* keeps an end of what it takes to itself until it is flushed.            *)
(*                                                                         *)
(* A file holds bytes or text; -e is asked of the one, -d of the other.    *)
(***************************************************************************)
EXTENDS B64Units

CONSTANTS
    Paths,      \* the file names that can be given
    FileOf,     \* the file each of them leads to
    Disks,      \* what may be on the disk before the first invocation
    NoFile,     \* stands for a file that does not exist
    Unknown     \* stands for contents nothing is known about

Files   == {FileOf[p] : p \in Paths}
Content == Seq(Byte) \cup Seq(Char)
Choices == {"-e", "-d", "-x"}

(* argv without the program's name: argc is one more than its length.      *)
Arguments == { << >>, << "-d" >> } \cup (Choices \X Paths \X Paths)

ASSUME Base64ToolAssumption ==
    /\ FileOf \in [Paths -> Files]
    /\ Disks \subseteq [Files -> Content \cup {NoFile}]
    /\ NoFile \notin Content
    /\ Unknown \notin Content
    /\ PAD \notin Byte /\ NL \notin Byte   \* bytes and characters differ

VARIABLES
    disk,       \* what each file holds
    pc,         \* where the current invocation stands
    argv,       \* its arguments
    inState,    \* its istream's state, "bad" after a read error
    outState,   \* its ostream's state
    buffered,   \* what the ostream has taken and not yet written to the file
    status,     \* how the last invocation ended
    consumed,   \* history: what the invocation has read
    before,     \* history: the disk when it began
    stands      \* history: the bytes each file stands for, as far as known

streams == << inState, outState, buffered >>
history == << consumed, before, stands >>
vars    == << disk, pc, argv, streams, status, history >>

Running == -1
Aborted == 134   \* what a shell makes of abort()

Choice == argv[1]
Input  == FileOf[argv[2]]
Output == FileOf[argv[3]]

(* The bytes that a file of bytes, and a file of text, stands for.         *)
Meaning(c) == IF c \in Seq(Byte) THEN c ELSE Decoded(c)

TypeOK ==
    /\ disk \in [Files -> Content \cup {NoFile}]
    /\ pc \in {"shell", "arguments", "open_input", "open_output", "stream",
               "flush", "check"}
    /\ argv \in Arguments
    /\ inState \in {"good", "eof", "bad"} /\ outState \in {"good", "bad"}
    /\ buffered \in Content
    /\ status \in {0, 1, 255, Aborted, Running}
    /\ consumed \in Content
    /\ pc \notin {"shell", "arguments"} => Len(argv) = 3
    /\ stands \in [Files -> Seq(Byte) \cup {Unknown}]

-----------------------------------------------------------------------------
Proceed(next) == pc' = next /\ UNCHANGED status

Exit(how) == pc' = "shell" /\ status' = how

(* The shell starts the tool.                                              *)
Invoke ==
    /\ pc = "shell"
    /\ argv' \in Arguments
    /\ Len(argv') = 3 =>
          LET c == disk[FileOf[argv'[2]]]
          IN  /\ argv'[1] = "-e" => c \in Seq(Byte) \cup {NoFile}
              /\ argv'[1] = "-d" => c \in Seq(Char) \cup {NoFile}
    /\ pc' = "arguments"
    /\ status' = Running
    /\ inState' = "good" /\ outState' = "good" /\ buffered' = << >>
    /\ consumed' = << >> /\ before' = disk
    /\ UNCHANGED << disk, stands >>

\* Mutant of CheckArguments: an unknown mode encodes, as it once did.
CheckArgumentsAnyMode ==
    /\ pc = "arguments"
    /\ \/ Len(argv) = 0 /\ Exit(255)
       \/ Len(argv) \notin {0, 3} /\ Exit(1)
       \/ Len(argv) = 3 /\ argv[2] = argv[3] /\ Exit(1)
       \/ Len(argv) = 3 /\ argv[2] # argv[3] /\ Proceed("open_input")
    /\ UNCHANGED << disk, argv, streams, history >>

\* Mutant of CheckArguments: too few arguments are not noticed.
CheckArgumentsNotCounted ==
    /\ pc = "arguments"
    /\ \/ Len(argv) = 0 /\ Exit(255)
       \/ Len(argv) = 3 /\ (Choice \notin {"-e", "-d"} \/ argv[2] = argv[3]) /\ Exit(1)
       \/ Len(argv) # 0 /\ Choice \in {"-e", "-d"} /\ Proceed("open_input")
    /\ UNCHANGED << disk, argv, streams, history >>

(* The number of arguments, the mode, and input = output: of the names,    *)
(* not of the files they lead to.                                          *)
CheckArguments ==
    /\ pc = "arguments"
    /\ \/ Len(argv) = 0 /\ Exit(255)
       \/ Len(argv) \notin {0, 3} /\ Exit(1)
       \/ Len(argv) = 3 /\ Choice \notin {"-e", "-d"} /\ Exit(1)
       \/ Len(argv) = 3 /\ argv[2] = argv[3] /\ Exit(1)
       \/ /\ Len(argv) = 3 /\ Choice \in {"-e", "-d"} /\ argv[2] # argv[3]
          /\ Proceed("open_input")
    /\ UNCHANGED << disk, argv, streams, history >>

(* A file that exists may still refuse to be opened.                       *)
OpenInput ==
    /\ pc = "open_input"
    /\ \/ disk[Input] # NoFile /\ Proceed("open_output")
       \/ Exit(1)
    /\ UNCHANGED << disk, argv, streams, history >>

\* Mutant of OpenOutput: what the file held stays in it.
OpenOutputAppend ==
    /\ pc = "open_output"
    /\ \/ /\ disk' = [disk EXCEPT ![Output] = IF @ = NoFile THEN << >> ELSE @]
          /\ stands' = [stands EXCEPT ![Output] = Unknown]
          /\ Proceed("stream")
       \/ Exit(1) /\ UNCHANGED << disk, stands >>
    /\ UNCHANGED << argv, streams, consumed, before >>

(* The file is created, or loses what it held.                             *)
OpenOutput ==
    /\ pc = "open_output"
    /\ \/ /\ disk' = [disk EXCEPT ![Output] = << >>]
          /\ stands' = [stands EXCEPT ![Output] = Unknown]
          /\ Proceed("stream")
       \/ Exit(1) /\ UNCHANGED << disk, stands >>
    /\ UNCHANGED << argv, streams, consumed, before >>

(* The builders' defaults: an encoder does not wrap.                       *)
Conversion(choice, c) == IF choice = "-d" THEN Decoded(c)
                                          ELSE ClosedText(c, Len(c), 0)

Prefixes(c) == {SubSeq(c, 1, k) : k \in 0..Len(c)}

(* text goes to the ostream; an end of it stays in the ostream's buffer.   *)
WriteOut(text) ==
    \E part \in Prefixes(text) :
        /\ disk' = [disk EXCEPT ![Output] = @ \o part]
        /\ buffered' = SubSeq(text, Len(part) + 1, Len(text))

(* D.decode or E.encode: reading may stop at an error, which only inState  *)
(* shows; writing may fail, which outState shows and what is buffered is   *)
(* lost.                                                                   *)
Stream ==
    /\ pc = "stream"
    /\ consumed' \in Prefixes(disk[Input])
    /\ inState' \in {"bad"} \cup (IF consumed' = disk[Input] THEN {"eof"} ELSE {})
    /\ LET text == Conversion(Choice, consumed')
       IN  \/ WriteOut(text) /\ UNCHANGED outState
           \/ /\ \E part \in Prefixes(text) \ {text} :
                    disk' = [disk EXCEPT ![Output] = @ \o part]
              /\ outState' = "bad" /\ buffered' = << >>
    /\ Proceed("flush")
    /\ UNCHANGED << argv, before, stands >>

(* new[] throws for one of the call's buffers, and main does not catch.    *)
StreamThrows ==
    /\ pc = "stream"
    /\ Exit(Aborted)
    /\ UNCHANGED << disk, argv, streams, history >>

(* outstream.flush().                                                      *)
Flush ==
    /\ pc = "flush"
    /\ \/ /\ outState = "good"
          /\ disk' = [disk EXCEPT ![Output] = @ \o buffered]
          /\ buffered' = << >>
          /\ UNCHANGED outState
       \/ /\ outState = "bad" \/ buffered # << >>
          /\ outState' = "bad"
          /\ \E part \in Prefixes(buffered) :
                /\ part = buffered => part = << >>
                /\ disk' = [disk EXCEPT ![Output] = @ \o part]
          /\ buffered' = << >>
    /\ Proceed("check")
    /\ UNCHANGED << argv, inState, history >>

(* A conversion that succeeded and read all there was passes on what its   *)
(* input stands for.                                                       *)
PassOn ==
    stands' = IF status' = 0 /\ inState = "eof"
              THEN [stands EXCEPT ![Output] = stands[Input]] ELSE stands

\* Mutant of CheckOutput: main ends with return 0.
CheckOutputNever ==
    /\ pc = "check"
    /\ Exit(0)
    /\ PassOn
    /\ UNCHANGED << disk, argv, streams, consumed, before >>

(* if (!outstream) return 1; return 0.                                     *)
CheckOutput ==
    /\ pc = "check"
    /\ Exit(IF outState = "bad" THEN 1 ELSE 0)
    /\ PassOn
    /\ UNCHANGED << disk, argv, streams, consumed, before >>

-----------------------------------------------------------------------------
Init ==
    /\ disk \in Disks
    /\ pc = "shell" /\ argv = << >> /\ status = Running
    /\ inState = "good" /\ outState = "good" /\ buffered = << >>
    /\ consumed = << >> /\ before = disk
    /\ stands = [f \in Files |-> IF disk[f] = NoFile THEN Unknown
                                                     ELSE Meaning(disk[f])]

Next == \/ Invoke \/ CheckArguments \/ OpenInput \/ OpenOutput
        \/ Stream \/ StreamThrows \/ Flush \/ CheckOutput

Spec == Init /\ [][Next]_vars

-----------------------------------------------------------------------------
(* Properties.                                                             *)

(* An invocation that ends with status 0 has put the whole conversion of   *)
(* what it read into the output file, the part that was still buffered     *)
(* when the stream call returned included, and nothing else.  What could   *)
(* not be written is never reported as success.                            *)
SuccessIsComplete ==
    status = 0 => disk[Output] = Conversion(Choice, consumed)

(* What the checks of main can refuse leaves every file as it was: nothing *)
(* is truncated for a mode that does not exist, for an output with the     *)
(* input's name, or for an input that is not there.                        *)
RefusalTouchesNothing ==
    \/ Len(argv) # 3
    \/ Choice \notin {"-e", "-d"}
    \/ argv[2] = argv[3]
    \/ before[Input] = NoFile
    => disk = before

(* README.md:74-87, over any number of invocations: a file made from       *)
(* another by conversions that each ended with status 0 and met no read    *)
(* error stands for the same bytes; after -e and -d it is identical.       *)
Identical ==
    \A f \in Files : stands[f] # Unknown => Meaning(disk[f]) = stands[f]

=============================================================================
