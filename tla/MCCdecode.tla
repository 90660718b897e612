----------------------------- MODULE MCCdecode ------------------------------
(***************************************************************************)
(* Values for Cdecode's constants.  A text is given by its length and the  *)
(* places of its characters outside the alphabet; every 2-bit field of     *)
(* every other character is a value of its own.                            *)
(***************************************************************************)
EXTENDS Cdecode

CONSTANTS MCShort,   \* the length of the short texts
          MCLong     \* the length of the long ones

MCCrumb == ((1..MCLong) \X (1..3)) \cup {Zero}

MCText(length, blockers) ==
    [i \in 1..length |->
        IF i \in blockers THEN NL ELSE << <<i, 1>>, <<i, 2>>, <<i, 3>> >>]

(* Every short text, and long ones that block the real kernels before,     *)
(* inside, at the ends of and behind their first blocks.                   *)
MCSomeBlockers == { {}, {1}, {16}, {17}, {33}, {18, 35} }

MCInputs == {MCText(MCShort, b) : b \in SUBSET (1..MCShort)}
            \cup {MCText(MCLong, b) : b \in MCSomeBlockers}

(* The real kernels, none, sse41 or neon, and avx2, work on the long texts *)
(* and one that takes the same part on the short ones.                     *)
MCKernels == {0, 4, 16, 32}

MCInit ==
    /\ Init
    /\ kernel \in IF Len(input) = MCLong THEN {0, 16, 32} ELSE {0, 4}

MCSpec == MCInit /\ [][Next]_vars /\ WF_vars(Inside)

MCSizeMax == 2^16 - 1
=============================================================================
