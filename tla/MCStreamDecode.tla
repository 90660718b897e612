--------------------------- MODULE MCStreamDecode ---------------------------
(***************************************************************************)
(* Values for StreamDecode's constants: texts with characters outside the  *)
(* alphabet in front, between and behind, and texts that end in any part   *)
(* of a group.                                                             *)
(***************************************************************************)
EXTENDS StreamDecode

MCCrumb == ((1..10) \X (1..3)) \cup {Zero}

MCValue(i) == << <<i, 1>>, <<i, 2>>, <<i, 3>> >>

MCFull == [i \in 1..9 |-> IF i = 4 THEN NL ELSE MCValue(i)]

MCContents == { << >>, << MCValue(10), MCValue(9) >>, MCFull, SubSeq(MCFull, 1, 7),
                << NL, MCValue(1), MCValue(2), MCValue(3), PAD >> }

MCBufferSizes == {0, 1, 2, 3, 4, 7, 16}
MCBoth        == {"null", "throw"}
MCSizeMax     == 2^16 - 1
=============================================================================
