--------------------------- MODULE MCStreamEncode ---------------------------
(***************************************************************************)
(* Values for StreamEncode's constants.  Two messages of different bytes,  *)
(* so that what one stream leaves behind shows in the next.                *)
(***************************************************************************)
EXTENDS StreamEncode

CONSTANT MCLength   \* the length of the longer message

MCCrumb == ((1..(MCLength + 1)) \X (1..4)) \cup {Zero}

MCByte(i) == << <<i, 1>>, <<i, 2>>, <<i, 3>>, <<i, 4>> >>

MCContents == { << >>, << MCByte(MCLength + 1) >>, [i \in 1..MCLength |-> MCByte(i)] }

MCLong == { [i \in 1..MCLength |-> MCByte(i)] }

MCBufferSizes == {-1, 1, 2, 3, 4, 8}
MCWidths      == {0, 1, 2, 4}
MCBoth        == {"null", "throw"}
MCSizeMax     == 2^16 - 1

(* A size_t of 8 bits with an int of 7, in the proportion of 32 and 31: a  *)
(* buffer of 126 stands for one of 2147483646.                             *)
MCSmallSizeMax  == 2^8 - 1
MCLargestBuffer == {126}
MCNarrow        == {2}
=============================================================================
