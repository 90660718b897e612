----------------------------- MODULE MCCencode ------------------------------
(***************************************************************************)
(* Values for Cencode's constants.  Every 2-bit field of every input byte  *)
(* is a value of its own, so a text that is right here is right for all    *)
(* messages of its length.                                                 *)
(***************************************************************************)
EXTENDS Cencode

CONSTANTS MCLength   \* the number of bytes of the message

MCCrumb == ((1..MCLength) \X (1..4)) \cup {Zero}
MCInput == [i \in 1..MCLength |-> << <<i, 1>>, <<i, 2>>, <<i, 3>>, <<i, 4>> >>]

(* encode_bulk_none, encode_bulk_sse41, encode_bulk_avx2, encode_bulk_neon *)
MCKernels == { [need |->  0, take |->  0], [need |-> 16, take |-> 12],
               [need |-> 32, take |-> 24], [need |-> 48, take |-> 48] }

(* Kernels of the same two shapes that reach short messages.               *)
MCSmallKernels == { [need |-> 0, take |-> 0], [need |-> 4, take |-> 3],
                    [need |-> 3, take |-> 3] }

MCWidths      == {0, 1, 3, 4, 76}
MCSmallWidths == {0, 2, 3}
MCSizeMax     == 2^16 - 1
=============================================================================
