------------------------------ MODULE MCBalloc ------------------------------
(* A size_t of 5 bits for Balloc: every length there is, and every text.   *)
EXTENDS Balloc

MCSizeMax == 2^5 - 1
=============================================================================
