----------------------------- MODULE DecodeText -----------------------------
(***************************************************************************)
(* What the streaming decoder promises: after any number of characters     *)
(* have been taken, in blocks of any size, the bytes delivered are the     *)
(* complete bytes of the 6-bit values among them.  Characters outside the  *)
(* alphabet, '=' included, change nothing; there is no closing step.       *)
(***************************************************************************)
EXTENDS B64Units

CONSTANT Inputs     \* the texts a caller may have to decode

VARIABLES input,    \* the text of this stream
          taken,    \* how many of its characters have been taken
          plain     \* the bytes delivered

vars == << input, taken, plain >>

Init == input \in Inputs /\ taken = 0 /\ plain = << >>

Restart == taken' = 0 /\ plain' = << >> /\ UNCHANGED input

Take ==
    /\ taken' \in (taken + 1)..Len(input)
    /\ plain' = Bytes(Values(input, taken'))
    /\ UNCHANGED input

Next == Restart \/ Take

Spec == Init /\ [][Next]_vars

=============================================================================
