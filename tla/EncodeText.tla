----------------------------- MODULE EncodeText -----------------------------
(***************************************************************************)
(* What the streaming encoder promises, without its buffers, its coroutine *)
(* state or its bulk kernels: after any number of bytes of the input have  *)
(* been fed, in blocks of any size, the text written so far is the one     *)
(* those bytes determine, and closing the stream completes it.  How the    *)
(* caller cut the input into blocks cannot be seen in the text.            *)
(***************************************************************************)
EXTENDS B64Units

CONSTANTS Input,    \* the bytes the caller has to encode
          Widths    \* the line widths the caller uses, 0 for no wrapping

VARIABLES fed,      \* how many bytes of Input have been fed
          width,    \* the line width of this stream
          text,     \* everything written since the stream began
          closed    \* the stream has been ended

vars == << fed, width, text, closed >>

Fresh(w) == fed = 0 /\ width = w /\ text = << >> /\ closed = FALSE

Init == Fresh(0)

(* Begin a new stream on the same state, unwrapped until SetWidth.         *)
Restart == fed' = 0 /\ width' = 0 /\ text' = << >> /\ closed' = FALSE

(* The width is a property of a whole stream: chosen before its first byte.*)
SetWidth ==
    /\ ~closed
    /\ fed = 0
    /\ width' \in Widths
    /\ UNCHANGED << fed, text, closed >>

Feed ==
    /\ ~closed
    /\ fed' \in (fed + 1)..Len(Input)
    /\ text' = OpenText(Input, fed', width)
    /\ UNCHANGED << width, closed >>

Close ==
    /\ ~closed
    /\ closed' = TRUE
    /\ text' = ClosedText(Input, fed, width)
    /\ UNCHANGED << fed, width >>

Next == Restart \/ SetWidth \/ Feed \/ Close

Spec == Init /\ [][Next]_vars

=============================================================================
