------------------------------- MODULE Balloc -------------------------------
(***************************************************************************)
(* The one-shot allocating API of balloc.c, for one caller with a variable *)
(* pair (out, outlen) for each of base64_encode_alloc and                  *)
(* base64_decode_alloc, and an allocator that may fail at any request.     *)
(*                                                                         *)
(* The data is abstracted to its sizes, over all of size_t: a message is   *)
(* its length, a text its length and the number of its alphabet            *)
(* characters.  What the block API makes of them is Cencode's and          *)
(* Cdecode's affair.                                                       *)
(***************************************************************************)
EXTENDS B64Units, B64Lengths

VARIABLES
    ret,        \* what the last call returned: 0, -1, or none was made
    out,        \* the caller's pointers: uninitialised, NULL, to a block, or
                \*   dangling, to a block that was freed
    outlen,     \*   and lengths
    owed,       \* has the caller still to free what the last call left in out
    size,       \* the size of the block allocated for each pointer, 0 if none
    used        \* how far the call has written into it

vars == << ret, out, outlen, owed, size, used >>

Slots == {"encode", "decode"}
Junk  == -1     \* what outlen holds before a call sets it

TypeOK ==
    /\ ret \in {"none", "ok", "error"}
    /\ out \in [Slots -> {"junk", "NULL", "block", "dangling"}]
    /\ outlen \in [Slots -> {Junk} \cup (0..SizeMax)]
    /\ owed \in [Slots -> BOOLEAN]
    /\ size \in [Slots -> 0..SizeMax]
    /\ used \in [Slots -> Nat]

-----------------------------------------------------------------------------
(* A caller reuses a pointer once it has freed the block behind it.        *)
Reusable(slot) == out[slot] # "block"

\* Mutant of Fail: what was in *out before the call is left there.
FailUncleared(slot) ==
    /\ ret' = "error"
    /\ outlen' = [outlen EXCEPT ![slot] = 0]
    /\ owed' = [owed EXCEPT ![slot] = TRUE]
    /\ UNCHANGED << out, size, used >>

(* Both results are cleared before anything can fail, and the caller frees *)
(* *out whatever the call returned.                                        *)
Fail(slot) ==
    /\ ret' = "error"
    /\ out' = [out EXCEPT ![slot] = "NULL"]
    /\ outlen' = [outlen EXCEPT ![slot] = 0]
    /\ owed' = [owed EXCEPT ![slot] = TRUE]
    /\ UNCHANGED << size, used >>

(* A block of the requested size, written up to extent, of which the       *)
(* caller is told length.                                                  *)
Deliver(slot, request, extent, length) ==
    /\ request > 0
    /\ ret' = "ok"
    /\ out' = [out EXCEPT ![slot] = "block"]
    /\ outlen' = [outlen EXCEPT ![slot] = length]
    /\ owed' = [owed EXCEPT ![slot] = TRUE]
    /\ size' = [size EXCEPT ![slot] = request]
    /\ used' = [used EXCEPT ![slot] = extent]

(* Without out parameters nothing is touched.                              *)
NoOutParameters ==
    /\ ret' = "error"
    /\ UNCHANGED << out, outlen, owed, size, used >>

\* Mutant of EncodeRequest: the terminating NUL is not asked for.
EncodeRequestUnterminated(length) == EncodeLength(length, 0)

(* What base64_encode_alloc asks for: the text and a NUL.                  *)
EncodeRequest(length) == SizeT(EncodeLength(length, 0) + 1)

\* Mutant of TooLong: every length is taken.
TooLongNever(length) == FALSE

TooLong(length) == EncodeLength(length, 0) = 0 /\ length # 0

EncodeAlloc ==
    /\ Reusable("encode")
    /\ \/ Fail("encode")
       \/ \E length \in 0..SizeMax :
             /\ ~TooLong(length)
             /\ Deliver("encode", EncodeRequest(length),
                        ClosedCount(length) + 1, ClosedCount(length))

DecodedCount(values) == (3 * values) \div 4

(* How many bytes a text of so many characters, so many of them of the     *)
(* alphabet, may make the decoder store.  A byte it has begun stands       *)
(* behind the complete ones; and each call of the scalar core first stores *)
(* the byte it carries, at the group boundary too: where the text ends in  *)
(* a character that is not of the alphabet, that may be a byte more.       *)
Touched(length, values) ==
    LET n == DecodedCount(values)
    IN  IF values % 4 = 0 /\ values = length THEN {n}
        ELSE IF values % 4 = 0 /\ values # 0 THEN {n, n + 1}
        ELSE {n + 1}

DecodeAlloc ==
    /\ Reusable("decode")
    /\ \/ Fail("decode")
       \/ \E length \in 0..SizeMax : \E values \in 0..length :
             \E extent \in Touched(length, values) :
                Deliver("decode", DecodeMaxLength(length),
                        extent, DecodedCount(values))

(* base64_free takes the pointer by value and makes nothing of NULL: a     *)
(* pointer to a block is still there afterwards, and dangles.              *)
Free ==
    /\ \E slot \in Slots :
          /\ owed[slot]
          /\ out' = [out EXCEPT ![slot] = IF @ = "block" THEN "dangling" ELSE @]
          /\ owed' = [owed EXCEPT ![slot] = FALSE]
          /\ size' = [size EXCEPT ![slot] = 0]
          /\ used' = [used EXCEPT ![slot] = 0]
    /\ UNCHANGED << ret, outlen >>

Init ==
    /\ ret = "none"
    /\ out = [s \in Slots |-> "junk"] /\ outlen = [s \in Slots |-> Junk]
    /\ owed = [s \in Slots |-> FALSE]
    /\ size = [s \in Slots |-> 0] /\ used = [s \in Slots |-> 0]

Next == NoOutParameters \/ EncodeAlloc \/ DecodeAlloc \/ Free

Spec == Init /\ [][Next]_vars

-----------------------------------------------------------------------------
(* Properties.                                                             *)

(* Whatever is written, the NUL and the byte stored ahead included, lies   *)
(* inside the block that was asked for, for every length a size_t can      *)
(* hold: a request that would have wrapped is refused, never shortened.    *)
Fits == \A s \in Slots : used[s] <= size[s]

(* After every call the caller may free *out, whatever the call returned   *)
(* and whatever the variable held before it, uninitialised or the pointer  *)
(* to a block long freed: there is NULL in it or the one block the call    *)
(* left, and no block without a pointer to it.                             *)
FreeIsSafe ==
    \A s \in Slots :
        /\ owed[s] => out[s] = IF size[s] = 0 THEN "NULL" ELSE "block"
        /\ size[s] # 0 => owed[s]

=============================================================================
