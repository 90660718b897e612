------------------------------ MODULE Streams -------------------------------
(***************************************************************************)
(* What encoder::encode(istream, ostream) and its decoding twin share: the *)
(* object's configuration, the allocator it takes its scratch buffers from,*)
(* the two streams, and the ways a call can end.                           *)
(*                                                                         *)
(* Allocator and streams belong to the caller.  The allocator follows the  *)
(* contract of alloc.h: asked for a block it returns one, or NULL; the     *)
(* default one, new[], throws instead.  A read delivers all it was asked   *)
(* for, or fewer at the end of the content or at a read error; a write     *)
(* succeeds, or fails after a part.  A stream whose exception mask has     *)
(* badbit throws at a failure, any other just goes bad.                    *)
(***************************************************************************)
EXTENDS Integers, Sequences

CONSTANTS
    Contents,       \* what an istream may hold
    BufferSizes,    \* the arguments of buffer_size
    Heaps,          \* what a failing allocator does: "null" or "throw"
    Masks           \* may a stream throw: the values of its exception mask

ASSUME StreamsAssumption ==
    /\ BufferSizes \subseteq Int
    /\ Heaps \subseteq {"null", "throw"}
    /\ Masks \subseteq BOOLEAN

VARIABLES
    buffersize, \* _buffersize
    heap,       \* how _alloc fails
    pc,         \* where the current call stands
    outcome,    \* how the last call ended
    live,       \* the scratch blocks of the current or last call, size by name
    throws,     \* the streams' exception mask
    content,    \* what the istream holds
    got,        \* how much of it has been read
    inState,    \* the istream's state
    gcount,     \* gcount of the last read
    chunk,      \* what lies converted in the output buffer
    out,        \* what has reached the ostream
    outState    \* the ostream's state

object  == << buffersize, heap >>
memory  == << live >>
istream == << content, got, inState, gcount >>
ostream == << out, outState >>
streamVars == << object, pc, outcome, memory, throws, istream, chunk, ostream >>

Outcomes == {"none", "returned", "bad_alloc", "thrown"}

(* Names of the blocks, and no block.                                      *)
NoBlocks == [plaintext |-> 0, code |-> 0]

StreamTypeOK(Item) ==
    /\ buffersize \in Nat \ {0}
    /\ heap \in Heaps
    /\ outcome \in Outcomes
    /\ live \in [{"plaintext", "code"} -> Nat]
    /\ throws \in Masks
    /\ content \in Contents \cup {<< >>}   \* << >> before the first call
    /\ got \in 0..Len(content)
    /\ inState \in {"good", "eof", "bad"}
    /\ gcount \in 0..buffersize
    /\ out \in Seq(Item)
    /\ chunk \in Seq(Item)
    /\ outState \in {"good", "bad"}

\* Mutant of Clamp: the size is taken as it comes.
ClampNegative(size) == IF size < 0 THEN 0 ELSE size

(* A non-positive buffer size is taken as 1.                               *)
Clamp(size) == IF size < 1 THEN 1 ELSE size

BuildObject ==
    /\ buffersize' \in {Clamp(size) : size \in BufferSizes}
    /\ heap' \in Heaps

InitStreams ==
    /\ buffersize \in {Clamp(size) : size \in BufferSizes}
    /\ heap \in Heaps
    /\ pc = "idle" /\ outcome = "none"
    /\ live = NoBlocks
    /\ throws \in Masks
    /\ content \in Contents /\ got = 0 /\ inState = "good" /\ gcount = 0
    /\ chunk = << >>
    /\ out = << >> /\ outState = "good"

-----------------------------------------------------------------------------
(* A call is made with two good streams.  What an earlier call may have    *)
(* leaked is not looked at again.                                          *)
OpenStreams ==
    /\ throws' \in Masks
    /\ content' \in Contents /\ got' = 0
    /\ inState' = "good" /\ gcount' = 0
    /\ chunk' = << >>
    /\ out' = << >> /\ outState' = "good"
    /\ live' = NoBlocks
    /\ outcome' = "none"

Leave(how) == pc' = "idle" /\ outcome' = how

Proceed(next) == pc' = next /\ UNCHANGED outcome

(* alloc_scratch(size): a block, NULL (also what a request for 0 bytes     *)
(* gives), or an exception.                                                *)
Allocated(block, size) == size > 0 /\ live' = [live EXCEPT ![block] = size]

AllocatedNull(size) == size = 0 \/ heap = "null"

AllocationThrows(size) == size > 0 /\ heap = "throw"

(* istream.read(buffer, N): gcount is what arrived.                        *)
Available ==
    IF inState # "good" THEN 0
    ELSE IF Len(content) - got < buffersize THEN Len(content) - got
    ELSE buffersize

ReadOk ==
    /\ gcount' = Available
    /\ got' = got + Available
    /\ inState' = IF inState = "good" /\ Available < buffersize THEN "eof"
                  ELSE inState
    /\ UNCHANGED content

ReadFails ==
    /\ inState = "good"
    /\ gcount' \in 0..Available
    /\ gcount' < buffersize
    /\ got' = got + gcount'
    /\ inState' = "bad"
    /\ UNCHANGED content

(* ostream.write(chunk): nothing happens on a stream that is bad.          *)
WriteOk ==
    /\ out' = IF outState = "good" THEN out \o chunk ELSE out
    /\ UNCHANGED outState

WriteFails ==
    /\ outState = "good"
    /\ \E k \in 0..(Len(chunk) - 1) : out' = out \o SubSeq(chunk, 1, k)
    /\ outState' = "bad"

=============================================================================
