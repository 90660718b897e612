----------------------------- MODULE KernelCall -----------------------------
(***************************************************************************)
(* Threads calling base64_encode_bulk_simd of cencode_simd_sse.c, whose    *)
(* state is one pointer for the whole process.  The pointer begins at      *)
(* encode_resolve, which picks the kernel this CPU can run, stores it and  *)
(* runs it.  Loads and stores of the pointer are atomic and relaxed: a     *)
(* thread may read any value that is not older than one it has seen.       *)
(*                                                                         *)
(* A kernel that is given enough output streams it past the cache.  Such   *)
(* stores leave the processor in any order and at any time up to the next  *)
(* fence, so another thread may be told of the call's return, by ordinary  *)
(* stores, before it can see the bytes.  Everything else is ordered.       *)
(*                                                                         *)
(* cdecode_simd_sse.c dispatches in the same way; its kernels do not       *)
(* stream.                                                                 *)
(***************************************************************************)
EXTENDS Integers, Sequences, FiniteSets

CONSTANTS
    Threads,
    Blocks,         \* the vectors of output one call writes
    MaxCalls        \* bound: calls a thread makes

ASSUME KernelCallAssumption == MaxCalls \in Nat

VARIABLES
    cpu,        \* what CPU and operating system have
    stores,     \* the values the pointer has had, in the order of its stores
    seen,       \* per thread: the newest of them it has read or stored
    pc,         \* per thread: where its current call stands
    fn,         \*   the kernel it runs
    use_nt,     \*   whether it streams
    written,    \*   the blocks it has stored
    pending,    \*   those of them nobody else can see yet
    calls,      \*   how many calls it has made
    resolved    \*   how often it has run encode_resolve, counted up to
                \*   MaxResolved

shared == << cpu, stores >>
vars == << shared, seen, pc, fn, use_nt, written, pending, calls, resolved >>

Features == {"sse41", "avx", "osxsave", "ymm", "avx2"}
Bulk     == {"none", "sse41", "avx2"}

MaxResolved == 2    \* bound: more than once is counted as twice

TypeOK ==
    /\ cpu \subseteq Features
    /\ stores \in Seq({"resolve"} \cup Bulk) /\ stores # << >>
    /\ seen \in [Threads -> 1..Len(stores)]
    /\ pc \in [Threads -> {"outside", "load", "resolve", "publish", "kernel",
                           "fence", "returned"}]
    /\ fn \in [Threads -> {"resolve"} \cup Bulk]
    /\ use_nt \in [Threads -> BOOLEAN]
    /\ written \in [Threads -> SUBSET Blocks]
    /\ \A t \in Threads : pending[t] \subseteq written[t]
    /\ \A t \in Threads : pc[t] \in {"publish", "kernel"} => fn[t] \in Bulk
    /\ calls \in [Threads -> 0..MaxCalls]
    /\ resolved \in [Threads -> 0..MaxResolved]

-----------------------------------------------------------------------------
(* What encode_resolve chooses.                                            *)

HasSse41 == "sse41" \in cpu

\* Mutant of HasAvx2: the operating system is not asked.
HasAvx2Cpuid == {"osxsave", "avx", "avx2"} \subseteq cpu

(* b64_cpu_has_avx2: the CPU has it and the system saves its registers.    *)
HasAvx2 == {"osxsave", "avx", "ymm", "avx2"} \subseteq cpu

\* Mutant of Choice: without SIMD the pointer is left where it is, at the
\* resolver.
ChoiceAsIs == IF HasAvx2 THEN "avx2" ELSE IF HasSse41 THEN "sse41" ELSE "resolve"

(* The default is encode_bulk_none.                                        *)
Choice == IF HasAvx2 THEN "avx2" ELSE IF HasSse41 THEN "sse41" ELSE "none"

Goto(t, next) == pc' = [pc EXCEPT ![t] = next]

(* base64_encode_bulk_simd is called, with output that is to be streamed   *)
(* or with less.                                                           *)
Call(t) ==
    /\ pc[t] \in {"outside", "returned"}
    /\ calls[t] < MaxCalls
    /\ calls' = [calls EXCEPT ![t] = @ + 1]
    /\ \E large \in BOOLEAN : use_nt' = [use_nt EXCEPT ![t] = large]
    /\ written' = [written EXCEPT ![t] = {}]
    /\ pending' = [pending EXCEPT ![t] = {}]
    /\ Goto(t, "load")
    /\ UNCHANGED << shared, seen, fn, resolved >>

(* return fn(src, len, dst): the call goes on in the function f, which may *)
(* be the resolver itself.                                                 *)
Enter(t, f) == Goto(t, IF f = "resolve" THEN "resolve" ELSE "kernel")

(* B64_ATOMIC_LOAD_PTR: which of the stores a relaxed load may read.       *)
Visible(t) == seen[t]..Len(stores)

(* The call goes through what was read.                                    *)
Load(t) ==
    /\ pc[t] = "load"
    /\ \E i \in Visible(t) :
          /\ seen' = [seen EXCEPT ![t] = i]
          /\ fn' = [fn EXCEPT ![t] = stores[i]]
          /\ Enter(t, stores[i])
    /\ UNCHANGED << shared, use_nt, written, pending, calls, resolved >>

Resolve(t) ==
    /\ pc[t] = "resolve"
    /\ fn' = [fn EXCEPT ![t] = Choice]
    /\ resolved' = [resolved EXCEPT ![t] = IF @ < MaxResolved THEN @ + 1 ELSE @]
    /\ Goto(t, "publish")
    /\ UNCHANGED << shared, seen, use_nt, written, pending, calls >>

\* Mutant of Publish: the choice is not kept.
PublishNothing(t) ==
    /\ pc[t] = "publish"
    /\ Enter(t, fn[t])
    /\ UNCHANGED << shared, seen, fn, use_nt, written, pending, calls, resolved >>

(* B64_ATOMIC_STORE_PTR, and what was chosen is called.  A store of the    *)
(* value the pointer has already makes no new one.                         *)
Publish(t) ==
    /\ pc[t] = "publish"
    /\ stores' = IF stores[Len(stores)] = fn[t] THEN stores
                 ELSE Append(stores, fn[t])
    /\ seen' = [seen EXCEPT ![t] = Len(stores')]
    /\ Enter(t, fn[t])
    /\ UNCHANGED << cpu, fn, use_nt, written, pending, calls, resolved >>

-----------------------------------------------------------------------------
(* The kernels.  encode_bulk_none writes nothing.                          *)

Todo(t) == IF fn[t] = "none" THEN {} ELSE Blocks \ written[t]

StoreBlock(t) ==
    /\ pc[t] = "kernel"
    /\ \E b \in Todo(t) :
          /\ written' = [written EXCEPT ![t] = @ \cup {b}]
          /\ pending' = IF use_nt[t] THEN [pending EXCEPT ![t] = @ \cup {b}]
                        ELSE pending
    /\ UNCHANGED << shared, seen, pc, fn, use_nt, calls, resolved >>

(* A streamed store reaches memory.                                        *)
Drain(t) ==
    /\ \E b \in pending[t] : pending' = [pending EXCEPT ![t] = @ \ {b}]
    /\ UNCHANGED << shared, seen, pc, fn, use_nt, written, calls, resolved >>

\* Mutant of LoopDone: no fence behind streamed stores.
LoopDoneUnfenced(t) ==
    /\ pc[t] = "kernel"
    /\ Todo(t) = {}
    /\ Goto(t, "returned")
    /\ UNCHANGED << shared, seen, fn, use_nt, written, pending, calls, resolved >>

(* The loop is over: a kernel that streamed fences.                        *)
LoopDone(t) ==
    /\ pc[t] = "kernel"
    /\ Todo(t) = {}
    /\ Goto(t, IF use_nt[t] /\ fn[t] # "none" THEN "fence" ELSE "returned")
    /\ UNCHANGED << shared, seen, fn, use_nt, written, pending, calls, resolved >>

(* _mm_sfence waits for the streamed stores.                               *)
Fence(t) ==
    /\ pc[t] = "fence"
    /\ pending[t] = {}
    /\ Goto(t, "returned")
    /\ UNCHANGED << shared, seen, fn, use_nt, written, pending, calls, resolved >>

-----------------------------------------------------------------------------
Init ==
    /\ cpu \in SUBSET Features
    /\ stores = << "resolve" >>
    /\ seen = [t \in Threads |-> 1]
    /\ pc = [t \in Threads |-> "outside"]
    /\ fn = [t \in Threads |-> "resolve"]
    /\ use_nt = [t \in Threads |-> FALSE]
    /\ written = [t \in Threads |-> {}]
    /\ pending = [t \in Threads |-> {}]
    /\ calls = [t \in Threads |-> 0]
    /\ resolved = [t \in Threads |-> 0]

Step(t) == \/ Load(t) \/ Resolve(t) \/ Publish(t)
           \/ StoreBlock(t) \/ LoopDone(t) \/ Fence(t)

Next == \E t \in Threads : Call(t) \/ Step(t) \/ Drain(t)

Spec == Init /\ [][Next]_vars

(* Threads keep executing, and a streamed store does not stay behind for   *)
(* ever.                                                                   *)
FairSpec == Spec /\ \A t \in Threads : WF_vars(Step(t)) /\ WF_vars(Drain(t))

-----------------------------------------------------------------------------
(* Properties.                                                             *)

(* No call runs a kernel with instructions that the CPU lacks or with      *)
(* registers that the system does not save, and all calls of all threads   *)
(* run the same one, whoever resolved and whenever the store was seen.     *)
KernelsAgree ==
    /\ \A t \in Threads : pc[t] = "kernel" =>
          /\ fn[t] = "avx2"  => {"avx2", "ymm"} \subseteq cpu
          /\ fn[t] = "sse41" => "sse41" \in cpu
    /\ \A s, t \in Threads :
          pc[s] = "kernel" /\ pc[t] = "kernel" => fn[s] = fn[t]

(* No thread resolves twice: the detection is paid for once per thread at  *)
(* the most, however many of them race for the first call.                 *)
ResolvesOnce == \A t \in Threads : resolved[t] <= 1

(* When a call has returned, everything it wrote can be seen by whoever    *)
(* is told about it.                                                       *)
HandoverComplete ==
    \A t \in Threads : pc[t] = "returned" => pending[t] = {}

(* Every call returns.  The pointer begins at the resolver, which calls    *)
(* what it has chosen: were that on any CPU the resolver again, or the     *)
(* pointer as it is, the first call would never leave it.                  *)
CallReturns == \A t \in Threads : pc[t] = "load" ~> pc[t] = "returned"

=============================================================================
