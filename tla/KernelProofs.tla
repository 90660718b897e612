---------------------------- MODULE KernelProofs -----------------------------
(***************************************************************************)
(* The bulk kernels: KernelCall, how they are reached, for any number of   *)
(* threads, calls and blocks of output; and Lanes, what they compute, for  *)
(* every three bytes and every four characters.                            *)
(***************************************************************************)
EXTENDS KernelCall, Lanes, FiniteSetTheorems, TLAPS

-----------------------------------------------------------------------------
(* The inductive invariant.                                                *)

(* After its first value the pointer only ever held what the CPU dictates, *)
(* and so does a thread that is past resolving.                            *)
OneChoice ==
    /\ \A i \in 1..Len(stores) :
          stores[i] = IF i = 1 THEN "resolve" ELSE Choice
    /\ \A t \in Threads : pc[t] \in {"publish", "kernel"} => fn[t] = Choice

(* A thread that has resolved is about to store the pointer or has seen a  *)
(* later value of it than the first, and will not read the first again.    *)
Remembers(t) ==
    /\ resolved[t] = 0 \/ (resolved[t] = 1 /\ (pc[t] = "publish" \/ seen[t] > 1))
    /\ pc[t] = "resolve" => seen[t] = 1
    /\ pc[t] # "outside" => calls[t] > 0

(* Only streamed stores are ever pending, and a call that ends without a   *)
(* fence has made none.                                                    *)
Ordered(t) ==
    /\ ~use_nt[t] => pending[t] = {}
    /\ pc[t] \in {"outside", "load", "resolve", "publish"} => written[t] = {}
    /\ pc[t] = "kernel" /\ fn[t] = "none" => written[t] = {}
    /\ pc[t] = "returned" => pending[t] = {}

IInv ==
    /\ TypeOK
    /\ pending \in [Threads -> SUBSET Blocks]
    /\ OneChoice
    /\ \A t \in Threads : Remembers(t)
    /\ \A t \in Threads : Ordered(t)

(* The kernel that the CPU's features choose is a kernel, never the
   resolver.                                                               *)
LEMMA ChoiceType == Choice \in Bulk /\ Choice # "resolve"
BY DEF Choice, Bulk

(* No thread has called and the pointer names the resolver.                *)
LEMMA InvInit == Init => IInv
BY KernelCallAssumption
   DEF Init, IInv, TypeOK, OneChoice, Remembers, Ordered, Features, MaxResolved

(* Whoever runs a kernel runs the one the CPU dictates, which it has.      *)
LEMMA InvAgrees == IInv => KernelsAgree
BY DEF IInv, OneChoice, KernelsAgree, Choice, HasAvx2, HasSse41

(* A call starts with nothing written or held back.                        *)
LEMMA CallStep == ASSUME IInv, NEW t \in Threads, Call(t) PROVE IInv'
<1>1. TypeOK' /\ (pending \in [Threads -> SUBSET Blocks])'
  BY KernelCallAssumption DEF IInv, TypeOK, Call, Goto, shared
<1>2. OneChoice'
  BY DEF IInv, TypeOK, OneChoice, Call, Goto, shared, Choice, HasAvx2, HasSse41
<1>3. ASSUME NEW s \in Threads PROVE Remembers(s)' /\ Ordered(s)'
  BY <1>3, KernelCallAssumption
     DEF IInv, TypeOK, Remembers, Ordered, Call, Goto, shared
<1>4. QED
  BY <1>1, <1>2, <1>3 DEF IInv

(* The pointer read is the resolver or the CPU's kernel.                   *)
LEMMA LoadStep == ASSUME IInv, NEW t \in Threads, Load(t) PROVE IInv'
<1>1. PICK i \in seen[t]..Len(stores) :
          /\ seen' = [seen EXCEPT ![t] = i]
          /\ fn' = [fn EXCEPT ![t] = stores[i]]
          /\ Goto(t, IF stores[i] = "resolve" THEN "resolve" ELSE "kernel")
  BY DEF Load, Visible, Enter
<1>2. i \in 1..Len(stores) /\ i >= seen[t] /\ seen[t] >= 1
  BY DEF IInv, TypeOK
<1>3. /\ stores[i] = "resolve" => i = 1
      /\ stores[i] # "resolve" => stores[i] = Choice
  BY <1>2, ChoiceType DEF IInv, OneChoice
<1>4. TypeOK' /\ (pending \in [Threads -> SUBSET Blocks])'
  BY <1>1, <1>2, <1>3, ChoiceType DEF IInv, TypeOK, Load, Goto, shared
<1>5. OneChoice'
  BY <1>1, <1>3
     DEF IInv, TypeOK, OneChoice, Load, Goto, shared, Choice, HasAvx2, HasSse41
<1>6. ASSUME NEW s \in Threads PROVE Remembers(s)' /\ Ordered(s)'
  BY <1>1, <1>2, <1>3, <1>6
     DEF IInv, TypeOK, Remembers, Ordered, Load, Goto, shared
<1>7. QED
  BY <1>4, <1>5, <1>6 DEF IInv

(* Every thread that resolves computes the same kernel.                    *)
LEMMA ResolveStep == ASSUME IInv, NEW t \in Threads, Resolve(t) PROVE IInv'
<1>1. resolved[t] = 0 /\ resolved' = [resolved EXCEPT ![t] = 1]
  <2>1. Remembers(t) /\ pc[t] = "resolve"
    BY DEF IInv, Resolve
  <2>2. resolved[t] = 0
    BY <2>1 DEF Remembers
  <2>3. QED
    BY <2>2 DEF Resolve, MaxResolved
<1>2. TypeOK' /\ (pending \in [Threads -> SUBSET Blocks])'
  BY <1>1, ChoiceType DEF IInv, TypeOK, Resolve, Goto, shared, MaxResolved
<1>3. OneChoice'
  BY DEF IInv, TypeOK, OneChoice, Resolve, Goto, shared, Choice, HasAvx2, HasSse41
<1>4. ASSUME NEW s \in Threads PROVE Remembers(s)' /\ Ordered(s)'
  BY <1>1, <1>4 DEF IInv, TypeOK, Remembers, Ordered, Resolve, Goto, shared
<1>5. QED
  BY <1>2, <1>3, <1>4 DEF IInv

(* What a thread that has resolved calls is a kernel.                      *)
LEMMA PublishEnters ==
    ASSUME IInv, NEW t \in Threads, Publish(t)
    PROVE  fn[t] = Choice /\ Goto(t, "kernel")
<1>1. fn[t] = Choice
  BY DEF IInv, OneChoice, Publish
<1>2. QED
  BY <1>1, ChoiceType DEF Publish, Enter

(* Publishing stores the CPU's kernel, whoever stored before.              *)
LEMMA PublishStep == ASSUME IInv, NEW t \in Threads, Publish(t) PROVE IInv'
<1>1. /\ Len(stores) \in Nat /\ Len(stores) >= 1
      /\ Len(stores') \in {Len(stores), Len(stores) + 1}
      /\ \A i \in 1..Len(stores) : stores'[i] = stores[i]
      /\ stores'[Len(stores')] = fn[t]
      /\ stores' \in Seq({"resolve"} \cup Bulk) /\ stores' # << >>
  <2>1. /\ stores \in Seq({"resolve"} \cup Bulk) /\ stores # << >>
        /\ fn[t] \in {"resolve"} \cup Bulk
        /\ stores' = IF stores[Len(stores)] = fn[t] THEN stores
                     ELSE Append(stores, fn[t])
    BY DEF IInv, TypeOK, Publish
  <2>2. CASE stores[Len(stores)] = fn[t]
    BY <2>1, <2>2
  <2>3. CASE stores[Len(stores)] # fn[t]
    BY <2>1, <2>3
  <2>4. QED
    BY <2>2, <2>3
<1>2. fn[t] = Choice /\ Choice' = Choice /\ Goto(t, "kernel")
  BY PublishEnters DEF Publish, Choice, HasAvx2, HasSse41
<1>3. seen' = [seen EXCEPT ![t] = Len(stores')] /\ seen'[t] > 1
  <2>1. stores'[1] = "resolve" /\ stores'[Len(stores')] # "resolve"
    BY <1>1, <1>2, ChoiceType DEF IInv, OneChoice
  <2>2. Len(stores') > 1
    BY <1>1, <2>1
  <2>3. QED
    BY <2>2 DEF IInv, TypeOK, Publish
<1>4. TypeOK' /\ (pending \in [Threads -> SUBSET Blocks])'
  <2>1. seen' \in [Threads -> 1..Len(stores')]
    BY <1>1, <1>3 DEF IInv, TypeOK
  <2>2. QED
    BY <1>1, <1>2, <2>1 DEF IInv, TypeOK, Publish, Goto
<1>5. OneChoice'
  <2>1. ASSUME NEW i \in 1..Len(stores')
        PROVE  stores'[i] = IF i = 1 THEN "resolve" ELSE Choice'
    BY <1>1, <1>2, <2>1 DEF IInv, OneChoice
  <2>2. ASSUME NEW s \in Threads, pc'[s] \in {"publish", "kernel"}
        PROVE  fn'[s] = Choice'
    BY <1>2, <2>2 DEF IInv, TypeOK, OneChoice, Publish, Goto
  <2>3. QED
    BY <2>1, <2>2 DEF OneChoice
<1>6. ASSUME NEW s \in Threads PROVE Remembers(s)' /\ Ordered(s)'
  BY <1>2, <1>3, <1>6 DEF IInv, TypeOK, Remembers, Ordered, Publish, Goto
<1>7. QED
  BY <1>4, <1>5, <1>6 DEF IInv

(* Only a streamed store leaves a block pending.                           *)
LEMMA StoreBlockStep == ASSUME IInv, NEW t \in Threads, StoreBlock(t) PROVE IInv'
<1>1. TypeOK' /\ (pending \in [Threads -> SUBSET Blocks])'
  BY DEF IInv, TypeOK, StoreBlock, Todo, shared
<1>2. OneChoice'
  BY DEF IInv, TypeOK, OneChoice, StoreBlock, shared, Choice, HasAvx2, HasSse41
<1>3. ASSUME NEW s \in Threads PROVE Remembers(s)' /\ Ordered(s)'
  BY <1>3 DEF IInv, TypeOK, Remembers, Ordered, StoreBlock, Todo, shared
<1>4. QED
  BY <1>1, <1>2, <1>3 DEF IInv

(* A streamed block that reaches memory is no longer pending.              *)
LEMMA DrainStep == ASSUME IInv, NEW t \in Threads, Drain(t) PROVE IInv'
<1>1. TypeOK' /\ (pending \in [Threads -> SUBSET Blocks])'
  BY DEF IInv, TypeOK, Drain, shared
<1>2. OneChoice'
  BY DEF IInv, OneChoice, Drain, shared, Choice, HasAvx2, HasSse41
<1>3. ASSUME NEW s \in Threads PROVE Remembers(s)' /\ Ordered(s)'
  BY <1>3 DEF IInv, TypeOK, Remembers, Ordered, Drain, shared
<1>4. QED
  BY <1>1, <1>2, <1>3 DEF IInv

(* A kernel that streamed goes to its fence, any other leaves none pending.*)
LEMMA LoopDoneStep == ASSUME IInv, NEW t \in Threads, LoopDone(t) PROVE IInv'
<1>1. TypeOK' /\ (pending \in [Threads -> SUBSET Blocks])'
  BY DEF IInv, TypeOK, LoopDone, Goto, shared
<1>2. OneChoice'
  BY DEF IInv, TypeOK, OneChoice, LoopDone, Goto, shared, Choice, HasAvx2, HasSse41
<1>3. ASSUME NEW s \in Threads PROVE Remembers(s)' /\ Ordered(s)'
  BY <1>3 DEF IInv, TypeOK, Remembers, Ordered, LoopDone, Goto, shared
<1>4. QED
  BY <1>1, <1>2, <1>3 DEF IInv

(* A kernel that streamed returns only when no block is held back.         *)
LEMMA FenceStep == ASSUME IInv, NEW t \in Threads, Fence(t) PROVE IInv'
<1>1. TypeOK' /\ (pending \in [Threads -> SUBSET Blocks])'
  BY DEF IInv, TypeOK, Fence, Goto, shared
<1>2. OneChoice'
  BY DEF IInv, TypeOK, OneChoice, Fence, Goto, shared, Choice, HasAvx2, HasSse41
<1>3. ASSUME NEW s \in Threads PROVE Remembers(s)' /\ Ordered(s)'
  BY <1>3 DEF IInv, TypeOK, Remembers, Ordered, Fence, Goto, shared
<1>4. QED
  BY <1>1, <1>2, <1>3 DEF IInv

(* Every step of every thread keeps the invariant.                         *)
LEMMA InvStep == IInv /\ [Next]_vars => IInv'
<1> SUFFICES ASSUME IInv, [Next]_vars PROVE IInv'
  OBVIOUS
<1>1. CASE UNCHANGED vars
  BY <1>1 DEF IInv, TypeOK, OneChoice, Remembers, Ordered, vars, shared,
              Choice, HasAvx2, HasSse41
<1>2. ASSUME NEW t \in Threads, Call(t) \/ Step(t) \/ Drain(t) PROVE IInv'
  BY <1>2, CallStep, LoadStep, ResolveStep, PublishStep, StoreBlockStep,
     DrainStep, LoopDoneStep, FenceStep DEF Step
<1>3. QED
  BY <1>1, <1>2 DEF Next

(* The invariant holds of every behaviour.                                 *)
LEMMA Invariant == Spec => []IInv
BY InvInit, InvStep, PTL DEF Spec

-----------------------------------------------------------------------------
(* Every variable of the dispatch keeps its type; a thread that is to run  *)
(* a kernel has one to run.                                                *)
THEOREM TypeCorrect == Spec => []TypeOK
<1>1. IInv => TypeOK
  BY DEF IInv
<1>2. QED
  BY <1>1, Invariant, PTL

(* However many threads race for the first call, all run the kernel the    *)
(* CPU and the system allow.                                               *)
THEOREM AllAgree == Spec => []KernelsAgree
BY InvAgrees, Invariant, PTL

(* encode_resolve runs at most once in each thread.                        *)
THEOREM ResolvedOnce == Spec => []ResolvesOnce
<1>1. IInv => ResolvesOnce
  BY DEF IInv, Remembers, ResolvesOnce
<1>2. QED
  BY <1>1, Invariant, PTL

(* A call that has returned leaves no streamed store behind.               *)
THEOREM OutputComplete == Spec => []HandoverComplete
<1>1. IInv => HandoverComplete
  BY DEF IInv, Ordered, HandoverComplete
<1>2. QED
  BY <1>1, Invariant, PTL

-----------------------------------------------------------------------------
(* How long a call takes.  CallReturns says that it ends, by the fairness  *)
(* of its thread's steps.                                                  *)

(* What thread t and its store buffer have left to do in the current call. *)
(* A block is stored and, if it was streamed, drains.                      *)
StepsLeft(t) ==
    CASE pc[t] = "load"    -> 2 * Cardinality(Blocks) + 5
      [] pc[t] = "resolve" -> 2 * Cardinality(Blocks) + 4
      [] pc[t] = "publish" -> 2 * Cardinality(Blocks) + 3
      [] pc[t] = "kernel"  -> 2 * Cardinality(Todo(t)) + Cardinality(pending[t]) + 2
      [] pc[t] = "fence"   -> Cardinality(pending[t]) + 1
      [] OTHER             -> 0

(* A call that writes n blocks takes 2 * n + 5 steps at the most, and      *)
(* what other threads do meanwhile does not add to them.                   *)
WaitFree ==
    [][\A t \in Threads :
         /\ Call(t) => StepsLeft(t)' = 2 * Cardinality(Blocks) + 5
         /\ Step(t) \/ Drain(t) => StepsLeft(t)' \in Nat /\ StepsLeft(t)' < StepsLeft(t)
         /\ \A s \in Threads \ {t} :
              Call(s) \/ Step(s) \/ Drain(s) => StepsLeft(t)' = StepsLeft(t)]_vars

(* What is counted.                                                        *)
LEMMA Counts ==
    ASSUME IsFiniteSet(Blocks), IInv, NEW t \in Threads
    PROVE  /\ IsFiniteSet(Todo(t)) /\ Todo(t) \subseteq Blocks
           /\ Cardinality(Blocks) \in Nat
           /\ Cardinality(Todo(t)) \in 0..Cardinality(Blocks)
           /\ IsFiniteSet(pending[t]) /\ Cardinality(pending[t]) \in Nat
<1>1. Todo(t) \in SUBSET Blocks /\ pending[t] \in SUBSET Blocks
  BY DEF Todo, IInv
<1>2. /\ IsFiniteSet(Todo(t)) /\ Cardinality(Todo(t)) <= Cardinality(Blocks)
      /\ IsFiniteSet(pending[t])
  BY <1>1, FS_Subset
<1>3. /\ Cardinality(Blocks) \in Nat /\ Cardinality(Todo(t)) \in Nat
      /\ Cardinality(pending[t]) \in Nat
  BY <1>2, FS_CardinalityType
<1>4. QED
  BY <1>1, <1>2, <1>3

(* A step of another thread leaves all of it as it was.                    *)
LEMMA OthersStep ==
    ASSUME IInv, NEW t \in Threads, NEW s \in Threads, s # t,
           Call(s) \/ Step(s) \/ Drain(s)
    PROVE  StepsLeft(t)' = StepsLeft(t)
<1>1. /\ pc'[t] = pc[t] /\ fn'[t] = fn[t]
      /\ written'[t] = written[t] /\ pending'[t] = pending[t]
  <2>1. CASE Call(s)
    BY <2>1 DEF Call, Goto, IInv, TypeOK
  <2>2. CASE Load(s)
    BY <2>2 DEF Load, Enter, Goto, IInv, TypeOK
  <2>3. CASE Resolve(s) \/ Publish(s)
    BY <2>3 DEF Resolve, Publish, Enter, Goto, IInv, TypeOK
  <2>4. CASE StoreBlock(s) \/ Drain(s)
    BY <2>4 DEF StoreBlock, Drain, IInv, TypeOK
  <2>5. CASE LoopDone(s) \/ Fence(s)
    BY <2>5 DEF LoopDone, Fence, Goto, IInv, TypeOK
  <2>6. QED
    BY <2>1, <2>2, <2>3, <2>4, <2>5 DEF Step
<1>2. Todo(t)' = Todo(t)
  BY <1>1 DEF Todo
<1>3. QED
  BY <1>1, <1>2 DEF StepsLeft

(* A step of the thread itself, or of its store buffer, leaves less to do. *)
LEMMA OwnStep ==
    ASSUME IsFiniteSet(Blocks), IInv, IInv', NEW t \in Threads, Step(t) \/ Drain(t)
    PROVE  StepsLeft(t)' \in Nat /\ StepsLeft(t)' < StepsLeft(t)
<1> DEFINE n == Cardinality(Blocks)
           todo == Cardinality(Todo(t))
           out == Cardinality(pending[t])
<1>1. n \in Nat /\ todo \in 0..n /\ out \in Nat
  BY Counts
<1>2. todo' \in 0..n /\ out' \in Nat
  <2>1. IsFiniteSet(Blocks)
    OBVIOUS
  <2>2. IsFiniteSet(Todo(t)') /\ IsFiniteSet(pending'[t])
        /\ Todo(t)' \in SUBSET Blocks
    <3>1. Todo(t)' \in SUBSET Blocks /\ pending'[t] \in SUBSET Blocks
      BY DEF Todo, IInv
    <3>2. QED
      BY <3>1, FS_Subset
  <2>3. Cardinality(Todo(t)') <= n
    BY <2>2, FS_Subset
  <2>4. Cardinality(Todo(t)') \in Nat /\ Cardinality(pending'[t]) \in Nat
    BY <2>2, FS_CardinalityType
  <2>5. QED
    BY <1>1, <2>3, <2>4
<1>3. Ordered(t) /\ pending[t] \subseteq written[t]
  BY DEF IInv, TypeOK
<1>4. CASE Load(t)
  <2>1. pc[t] = "load" /\ pc'[t] \in {"resolve", "kernel"} /\ pending'[t] = pending[t]
    BY <1>4 DEF Load, Enter, Goto, IInv, TypeOK
  <2>2. pending[t] = {}
    BY <1>3, <2>1 DEF Ordered
  <2>3. out' = 0
    BY <2>1, <2>2, FS_EmptySet
  <2>4. StepsLeft(t) = 2 * n + 5
    BY <2>1 DEF StepsLeft
  <2>5. StepsLeft(t)' = 2 * n + 4 \/ StepsLeft(t)' = 2 * todo' + out' + 2
    BY <2>1 DEF StepsLeft
  <2>6. QED
    BY <1>1, <1>2, <2>3, <2>4, <2>5
<1>5. CASE Resolve(t)
  <2>1. pc[t] = "resolve" /\ pc'[t] = "publish"
    BY <1>5 DEF Resolve, Goto, IInv, TypeOK
  <2>2. StepsLeft(t) = 2 * n + 4 /\ StepsLeft(t)' = 2 * n + 3
    BY <2>1 DEF StepsLeft
  <2>3. QED
    BY <1>1, <2>2
<1>6. CASE Publish(t)
  <2>1. pc[t] = "publish" /\ pc'[t] = "kernel" /\ pending'[t] = pending[t]
    <3>1. pc[t] = "publish" /\ pending' = pending
      BY <1>6 DEF Publish
    <3>2. pc' = [pc EXCEPT ![t] = "kernel"]
      BY <1>6, PublishEnters DEF Goto
    <3>3. QED
      BY <3>1, <3>2 DEF IInv, TypeOK
  <2>2. pending[t] = {}
    BY <1>3, <2>1 DEF Ordered
  <2>3. out' = 0
    BY <2>1, <2>2, FS_EmptySet
  <2>4. StepsLeft(t) = 2 * n + 3 /\ StepsLeft(t)' = 2 * todo' + out' + 2
    BY <2>1 DEF StepsLeft
  <2>5. QED
    BY <1>1, <1>2, <2>3, <2>4
<1>7. CASE StoreBlock(t)
  <2>1. PICK b \in Todo(t) :
          /\ written' = [written EXCEPT ![t] = @ \cup {b}]
          /\ pending' = IF use_nt[t] THEN [pending EXCEPT ![t] = @ \cup {b}]
                        ELSE pending
    BY <1>7 DEF StoreBlock
  <2>2. pc[t] = "kernel" /\ pc'[t] = "kernel" /\ fn'[t] = fn[t]
        /\ written'[t] = written[t] \cup {b}
        /\ pending'[t] \in {pending[t], pending[t] \cup {b}}
    BY <1>7, <2>1 DEF StoreBlock, IInv, TypeOK
  <2>3. Todo(t)' = Todo(t) \ {b}
    BY <2>1, <2>2 DEF Todo
  <2>4. todo' = todo - 1
    BY <2>1, <2>3, Counts, FS_RemoveElement
  <2>5. out' <= out + 1
    <3>1. CASE pending'[t] = pending[t]
      BY <1>1, <3>1
    <3>2. CASE pending'[t] = pending[t] \cup {b}
      <4>1. IsFiniteSet(pending[t])
        BY Counts
      <4>2. Cardinality(pending[t] \cup {b}) = IF b \in pending[t] THEN out ELSE out + 1
        BY <4>1, FS_AddElement
      <4>3. QED
        BY <1>1, <3>2, <4>2
    <3>3. QED
      BY <2>2, <3>1, <3>2
  <2>6. StepsLeft(t) = 2 * todo + out + 2 /\ StepsLeft(t)' = 2 * todo' + out' + 2
    BY <2>2 DEF StepsLeft
  <2>7. QED
    BY <1>1, <1>2, <2>4, <2>5, <2>6
<1>8. CASE LoopDone(t)
  <2>1. pc[t] = "kernel" /\ pc'[t] \in {"fence", "returned"} /\ pending'[t] = pending[t]
    BY <1>8 DEF LoopDone, Goto, IInv, TypeOK
  <2>2. StepsLeft(t) = 2 * todo + out + 2
    BY <2>1 DEF StepsLeft
  <2>3. StepsLeft(t)' = out + 1 \/ StepsLeft(t)' = 0
    BY <2>1 DEF StepsLeft
  <2>4. QED
    BY <1>1, <2>2, <2>3
<1>9. CASE Fence(t)
  <2>1. pc[t] = "fence" /\ pc'[t] = "returned"
    BY <1>9 DEF Fence, Goto, IInv, TypeOK
  <2>2. StepsLeft(t) = out + 1 /\ StepsLeft(t)' = 0
    BY <2>1 DEF StepsLeft
  <2>3. QED
    BY <1>1, <2>2
<1>10. CASE Drain(t)
  <2>1. PICK b \in pending[t] : pending' = [pending EXCEPT ![t] = @ \ {b}]
    BY <1>10 DEF Drain
  <2>2. /\ pc'[t] = pc[t] /\ Todo(t)' = Todo(t)
        /\ pending'[t] = pending[t] \ {b}
    BY <1>10, <2>1 DEF Drain, Todo, IInv, TypeOK
  <2>3. out' = out - 1
    BY <2>1, <2>2, Counts, FS_RemoveElement
  <2>4. pc[t] \in {"kernel", "fence"}
    BY <1>3, <2>1 DEF Ordered, IInv, TypeOK
  <2>5. CASE pc[t] = "kernel"
    <3>1. StepsLeft(t) = 2 * todo + out + 2 /\ StepsLeft(t)' = 2 * todo + out' + 2
      BY <2>2, <2>5 DEF StepsLeft
    <3>2. QED
      BY <1>1, <1>2, <2>3, <3>1
  <2>6. CASE pc[t] = "fence"
    <3>1. StepsLeft(t) = out + 1 /\ StepsLeft(t)' = out' + 1
      BY <2>2, <2>6 DEF StepsLeft
    <3>2. QED
      BY <1>1, <1>2, <2>3, <3>1
  <2>7. QED
    BY <2>4, <2>5, <2>6
<1>11. QED
  BY <1>4, <1>5, <1>6, <1>7, <1>8, <1>9, <1>10 DEF Step

(* Dispatch does not lead back to itself, nobody waits for another's       *)
(* resolving, and the fence waits for the thread's own stores only: each   *)
(* call ends within a number of its thread's steps that neither the number *)
(* of threads nor what they do enters.                                     *)
THEOREM CallsAreWaitFree ==
    ASSUME IsFiniteSet(Blocks)
    PROVE  Spec => WaitFree
<1>1. ASSUME IInv, IInv', NEW t \in Threads
      PROVE  /\ Call(t) => StepsLeft(t)' = 2 * Cardinality(Blocks) + 5
             /\ Step(t) \/ Drain(t) =>
                  StepsLeft(t)' \in Nat /\ StepsLeft(t)' < StepsLeft(t)
             /\ \A s \in Threads \ {t} :
                  Call(s) \/ Step(s) \/ Drain(s) => StepsLeft(t)' = StepsLeft(t)
  <2>1. ASSUME Call(t) PROVE StepsLeft(t)' = 2 * Cardinality(Blocks) + 5
    <3>1. pc'[t] = "load"
      BY <1>1, <2>1 DEF Call, Goto, IInv, TypeOK
    <3>2. QED
      BY <3>1 DEF StepsLeft
  <2>2. Step(t) \/ Drain(t) => StepsLeft(t)' \in Nat /\ StepsLeft(t)' < StepsLeft(t)
    BY <1>1, OwnStep
  <2>3. \A s \in Threads \ {t} :
          Call(s) \/ Step(s) \/ Drain(s) => StepsLeft(t)' = StepsLeft(t)
    BY <1>1, OthersStep
  <2>4. QED
    BY <2>1, <2>2, <2>3
<1>2. IInv /\ IInv' =>
        [\A t \in Threads :
           /\ Call(t) => StepsLeft(t)' = 2 * Cardinality(Blocks) + 5
           /\ Step(t) \/ Drain(t) =>
                StepsLeft(t)' \in Nat /\ StepsLeft(t)' < StepsLeft(t)
           /\ \A s \in Threads \ {t} :
                Call(s) \/ Step(s) \/ Drain(s) => StepsLeft(t)' = StepsLeft(t)]_vars
  BY <1>1
<1>3. QED
  BY <1>2, Invariant, PTL DEF WaitFree

-----------------------------------------------------------------------------
(* The alphabet and its tables.                                            *)

(* The encoding table, range by range.                                     *)
LEMMA EncodingAt ==
    ASSUME NEW v \in 0..63
    PROVE  /\ v < 26 => encoding[v] = 65 + v
           /\ v \in 26..51 => encoding[v] = 71 + v
           /\ v \in 52..61 => encoding[v] = v - 4
           /\ v = 62 => encoding[v] = 43
           /\ v = 63 => encoding[v] = 47
BY DEF encoding

(* The decoding table, range by range.                                     *)
LEMMA DecodingAt ==
    ASSUME NEW c \in Octet
    PROVE  /\ c \in 65..90  => decoding[c] = c - 65
           /\ c \in 97..122 => decoding[c] = c - 71
           /\ c \in 48..57  => decoding[c] = c + 4
           /\ c = 43 => decoding[c] = 62
           /\ c = 47 => decoding[c] = 63
           /\ \/ decoding[c] < 0
              \/ c \in 65..90 \/ c \in 97..122 \/ c \in 48..57 \/ c = 43 \/ c = 47
<1>1. decoding[c] = CASE c \in 65..90  -> c - 65
                      [] c \in 97..122 -> 26 + (c - 97)
                      [] c \in 48..57  -> 52 + (c - 48)
                      [] c = 43 -> 62
                      [] c = 47 -> 63
                      [] c = 61 -> -2
                      [] OTHER  -> -1
  BY DEF decoding
<1>2. c \in 0..255
  BY DEF Octet
<1>3. QED
  BY <1>1, <1>2

(* Every 6-bit value has a character, which decodes to it.                 *)
LEMMA EncodingType ==
    ASSUME NEW v \in 0..63
    PROVE  encoding[v] \in Octet /\ decoding[encoding[v]] = v
<1>1. encoding[v] \in Octet
  BY EncodingAt DEF Octet
<1>2. decoding[encoding[v]] = v
  BY <1>1, EncodingAt, DecodingAt
<1>3. QED
  BY <1>1, <1>2

(* A character that has a value is the value's character.                  *)
LEMMA DecodingType ==
    ASSUME NEW c \in Octet, decoding[c] >= 0
    PROVE  decoding[c] \in 0..63 /\ encoding[decoding[c]] = c
<1>1. c \in 65..90 \/ c \in 97..122 \/ c \in 48..57 \/ c = 43 \/ c = 47
  <2>1. ~(decoding[c] < 0)
    <3>1. decoding[c] \in Int
      BY DEF decoding, Octet
    <3>2. QED
      BY <3>1
  <2>2. QED
    BY <2>1, DecodingAt
<1>2. decoding[c] \in 0..63
  BY <1>1, DecodingAt
<1>3. encoding[decoding[c]] = c
  BY <1>1, <1>2, DecodingAt, EncodingAt
<1>4. QED
  BY <1>2, <1>3

(* A character is in the alphabet if and only if it has a value.           *)
LEMMA InAlphabet ==
    ASSUME NEW c \in Octet
    PROVE  (\E v \in 0..63 : c = encoding[v]) <=> decoding[c] >= 0
<1>1. ASSUME NEW v \in 0..63, c = encoding[v] PROVE decoding[c] >= 0
  BY <1>1, EncodingType
<1>2. ASSUME decoding[c] >= 0 PROVE \E v \in 0..63 : c = encoding[v]
  BY <1>2, DecodingType
<1>3. QED
  BY <1>1, <1>2

-----------------------------------------------------------------------------
(* C's & and |.                                                            *)

(* The bits of the low octet of a word are the word's.                     *)
LEMMA LowBits ==
    ASSUME NEW z \in Nat
    PROVE  /\ Bit(z, 0) = Bit(z % 2^8, 0)
           /\ Bit(z, 1) = Bit(z % 2^8, 1)
           /\ Bit(z, 2) = Bit(z % 2^8, 2)
           /\ Bit(z, 3) = Bit(z % 2^8, 3)
           /\ Bit(z, 4) = Bit(z % 2^8, 4)
           /\ Bit(z, 5) = Bit(z % 2^8, 5)
           /\ Bit(z, 6) = Bit(z % 2^8, 6)
           /\ Bit(z, 7) = Bit(z % 2^8, 7)
BY DEF Bit

(* What is above the low octet does not matter to it.                      *)
LEMMA AndOctetMod ==
    ASSUME NEW x \in Nat, NEW y \in Nat
    PROVE  AndOctet(x, y) = AndOctet(x % 2^8, y % 2^8)
BY LowBits DEF AndOctet

(* An octet under each of the masks.                                       *)
LEMMA Masks ==
    ASSUME NEW x \in Octet
    PROVE  /\ AndOctet(x, 0) = 0
           /\ AndOctet(x, 3) = x % 4
           /\ AndOctet(x, 15) = x % 16
           /\ AndOctet(x, 63) = x % 64
           /\ AndOctet(x, 255) = x
           /\ AndOctet(x, 192) = 64 * (x \div 64)
           /\ AndOctet(x, 240) = 16 * (x \div 16)
           /\ AndOctet(x, 252) = 4 * (x \div 4)
           /\ AndOctet(x, 48) = 16 * ((x \div 16) % 4)
           /\ AndOctet(x, 60) = 4 * ((x \div 4) % 16)
<1>1. AndOctet(x, 0) = 0
  BY DEF Octet, AndOctet, Bit
<1>2. AndOctet(x, 3) = x % 4
  BY DEF Octet, AndOctet, Bit
<1>3. AndOctet(x, 15) = x % 16
  BY DEF Octet, AndOctet, Bit
<1>4. AndOctet(x, 63) = x % 64
  BY DEF Octet, AndOctet, Bit
<1>5. AndOctet(x, 255) = x
  BY DEF Octet, AndOctet, Bit
<1>6. AndOctet(x, 192) = 64 * (x \div 64)
  BY DEF Octet, AndOctet, Bit
<1>7. AndOctet(x, 240) = 16 * (x \div 16)
  BY DEF Octet, AndOctet, Bit
<1>8. AndOctet(x, 252) = 4 * (x \div 4)
  BY DEF Octet, AndOctet, Bit
<1>9. AndOctet(x, 48) = 16 * ((x \div 16) % 4)
  BY DEF Octet, AndOctet, Bit
<1>10. AndOctet(x, 60) = 4 * ((x \div 4) % 16)
  BY DEF Octet, AndOctet, Bit
<1>11. QED
  BY <1>1, <1>2, <1>3, <1>4, <1>5, <1>6, <1>7, <1>8, <1>9, <1>10

(* Octets without a common bit.                                            *)
LEMMA Disjoint ==
    /\ \A x \in Octet : AndOctet(0, x) = 0
    /\ \A a \in 0..63, y \in 0..3 : AndOctet(4 * a, y) = 0
    /\ \A a \in 0..15, y \in 0..15 : AndOctet(16 * a, y) = 0
    /\ \A a \in 0..3, y \in 0..63 : AndOctet(64 * a, y) = 0
<1>1. \A x \in Octet : AndOctet(0, x) = 0
  BY DEF Octet, AndOctet, Bit
<1>2. \A a \in 0..63, y \in 0..3 : AndOctet(4 * a, y) = 0
  BY DEF AndOctet, Bit
<1>3. \A a \in 0..15, y \in 0..15 : AndOctet(16 * a, y) = 0
  BY DEF AndOctet, Bit
<1>4. \A a \in 0..3, y \in 0..63 : AndOctet(64 * a, y) = 0
  BY DEF AndOctet, Bit
<1>5. QED
  BY <1>1, <1>2, <1>3, <1>4

(* The bits that are in both are in the one.                               *)
LEMMA AndOctetBound ==
    ASSUME NEW x \in Nat, NEW y \in Nat
    PROVE  AndOctet(x, y) \in Nat /\ AndOctet(x, y) <= x % 2^8
<1>1. \A z \in Nat, n \in {0, 1, 2, 3, 4, 5, 6, 7} : Bit(z, n) \in {0, 1}
  BY DEF Bit
<1>2. x % 2^8 = Bit(x, 0) + 2 * Bit(x, 1) + 4 * Bit(x, 2) + 8 * Bit(x, 3)
                + 16 * Bit(x, 4) + 32 * Bit(x, 5) + 64 * Bit(x, 6) + 128 * Bit(x, 7)
  <2>1. ASSUME NEW z \in 0..255
        PROVE  z = Bit(z, 0) + 2 * Bit(z, 1) + 4 * Bit(z, 2) + 8 * Bit(z, 3)
                + 16 * Bit(z, 4) + 32 * Bit(z, 5) + 64 * Bit(z, 6) + 128 * Bit(z, 7)
    BY DEF Bit
  <2>2. x % 2^8 \in 0..255
    OBVIOUS
  <2>3. QED
    BY <2>1, <2>2, LowBits
<1> DEFINE P(n) == Bit(x, n) * Bit(y, n)
<1>3. \A n \in {0, 1, 2, 3, 4, 5, 6, 7} : P(n) \in 0..Bit(x, n)
  <2>1. \A p, q \in {0, 1} : p * q \in 0..p
    OBVIOUS
  <2>2. QED
    BY <1>1, <2>1
<1>4. AndOctet(x, y) = 2^0 * P(0) + 2^1 * P(1) + 2^2 * P(2) + 2^3 * P(3)
                       + 2^4 * P(4) + 2^5 * P(5) + 2^6 * P(6) + 2^7 * P(7)
  BY DEF AndOctet
<1>5. AndOctet(x, y) = P(0) + 2 * P(1) + 4 * P(2) + 8 * P(3)
                       + 16 * P(4) + 32 * P(5) + 64 * P(6) + 128 * P(7)
  <2>1. /\ P(0) \in Int /\ P(1) \in Int /\ P(2) \in Int /\ P(3) \in Int
        /\ P(4) \in Int /\ P(5) \in Int /\ P(6) \in Int /\ P(7) \in Int
    BY <1>1
  <2> HIDE DEF P
  <2>2. QED
    BY <1>4, <2>1
<1>6. /\ P(0) \in 0..Bit(x, 0) /\ P(1) \in 0..Bit(x, 1)
      /\ P(2) \in 0..Bit(x, 2) /\ P(3) \in 0..Bit(x, 3)
      /\ P(4) \in 0..Bit(x, 4) /\ P(5) \in 0..Bit(x, 5)
      /\ P(6) \in 0..Bit(x, 6) /\ P(7) \in 0..Bit(x, 7)
  <2> HIDE DEF P
  <2>1. QED
    BY <1>3
<1>7. /\ Bit(x, 0) \in Nat /\ Bit(x, 1) \in Nat /\ Bit(x, 2) \in Nat
      /\ Bit(x, 3) \in Nat /\ Bit(x, 4) \in Nat /\ Bit(x, 5) \in Nat
      /\ Bit(x, 6) \in Nat /\ Bit(x, 7) \in Nat
  BY <1>1
<1> HIDE DEF P
<1>8. QED
  BY <1>2, <1>5, <1>6, <1>7

(* The four octets of a word.                                              *)
LEMMA AndWord ==
    ASSUME NEW x \in Nat, NEW y \in Nat
    PROVE  x & y = AndOctet(x % 2^8, y % 2^8)
                   + 2^8 * AndOctet((x \div 2^8) % 2^8, (y \div 2^8) % 2^8)
                   + 2^16 * AndOctet((x \div 2^16) % 2^8, (y \div 2^16) % 2^8)
                   + 2^24 * AndOctet((x \div 2^24) % 2^8, (y \div 2^24) % 2^8)
<1>1. /\ x \div 2^8 \in Nat /\ x \div 2^16 \in Nat /\ x \div 2^24 \in Nat
      /\ y \div 2^8 \in Nat /\ y \div 2^16 \in Nat /\ y \div 2^24 \in Nat
  OBVIOUS
<1>2. QED
  BY <1>1, AndOctetMod DEF &

(* Words of two octets.                                                    *)
LEMMA AndHigh ==
    ASSUME NEW x \in Nat, x < 2^16, NEW y \in Nat, y < 2^16
    PROVE  x & y = AndOctet(x % 2^8, y % 2^8) + 2^8 * AndOctet(x \div 2^8, y \div 2^8)
<1>1. /\ x \div 2^16 = 0 /\ x \div 2^24 = 0 /\ y \div 2^16 = 0 /\ y \div 2^24 = 0
      /\ (x \div 2^8) % 2^8 = x \div 2^8 /\ (y \div 2^8) % 2^8 = y \div 2^8
      /\ 0 % 2^8 = 0
  OBVIOUS
<1>2. AndOctet(0, 0) = 0
  BY DEF AndOctet, Bit
<1>3. x & y = AndOctet(x % 2^8, y % 2^8) + 2^8 * AndOctet(x \div 2^8, y \div 2^8)
              + 2^16 * 0 + 2^24 * 0
  <2>1. x \in Nat /\ y \in Nat
    OBVIOUS
  <2>2. x & y = AndOctet(x % 2^8, y % 2^8)
                + 2^8 * AndOctet((x \div 2^8) % 2^8, (y \div 2^8) % 2^8)
                + 2^16 * AndOctet((x \div 2^16) % 2^8, (y \div 2^16) % 2^8)
                + 2^24 * AndOctet((x \div 2^24) % 2^8, (y \div 2^24) % 2^8)
    BY <2>1, AndWord
  <2>3. QED
    BY <1>1, <1>2, <2>2
<1>4. /\ AndOctet(x % 2^8, y % 2^8) \in Int
      /\ AndOctet(x \div 2^8, y \div 2^8) \in Int
  BY AndOctetBound
<1>5. QED
  BY <1>3, <1>4

(* A word has the bits it shares with another and maybe more.              *)
LEMMA AndBound ==
    ASSUME NEW x \in Nat, NEW y \in Nat
    PROVE  x & y \in Nat /\ x & y <= x /\ x & y <= y
<1> DEFINE A == AndOctet(x % 2^8, y % 2^8)
           B == AndOctet((x \div 2^8) % 2^8, (y \div 2^8) % 2^8)
           C == AndOctet((x \div 2^16) % 2^8, (y \div 2^16) % 2^8)
           D == AndOctet((x \div 2^24) % 2^8, (y \div 2^24) % 2^8)
<1>1. \A p, q \in 0..255 : /\ AndOctet(p, q) \in Nat
                           /\ AndOctet(p, q) <= p /\ AndOctet(p, q) <= q
  <2>1. ASSUME NEW p \in 0..255, NEW q \in 0..255
        PROVE  /\ AndOctet(p, q) \in Nat
               /\ AndOctet(p, q) <= p /\ AndOctet(p, q) <= q
    <3>1. p % 2^8 = p /\ q % 2^8 = q
      OBVIOUS
    <3>2. AndOctet(p, q) = AndOctet(q, p)
      BY DEF AndOctet, Bit
    <3>3. p \in Nat /\ q \in Nat
      OBVIOUS
    <3>4. AndOctet(p, q) \in Nat /\ AndOctet(p, q) <= p % 2^8
      BY <3>3, AndOctetBound
    <3>5. AndOctet(q, p) <= q % 2^8
      BY <3>3, AndOctetBound
    <3>6. QED
      BY <3>1, <3>2, <3>4, <3>5
  <2>2. QED
    BY <2>1
<1>2. /\ x % 2^8 \in 0..255 /\ (x \div 2^8) % 2^8 \in 0..255
      /\ (x \div 2^16) % 2^8 \in 0..255 /\ (x \div 2^24) % 2^8 \in 0..255
      /\ y % 2^8 \in 0..255 /\ (y \div 2^8) % 2^8 \in 0..255
      /\ (y \div 2^16) % 2^8 \in 0..255 /\ (y \div 2^24) % 2^8 \in 0..255
  OBVIOUS
<1>3. /\ A \in Nat /\ A <= x % 2^8 /\ A <= y % 2^8
      /\ B \in Nat /\ B <= (x \div 2^8) % 2^8 /\ B <= (y \div 2^8) % 2^8
      /\ C \in Nat /\ C <= (x \div 2^16) % 2^8 /\ C <= (y \div 2^16) % 2^8
      /\ D \in Nat /\ D <= (x \div 2^24) % 2^8 /\ D <= (y \div 2^24) % 2^8
  <2>1. A \in Nat /\ A <= x % 2^8 /\ A <= y % 2^8
    BY <1>1, <1>2, Zenon
  <2>2. B \in Nat /\ B <= (x \div 2^8) % 2^8 /\ B <= (y \div 2^8) % 2^8
    BY <1>1, <1>2, Zenon
  <2>3. C \in Nat /\ C <= (x \div 2^16) % 2^8 /\ C <= (y \div 2^16) % 2^8
    BY <1>1, <1>2, Zenon
  <2>4. D \in Nat /\ D <= (x \div 2^24) % 2^8 /\ D <= (y \div 2^24) % 2^8
    BY <1>1, <1>2, Zenon
  <2>5. QED
    BY <2>1, <2>2, <2>3, <2>4
<1>4. x & y = A + 2^8 * B + 2^16 * C + 2^24 * D
  BY AndWord
<1> HIDE DEF A, B, C, D
<1>5. /\ (x % 2^8) + 2^8 * ((x \div 2^8) % 2^8) + 2^16 * ((x \div 2^16) % 2^8)
         + 2^24 * ((x \div 2^24) % 2^8) <= x
      /\ (y % 2^8) + 2^8 * ((y \div 2^8) % 2^8) + 2^16 * ((y \div 2^16) % 2^8)
         + 2^24 * ((y \div 2^24) % 2^8) <= y
  OBVIOUS
<1>6. QED
  BY <1>3, <1>4, <1>5

(* Two octets.                                                             *)
LEMMA AndLow ==
    ASSUME NEW x \in Octet, NEW y \in Octet
    PROVE  x & y = AndOctet(x, y)
<1>1. /\ x \in Nat /\ x < 2^16 /\ x % 2^8 = x /\ x \div 2^8 = 0
      /\ y \in Nat /\ y < 2^16 /\ y % 2^8 = y /\ y \div 2^8 = 0
  BY DEF Octet
<1>2. AndOctet(0, 0) = 0
  BY DEF AndOctet, Bit
<1>3. AndOctet(x, y) \in Int
  <2>1. x \in Nat /\ y \in Nat
    BY DEF Octet
  <2>2. QED
    BY <2>1, AndOctetBound
<1>4. x & y = AndOctet(x % 2^8, y % 2^8) + 2^8 * AndOctet(x \div 2^8, y \div 2^8)
  BY <1>1, AndHigh
<1>5. x & y = AndOctet(x, y) + 2^8 * 0
  BY <1>1, <1>2, <1>4
<1>6. QED
  BY <1>3, <1>5

(* | of octets without a common bit adds them.                             *)
LEMMA OrLow ==
    ASSUME NEW x \in Octet, NEW y \in Octet, AndOctet(x, y) = 0
    PROVE  x | y = x + y
<1>1. x & y = 0
  BY AndLow
<1>2. x \in Int /\ y \in Int
  BY DEF Octet
<1>3. QED
  BY <1>1, <1>2 DEF |

(* Fields next to each other in an octet.                                  *)
LEMMA OrFields ==
    /\ \A a \in 0..63, y \in 0..3 : (4 * a) | y = 4 * a + y
    /\ \A a \in 0..15, y \in 0..15 : (16 * a) | y = 16 * a + y
    /\ \A a \in 0..3, y \in 0..63 : (64 * a) | y = 64 * a + y
<1>1. ASSUME NEW a \in 0..63, NEW y \in 0..3 PROVE (4 * a) | y = 4 * a + y
  <2>1. 4 * a \in Octet /\ y \in Octet
    BY DEF Octet
  <2>2. QED
    BY <2>1, OrLow, Disjoint
<1>2. ASSUME NEW a \in 0..15, NEW y \in 0..15 PROVE (16 * a) | y = 16 * a + y
  <2>1. 16 * a \in Octet /\ y \in Octet
    BY DEF Octet
  <2>2. QED
    BY <2>1, OrLow, Disjoint
<1>3. ASSUME NEW a \in 0..3, NEW y \in 0..63 PROVE (64 * a) | y = 64 * a + y
  <2>1. 64 * a \in Octet /\ y \in Octet
    BY DEF Octet
  <2>2. QED
    BY <2>1, OrLow, Disjoint
<1>4. QED
  BY <1>1, <1>2, <1>3

(* | of words without a common bit adds them.                              *)
LEMMA OrWord ==
    ASSUME NEW x \in Nat, NEW y \in Nat,
           AndOctet(x % 2^8, y % 2^8) = 0,
           AndOctet((x \div 2^8) % 2^8, (y \div 2^8) % 2^8) = 0,
           AndOctet((x \div 2^16) % 2^8, (y \div 2^16) % 2^8) = 0,
           AndOctet((x \div 2^24) % 2^8, (y \div 2^24) % 2^8) = 0
    PROVE  x | y = x + y
<1>1. x & y = 0 + 2^8 * 0 + 2^16 * 0 + 2^24 * 0
  BY AndWord
<1>2. QED
  BY <1>1 DEF |

(* A word has all the bits of what is ORed to it.                          *)
LEMMA OrBound ==
    ASSUME NEW x \in Nat, NEW y \in Nat
    PROVE  x | y \in Nat /\ x | y >= x /\ x | y >= y
<1>1. x & y \in Nat /\ x & y <= x /\ x & y <= y
  BY AndBound
<1>2. x | y = x + y - (x & y)
  BY DEF |
<1>3. QED
  BY <1>1, <1>2

(* Fields next to each other in a word: 6 bits below 18, 12 and 6 others,  *)
(* and an octet below another.                                             *)
LEMMA OrBelow6 ==
    ASSUME NEW a \in Nat, a < 2^18, NEW d \in 0..63
    PROVE  (64 * a) | d = 64 * a + d
<1>1. (64 * a) % 2^8 = 64 * (a % 4) /\ a % 4 \in 0..3
  BY SMT
<1>2. /\ ((64 * a) \div 2^8) % 2^8 \in Octet
      /\ ((64 * a) \div 2^16) % 2^8 \in Octet
      /\ ((64 * a) \div 2^24) % 2^8 \in Octet
  BY SMT DEF Octet
<1>3. /\ d % 2^8 = d /\ (d \div 2^8) % 2^8 = 0
      /\ (d \div 2^16) % 2^8 = 0 /\ (d \div 2^24) % 2^8 = 0
  BY SMT
<1>4. AndOctet((64 * a) % 2^8, d % 2^8) = 0
  BY <1>1, <1>3, Disjoint
<1>5. /\ AndOctet(((64 * a) \div 2^8) % 2^8, (d \div 2^8) % 2^8) = 0
      /\ AndOctet(((64 * a) \div 2^16) % 2^8, (d \div 2^16) % 2^8) = 0
      /\ AndOctet(((64 * a) \div 2^24) % 2^8, (d \div 2^24) % 2^8) = 0
  BY <1>2, <1>3, Masks
<1>6. 64 * a \in Nat /\ d \in Nat
  BY SMT
<1>7. QED
  BY <1>4, <1>5, <1>6, OrWord

(* Six bits in the second place.                                           *)
LEMMA OrBelow12 ==
    ASSUME NEW a \in Nat, a < 2^12, NEW c \in 0..63
    PROVE  (4096 * a) | (64 * c) = 4096 * a + 64 * c
<1>1. (4096 * a) % 2^8 = 0 /\ (64 * c) % 2^8 \in Octet
  BY DEF Octet
<1>2. ((4096 * a) \div 2^8) % 2^8 = 16 * (a % 16) /\ a % 16 \in 0..15
  OBVIOUS
<1>3. ((64 * c) \div 2^8) % 2^8 \in 0..15
  OBVIOUS
<1>4. /\ ((4096 * a) \div 2^16) % 2^8 \in Octet
      /\ ((4096 * a) \div 2^24) % 2^8 \in Octet
  BY DEF Octet
<1>5. ((64 * c) \div 2^16) % 2^8 = 0 /\ ((64 * c) \div 2^24) % 2^8 = 0
  OBVIOUS
<1>6. AndOctet((4096 * a) % 2^8, (64 * c) % 2^8) = 0
  BY <1>1, Disjoint
<1>7. AndOctet(((4096 * a) \div 2^8) % 2^8, ((64 * c) \div 2^8) % 2^8) = 0
  BY <1>2, <1>3, Disjoint
<1>8. /\ AndOctet(((4096 * a) \div 2^16) % 2^8, ((64 * c) \div 2^16) % 2^8) = 0
      /\ AndOctet(((4096 * a) \div 2^24) % 2^8, ((64 * c) \div 2^24) % 2^8) = 0
  BY <1>4, <1>5, Masks
<1>9. 4096 * a \in Nat /\ 64 * c \in Nat
  OBVIOUS
<1>10. QED
  BY <1>6, <1>7, <1>8, <1>9, OrWord

(* Six bits in the third place.                                            *)
LEMMA OrBelow18 ==
    ASSUME NEW a \in 0..63, NEW b \in 0..63
    PROVE  (2^18 * a) | (4096 * b) = 2^18 * a + 4096 * b
<1>1. /\ (2^18 * a) % 2^8 = 0 /\ ((2^18 * a) \div 2^8) % 2^8 = 0
      /\ (4096 * b) % 2^8 \in Octet /\ ((4096 * b) \div 2^8) % 2^8 \in Octet
  BY DEF Octet
<1>2. ((2^18 * a) \div 2^16) % 2^8 = 4 * a
  OBVIOUS
<1>3. ((4096 * b) \div 2^16) % 2^8 \in 0..3
  OBVIOUS
<1>4. ((2^18 * a) \div 2^24) % 2^8 \in Octet /\ ((4096 * b) \div 2^24) % 2^8 = 0
  BY DEF Octet
<1>5. /\ AndOctet((2^18 * a) % 2^8, (4096 * b) % 2^8) = 0
      /\ AndOctet(((2^18 * a) \div 2^8) % 2^8, ((4096 * b) \div 2^8) % 2^8) = 0
  BY <1>1, Disjoint
<1>6. AndOctet(((2^18 * a) \div 2^16) % 2^8, ((4096 * b) \div 2^16) % 2^8) = 0
  BY <1>2, <1>3, Disjoint
<1>7. AndOctet(((2^18 * a) \div 2^24) % 2^8, ((4096 * b) \div 2^24) % 2^8) = 0
  BY <1>4, Masks
<1>8. 2^18 * a \in Nat /\ 4096 * b \in Nat
  OBVIOUS
<1>9. QED
  BY <1>5, <1>6, <1>7, <1>8, OrWord

-----------------------------------------------------------------------------
(* Encoding.                                                               *)

(* The four fields of a group, from its bytes.                             *)
LEMMA Fields ==
    ASSUME NEW b \in Octet \X Octet \X Octet
    PROVE  /\ Field(b, 1) = b[1] \div 4
           /\ Field(b, 2) = 16 * (b[1] % 4) + (b[2] \div 16)
           /\ Field(b, 3) = 4 * (b[2] % 16) + (b[3] \div 64)
           /\ Field(b, 4) = b[3] % 64
           /\ \A j \in 1..4 : Field(b, j) \in 0..63
<1>1. b[1] \in 0..255 /\ b[2] \in 0..255 /\ b[3] \in 0..255
  BY DEF Octet
<1>2. Group(b) = 65536 * b[1] + 256 * b[2] + b[3]
  BY <1>1 DEF Group
<1>3. /\ Field(b, 1) = (Group(b) \div 262144) % 64
      /\ Field(b, 2) = (Group(b) \div 4096) % 64
      /\ Field(b, 3) = (Group(b) \div 64) % 64
      /\ Field(b, 4) = (Group(b) \div 1) % 64
  BY DEF Field
<1> DEFINE p == b[1] \div 4
           q == b[1] % 4
           r == b[2] \div 16
           s == b[2] % 16
           u == b[3] \div 64
           v == b[3] % 64
<1>4. /\ p \in 0..63 /\ q \in 0..3 /\ r \in 0..15
      /\ s \in 0..15 /\ u \in 0..3 /\ v \in 0..63
  BY <1>1
<1>5. b[1] = 4 * p + q /\ b[2] = 16 * r + s /\ b[3] = 64 * u + v
  BY <1>1
<1> HIDE DEF p, q, r, s, u, v
<1>6. Group(b) = 262144 * p + 4096 * (16 * q + r) + 64 * (4 * s + u) + v
  BY <1>2, <1>4, <1>5
<1>7. /\ Group(b) \div 262144 = p
      /\ Group(b) \div 4096 = 64 * p + 16 * q + r
      /\ Group(b) \div 64 = 64 * (64 * p + 16 * q + r) + 4 * s + u
      /\ Group(b) \div 1 = 64 * (64 * (64 * p + 16 * q + r) + 4 * s + u) + v
  <2>1. Group(b) \div 262144 = p
    BY <1>4, <1>6
  <2>2. Group(b) \div 4096 = 64 * p + 16 * q + r
    <3> DEFINE x == 64 * p + 16 * q + r
               z == 64 * (4 * s + u) + v
    <3>1. x \in Int /\ z \in Nat /\ z < 4096 /\ Group(b) = 4096 * x + z
      BY <1>4, <1>6
    <3> HIDE DEF x, z
    <3>2. Group(b) \div 4096 = x
      BY ONLY <3>1
    <3>3. QED
      BY <3>2 DEF x
  <2>3. Group(b) \div 64 = 64 * (64 * p + 16 * q + r) + 4 * s + u
    <3>1. \A x \in Int, z \in 0..63 : (64 * x + z) \div 64 = x
      OBVIOUS
    <3>2. /\ Group(b) = 64 * (64 * (64 * p + 16 * q + r) + 4 * s + u) + v
          /\ 64 * (64 * p + 16 * q + r) + 4 * s + u \in Int /\ v \in 0..63
      BY <1>4, <1>6
    <3>3. QED
      BY ONLY <3>1, <3>2
  <2>4. Group(b) \div 1 = 64 * (64 * (64 * p + 16 * q + r) + 4 * s + u) + v
    <3>1. \A x \in Int : x \div 1 = x
      OBVIOUS
    <3>2. /\ Group(b) = 64 * (64 * (64 * p + 16 * q + r) + 4 * s + u) + v
          /\ 64 * (64 * (64 * p + 16 * q + r) + 4 * s + u) + v \in Int
      BY <1>4, <1>6
    <3>3. QED
      BY ONLY <3>1, <3>2
  <2>5. QED
    BY <2>1, <2>2, <2>3, <2>4
<1>8. \A x \in Int, z \in 0..63 : (64 * x + z) % 64 = z
  OBVIOUS
<1>9. Field(b, 1) = p
  BY <1>3, <1>4, <1>7
<1>10. Field(b, 2) = 16 * q + r
  <2>1. 16 * q + r \in 0..63 /\ Group(b) \div 4096 = 64 * p + (16 * q + r)
    BY <1>4, <1>7
  <2>2. QED
    BY <1>3, <1>4, <1>8, <2>1
<1>11. Field(b, 3) = 4 * s + u
  <2>1. /\ 4 * s + u \in 0..63 /\ 64 * p + 16 * q + r \in Int
        /\ Group(b) \div 64 = 64 * (64 * p + 16 * q + r) + (4 * s + u)
    BY <1>4, <1>7
  <2>2. QED
    BY <1>3, <1>8, <2>1
<1>12. Field(b, 4) = v
  <2>1. 64 * (64 * p + 16 * q + r) + 4 * s + u \in Int
    BY <1>4
  <2>2. QED
    BY <1>3, <1>4, <1>7, <1>8, <2>1
<1>13. \A j \in 1..4 : Field(b, j) \in 0..63
  BY <1>4, <1>9, <1>10, <1>11, <1>12
<1>14. QED
  BY <1>9, <1>10, <1>11, <1>12, <1>13 DEF p, q, r, s, u, v

(* The coroutine's masks and shifts.                                       *)
LEMMA ScalarSplits ==
    ASSUME NEW b \in Octet \X Octet \X Octet
    PROVE  SplitScalar(b) = << Field(b, 1), Field(b, 2), Field(b, 3), Field(b, 4) >>
<1>1. b[1] \in Octet /\ b[2] \in Octet /\ b[3] \in Octet
  OBVIOUS
<1>2. 252 \in Octet /\ 3 \in Octet /\ 240 \in Octet /\ 15 \in Octet
      /\ 192 \in Octet /\ 63 \in Octet
  BY DEF Octet
<1>3. /\ b[1] & 252 = 4 * (b[1] \div 4) /\ b[1] & 3 = b[1] % 4
      /\ b[2] & 240 = 16 * (b[2] \div 16) /\ b[2] & 15 = b[2] % 16
      /\ b[3] & 192 = 64 * (b[3] \div 64) /\ b[3] & 63 = b[3] % 64
  BY <1>1, <1>2, AndLow, Masks
<1>4. /\ (4 * (b[1] \div 4)) \div 4 = b[1] \div 4
      /\ (16 * (b[2] \div 16)) \div 16 = b[2] \div 16
      /\ (64 * (b[3] \div 64)) \div 64 = b[3] \div 64
      /\ (b[1] % 4) * 16 = 16 * (b[1] % 4) /\ (b[2] % 16) * 4 = 4 * (b[2] % 16)
      /\ b[1] % 4 \in 0..15 /\ b[2] \div 16 \in 0..15
      /\ b[2] % 16 \in 0..63 /\ b[3] \div 64 \in 0..3
  BY <1>1 DEF Octet
<1>5. /\ (16 * (b[1] % 4)) | (b[2] \div 16) = 16 * (b[1] % 4) + (b[2] \div 16)
      /\ (4 * (b[2] % 16)) | (b[3] \div 64) = 4 * (b[2] % 16) + (b[3] \div 64)
  BY <1>4, OrFields
<1>6. QED
  BY <1>3, <1>4, <1>5, Fields DEF SplitScalar

(* The NEON kernels' shifts, of which one drops the bits it moves out of   *)
(* the byte.                                                               *)
LEMMA NEONSplits ==
    ASSUME NEW b \in Octet \X Octet \X Octet
    PROVE  SplitNEON(b) = << Field(b, 1), Field(b, 2), Field(b, 3), Field(b, 4) >>
<1>1. b[1] \in Octet /\ b[2] \in Octet /\ b[3] \in Octet
  OBVIOUS
<1>2. 3 \in Octet /\ 15 \in Octet /\ 63 \in Octet
  BY DEF Octet
<1>3. b[1] & 3 = b[1] % 4 /\ b[2] & 15 = b[2] % 16 /\ b[3] & 63 = b[3] % 64
  BY <1>1, <1>2, AndLow, Masks
<1>4. /\ ((b[1] % 4) * 16) % 256 = 16 * (b[1] % 4)
      /\ ((b[2] % 16) * 4) % 256 = 4 * (b[2] % 16)
      /\ b[1] % 4 \in 0..15 /\ b[2] \div 16 \in 0..15
      /\ b[2] % 16 \in 0..63 /\ b[3] \div 64 \in 0..3
  BY <1>1 DEF Octet
<1>5. /\ (16 * (b[1] % 4)) | (b[2] \div 16) = 16 * (b[1] % 4) + (b[2] \div 16)
      /\ (4 * (b[2] % 16)) | (b[3] \div 64) = 4 * (b[2] % 16) + (b[3] \div 64)
  BY <1>4, OrFields
<1>6. QED
  BY <1>3, <1>4, <1>5, Fields DEF SplitNEON

(* The shuffles bring each lane of the SSE4.1 and AVX2 kernels its own     *)
(* three bytes, the middle one twice.                                      *)
LEMMA Shuffles ==
    ASSUME lane \in 0..7
    PROVE  /\ Shuffled(4 * lane) = bytes[2] /\ Shuffled(4 * lane + 1) = bytes[1]
           /\ Shuffled(4 * lane + 2) = bytes[3] /\ Shuffled(4 * lane + 3) = bytes[2]
<1>1. CASE lane = 0
  BY <1>1 DEF Shuffled, Permuted, Source, Perm, Shuf
<1>2. CASE lane = 1
  BY <1>2 DEF Shuffled, Permuted, Source, Perm, Shuf
<1>3. CASE lane = 2
  BY <1>3 DEF Shuffled, Permuted, Source, Perm, Shuf
<1>4. CASE lane = 3
  BY <1>4 DEF Shuffled, Permuted, Source, Perm, Shuf
<1>5. CASE lane = 4
  BY <1>5 DEF Shuffled, Permuted, Source, Perm, Shuf
<1>6. CASE lane = 5
  BY <1>6 DEF Shuffled, Permuted, Source, Perm, Shuf
<1>7. CASE lane = 6
  BY <1>7 DEF Shuffled, Permuted, Source, Perm, Shuf
<1>8. CASE lane = 7
  BY <1>8 DEF Shuffled, Permuted, Source, Perm, Shuf
<1>9. QED
  BY <1>1, <1>2, <1>3, <1>4, <1>5, <1>6, <1>7, <1>8

(* The masks and multiplications of the SSE4.1 and AVX2 kernels.           *)
LEMMA SSESplits ==
    ASSUME lane \in 0..7, bytes \in Octet \X Octet \X Octet
    PROVE  SplitSSE = << Field(bytes, 1), Field(bytes, 2),
                         Field(bytes, 3), Field(bytes, 4) >>
<1> DEFINE b1 == bytes[1]
           b2 == bytes[2]
           b3 == bytes[3]
           low == Word(b2, b1)
           high == Word(b3, b2)
<1>1. b1 \in 0..255 /\ b2 \in 0..255 /\ b3 \in 0..255
  BY DEF Octet
<1>2. /\ Shuffled(4 * lane) = b2 /\ Shuffled(4 * lane + 1) = b1
      /\ Shuffled(4 * lane + 2) = b3 /\ Shuffled(4 * lane + 3) = b2
  BY Shuffles
<1>3. SplitSSE = LET w1 == MulHi(low & 64512, 64)   | MulLo(low & 1008, 16)
                     w2 == MulHi(high & 4032, 1024) | MulLo(high & 63, 256)
                 IN  << w1 % 256, w1 \div 256, w2 % 256, w2 \div 256 >>
  BY <1>2 DEF SplitSSE
<1>4. /\ Field(bytes, 1) = b1 \div 4
      /\ Field(bytes, 2) = 16 * (b1 % 4) + (b2 \div 16)
      /\ Field(bytes, 3) = 4 * (b2 % 16) + (b3 \div 64)
      /\ Field(bytes, 4) = b3 % 64
  BY Fields
<1>5. /\ low \in Nat /\ low < 2^16 /\ low % 2^8 = b2 /\ low \div 2^8 = b1
      /\ high \in Nat /\ high < 2^16 /\ high % 2^8 = b3 /\ high \div 2^8 = b2
  <2>1. low = b2 + 256 * b1 /\ high = b3 + 256 * b2
    BY DEF Word
  <2> HIDE DEF b1, b2, b3, low, high
  <2>2. QED
    BY SMT, <1>1, <2>1
<1> HIDE DEF b1, b2, b3, low, high
<1>6. /\ AndOctet(b2, 0) = 0 /\ AndOctet(b1, 252) = 4 * (b1 \div 4)
      /\ AndOctet(b2, 240) = 16 * (b2 \div 16) /\ AndOctet(b1, 3) = b1 % 4
      /\ AndOctet(b3, 192) = 64 * (b3 \div 64) /\ AndOctet(b2, 15) = b2 % 16
      /\ AndOctet(b3, 63) = b3 % 64
  <2>1. b1 \in Octet /\ b2 \in Octet /\ b3 \in Octet
    BY <1>1 DEF Octet
  <2>2. QED
    BY <2>1, Masks
<1>7. ASSUME NEW m \in Nat, m < 2^16, NEW l, NEW h, m % 2^8 = l, m \div 2^8 = h
      PROVE  /\ low & m = AndOctet(b2, l) + 2^8 * AndOctet(b1, h)
             /\ high & m = AndOctet(b3, l) + 2^8 * AndOctet(b2, h)
  BY <1>5, <1>7, AndHigh
<1>8. /\ low & 64512 = 2^8 * (4 * (b1 \div 4))
      /\ low & 1008 = 16 * (b2 \div 16) + 2^8 * (b1 % 4)
      /\ high & 4032 = 64 * (b3 \div 64) + 2^8 * (b2 % 16)
      /\ high & 63 = b3 % 64
  <2>1. 64512 \in Nat /\ 64512 < 2^16 /\ 64512 % 2^8 = 0 /\ 64512 \div 2^8 = 252
    BY SMT
  <2>2. low & 64512 = AndOctet(b2, 0) + 2^8 * AndOctet(b1, 252)
    BY SMT, <1>7, <2>1
  <2>3. 1008 \in Nat /\ 1008 < 2^16 /\ 1008 % 2^8 = 240 /\ 1008 \div 2^8 = 3
    BY SMT
  <2>4. low & 1008 = AndOctet(b2, 240) + 2^8 * AndOctet(b1, 3)
    BY SMT, <1>7, <2>3
  <2>5. 4032 \in Nat /\ 4032 < 2^16 /\ 4032 % 2^8 = 192 /\ 4032 \div 2^8 = 15
    BY SMT
  <2>6. high & 4032 = AndOctet(b3, 192) + 2^8 * AndOctet(b2, 15)
    BY SMT, <1>7, <2>5
  <2>7. 63 \in Nat /\ 63 < 2^16 /\ 63 % 2^8 = 63 /\ 63 \div 2^8 = 0
    BY SMT
  <2>8. high & 63 = AndOctet(b3, 63) + 2^8 * AndOctet(b2, 0)
    BY SMT, <1>7, <2>7
  <2>9. QED
    BY SMT, <1>1, <1>6, <2>2, <2>4, <2>6, <2>8
<1> DEFINE f1 == b1 \div 4
           f2 == 16 * (b1 % 4) + (b2 \div 16)
           f3 == 4 * (b2 % 16) + (b3 \div 64)
           f4 == b3 % 64
<1>9. f1 \in 0..63 /\ f2 \in 0..63 /\ f3 \in 0..63 /\ f4 \in 0..63
  BY <1>1
<1>10. /\ MulHi(low & 64512, 64) = f1 /\ MulLo(low & 1008, 16) = 256 * f2
       /\ MulHi(high & 4032, 1024) = f3 /\ MulLo(high & 63, 256) = 256 * f4
  <2>1. MulHi(low & 64512, 64) = f1
    BY SMT, <1>1, <1>8 DEF MulHi
  <2>2. MulLo(low & 1008, 16) = 256 * f2
    BY SMT, <1>1, <1>8 DEF MulLo
  <2>3. MulHi(high & 4032, 1024) = f3
    BY SMT, <1>1, <1>8 DEF MulHi
  <2>4. MulLo(high & 63, 256) = 256 * f4
    BY SMT, <1>1, <1>8 DEF MulLo
  <2>5. QED
    BY <2>1, <2>2, <2>3, <2>4
<1> HIDE DEF f1, f2, f3, f4
<1>11. \A x, y \in 0..63 : x | (256 * y) = x + 256 * y
  <2>1. ASSUME NEW x \in 0..63, NEW y \in 0..63 PROVE x | (256 * y) = x + 256 * y
    <3>1. /\ x \in Nat /\ x < 2^16 /\ x % 2^8 = x /\ x \div 2^8 = 0
          /\ 256 * y \in Nat /\ 256 * y < 2^16 /\ (256 * y) % 2^8 = 0 /\ (256 * y) \div 2^8 = y
          /\ x \in Octet /\ y \in Octet
      BY DEF Octet
    <3>2. x & (256 * y) = AndOctet(x, 0) + 2^8 * AndOctet(0, y)
      BY <3>1, AndHigh
    <3>3. x & (256 * y) = 0
      BY <3>1, <3>2, Masks, Disjoint
    <3>4. QED
      BY <3>3 DEF |
  <2>2. QED
    BY <2>1
<1>12. SplitSSE = << (f1 + 256 * f2) % 256, (f1 + 256 * f2) \div 256,
                     (f3 + 256 * f4) % 256, (f3 + 256 * f4) \div 256 >>
  <2>1. f1 | (256 * f2) = f1 + 256 * f2
    BY SMT, <1>9, <1>11
  <2>2. f3 | (256 * f4) = f3 + 256 * f4
    BY SMT, <1>9, <1>11
  <2>3. QED
    BY SMT, <1>3, <1>10, <2>1, <2>2
<1>13. /\ (f1 + 256 * f2) % 256 = f1 /\ (f1 + 256 * f2) \div 256 = f2
       /\ (f3 + 256 * f4) % 256 = f3 /\ (f3 + 256 * f4) \div 256 = f4
  BY <1>9
<1>14. QED
  BY <1>4, <1>12, <1>13 DEF f1, f2, f3, f4

(* Adding the offset of its range makes an index a character.              *)
LEMMA OffsetEncodes ==
    ASSUME NEW i \in 0..63
    PROVE  Offset(i) = encoding[i]
<1>1. CASE i < 26
  <2>1. Reduce(i) = 0
    BY <1>1 DEF Reduce
  <2>2. OffsetLUT[1] = 65
    BY DEF OffsetLUT
  <2>3. QED
    BY <1>1, <2>1, <2>2, EncodingAt DEF Offset
<1>2. CASE i \in 26..51
  <2>1. Reduce(i) = 1
    BY <1>2 DEF Reduce
  <2>2. OffsetLUT[2] = 71
    BY DEF OffsetLUT
  <2>3. QED
    BY <1>2, <2>1, <2>2, EncodingAt DEF Offset
<1>3. CASE i \in 52..61
  <2>1. Reduce(i) + 1 \in 3..12
    BY <1>3 DEF Reduce
  <2>2. \A k \in 3..12 : OffsetLUT[k] = 252
    BY DEF OffsetLUT
  <2>3. QED
    BY <1>3, <2>1, <2>2, EncodingAt DEF Offset
<1>4. CASE i \in 62..63
  <2>1. Reduce(i) + 1 = i - 49
    BY <1>4 DEF Reduce
  <2>2. OffsetLUT[13] = 237 /\ OffsetLUT[14] = 240
    BY DEF OffsetLUT
  <2>3. CASE i = 62
    BY <2>1, <2>2, <2>3, EncodingAt DEF Offset
  <2>4. CASE i = 63
    BY <2>1, <2>2, <2>4, EncodingAt DEF Offset
  <2>5. QED
    BY <1>4, <2>3, <2>4
<1>5. QED
  BY <1>1, <1>2, <1>3, <1>4

(* Two lookups of 12 bits make the four characters.                        *)
LEMMA Encodes12 ==
    ASSUME NEW b \in Octet \X Octet \X Octet
    PROVE  Encode12(b) = << encoding[Field(b, 1)], encoding[Field(b, 2)],
                            encoding[Field(b, 3)], encoding[Field(b, 4)] >>
<1> DEFINE v == Group(b)
           t == TwelveBits(b)
           N == 4095
           F(j) == Field(b, j)
           E(j) == encoding[F(j)]
<1>1. v \in Nat /\ v < 2^24
  <2>1. b[1] \in 0..255 /\ b[2] \in 0..255 /\ b[3] \in 0..255
    BY DEF Octet
  <2>2. v = 65536 * b[1] + 256 * b[2] + b[3]
    BY <2>1 DEF Group
  <2>3. /\ b[1] \in Nat /\ b[1] <= 255 /\ b[2] \in Nat /\ b[2] <= 255
        /\ b[3] \in Nat /\ b[3] <= 255
    BY <2>1
  <2> HIDE DEF v
  <2>4. QED
    BY ONLY SMT, <2>2, <2>3
<1>2. t[1] = v \div 2^12 /\ t[2] = v % 2^12
  BY DEF TwelveBits, Group
<1>3. /\ F(1) = (v \div 2^18) % 64 /\ F(2) = (v \div 2^12) % 64
      /\ F(3) = (v \div 2^6) % 64 /\ F(4) = (v \div 1) % 64
  BY DEF Field
<1>4. F(1) \in 0..63 /\ F(2) \in 0..63 /\ F(3) \in 0..63 /\ F(4) \in 0..63
  BY Fields
<1>5. Enc12 = [i \in 0..N |-> encoding[i \div 64] + 256 * encoding[i % 64]]
  BY DEF Enc12
<1>6. Encode12(b) = << Enc12[t[1]] % 256, Enc12[t[1]] \div 256,
                       Enc12[t[2]] % 256, Enc12[t[2]] \div 256 >>
  BY DEF Encode12
<1>7. N = 4095
  OBVIOUS
<1> HIDE DEF v, t, N, F
<1>8. t[1] \in 0..N /\ t[2] \in 0..N
  BY SMT, <1>1, <1>2, <1>7
<1>9. /\ t[1] \div 64 = F(1) /\ t[1] % 64 = F(2)
      /\ t[2] \div 64 = F(3) /\ t[2] % 64 = F(4)
  <2>1. t[1] \div 64 = F(1)
    BY ONLY SMT, <1>1, <1>2, <1>3
  <2>2. t[1] % 64 = F(2)
    BY ONLY SMT, <1>1, <1>2, <1>3
  <2>3. t[2] \div 64 = F(3)
    BY ONLY SMT, <1>1, <1>2, <1>3
  <2>4. t[2] % 64 = F(4)
    BY ONLY SMT, <1>1, <1>2, <1>3
  <2>5. QED
    BY <2>1, <2>2, <2>3, <2>4
<1>10. E(1) \in 0..255 /\ E(2) \in 0..255 /\ E(3) \in 0..255 /\ E(4) \in 0..255
  <2>1. E(1) \in Octet /\ E(2) \in Octet /\ E(3) \in Octet /\ E(4) \in Octet
    BY <1>4, EncodingType, Zenon
  <2>2. QED
    BY <2>1, Zenon DEF Octet
<1>11. /\ Enc12[t[1]] = encoding[t[1] \div 64] + 256 * encoding[t[1] % 64]
       /\ Enc12[t[2]] = encoding[t[2] \div 64] + 256 * encoding[t[2] % 64]
  BY <1>5, <1>8
<1>12. Enc12[t[1]] = E(1) + 256 * E(2) /\ Enc12[t[2]] = E(3) + 256 * E(4)
  BY <1>9, <1>11
<1> HIDE DEF E
<1>13. /\ Enc12[t[1]] % 256 = E(1) /\ Enc12[t[1]] \div 256 = E(2)
       /\ Enc12[t[2]] % 256 = E(3) /\ Enc12[t[2]] \div 256 = E(4)
  <2>1. ASSUME NEW x \in Nat, x < 256, NEW y \in Nat
        PROVE  (x + 256 * y) % 256 = x /\ (x + 256 * y) \div 256 = y
    BY SMT, <2>1
  <2>2. /\ E(1) \in Nat /\ E(1) < 256 /\ E(2) \in Nat
        /\ E(3) \in Nat /\ E(3) < 256 /\ E(4) \in Nat
    BY <1>10
  <2>3. (E(1) + 256 * E(2)) % 256 = E(1) /\ (E(1) + 256 * E(2)) \div 256 = E(2)
    BY <2>1, <2>2
  <2>4. (E(3) + 256 * E(4)) % 256 = E(3) /\ (E(3) + 256 * E(4)) \div 256 = E(4)
    BY <2>1, <2>2
  <2>5. QED
    BY <1>12, <2>3, <2>4
<1>14. QED
  BY <1>6, <1>13 DEF E, F

-----------------------------------------------------------------------------
(* Decoding.                                                               *)

(* The word four values make.                                              *)
Joined(v) == 2^18 * v[1] + 2^12 * v[2] + 2^6 * v[3] + v[4]

(* The nibbles of a character.                                             *)
LEMMA Nibbles ==
    ASSUME NEW c \in Octet
    PROVE  LoNibble(c) = c % 16 /\ HiNibble(c) = c \div 16
<1>1. 15 \in Octet /\ c \div 16 \in Octet /\ (c \div 16) % 16 = c \div 16
  BY DEF Octet
<1>2. c & 15 = c % 16 /\ (c \div 16) & 15 = (c \div 16) % 16
  BY <1>1, AndLow, Masks
<1>3. QED
  BY <1>1, <1>2 DEF LoNibble, HiNibble

(* What the two nibbles' table entries have in common.                     *)
LEMMA NibbleBits ==
    /\ 21 & 1 # 0 /\ 21 & 2 = 0 /\ 21 & 4 # 0 /\ 21 & 8 = 0 /\ 21 & 16 # 0
    /\ 17 & 1 # 0 /\ 17 & 2 = 0 /\ 17 & 4 = 0 /\ 17 & 8 = 0 /\ 17 & 16 # 0
    /\ 19 & 1 # 0 /\ 19 & 2 # 0 /\ 19 & 4 = 0 /\ 19 & 8 = 0 /\ 19 & 16 # 0
    /\ 26 & 1 = 0 /\ 26 & 2 # 0 /\ 26 & 4 = 0 /\ 26 & 8 # 0 /\ 26 & 16 # 0
    /\ 27 & 1 # 0 /\ 27 & 2 # 0 /\ 27 & 4 = 0 /\ 27 & 8 # 0 /\ 27 & 16 # 0
<1>1. ASSUME NEW x \in Octet
      PROVE  /\ AndOctet(x, 1) = x % 2 /\ AndOctet(x, 2) = 2 * ((x \div 2) % 2)
             /\ AndOctet(x, 4) = 4 * ((x \div 4) % 2)
             /\ AndOctet(x, 8) = 8 * ((x \div 8) % 2)
             /\ AndOctet(x, 16) = 16 * ((x \div 16) % 2)
  BY DEF Octet, AndOctet, Bit
<1>2. 1 \in Octet /\ 2 \in Octet /\ 4 \in Octet /\ 8 \in Octet /\ 16 \in Octet
  BY DEF Octet
<1>3. ASSUME NEW x \in Octet
      PROVE  /\ x & 1 = x % 2 /\ x & 2 = 2 * ((x \div 2) % 2)
             /\ x & 4 = 4 * ((x \div 4) % 2) /\ x & 8 = 8 * ((x \div 8) % 2)
             /\ x & 16 = 16 * ((x \div 16) % 2)
  BY <1>1, <1>2, AndLow
<1>4. 17 \in Octet /\ 19 \in Octet /\ 21 \in Octet /\ 26 \in Octet /\ 27 \in Octet
  BY DEF Octet
<1>5. QED
  BY SMT, <1>3, <1>4

(* The nibbles' tables have a bit in common exactly for the characters     *)
(* outside the alphabet.                                                   *)
LEMMA NibblesDecide ==
    ASSUME NEW c \in Octet
    PROVE  CleanNibbles(c) <=> decoding[c] >= 0
<1> DEFINE l == c % 16
           h == c \div 16
<1>1. l \in 0..15 /\ h \in 0..15 /\ c = 16 * h + l
  BY DEF Octet
<1>2. CleanNibbles(c) <=> (LutLo[l + 1] & LutHi[h + 1]) = 0
  BY Nibbles DEF CleanNibbles
<1>3. decoding[c] >= 0 <=>
          c \in 65..90 \/ c \in 97..122 \/ c \in 48..57 \/ c = 43 \/ c = 47
  <2>1. decoding[c] \in Int
    BY DEF decoding, Octet
  <2>2. QED
    BY <2>1, DecodingAt
<1> HIDE DEF l, h
<1>4. /\ l = 0        => LutLo[l + 1] = 21
      /\ l \in 1..9    => LutLo[l + 1] = 17
      /\ l = 10       => LutLo[l + 1] = 19
      /\ l \in {11, 15} => LutLo[l + 1] = 26
      /\ l \in 12..14  => LutLo[l + 1] = 27
  BY DEF LutLo
<1>5. /\ h = 2       => LutHi[h + 1] = 1
      /\ h = 3       => LutHi[h + 1] = 2
      /\ h \in {4, 6} => LutHi[h + 1] = 4
      /\ h \in {5, 7} => LutHi[h + 1] = 8
      /\ h \in {0, 1} \cup 8..15 => LutHi[h + 1] = 16
  BY DEF LutHi
<1>6. CASE h = 2
  <2>1. (LutLo[l + 1] & LutHi[h + 1]) = 0 <=> l \in {11, 15}
    BY <1>1, <1>4, <1>5, <1>6, NibbleBits
  <2>2. QED
    BY SMT, <1>1, <1>2, <1>3, <1>6, <2>1
<1>7. CASE h = 3
  <2>1. (LutLo[l + 1] & LutHi[h + 1]) = 0 <=> l \in 0..9
    BY <1>1, <1>4, <1>5, <1>7, NibbleBits
  <2>2. QED
    BY SMT, <1>1, <1>2, <1>3, <1>7, <2>1
<1>8. CASE h \in {4, 6}
  <2>1. (LutLo[l + 1] & LutHi[h + 1]) = 0 <=> l # 0
    BY <1>1, <1>4, <1>5, <1>8, NibbleBits
  <2>2. QED
    BY SMT, <1>1, <1>2, <1>3, <1>8, <2>1
<1>9. CASE h \in {5, 7}
  <2>1. (LutLo[l + 1] & LutHi[h + 1]) = 0 <=> l \in 0..10
    BY <1>1, <1>4, <1>5, <1>9, NibbleBits
  <2>2. QED
    BY SMT, <1>1, <1>2, <1>3, <1>9, <2>1
<1>10. CASE h \in {0, 1} \cup 8..15
  <2>1. (LutLo[l + 1] & LutHi[h + 1]) # 0
    BY <1>1, <1>4, <1>5, <1>10, NibbleBits
  <2>2. QED
    BY SMT, <1>1, <1>2, <1>3, <1>10, <2>1
<1>11. QED
  BY <1>1, <1>6, <1>7, <1>8, <1>9, <1>10

(* The roll of a character's high nibble makes it its value.               *)
LEMMA RollDecodes ==
    ASSUME NEW c \in Octet, decoding[c] >= 0
    PROVE  (c + Roll(c)) % 256 = decoding[c]
<1>1. c \in 65..90 \/ c \in 97..122 \/ c \in 48..57 \/ c = 43 \/ c = 47
  <2>1. decoding[c] \in Int
    BY DEF decoding, Octet
  <2>2. QED
    BY <2>1, DecodingAt
<1>2. /\ LutRoll[2] = 16 /\ LutRoll[3] = 19 /\ LutRoll[4] = 4 /\ LutRoll[5] = 191
      /\ LutRoll[6] = 191 /\ LutRoll[7] = 185 /\ LutRoll[8] = 185
  BY DEF LutRoll
<1>3. c # 47 => Roll(c) = LutRoll[(c \div 16) + 1]
  <2>1. (0 + (c \div 16)) % 256 = c \div 16
    BY DEF Octet
  <2>2. QED
    BY <2>1, Nibbles DEF Roll
<1>4. c = 47 => Roll(c) = LutRoll[2]
  <2>1. c = 47 => (255 + (c \div 16)) % 256 = 1
    OBVIOUS
  <2>2. QED
    BY <2>1, Nibbles DEF Roll
<1>5. CASE c \in 65..90
  <2>1. c \div 16 = 4 \/ c \div 16 = 5
    BY <1>5
  <2>2. Roll(c) = 191
    BY <1>2, <1>3, <1>5, <2>1
  <2>3. QED
    BY <1>5, <2>2, DecodingAt
<1>6. CASE c \in 97..122
  <2>1. c \div 16 = 6 \/ c \div 16 = 7
    BY <1>6
  <2>2. Roll(c) = 185
    BY <1>2, <1>3, <1>6, <2>1
  <2>3. QED
    BY <1>6, <2>2, DecodingAt
<1>7. CASE c \in 48..57
  <2>1. c \div 16 = 3
    BY <1>7
  <2>2. Roll(c) = 4
    BY <1>2, <1>3, <1>7, <2>1
  <2>3. QED
    BY <1>7, <2>2, DecodingAt
<1>8. CASE c = 43
  <2>1. c \div 16 = 2
    BY <1>8
  <2>2. Roll(c) = 19
    BY <1>2, <1>3, <1>8, <2>1
  <2>3. QED
    BY <1>8, <2>2, DecodingAt
<1>9. CASE c = 47
  <2>1. Roll(c) = 16
    BY <1>2, <1>4, <1>9
  <2>2. QED
    BY <1>9, <2>1, DecodingAt
<1>10. QED
  BY <1>1, <1>5, <1>6, <1>7, <1>8, <1>9

(* The four lookups' fields add up, or leave the sentinel standing.        *)
LEMMA SwarJoins ==
    ASSUME NEW q \in Octet \X Octet \X Octet \X Octet
    PROVE  /\ (\A p \in 1..4 : decoding[q[p]] >= 0)
                   => Swar(q) = Joined([p \in 1..4 |-> decoding[q[p]]])
           /\ Swar(q) \div 2^24 = 0 <=> \A p \in 1..4 : decoding[q[p]] >= 0
<1> DEFINE d(p) == decoding[q[p]]
           A == Dec(18)[q[1]]
           B == Dec(12)[q[2]]
           C == Dec(6)[q[3]]
           D == Dec(0)[q[4]]
<1>1. q[1] \in Octet /\ q[2] \in Octet /\ q[3] \in Octet /\ q[4] \in Octet
  OBVIOUS
<1>2. ASSUME NEW c \in Octet PROVE decoding[c] \in Int /\ (decoding[c] < 0 \/ decoding[c] \in 0..63)
  <2>1. decoding[c] \in Int
    BY DEF decoding, Octet
  <2>2. QED
    BY <2>1, DecodingType
<1>3. /\ A = IF d(1) < 0 THEN 2^24 ELSE d(1) * 2^18
      /\ B = IF d(2) < 0 THEN 2^24 ELSE d(2) * 2^12
      /\ C = IF d(3) < 0 THEN 2^24 ELSE d(3) * 2^6
      /\ D = IF d(4) < 0 THEN 2^24 ELSE d(4) * 2^0
  BY <1>1 DEF Dec, Sentinel
<1>4. Swar(q) = ((A | B) | C) | D
  BY DEF Swar
<1>5. /\ d(1) \in Int /\ (d(1) < 0 \/ d(1) \in 0..63)
      /\ d(2) \in Int /\ (d(2) < 0 \/ d(2) \in 0..63)
      /\ d(3) \in Int /\ (d(3) < 0 \/ d(3) \in 0..63)
      /\ d(4) \in Int /\ (d(4) < 0 \/ d(4) \in 0..63)
  BY <1>1, <1>2
<1>6. (\A p \in 1..4 : decoding[q[p]] >= 0) <=> (d(1) >= 0 /\ d(2) >= 0 /\ d(3) >= 0 /\ d(4) >= 0)
  OBVIOUS
<1>7. Joined([p \in 1..4 |-> decoding[q[p]]]) = 2^18 * d(1) + 2^12 * d(2) + 2^6 * d(3) + d(4)
  BY DEF Joined
<1> HIDE DEF A, B, C, D, d
<1>8. ASSUME d(1) >= 0, d(2) >= 0, d(3) >= 0, d(4) >= 0
      PROVE  Swar(q) = 2^18 * d(1) + 2^12 * d(2) + 2^6 * d(3) + d(4)
  <2> DEFINE x == 64 * d(1) + d(2)
             y == 64 * x + d(3)
  <2>1. /\ A = 2^18 * d(1) /\ B = 4096 * d(2) /\ C = 64 * d(3) /\ D = d(4)
        /\ d(1) \in 0..63 /\ d(2) \in 0..63 /\ d(3) \in 0..63 /\ d(4) \in 0..63
    BY SMT, <1>3, <1>5, <1>8
  <2>2. A | B = 2^18 * d(1) + 4096 * d(2)
    <3>1. d(1) \in 0..63 /\ d(2) \in 0..63
      BY ONLY <2>1, Zenon
    <3>2. (2^18 * d(1)) | (4096 * d(2)) = 2^18 * d(1) + 4096 * d(2)
      BY SMT, <3>1, OrBelow18
    <3>3. QED
      BY <2>1, <3>2
  <2> /\ d(1) \in Nat /\ d(1) <= 63 /\ d(2) \in Nat /\ d(2) <= 63
      /\ d(3) \in Nat /\ d(3) <= 63 /\ d(4) \in Nat /\ d(4) <= 63
    BY <2>1
  <2>3. x \in Nat /\ x < 2^12 /\ A | B = 4096 * x
    BY SMT, <2>1, <2>2
  <2> HIDE DEF x
  <2>4. y \in Nat /\ y < 2^18 /\ 4096 * x + 64 * d(3) = 64 * y
    BY SMT, <2>3
  <2>5. (A | B) | C = 4096 * x + 64 * d(3)
    <3>1. (4096 * x) | (64 * d(3)) = 4096 * x + 64 * d(3)
      <4>1. x \in Nat /\ x < 2^12 /\ d(3) \in 0..63
        BY <2>1, <2>3
      <4>2. QED
        BY ONLY SMT, <4>1, OrBelow12
    <3>2. QED
      BY <2>1, <2>3, <3>1
  <2> HIDE DEF y
  <2>6. ((A | B) | C) | D = 64 * y + d(4)
    BY <2>1, <2>4, <2>5, OrBelow6
  <2>7. QED
    BY SMT, <1>4, <2>1, <2>6 DEF x, y
<1>9. /\ A \in Nat /\ B \in Nat /\ C \in Nat /\ D \in Nat
      /\ d(1) < 0 => A = 2^24
      /\ d(2) < 0 => B = 2^24
      /\ d(3) < 0 => C = 2^24
      /\ d(4) < 0 => D = 2^24
  BY SMT, <1>3, <1>5
<1>10. /\ Swar(q) \in Nat /\ Swar(q) >= A /\ Swar(q) >= B
       /\ Swar(q) >= C /\ Swar(q) >= D
  <2>1. A | B \in Nat /\ A | B >= A /\ A | B >= B
    BY <1>9, OrBound
  <2> DEFINE x == A | B
  <2> HIDE DEF x
  <2>2. x | C \in Nat /\ x | C >= x /\ x | C >= C
    BY <1>9, <2>1, OrBound DEF x
  <2> DEFINE y == x | C
  <2> HIDE DEF y
  <2>3. y | D \in Nat /\ y | D >= y /\ y | D >= D
    BY <1>9, <2>2, OrBound DEF y
  <2>4. Swar(q) = y | D
    BY <1>4 DEF x, y
  <2>5. x \in Nat /\ x >= A /\ x >= B
    BY <2>1 DEF x
  <2>6. y \in Nat /\ y >= x /\ y >= C
    BY <2>2 DEF y
  <2>7. QED
    BY <1>9, <2>3, <2>4, <2>5, <2>6
<1>11. CASE d(1) >= 0 /\ d(2) >= 0 /\ d(3) >= 0 /\ d(4) >= 0
  <2>1. Swar(q) = 2^18 * d(1) + 2^12 * d(2) + 2^6 * d(3) + d(4)
    BY <1>8, <1>11
  <2>2. /\ d(1) \in Nat /\ d(1) <= 63 /\ d(2) \in Nat /\ d(2) <= 63
        /\ d(3) \in Nat /\ d(3) <= 63 /\ d(4) \in Nat /\ d(4) <= 63
    BY SMT, <1>5, <1>11
  <2>3. Swar(q) \in Nat /\ Swar(q) < 2^24
    BY ONLY SMT, <2>1, <2>2
  <2>4. Swar(q) \div 2^24 = 0
    BY ONLY SMT, <2>3
  <2>5. QED
    BY <1>6, <1>7, <1>11, <2>1, <2>4
<1>12. CASE ~(d(1) >= 0 /\ d(2) >= 0 /\ d(3) >= 0 /\ d(4) >= 0)
  <2>1. Swar(q) >= 2^24
    BY SMT, <1>5, <1>9, <1>10, <1>12
  <2>2. Swar(q) \div 2^24 # 0
    BY SMT, <1>10, <2>1
  <2>3. QED
    BY <1>6, <1>12, <2>2
<1>13. QED
  BY <1>11, <1>12

(* The multiplications of the SSE4.1 and AVX2 kernels join four values.    *)
LEMMA SSEJoins ==
    ASSUME NEW v \in [1..4 -> 0..63]
    PROVE  PackSSE(v) = Joined(v)
<1>1. v[1] \in Int /\ v[2] \in Int /\ v[3] \in Int /\ v[4] \in Int
  OBVIOUS
<1>2. QED
  BY ONLY SMT, <1>1 DEF PackSSE, Joined

(* So do the shifts and masks of the NEON kernel.                          *)
LEMMA NEONJoins ==
    ASSUME NEW v \in [1..4 -> 0..63]
    PROVE  PackNEON(v) = Joined(v)
<1> DEFINE pair(x) == ((x & 63) * 64) | (x \div 256)
<1>1. ASSUME NEW a \in 0..63, NEW b \in 0..63
      PROVE  pair(Word(a, b)) = 64 * a + b
  <2> DEFINE x == Word(a, b)
  <2>1. x = a + 256 * b
    BY DEF Word
  <2> HIDE DEF x
  <2>2. x \in Nat /\ x < 2^16 /\ x % 2^8 = a /\ x \div 2^8 = b
    BY SMT, <2>1
  <2>3. 63 \in Nat /\ 63 < 2^16 /\ 63 % 2^8 = 63 /\ 63 \div 2^8 = 0
    BY SMT
  <2>4. x & 63 = AndOctet(a, 63) + 2^8 * AndOctet(b, 0)
    BY <2>2, <2>3, AndHigh
  <2>5. x & 63 = a
    <3>1. a \in Octet /\ b \in Octet /\ a % 64 = a
      BY DEF Octet
    <3>2. AndOctet(a, 63) = a /\ AndOctet(b, 0) = 0
      BY <3>1, Masks
    <3>3. QED
      BY <2>4, <3>2
  <2>6. a \in Nat /\ a < 2^18 /\ a * 64 = 64 * a
    BY SMT
  <2>7. (64 * a) | b = 64 * a + b
    BY <2>6, OrBelow6
  <2>8. QED
    BY <2>2, <2>5, <2>6, <2>7 DEF x
<1>2. v[1] \in 0..63 /\ v[2] \in 0..63 /\ v[3] \in 0..63 /\ v[4] \in 0..63
  OBVIOUS
<1> DEFINE e == 64 * v[1] + v[2]
           f == 64 * v[3] + v[4]
           y == e + 2^16 * f
<1>3. PackNEON(v) = ((y & 4095) * 4096) | (y \div 2^16)
  <2>1. pair(Word(v[1], v[2])) = e /\ pair(Word(v[3], v[4])) = f
    BY <1>1, <1>2
  <2>2. QED
    BY <2>1 DEF PackNEON
<1>4. e \in Nat /\ e < 2^12 /\ f \in Nat /\ f < 2^12
  <2>1. /\ v[1] \in Nat /\ v[1] <= 63 /\ v[2] \in Nat /\ v[2] <= 63
        /\ v[3] \in Nat /\ v[3] <= 63 /\ v[4] \in Nat /\ v[4] <= 63
    BY <1>2
  <2>2. QED
    BY ONLY SMT, <2>1 DEF e, f
<1>5. Joined(v) = 4096 * e + f
  <2>1. v[1] \in Int /\ v[2] \in Int /\ v[3] \in Int /\ v[4] \in Int
    BY <1>2
  <2>2. QED
    BY ONLY SMT, <2>1 DEF Joined, e, f
<1> HIDE DEF e, f
<1>6. y \in Nat /\ y \div 2^16 = f
  BY ONLY SMT, <1>4 DEF y
<1>7. /\ y % 2^8 = e % 2^8 /\ (y \div 2^8) % 2^8 = e \div 2^8
      /\ e % 2^8 \in Octet /\ e \div 2^8 \in Octet /\ (e \div 2^8) % 16 = e \div 2^8
      /\ (y \div 2^16) % 2^8 \in Octet /\ (y \div 2^24) % 2^8 \in Octet
      /\ e = (e % 2^8) + 2^8 * (e \div 2^8)
  BY SMT, <1>4 DEF Octet
<1> HIDE DEF y
<1>8. y & 4095 = e
  <2>1. /\ 4095 \in Nat /\ 4095 % 2^8 = 255 /\ (4095 \div 2^8) % 2^8 = 15
        /\ (4095 \div 2^16) % 2^8 = 0 /\ (4095 \div 2^24) % 2^8 = 0
    BY SMT
  <2>2. /\ AndOctet(y % 2^8, 255) = e % 2^8
        /\ AndOctet((y \div 2^8) % 2^8, 15) = e \div 2^8
        /\ AndOctet((y \div 2^16) % 2^8, 0) = 0 /\ AndOctet((y \div 2^24) % 2^8, 0) = 0
    BY <1>7, Masks
  <2>3. ASSUME NEW m \in Nat, m % 2^8 = 255, (m \div 2^8) % 2^8 = 15,
               (m \div 2^16) % 2^8 = 0, (m \div 2^24) % 2^8 = 0
        PROVE  y & m = (e % 2^8) + 2^8 * (e \div 2^8)
    <3>1. y & m = AndOctet(y % 2^8, m % 2^8)
                  + 2^8 * AndOctet((y \div 2^8) % 2^8, (m \div 2^8) % 2^8)
                  + 2^16 * AndOctet((y \div 2^16) % 2^8, (m \div 2^16) % 2^8)
                  + 2^24 * AndOctet((y \div 2^24) % 2^8, (m \div 2^24) % 2^8)
      <4>1. y \in Nat /\ m \in Nat
        BY <1>6
      <4>2. QED
        BY <4>1, AndWord
    <3>2. QED
      BY SMT, <1>4, <2>2, <2>3, <3>1
  <2>4. QED
    BY SMT, <1>4, <1>7, <2>1, <2>3
<1>9. (4096 * e) | f = 4096 * e + f
  <2>1. PICK c \in 0..63, r \in 0..63 : f = 64 * c + r
    <3>1. f \div 64 \in 0..63 /\ f % 64 \in 0..63 /\ f = 64 * (f \div 64) + (f % 64)
      BY SMT, <1>4
    <3>2. QED
      BY <3>1
  <2>2. /\ (4096 * e) % 2^8 = 0
        /\ ((4096 * e) \div 2^8) % 2^8 = 16 * (e % 16) /\ e % 16 \in 0..15
        /\ ((4096 * e) \div 2^16) % 2^8 \in Octet
        /\ ((4096 * e) \div 2^24) % 2^8 \in Octet
    BY SMT, <1>4 DEF Octet
  <2>3. /\ f % 2^8 \in Octet /\ (f \div 2^8) % 2^8 \in 0..15
        /\ (f \div 2^16) % 2^8 = 0 /\ (f \div 2^24) % 2^8 = 0
    BY SMT, <1>4 DEF Octet
  <2>4. /\ AndOctet((4096 * e) % 2^8, f % 2^8) = 0
        /\ AndOctet(((4096 * e) \div 2^8) % 2^8, (f \div 2^8) % 2^8) = 0
    BY <2>2, <2>3, Disjoint
  <2>5. /\ AndOctet(((4096 * e) \div 2^16) % 2^8, (f \div 2^16) % 2^8) = 0
        /\ AndOctet(((4096 * e) \div 2^24) % 2^8, (f \div 2^24) % 2^8) = 0
    BY <2>2, <2>3, Masks
  <2>6. 4096 * e \in Nat
    BY SMT, <1>4
  <2>7. QED
    BY <1>4, <2>4, <2>5, <2>6, OrWord
<1>10. e * 4096 = 4096 * e
  BY SMT, <1>4
<1>11. QED
  BY <1>3, <1>5, <1>6, <1>8, <1>9, <1>10

(* The three bytes of four joined values.                                  *)
LEMMA JoinedBytes ==
    ASSUME NEW v \in [1..4 -> 0..63]
    PROVE  /\ Joined(v) \in Nat /\ Joined(v) < 2^24
           /\ ThreeBytes(Joined(v)) = << 4 * v[1] + (v[2] \div 16),
                                         16 * (v[2] % 16) + (v[3] \div 4),
                                         64 * (v[3] % 4) + v[4] >>
<1> DEFINE w == Joined(v)
           p == v[1]
           q == v[2]
           r == v[3]
           s == v[4]
           a == q \div 16
           b == q % 16
           c == r \div 4
           d == r % 4
           x == 4 * p + a
           y == 16 * b + c
           z == 64 * d + s
<1>1. /\ p \in Nat /\ p <= 63 /\ q \in Nat /\ q <= 63
      /\ r \in Nat /\ r <= 63 /\ s \in Nat /\ s <= 63
  OBVIOUS
<1>2. w = 2^18 * p + 2^12 * q + 2^6 * r + s
  BY DEF Joined
<1>3. ThreeBytes(w) = << w \div 2^16, (w \div 2^8) % 256, w % 256 >>
  BY DEF ThreeBytes
<1> HIDE DEF w, p, q, r, s
<1>4. /\ a \in Nat /\ a <= 3 /\ b \in Nat /\ b <= 15 /\ q = 16 * a + b
      /\ c \in Nat /\ c <= 15 /\ d \in Nat /\ d <= 3 /\ r = 4 * c + d
  BY ONLY SMT, <1>1 DEF a, b, c, d
<1> HIDE DEF a, b, c, d
<1>5. /\ x \in Nat /\ x <= 255 /\ y \in Nat /\ y <= 255 /\ z \in Nat /\ z <= 255
      /\ w = 65536 * x + 256 * y + z
  BY ONLY SMT, <1>1, <1>2, <1>4 DEF x, y, z
<1> HIDE DEF x, y, z
<1>6. w \in Nat /\ w < 2^24
  BY ONLY SMT, <1>5
<1>7. w \div 2^16 = x
  BY ONLY SMT, <1>5
<1>8. (w \div 2^8) % 256 = y
  <2>1. w \div 2^8 = 256 * x + y
    BY ONLY SMT, <1>5
  <2>2. QED
    BY ONLY SMT, <1>5, <2>1
<1>9. w % 256 = z
  BY ONLY SMT, <1>5
<1>10. QED
  BY <1>3, <1>6, <1>7, <1>8, <1>9 DEF p, q, r, s, a, b, c, d, x, y, z, w

(* The coroutine's masks and shifts make the same bytes.                   *)
LEMMA ScalarPacks ==
    ASSUME NEW v \in [1..4 -> 0..63]
    PROVE  PackScalar(v) = ThreeBytes(Joined(v))
<1>1. v[1] \in Octet /\ v[2] \in Octet /\ v[3] \in Octet /\ v[4] \in Octet
  BY DEF Octet
<1>2. /\ 63 \in Octet /\ 48 \in Octet /\ 15 \in Octet /\ 60 \in Octet /\ 3 \in Octet
  BY DEF Octet
<1>3. /\ v[1] & 63 = v[1] % 64 /\ v[2] & 48 = 16 * ((v[2] \div 16) % 4)
      /\ v[2] & 15 = v[2] % 16 /\ v[3] & 60 = 4 * ((v[3] \div 4) % 16)
      /\ v[3] & 3 = v[3] % 4 /\ v[4] & 63 = v[4] % 64
  BY <1>1, <1>2, AndLow, Masks
<1>4. /\ v[1] \in Nat /\ v[1] <= 63 /\ v[2] \in Nat /\ v[2] <= 63
      /\ v[3] \in Nat /\ v[3] <= 63 /\ v[4] \in Nat /\ v[4] <= 63
  OBVIOUS
<1>5. /\ (v[1] % 64) * 4 = 4 * v[1]
      /\ (16 * ((v[2] \div 16) % 4)) \div 16 = v[2] \div 16
      /\ (v[2] % 16) * 16 = 16 * (v[2] % 16)
      /\ (4 * ((v[3] \div 4) % 16)) \div 4 = v[3] \div 4
      /\ (v[3] % 4) * 64 = 64 * (v[3] % 4) /\ v[4] % 64 = v[4]
  <2>1. ASSUME NEW x \in Nat, x <= 63
        PROVE  /\ x % 64 = x /\ (x % 64) * 4 = 4 * x
               /\ (16 * ((x \div 16) % 4)) \div 16 = x \div 16
               /\ (x % 16) * 16 = 16 * (x % 16) /\ (x % 4) * 64 = 64 * (x % 4)
               /\ (4 * ((x \div 4) % 16)) \div 4 = x \div 4
    BY ONLY SMT, <2>1
  <2>2. QED
    BY <1>4, <2>1
<1>6. /\ v[1] \in 0..63 /\ v[2] \div 16 \in 0..3 /\ v[2] % 16 \in 0..15
      /\ v[3] \div 4 \in 0..15 /\ v[3] % 4 \in 0..3 /\ v[4] \in 0..63
  BY ONLY SMT, <1>4
<1>7. /\ (4 * v[1]) | (v[2] \div 16) = 4 * v[1] + (v[2] \div 16)
      /\ (16 * (v[2] % 16)) | (v[3] \div 4) = 16 * (v[2] % 16) + (v[3] \div 4)
      /\ (64 * (v[3] % 4)) | v[4] = 64 * (v[3] % 4) + v[4]
  BY <1>6, OrFields
<1>8. PackScalar(v) = << 4 * v[1] + (v[2] \div 16), 16 * (v[2] % 16) + (v[3] \div 4),
                         64 * (v[3] % 4) + v[4] >>
  BY <1>3, <1>5, <1>7 DEF PackScalar
<1>9. QED
  BY <1>8, JoinedBytes

(* The fields of the bytes are the values.                                 *)
LEMMA FieldsBack ==
    ASSUME NEW v \in [1..4 -> 0..63]
    PROVE  LET b == ThreeBytes(Joined(v))
           IN  /\ b \in Octet \X Octet \X Octet
               /\ \A j \in 1..4 : Field(b, j) = v[j]
<1> DEFINE p == v[1]
           q == v[2]
           r == v[3]
           s == v[4]
           a == q \div 16
           b == q % 16
           c == r \div 4
           d == r % 4
           x == 4 * p + a
           y == 16 * b + c
           z == 64 * d + s
<1>1. /\ p \in Nat /\ p <= 63 /\ q \in Nat /\ q <= 63
      /\ r \in Nat /\ r <= 63 /\ s \in Nat /\ s <= 63
  OBVIOUS
<1>2. ThreeBytes(Joined(v)) = << x, y, z >>
  BY JoinedBytes
<1> HIDE DEF p, q, r, s
<1>3. /\ a \in Nat /\ a <= 3 /\ b \in Nat /\ b <= 15 /\ q = 16 * a + b
      /\ c \in Nat /\ c <= 15 /\ d \in Nat /\ d <= 3 /\ r = 4 * c + d
  BY ONLY SMT, <1>1 DEF a, b, c, d
<1> HIDE DEF a, b, c, d
<1>4. x \in Octet /\ y \in Octet /\ z \in Octet
  BY ONLY SMT, <1>1, <1>3 DEF x, y, z, Octet
<1>5. x \div 4 = p /\ x % 4 = a
  BY ONLY SMT, <1>1, <1>3 DEF x
<1>6. y \div 16 = b /\ y % 16 = c
  BY ONLY SMT, <1>3 DEF y
<1>7. z \div 64 = d /\ z % 64 = s
  BY ONLY SMT, <1>1, <1>3 DEF z
<1> DEFINE t == << x, y, z >>
<1>8. t \in Octet \X Octet \X Octet /\ t[1] = x /\ t[2] = y /\ t[3] = z
  BY <1>4
<1> HIDE DEF t, x, y, z
<1>9. Field(t, 1) = p /\ Field(t, 2) = q /\ Field(t, 3) = r /\ Field(t, 4) = s
  BY <1>3, <1>5, <1>6, <1>7, <1>8, Fields
<1>10. \A j \in 1..4 : Field(t, j) = v[j]
  BY <1>9 DEF p, q, r, s
<1>11. QED
  BY <1>2, <1>8, <1>10 DEF t

(* The shuffles and stores of the kernels put each lane's three bytes into *)
(* the lane's place of the output.                                         *)
LEMMA Stores ==
    ASSUME path \in Nibbled, lane \in LanesOf(path), NEW w \in Nat, w < 2^24
    PROVE  Stored(w) = ThreeBytes(w)
<1> DEFINE Bytes == << (w \div 2^16) % 256, (w \div 2^8) % 256, (w \div 1) % 256 >>
<1>1. ThreeBytes(w) = Bytes
  <2>1. (w \div 2^16) % 256 = w \div 2^16 /\ w \div 1 = w
    BY SMT
  <2>2. QED
    BY <2>1 DEF ThreeBytes
<1>2. CASE lane = 0
  <2>1. Stored(w) = Bytes
    BY <1>2 DEF Gathered, Packed, Merged, PackIdx, Gather, Places, LanesOf,
       Nibbled, Stored
  <2>2. QED
    BY <1>1, <2>1
<1>3. CASE lane = 1
  <2>1. Stored(w) = Bytes
    BY <1>3 DEF Gathered, Packed, Merged, PackIdx, Gather, Places, LanesOf,
       Nibbled, Stored
  <2>2. QED
    BY <1>1, <2>1
<1>4. CASE lane = 2
  <2>1. Stored(w) = Bytes
    BY <1>4 DEF Gathered, Packed, Merged, PackIdx, Gather, Places, LanesOf,
       Nibbled, Stored
  <2>2. QED
    BY <1>1, <2>1
<1>5. CASE lane = 3
  <2>1. Stored(w) = Bytes
    BY <1>5 DEF Gathered, Packed, Merged, PackIdx, Gather, Places, LanesOf,
       Nibbled, Stored
  <2>2. QED
    BY <1>1, <2>1
<1>6. CASE lane = 4
  <2>1. path = "avx2"
    BY <1>6 DEF LanesOf, Nibbled
  <2>2. /\ Gathered(w, 12) = (w \div 2^16) % 256
        /\ Gathered(w, 13) = (w \div 2^8) % 256
        /\ Gathered(w, 14) = (w \div 1) % 256
    BY SMTT(30), <1>6, <2>1 DEF Gathered, Packed, Merged, PackIdx, Gather, Places
  <2>3. Stored(w) = Bytes
    BY <1>6, <2>2 DEF Stored
  <2>4. QED
    BY <1>1, <2>3
<1>7. CASE lane = 5
  <2>1. Stored(w) = Bytes
    BY <1>7 DEF Gathered, Packed, Merged, PackIdx, Gather, Places, LanesOf,
       Nibbled, Stored
  <2>2. QED
    BY <1>1, <2>1
<1>8. CASE lane = 6
  <2>1. Stored(w) = Bytes
    BY <1>8 DEF Gathered, Packed, Merged, PackIdx, Gather, Places, LanesOf,
       Nibbled, Stored
  <2>2. QED
    BY <1>1, <2>1
<1>9. CASE lane = 7
  <2>1. Stored(w) = Bytes
    BY <1>9 DEF Gathered, Packed, Merged, PackIdx, Gather, Places, LanesOf,
       Nibbled, Stored
  <2>2. QED
    BY <1>1, <2>1
<1>10. QED
  <2>1. lane \in 0..7
    BY DEF LanesOf, Nibbled
  <2>2. QED
    BY <1>2, <1>3, <1>4, <1>5, <1>6, <1>7, <1>8, <1>9, <2>1

-----------------------------------------------------------------------------
(* The lanes' inductive invariant.                                         *)

(* All four characters have a value.                                       *)
Symbols(q) == \A p \in 1..4 : decoding[q[p]] >= 0

LaneInv ==
    /\ LaneTypeOK
    /\ stage \in {"split", "translate", "encoded"} => path \in EncodePaths
    /\ stage \in {"classify", "value", "pack", "decoded", "blocked"}
          => path \in DecodePaths
    /\ stage = "translate" => \A j \in 1..4 : index[j] = Field(bytes, j)
    /\ LaneEncodes
    /\ stage = "blocked" => ~Symbols(chars)
    /\ stage \in {"value", "pack", "decoded"} => Symbols(chars)
    /\ stage = "pack" => \A p \in 1..4 : index[p] = decoding[chars[p]]
    /\ LaneInverts

(* A lane begins with bytes to encode or characters to decode.             *)
LEMMA LaneInitHolds == LaneInit => LaneInv
<1> SUFFICES ASSUME LaneInit PROVE LaneInv
  OBVIOUS
<1>1. 0 \in Octet
  BY DEF Octet
<1>2. CASE stage = "split"
  <2>1. path \in EncodePaths /\ bytes \in Triples /\ chars = << 0, 0, 0, 0 >>
    BY <1>2 DEF LaneInit
  <2>2. LaneTypeOK
    BY <1>1, <1>2, <2>1, LanesAssumption DEF LaneInit, LaneTypeOK
  <2>3. QED
    BY <1>2, <2>1, <2>2 DEF LaneInv, LaneEncodes, LaneInverts
<1>3. CASE stage = "classify"
  <2>1. path \in DecodePaths /\ chars \in Quads /\ bytes = << 0, 0, 0 >>
    BY <1>3 DEF LaneInit
  <2>2. LaneTypeOK
    BY <1>1, <1>3, <2>1, LanesAssumption DEF LaneInit, LaneTypeOK
  <2>3. QED
    BY <1>3, <2>1, <2>2 DEF LaneInv, LaneEncodes, LaneInverts
<1>4. QED
  BY <1>2, <1>3 DEF LaneInit

(* Every path splits the bytes into the fields.                            *)
LEMMA SplitKeeps == LaneInv /\ Split => LaneInv'
<1> SUFFICES ASSUME LaneInv, Split PROVE LaneInv'
  OBVIOUS
<1> DEFINE f == << Field(bytes, 1), Field(bytes, 2), Field(bytes, 3), Field(bytes, 4) >>
<1>1. bytes \in Octet \X Octet \X Octet /\ lane \in LanesOf(path) /\ path \in EncodePaths
  BY DEF LaneInv, LaneTypeOK, Split
<1>2. index' = f
  <2>1. CASE path \in SSE
    <3>1. lane \in 0..7
      BY <1>1, <2>1 DEF SSE, LanesOf
    <3>2. index' = SplitSSE
      BY <2>1 DEF Split, SSE
    <3>3. QED
      BY <1>1, <3>1, <3>2, SSESplits
  <2>2. CASE path \in {"armv7", "aarch64"}
    <3>1. index' = SplitNEON(bytes)
      BY <2>2 DEF Split, SSE
    <3>2. QED
      BY <1>1, <3>1, NEONSplits
  <2>3. CASE path \notin SSE \cup {"armv7", "aarch64"}
    <3>1. index' = SplitScalar(bytes)
      BY <2>3 DEF Split
    <3>2. QED
      BY <1>1, <3>1, ScalarSplits
  <2>4. QED
    BY <2>1, <2>2, <2>3
<1>3. \A j \in 1..4 : Field(bytes, j) \in Octet
  BY <1>1, Fields DEF Octet
<1>4. index' \in [1..4 -> Octet] /\ \A j \in 1..4 : index'[j] = Field(bytes, j)
  BY <1>2, <1>3
<1>5. LaneTypeOK'
  BY <1>4 DEF LaneInv, LaneTypeOK, Split
<1>6. bytes' = bytes /\ stage' = "translate" /\ path' = path
  BY DEF Split
<1>7. QED
  BY <1>1, <1>4, <1>5, <1>6 DEF LaneInv, LaneEncodes, LaneInverts

(* Every path turns the fields into their characters.                      *)
LEMMA TranslateKeeps == LaneInv /\ Translate => LaneInv'
<1> SUFFICES ASSUME LaneInv, Translate PROVE LaneInv'
  OBVIOUS
<1> DEFINE e == << encoding[Field(bytes, 1)], encoding[Field(bytes, 2)],
                   encoding[Field(bytes, 3)], encoding[Field(bytes, 4)] >>
<1>1. /\ bytes \in Octet \X Octet \X Octet /\ path \in EncodePaths
      /\ \A j \in 1..4 : index[j] = Field(bytes, j)
  BY DEF LaneInv, LaneTypeOK, Translate
<1>2. \A j \in 1..4 : Field(bytes, j) \in 0..63
  BY <1>1, Fields
<1>3. chars' = e
  <2>1. CASE path = "enc12"
    BY <1>1, <2>1, Encodes12 DEF Translate
  <2>2. CASE path # "enc12"
    <3> DEFINE ch == [p \in 1..4 |-> IF path \in SSE \cup {"armv7"} THEN Offset(index[p])
                                     ELSE encoding[index[p]]]
    <3>1. chars' = << ch[1], ch[2], ch[3], ch[4] >>
      BY <2>2 DEF Translate
    <3>2. ASSUME NEW p \in 1..4 PROVE ch[p] = encoding[Field(bytes, p)]
      <4>1. index[p] = Field(bytes, p) /\ Field(bytes, p) \in 0..63
        BY <1>1, <1>2
      <4>2. Offset(Field(bytes, p)) = encoding[Field(bytes, p)]
        BY <4>1, OffsetEncodes
      <4>3. QED
        BY <4>1, <4>2
    <3> HIDE DEF ch
    <3>3. QED
      BY <3>1, <3>2
  <2>3. QED
    BY <2>1, <2>2
<1>4. \A j \in 1..4 : encoding[Field(bytes, j)] \in Octet
  BY <1>2, EncodingType
<1>5. /\ chars' \in Octet \X Octet \X Octet \X Octet
      /\ \A j \in 1..4 : chars'[j] = encoding[Field(bytes, j)]
  BY <1>3, <1>4
<1>6. LaneTypeOK'
  BY <1>5 DEF LaneInv, LaneTypeOK, Translate
<1>7. bytes' = bytes /\ stage' = "encoded" /\ path' = path
  BY DEF Translate
<1>8. QED
  BY <1>1, <1>5, <1>6, <1>7 DEF LaneInv, LaneEncodes, LaneInverts

(* The characters go to another path.                                      *)
LEMMA DecodeAgainKeeps == LaneInv /\ DecodeAgain => LaneInv'
<1> SUFFICES ASSUME LaneInv, DecodeAgain PROVE LaneInv'
  OBVIOUS
<1>1. 0 \in Octet
  BY DEF Octet
<1>2. LaneTypeOK'
  BY <1>1 DEF LaneInv, LaneTypeOK, DecodeAgain
<1>3. stage' = "classify" /\ path' \in DecodePaths
  BY DEF DecodeAgain
<1>4. QED
  BY <1>2, <1>3 DEF LaneInv, LaneEncodes, LaneInverts

(* Every path lets the same characters through.                            *)
LEMMA ClassifyKeeps == LaneInv /\ Classify => LaneInv'
<1> SUFFICES ASSUME LaneInv, Classify PROVE LaneInv'
  OBVIOUS
<1>1. chars \in Octet \X Octet \X Octet \X Octet /\ path \in DecodePaths
  BY DEF LaneInv, LaneTypeOK, Classify
<1>2. chars[1] \in Octet /\ chars[2] \in Octet /\ chars[3] \in Octet /\ chars[4] \in Octet
  BY <1>1
<1>3. Clean(chars) <=> Symbols(chars)
  <2>1. CASE path \in Nibbled
    <3>1. \A p \in 1..4 : CleanNibbles(chars[p]) <=> decoding[chars[p]] >= 0
      BY <1>2, NibblesDecide
    <3>2. Clean(chars) <=> \A p \in 1..4 : CleanNibbles(chars[p])
      BY <2>1 DEF Clean, Nibbled
    <3>3. QED
      BY <3>1, <3>2 DEF Symbols
  <2>2. CASE path = "swar"
    <3>1. Clean(chars) <=> Swar(chars) \div 2^24 = 0
      BY <2>2 DEF Clean, Nibbled
    <3>2. QED
      BY <1>1, <3>1, SwarJoins DEF Symbols
  <2>3. CASE path = "scalar"
    BY <2>3 DEF Clean, Nibbled, Symbols
  <2>4. QED
    BY <1>1, <2>1, <2>2, <2>3 DEF DecodePaths, Nibbled
<1>4. LaneTypeOK'
  BY DEF LaneInv, LaneTypeOK, Classify
<1>5. /\ stage' = IF Clean(chars) THEN "value" ELSE "blocked"
      /\ chars' = chars /\ path' = path
  BY DEF Classify
<1>6. QED
  BY <1>1, <1>3, <1>4, <1>5 DEF LaneInv, LaneEncodes, LaneInverts, Symbols

(* Every path gives the characters their values.                           *)
LEMMA ValueKeeps == LaneInv /\ Value => LaneInv'
<1> SUFFICES ASSUME LaneInv, Value PROVE LaneInv'
  OBVIOUS
<1>1. /\ chars \in Octet \X Octet \X Octet \X Octet /\ path \in DecodePaths
      /\ Symbols(chars)
  BY DEF LaneInv, LaneTypeOK, Value
<1>2. chars[1] \in Octet /\ chars[2] \in Octet /\ chars[3] \in Octet /\ chars[4] \in Octet
  BY <1>1
<1>3. ASSUME NEW p \in 1..4
      PROVE  index'[p] = decoding[chars[p]] /\ decoding[chars[p]] \in Octet
  <2>1. chars[p] \in Octet /\ decoding[chars[p]] >= 0
    BY <1>1, <1>2 DEF Symbols
  <2>2. (chars[p] + Roll(chars[p])) % 256 = decoding[chars[p]]
    BY <2>1, RollDecodes
  <2>3. decoding[chars[p]] \in Octet
    <3>1. decoding[chars[p]] \in 0..63
      BY <2>1, DecodingType
    <3>2. QED
      BY <3>1 DEF Octet
  <2>4. QED
    BY <2>2, <2>3 DEF Value
<1>4. index' \in [1..4 -> Octet]
  <2>1. index' = [p \in 1..4 |-> IF path \in Nibbled THEN (chars[p] + Roll(chars[p])) % 256
                                 ELSE decoding[chars[p]]]
    BY DEF Value
  <2>2. index' = [p \in 1..4 |-> index'[p]]
    BY <2>1
  <2>3. QED
    BY <1>3, <2>2
<1>5. LaneTypeOK'
  BY <1>4 DEF LaneInv, LaneTypeOK, Value
<1>6. stage' = "pack" /\ chars' = chars /\ path' = path
  BY DEF Value
<1>7. QED
  BY <1>1, <1>3, <1>5, <1>6 DEF LaneInv, LaneEncodes, LaneInverts, Symbols

(* Every path packs the values into the bytes they are the fields of.      *)
LEMMA PackKeeps == LaneInv /\ Pack => LaneInv'
<1> SUFFICES ASSUME LaneInv, Pack PROVE LaneInv'
  OBVIOUS
<1>1. /\ chars \in Octet \X Octet \X Octet \X Octet /\ path \in DecodePaths
      /\ index \in [1..4 -> Octet] /\ lane \in LanesOf(path)
      /\ Symbols(chars) /\ \A p \in 1..4 : index[p] = decoding[chars[p]]
  BY DEF LaneInv, LaneTypeOK, Pack
<1>2. chars[1] \in Octet /\ chars[2] \in Octet /\ chars[3] \in Octet /\ chars[4] \in Octet
  BY <1>1
<1>3. \A p \in 1..4 : decoding[chars[p]] \in 0..63 /\ encoding[decoding[chars[p]]] = chars[p]
  BY <1>1, <1>2, DecodingType DEF Symbols
<1>4. index \in [1..4 -> 0..63]
  BY <1>1, <1>3
<1>5. Joined(index) \in Nat /\ Joined(index) < 2^24
  BY <1>4, JoinedBytes
<1>6. bytes' = ThreeBytes(Joined(index))
  <2>1. CASE path \in SSE
    <3>1. bytes' = Stored(PackSSE(index)) /\ path \in Nibbled
      BY <2>1 DEF Pack, SSE, Nibbled
    <3>2. PackSSE(index) = Joined(index)
      BY <1>4, SSEJoins
    <3>3. QED
      BY <1>1, <1>5, <3>1, <3>2, Stores
  <2>2. CASE path = "neon"
    <3>1. bytes' = Stored(PackNEON(index)) /\ path \in Nibbled
      BY <2>2 DEF Pack, SSE, Nibbled
    <3>2. PackNEON(index) = Joined(index)
      BY <1>4, NEONJoins
    <3>3. QED
      BY <1>1, <1>5, <3>1, <3>2, Stores
  <2>3. CASE path = "swar"
    <3>1. bytes' = ThreeBytes(Swar(chars))
      BY <2>3 DEF Pack, SSE
    <3>2. index = [p \in 1..4 |-> decoding[chars[p]]]
      BY <1>1
    <3>3. Swar(chars) = Joined([p \in 1..4 |-> decoding[chars[p]]])
      BY <1>1, SwarJoins DEF Symbols
    <3>4. QED
      BY <3>1, <3>2, <3>3
  <2>4. CASE path = "scalar"
    <3>1. bytes' = PackScalar(index)
      BY <2>4 DEF Pack, SSE
    <3>2. QED
      BY <1>4, <3>1, ScalarPacks
  <2>5. QED
    BY <1>1, <2>1, <2>2, <2>3, <2>4 DEF DecodePaths, SSE
<1>7. bytes' \in Octet \X Octet \X Octet /\ \A j \in 1..4 : Field(bytes', j) = index[j]
  BY <1>4, <1>6, FieldsBack
<1>8. stage' = "decoded" /\ path' = path /\ lane' = lane /\ index' = index /\ chars' = chars
  BY DEF Pack
<1>9. LaneTypeOK'
  BY <1>7, <1>8 DEF LaneInv, LaneTypeOK
<1>10. LaneInverts'
  <2>1. ASSUME NEW j \in 1..4
        PROVE  /\ chars[j] = EncodeValue(Field(bytes', j))
               /\ DecodeValue(chars[j]) = Field(bytes', j)
    <3>1. /\ Field(bytes', j) = decoding[chars[j]] /\ chars[j] \in Octet
          /\ decoding[chars[j]] \in 0..63 /\ encoding[decoding[chars[j]]] = chars[j]
      BY <1>1, <1>2, <1>3, <1>7
    <3>2. ASSUME NEW v \in 0..63 PROVE v % 256 = v /\ ~(v % 256 > 63)
      OBVIOUS
    <3>3. chars[j] % 256 = chars[j]
      BY <3>1 DEF Octet
    <3>4. QED
      BY <3>1, <3>2, <3>3 DEF EncodeValue, DecodeValue
  <2>2. QED
    BY <1>8, <2>1 DEF LaneInverts
<1>11. QED
  BY <1>1, <1>8, <1>9, <1>10 DEF LaneInv, LaneEncodes, Symbols

(* Every step of a lane keeps the invariant.                               *)
LEMMA LaneStep == LaneInv /\ [LaneNext]_laneVars => LaneInv'
<1>1. LaneInv /\ UNCHANGED laneVars => LaneInv'
  BY DEF LaneInv, LaneTypeOK, LaneEncodes, LaneInverts, Symbols, laneVars
<1>2. QED
  BY <1>1, SplitKeeps, TranslateKeeps, DecodeAgainKeeps, ClassifyKeeps,
     ValueKeeps, PackKeeps DEF LaneNext

(* The invariant holds of every lane of every kernel.                      *)
LEMMA LaneInvariant == LaneSpec => []LaneInv
BY LaneInitHolds, LaneStep, PTL DEF LaneSpec

-----------------------------------------------------------------------------
(* Every value in a lane stays in its range: no byte, index or character   *)
(* is more than eight bits, whatever is shifted out of it.                 *)
THEOREM LaneTypeCorrect == LaneSpec => []LaneTypeOK
<1>1. LaneInv => LaneTypeOK
  BY DEF LaneInv
<1>2. QED
  BY <1>1, LaneInvariant, PTL

(* All encoding paths and lanes give, of any three bytes, the alphabet's   *)
(* characters of the bytes' four fields.                                   *)
THEOREM EncodesAll == LaneSpec => []LaneEncodes
<1>1. LaneInv => LaneEncodes
  BY DEF LaneInv
<1>2. QED
  BY <1>1, LaneInvariant, PTL

(* All decoding paths stop at the same quadruples, of all there are: those *)
(* that hold a character outside the alphabet.                             *)
THEOREM BlocksAll == LaneSpec => []LaneBlocks
<1>1. LaneInv => LaneBlocks
  <2> SUFFICES ASSUME LaneInv PROVE LaneBlocks
    OBVIOUS
  <2>1. chars[1] \in Octet /\ chars[2] \in Octet /\ chars[3] \in Octet /\ chars[4] \in Octet
    BY DEF LaneInv, LaneTypeOK
  <2>2. (\A p \in 1..4 : \E v \in 0..63 : chars[p] = encoding[v]) <=> Symbols(chars)
    <3>1. ASSUME NEW p \in 1..4
          PROVE  (\E v \in 0..63 : chars[p] = encoding[v]) <=> decoding[chars[p]] >= 0
      BY <2>1, InAlphabet
    <3>2. QED
      BY <3>1 DEF Symbols
  <2>3. QED
    BY <2>2 DEF LaneInv, LaneBlocks
<1>2. QED
  BY <1>1, LaneInvariant, PTL

(* Whatever path decodes them, any four characters of the alphabet decode  *)
(* to the three bytes that encode to them.                                 *)
THEOREM InvertsAll == LaneSpec => []LaneInverts
<1>1. LaneInv => LaneInverts
  BY DEF LaneInv
<1>2. QED
  BY <1>1, LaneInvariant, PTL

=============================================================================
