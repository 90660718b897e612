---------------------------- MODULE BallocProofs ----------------------------
(***************************************************************************)
(* Balloc's blocks hold what is written into them, for every width of      *)
(* size_t, and each of them has one pointer that may be freed.             *)
(***************************************************************************)
EXTENDS Balloc, TLAPS

(* What base64_encode_alloc asks for, when it does ask.                    *)
LEMMA EncodeRequestIs ==
    ASSUME NEW length \in 0..SizeMax, ~TooLong(length), EncodeRequest(length) > 0
    PROVE  /\ EncodeRequest(length) \in 0..SizeMax
           /\ ClosedCount(length) \in 0..SizeMax
           /\ ClosedCount(length) + 1 <= EncodeRequest(length)
<1> DEFINE chars == 4 * Groups(length)
<1>1. SizeMax \in Nat /\ SizeMax >= 15
    BY SizeMaxAssumption
<1>2. chars \in Nat /\ ClosedCount(length) = chars
    BY <1>1 DEF Groups, ClosedCount
<1>3. EncodeLength(length, 0) = IF length > SizeMax - 2 \/ Groups(length) > SizeMax \div 4
                                THEN 0 ELSE chars
    BY DEF EncodeLength
<1>4. chars <= SizeMax /\ EncodeLength(length, 0) = chars
  <2>1. CASE length = 0
    BY <2>1, <1>1, <1>3 DEF Groups
  <2>2. CASE length # 0
    <3>1. ~(length > SizeMax - 2 \/ Groups(length) > SizeMax \div 4)
        BY <2>2, <1>3 DEF TooLong
    <3>2. Groups(length) <= SizeMax \div 4
        BY <3>1, <1>1 DEF Groups
    <3> QED
        BY <3>1, <3>2, <1>1, <1>3 DEF Groups
  <2> QED
    BY <2>1, <2>2
<1>5. EncodeRequest(length) = (chars + 1) % (SizeMax + 1)
    BY <1>4 DEF EncodeRequest, SizeT
<1>6. chars < SizeMax
    BY <1>1, <1>2, <1>4, <1>5
<1>7. EncodeRequest(length) = chars + 1
    BY <1>1, <1>2, <1>5, <1>6
<1> QED
    BY <1>1, <1>2, <1>6, <1>7

(* What base64_decode_alloc asks for holds what any text makes the decoder *)
(* store.                                                                  *)
LEMMA DecodeRequestIs ==
    ASSUME NEW length \in 0..SizeMax, NEW values \in 0..length,
           NEW extent \in Touched(length, values)
    PROVE  /\ DecodeMaxLength(length) \in 0..SizeMax
           /\ extent \in Nat /\ extent <= DecodeMaxLength(length)
           /\ DecodedCount(values) \in 0..SizeMax
<1> DEFINE room == (length \div 4) * 3 + 3
           n    == DecodedCount(values)
<1>1. SizeMax \in Nat /\ SizeMax >= 15 /\ length \in Nat /\ values \in Nat
      /\ values <= length /\ length <= SizeMax
  BY SizeMaxAssumption
<1>2. room \in 0..SizeMax
  BY <1>1
<1>3. DecodeMaxLength(length) = room
  BY <1>1, <1>2 DEF DecodeMaxLength, SizeT
<1>4. n \in Nat /\ n + 1 <= room
  BY <1>1 DEF DecodedCount
<1>5. extent \in {n, n + 1}
  BY DEF Touched
<1> HIDE DEF room, n
<1>6. extent \in Nat /\ extent <= room /\ n \in 0..SizeMax
  BY <1>1, <1>2, <1>4, <1>5
<1>7. QED
  BY <1>2, <1>3, <1>6 DEF n

-----------------------------------------------------------------------------
Inv == TypeOK /\ Fits /\ FreeIsSafe

(* The invariant holds before the first call.                              *)
LEMMA InvInit == Init => Inv
  BY SizeMaxAssumption DEF Init, Inv, TypeOK, Fits, FreeIsSafe, Slots, Junk

(* A pointer that may be used for a call has no block to lose.             *)
LEMMA NothingLost ==
    ASSUME Inv, NEW slot \in Slots, Reusable(slot)
    PROVE  size[slot] = 0
BY DEF Inv, FreeIsSafe, Reusable

(* A delivered block keeps the invariant when the request covers what is   *)
(* written.                                                                *)
LEMMA DeliverKeeps ==
    ASSUME Inv, NEW slot \in Slots, NEW request \in 0..SizeMax,
           NEW extent \in Nat, NEW length \in 0..SizeMax,
           extent <= request,
           Deliver(slot, request, extent, length)
    PROVE  Inv'
<1>1. TypeOK'
  BY DEF Inv, TypeOK, Deliver
<1>2. Fits'
  BY DEF Inv, TypeOK, Fits, Deliver
<1>3. request # 0
  BY SizeMaxAssumption DEF Deliver
<1>4. FreeIsSafe'
  BY <1>3 DEF Inv, TypeOK, FreeIsSafe, Deliver
<1>5. QED
  BY <1>1, <1>2, <1>4 DEF Inv

(* A call that fails leaves NULL and length 0, whatever was there.         *)
LEMMA FailKeeps ==
    ASSUME Inv, NEW slot \in Slots, Reusable(slot), Fail(slot)
    PROVE  Inv'
<1>1. TypeOK' /\ Fits'
  BY SizeMaxAssumption DEF Inv, TypeOK, Fits, Fail
<1>2. FreeIsSafe'
  BY NothingLost DEF Inv, TypeOK, FreeIsSafe, Fail
<1>3. QED
  BY <1>1, <1>2 DEF Inv

(* Every call keeps the invariant.                                         *)
LEMMA InvNext == Inv /\ [Next]_vars => Inv'
<1> SUFFICES ASSUME Inv, [Next]_vars PROVE Inv'
  OBVIOUS
<1>1. CASE NoOutParameters
  BY <1>1 DEF NoOutParameters, Inv, TypeOK, Fits, FreeIsSafe
<1>2. CASE EncodeAlloc
  <2>1. CASE Fail("encode")
    BY <1>2, <2>1, FailKeeps DEF Slots, EncodeAlloc
  <2>2. ASSUME NEW length \in 0..SizeMax, ~TooLong(length),
               Deliver("encode", EncodeRequest(length),
                       ClosedCount(length) + 1, ClosedCount(length))
        PROVE  Inv'
    <3>1. EncodeRequest(length) > 0
      BY <2>2 DEF Deliver
    <3>2. /\ EncodeRequest(length) \in 0..SizeMax
          /\ ClosedCount(length) \in 0..SizeMax
          /\ ClosedCount(length) + 1 <= EncodeRequest(length)
      BY <2>2, <3>1, EncodeRequestIs
    <3>3. ClosedCount(length) + 1 \in Nat /\ "encode" \in Slots
      BY <3>2, SizeMaxAssumption DEF Slots
    <3>4. QED
      BY <2>2, <3>2, <3>3, DeliverKeeps
  <2>3. QED
    BY <1>2, <2>1, <2>2 DEF EncodeAlloc
<1>3. CASE DecodeAlloc
  <2>1. CASE Fail("decode")
    BY <1>3, <2>1, FailKeeps DEF Slots, DecodeAlloc
  <2>2. ASSUME NEW length \in 0..SizeMax, NEW values \in 0..length,
               NEW extent \in Touched(length, values),
               Deliver("decode", DecodeMaxLength(length),
                       extent, DecodedCount(values))
        PROVE  Inv'
    <3>1. "decode" \in Slots
      BY DEF Slots
    <3>2. QED
      BY <2>2, <3>1, DecodeRequestIs, DeliverKeeps
  <2>3. QED
    BY <1>3, <2>1, <2>2 DEF DecodeAlloc
<1>4. CASE Free
  <2>1. TypeOK' /\ Fits'
    BY <1>4, SizeMaxAssumption DEF Free, Inv, TypeOK, Fits
  <2>2. FreeIsSafe'
    BY <1>4 DEF Free, Inv, TypeOK, FreeIsSafe
  <2>3. QED
    BY <2>1, <2>2 DEF Inv
<1>5. CASE UNCHANGED vars
  BY <1>5 DEF vars, Inv, TypeOK, Fits, FreeIsSafe
<1>6. QED
  BY <1>1, <1>2, <1>3, <1>4, <1>5 DEF Next

(* A pointer and its length stay what the caller may see of them: a junk   *)
(* value before the first call, a block or the null pointer after it, a    *)
(* dangling one once it was freed, and a length of size_t, whatever malloc *)
(* answers and whoever frees.                                              *)
THEOREM TypeCorrect == Spec => []TypeOK
<1>1. Inv => TypeOK
  BY DEF Inv
<1>2. QED
  BY <1>1, InvInit, InvNext, PTL DEF Spec

(* Every block holds what the call that asked for it stores into it, the   *)
(* NUL, a byte begun and the store that each call of the scalar decoder    *)
(* begins with (cdecode.c:65) included, and no length leaves size_t:       *)
(* base64_encode_alloc and base64_decode_alloc cannot be made to           *)
(* under-allocate, on any width of size_t.                                 *)
THEOREM AllocFits == Spec => [](TypeOK /\ Fits)
<1>1. Inv => TypeOK /\ Fits
  BY DEF Inv
<1>2. QED
  BY <1>1, InvInit, InvNext, PTL DEF Spec

(* What a call of balloc.c leaves in *out can be freed, whatever stood     *)
(* there before the call and wherever the call failed, and no block is     *)
(* left without a pointer to it: *out is cleared before anything can fail. *)
THEOREM OwnershipKept == Spec => []FreeIsSafe
<1>1. Inv => FreeIsSafe
  BY DEF Inv
<1>2. QED
  BY <1>1, InvInit, InvNext, PTL DEF Spec

=============================================================================
