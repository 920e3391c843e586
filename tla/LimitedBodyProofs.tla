------------------------- MODULE LimitedBodyProofs -------------------------
(***************************************************************************)
(* Proofs about LimitedBody for bodies, limits and buffers of any length.  *)
(***************************************************************************)
EXTENDS LimitedBody, TLAPS

(***************************************************************************)
(* Every byte is accounted for: it was forwarded, is still unread, or is   *)
(* the one byte that the probe took and dropped.  LimitExact alone is not  *)
(* inductive: that nothing above the limit will pass needs sent and        *)
(* remaining to add up to the limit.                                       *)
(***************************************************************************)
Accounted ==
    /\ remaining >= 0 => /\ sent + remaining = limit
                         /\ sent + unread = body
                         /\ result # "too_large"
    /\ remaining < 0 => /\ sent = limit
                        /\ sent + unread + 1 = body
                        /\ result = "too_large"
    /\ result = "eof" => unread = 0

BodyInv == TypeOK /\ Accounted

LEMMA BodyInit == Init => BodyInv
BY BodyAssumption DEF Init, BodyInv, TypeOK, Accounted

\* The wrapped reader returns no more than it was asked for or has left.
LEMMA ReturnsBound ==
    ASSUME BodyInv, NEW size \in Nat, NEW count \in Nat, NEW err,
           Returns(size, count, err)
    PROVE  /\ count <= size
           /\ unread' \in Nat
           /\ unread' = unread - count
           /\ err \in {"none", "eof", "broken"}
           /\ err = "eof" => unread' = 0
BY DEF BodyInv, TypeOK, Returns

LEMMA ReadSomeStep ==
    ASSUME BodyInv, NEW size \in Nat, NEW count \in Nat, NEW err,
           ReadSome(size, count, err), UNCHANGED <<body, limit>>
    PROVE  BodyInv'
<1>. DEFINE cut == IF size > remaining THEN remaining ELSE size
<1>1. remaining \in Nat /\ cut \in Nat /\ cut <= remaining
  BY DEF BodyInv, TypeOK, ReadSome
<1>2. Returns(cut, count, err)
  BY DEF ReadSome
<1>3. /\ count <= cut
      /\ unread' \in Nat
      /\ unread' = unread - count
      /\ err \in {"none", "eof", "broken"}
      /\ err = "eof" => unread' = 0
  <2>. HIDE DEF cut
  <2>. QED
    BY <1>1, <1>2, ReturnsBound
<1>4. remaining' \in Nat /\ remaining' = remaining - count
  BY <1>1, <1>3 DEF ReadSome
<1>5. TypeOK'
  BY <1>3, <1>4 DEF BodyInv, TypeOK, ReadSome
<1>6. Accounted'
  BY <1>1, <1>3, <1>4 DEF BodyInv, TypeOK, Accounted, ReadSome
<1>7. QED
  BY <1>5, <1>6 DEF BodyInv

LEMMA ProbeStep ==
    ASSUME BodyInv, NEW count \in Nat, NEW err,
           Probe(count, err), UNCHANGED <<body, limit>>
    PROVE  BodyInv'
<1>1. /\ count <= 1
      /\ unread' \in Nat
      /\ unread' = unread - count
      /\ err \in {"none", "eof", "broken"}
      /\ err = "eof" => unread' = 0
  BY ReturnsBound DEF Probe
<1>2. TypeOK'
  BY <1>1 DEF BodyInv, TypeOK, Probe
<1>3. Accounted'
  BY <1>1 DEF BodyInv, TypeOK, Accounted, Probe
<1>4. QED
  BY <1>2, <1>3 DEF BodyInv

LEMMA BodyStep == BodyInv /\ [Next]_vars => BodyInv'
<1>. SUFFICES ASSUME BodyInv, [Next]_vars PROVE BodyInv'
  OBVIOUS
<1>1. ASSUME NEW size \in 1 .. MaxBuffer, NEW count \in 0 .. MaxBuffer,
             NEW err \in {"none", "eof", "broken"}, Read(size, count, err)
      PROVE  BodyInv'
  <2>1. size \in Nat /\ count \in Nat /\ UNCHANGED <<body, limit>>
    BY <1>1, BodyAssumption DEF Read
  <2>2. CASE ReadSome(size, count, err)
    BY <2>1, <2>2, ReadSomeStep
  <2>3. CASE Probe(count, err)
    BY <2>1, <2>3, ProbeStep
  <2>4. CASE ReadOverrun
    BY <2>1, <2>4 DEF ReadOverrun, BodyInv, TypeOK, Accounted
  <2>5. QED
    BY <1>1, <2>2, <2>3, <2>4 DEF Read
<1>2. CASE UNCHANGED vars
  BY <1>2 DEF vars, BodyInv, TypeOK, Accounted
<1>3. QED
  BY <1>1, <1>2 DEF Next

LEMMA BodyInvariant == Spec => []BodyInv
BY BodyInit, BodyStep, PTL DEF Spec

-----------------------------------------------------------------------------
(***************************************************************************)
(* The lengths that limitedBody.Read computes never drop below zero, but   *)
(* for the -1 of an overrun that was reported: what Returns deducts is     *)
(* there, and nothing is read once the limit was exceeded.                 *)
(***************************************************************************)
THEOREM BodyTypeCorrect == Spec => []TypeOK
<1>1. BodyInv => TypeOK
  BY DEF BodyInv
<1>2. QED
  BY <1>1, BodyInvariant, PTL

(***************************************************************************)
(* limitedBody.Read forwards at most MaxRequestBytes, forwards a body of   *)
(* up to that length whole, and reports errRequestTooLarge exactly for a   *)
(* longer one, for all lengths, buffers and splits into reads.             *)
(***************************************************************************)
THEOREM LimitEnforced == Spec => []LimitExact
<1>1. BodyInv => LimitExact
  BY DEF BodyInv, TypeOK, Accounted, LimitExact
<1>2. QED
  BY <1>1, BodyInvariant, PTL
=============================================================================
