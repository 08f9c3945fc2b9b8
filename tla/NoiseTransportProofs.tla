------------------------ MODULE NoiseTransportProofs ------------------------
(***************************************************************************)
(* Proofs about NoiseTransport, for every set of directions and payloads  *)
(* and every frame bound: the transport states keep their types, and they *)
(* implement the FIFO channel (the safety half of FifoSafety's run).     *)
(***************************************************************************)
EXTENDS NoiseTransport, TLAPS

(* The inductive invariant.  Per direction: the send nonce counts the     *)
(* frames written and the receive nonce the frames read; what was read is *)
(* a prefix of what was written; and every frame on the wire carries the  *)
(* plaintext written under its nonce.  The last fact is what makes a      *)
(* replayed or reordered frame harmless: the only frame that decrypts is  *)
(* the one holding the next plaintext.                                    *)
StreamInv(d) ==
    /\ wn[d] = Len(log[d])
    /\ rn[d] = Len(delivered[d])
    /\ Len(delivered[d]) <= Len(log[d])
    /\ \A i \in 1..Len(delivered[d]) : delivered[d][i] = log[d][i]
    /\ \A f \in wire[d] : f.n < Len(log[d]) /\ log[d][f.n + 1] = f.m

IInv == TypeOK /\ \A d \in Directions : StreamInv(d)

LEMMA InitIInv == Init => IInv
BY DEF Init, IInv, TypeOK, StreamInv

LEMMA WriteIInv ==
    ASSUME IInv, NEW d \in Directions, NEW m \in Payloads, Write(d, m)
    PROVE  IInv'
<1> USE DEF IInv, TypeOK, StreamInv, Write, Frames
<1>1. TypeOK'
  OBVIOUS
<1>2. ASSUME NEW e \in Directions PROVE StreamInv(e)'
  <2>1. CASE e = d
    BY <2>1
  <2>2. CASE e # d
    BY <2>2
  <2>3. QED
    BY <2>1, <2>2
<1>3. QED
  BY <1>1, <1>2

LEMMA ReadOkIInv ==
    ASSUME IInv, NEW d \in Directions, NEW f \in wire[d], ReadOk(d, f)
    PROVE  IInv'
<1> USE DEF IInv, TypeOK, StreamInv, ReadOk, Decrypts, Frames
<1>1. Len(delivered[d]) < Len(log[d]) /\ log[d][Len(delivered[d]) + 1] = f.m
  OBVIOUS
<1>2. TypeOK'
  BY <1>1
<1>3. ASSUME NEW e \in Directions PROVE StreamInv(e)'
  <2>1. CASE e = d
    BY <1>1, <2>1
  <2>2. CASE e # d
    BY <2>2
  <2>3. QED
    BY <2>1, <2>2
<1>4. QED
  BY <1>2, <1>3

LEMMA FailureIInv ==
    ASSUME IInv, NEW d \in Directions, NEW f \in wire[d], NEW t \in BOOLEAN,
           ReadAuthFailure(d, f, t)
    PROVE  IInv'
BY DEF IInv, TypeOK, StreamInv, ReadAuthFailure

LEMMA IInvStep == IInv /\ [Next]_vars => IInv'
<1> SUFFICES ASSUME IInv, [Next]_vars PROVE IInv'
  OBVIOUS
<1>1. CASE UNCHANGED vars
  BY <1>1 DEF vars, IInv, TypeOK, StreamInv
<1>2. CASE Next
  BY <1>2, WriteIInv, ReadOkIInv, FailureIInv DEF Next
<1>3. QED
  BY <1>1, <1>2

(* The transport states keep their types in every behaviour of the code. *)
THEOREM TypeCorrect == Spec => []TypeOK
<1>1. IInv => TypeOK
  BY DEF IInv
<1>2. QED
  BY <1>1, InitIInv, IInvStep, PTL DEF Spec

(* Every step of write and read over the attacker's network is a step of  *)
(* the FIFO channel or leaves what it shows unchanged: a successful read  *)
(* is a Receive, a write is a Send, an AuthFailure is a stutter.          *)
LEMMA StepRefines == IInv /\ [Next]_vars => [Fifo!Next]_Fifo!vars
<1> SUFFICES ASSUME IInv, [Next]_vars PROVE [Fifo!Next]_Fifo!vars
  OBVIOUS
<1>1. CASE UNCHANGED vars
  BY <1>1 DEF vars, Fifo!vars
<1>2. ASSUME NEW d \in Directions, NEW m \in Payloads, Write(d, m)
      PROVE  Fifo!Send(d, m)
  BY <1>2 DEF Write, Fifo!Send
<1>3. ASSUME NEW d \in Directions, NEW f \in wire[d], ReadOk(d, f)
      PROVE  Fifo!Receive(d)
  BY <1>3 DEF ReadOk, Decrypts, Fifo!Receive, IInv, TypeOK, StreamInv, Frames
<1>4. ASSUME NEW d \in Directions, NEW f \in wire[d], NEW t \in BOOLEAN,
             ReadAuthFailure(d, f, t)
      PROVE  UNCHANGED Fifo!vars
  BY <1>4 DEF ReadAuthFailure, Fifo!vars
<1>5. QED
  BY <1>1, <1>2, <1>3, <1>4 DEF Next, Fifo!Next

(* NoiseTransport implements the FIFO channel: what read returns in each  *)
(* direction is always the sequence write was given, up to a prefix.      *)
THEOREM Refinement == Spec => FifoSafety
<1>1. Init => Fifo!Init
  BY DEF Init, Fifo!Init
<1>2. QED
  BY <1>1, InitIInv, IInvStep, StepRefines, PTL DEF Spec, FifoSafety, Fifo!Spec

=============================================================================
