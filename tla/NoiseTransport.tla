--------------------------- MODULE NoiseTransport ---------------------------
(***************************************************************************)
(* TransportMode of noise-sv2 (src/protocols/v2/noise-sv2/src/lib.rs),    *)
(* the pair of transport states an initiator and a responder obtain from  *)
(* into_transport_mode, used over a network an attacker controls.         *)
(*                                                                         *)
(* Each direction d has a writer (write: snow's write_message under the   *)
(* send nonce wn[d]) and a reader (read: snow's read_message under the    *)
(* receive nonce rn[d]).  A frame is abstracted to its nonce and its      *)
(* plaintext: the AEAD tag binds both, so a frame decrypts exactly when   *)
(* it is untouched and was written under the nonce the reader expects.    *)
(* The attacker may deliver any frame of the direction, as often and in   *)
(* whatever order it likes, and may flip bits of any of them.  snow's     *)
(* CipherState advances the receive nonce only on success (section 5 of   *)
(* the specification: once per successful frame).                        *)
(***************************************************************************)
EXTENDS Naturals, Sequences

CONSTANTS
    Directions,   \* the two directions of a session
    Payloads,     \* plaintexts, abstract
    MaxFrames     \* bound on the frames written per direction

ASSUME TransportAssumption == MaxFrames \in Nat

Frames == [n : Nat, m : Payloads]

VARIABLES
    wn,         \* wn[d]: send nonce of the writer of direction d
    rn,         \* rn[d]: receive nonce of the reader of direction d
    wire,       \* wire[d]: the frames of direction d the attacker has seen
    log,        \* log[d]: history, the plaintexts written, in order
    delivered,  \* delivered[d]: history, the plaintexts read back, in order
    failed      \* failed[d]: history, some read of direction d returned Err

vars == <<wn, rn, wire, log, delivered, failed>>

TypeOK ==
    /\ wn \in [Directions -> Nat]
    /\ rn \in [Directions -> Nat]
    /\ wire \in [Directions -> SUBSET Frames]
    /\ log \in [Directions -> Seq(Payloads)]
    /\ delivered \in [Directions -> Seq(Payloads)]
    /\ failed \in [Directions -> BOOLEAN]

\* TransportMode::new on the state into_transport_mode returned: both
\* nonces of a fresh transport state are 0.
Init ==
    /\ wn = [d \in Directions |-> 0]
    /\ rn = [d \in Directions |-> 0]
    /\ wire = [d \in Directions |-> {}]
    /\ log = [d \in Directions |-> <<>>]
    /\ delivered = [d \in Directions |-> <<>>]
    /\ failed = [d \in Directions |-> FALSE]

\* write: encrypt m under the send nonce, which advances; the frame goes
\* on the wire.
Write(d, m) ==
    /\ Len(log[d]) < MaxFrames
    /\ wire' = [wire EXCEPT ![d] = @ \cup {[n |-> wn[d], m |-> m]}]
    /\ wn' = [wn EXCEPT ![d] = @ + 1]
    /\ log' = [log EXCEPT ![d] = Append(@, m)]
    /\ UNCHANGED <<rn, delivered, failed>>

\* read_message authenticates frame f, possibly tampered with, under the
\* receive nonce.
Decrypts(d, f, tampered) == ~tampered /\ f.n = rn[d]

\* Mutant: the reader accepts any untampered frame, whatever its nonce.
ReadOkAnyNonce(d, f) ==
    /\ delivered' = [delivered EXCEPT ![d] = Append(@, f.m)]
    /\ rn' = [rn EXCEPT ![d] = @ + 1]
    /\ UNCHANGED <<wn, wire, log, failed>>

\* read returns Ok(()): the plaintext is handed to the caller and the
\* receive nonce advances.
ReadOk(d, f) ==
    /\ Decrypts(d, f, FALSE)
    /\ delivered' = [delivered EXCEPT ![d] = Append(@, f.m)]
    /\ rn' = [rn EXCEPT ![d] = @ + 1]
    /\ UNCHANGED <<wn, wire, log, failed>>

\* read maps snow's error to Err(Error {}); TransportMode keeps its inner
\* state and records nothing of the failure.
ReadAuthFailure(d, f, tampered) ==
    /\ ~Decrypts(d, f, tampered)
    /\ failed' = [failed EXCEPT ![d] = TRUE]
    /\ UNCHANGED <<wn, rn, wire, log, delivered>>

Next ==
    \E d \in Directions :
        \/ \E m \in Payloads : Write(d, m)
        \/ \E f \in wire[d] :
              \/ ReadOk(d, f)
              \/ \E tampered \in BOOLEAN : ReadAuthFailure(d, f, tampered)

Spec == Init /\ [][Next]_vars

-----------------------------------------------------------------------------
Fifo == INSTANCE FifoChannel WITH sent <- log, recvd <- delivered

(* Property 2 of the specification against an active attacker: whatever  *)
(* frames the attacker replays, reorders or tampers with, what read hands *)
(* its caller in each direction is, at every moment, a prefix of what     *)
(* write was given: in order, without gaps or repeats.  The transport     *)
(* states implement the FIFO channel.                                     *)
FifoSafety == Fifo!Spec

(* Scenario S4 of the specification: after a tampered frame fails with    *)
(* AuthFailure the transport state is poisoned, so no later read of that *)
(* direction succeeds.  TransportMode::read keeps using its inner state. *)
PoisonedAfterAuthFailure ==
    [][\A d \in Directions : failed[d] => delivered'[d] = delivered[d]]_vars

=============================================================================
