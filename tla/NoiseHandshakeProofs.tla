------------------------ MODULE NoiseHandshakeProofs ------------------------
(***************************************************************************)
(* Proofs about NoiseHandshake for every set of initiators and responders, *)
(* every set of durations and every clock bound.                          *)
(***************************************************************************)
EXTENDS NoiseHandshake, TLAPS

-----------------------------------------------------------------------------
(* Every flight the attacker can put on the wire is well formed: a second *)
(* flight carries a certificate of the right shape, because the ones it    *)
(* copies come from typed flights and the ones it signs are typed.        *)
LEMMA WireTyped ==
    ASSUME TypeOK
    PROVE  \A m \in Wire :
              /\ m.type = "e" => m \in FlightE
              /\ m.type = "s" => m \in FlightS
<1> SUFFICES ASSUME NEW m \in Wire PROVE /\ m.type = "e" => m \in FlightE
                                         /\ m.type = "s" => m \in FlightS
    OBVIOUS
<1>1. KnownCerts \subseteq Certs
    <2>1. \A f \in net : f.type = "s" => f.cert \in Certs
        BY DEF TypeOK, FlightE, FlightS
    <2>2. [key : StaticKeys, signer : {AttackerAuth}, from : {0}, until : {MaxTime + 1}]
            \subseteq Certs
        BY ConstantsAssumption DEF Certs, Authorities
    <2>3. QED
        BY <2>1, <2>2 DEF KnownCerts
<1>2. SeenEphemerals \subseteq Ephemerals
    BY DEF TypeOK, SeenEphemerals, Ephemerals, FlightE, FlightS
<1>3. CASE m \in net
    BY <1>3 DEF TypeOK, FlightE, FlightS
<1>4. CASE m \in AttackerFlights
    BY <1>4, <1>1, <1>2 DEF AttackerFlights, FlightE, FlightS, Ephemerals, StaticKeys
<1>5. QED
    BY <1>3, <1>4 DEF Wire

-----------------------------------------------------------------------------
(* Every step of the handshake keeps the variables in their types.       *)
LEMMA TypeStep == TypeOK /\ [Next]_vars => TypeOK'
<1> SUFFICES ASSUME TypeOK, [Next]_vars PROVE TypeOK'
    OBVIOUS
<1>1. CASE Tick
    BY <1>1, ConstantsAssumption DEF Tick, TypeOK, Time
<1>2. ASSUME NEW r \in Responders, NEW d \in Durations, NEW t \in Time,
             NewResponder(r, d, t)
      PROVE  TypeOK'
    BY <1>2, ConstantsAssumption DEF NewResponder, TypeOK, Certs, Time, Authorities, StaticKeys
<1>3. ASSUME NEW i \in Initiators, InitiatorStep0(i) PROVE TypeOK'
    BY <1>3 DEF InitiatorStep0, TypeOK, FlightE, Ephemerals
<1>4. ASSUME NEW i \in Initiators, NEW m \in Wire,
             InitiatorStep1(i, m) \/ InitiatorStep1Rejected(i, m)
      PROVE  TypeOK'
    <2>1. m \in FlightS
        BY <1>4, WireTyped DEF InitiatorStep1, InitiatorStep1Rejected, InitiatorReads
    <2>2. QED
        BY <1>4, <2>1 DEF InitiatorStep1, InitiatorStep1Rejected, InitiatorReads, TypeOK, FlightS
<1>5. ASSUME NEW r \in Responders, NEW m \in Wire, ResponderStep0(r, m)
      PROVE  TypeOK'
    <2>1. m \in FlightE
        BY <1>5, WireTyped DEF ResponderStep0
    <2>2. QED
        BY <1>5, <2>1 DEF ResponderStep0, TypeOK, FlightE, FlightS, StaticKeys
<1>6. ASSUME NEW r \in Responders, ResponderStep1(r) PROVE TypeOK'
    BY <1>6 DEF ResponderStep1, TypeOK
<1>7. ASSUME NEW i \in Initiators, InitiatorIntoTransport(i) PROVE TypeOK'
    BY <1>7 DEF InitiatorIntoTransport, TypeOK
<1>8. ASSUME NEW r \in Responders, ResponderIntoTransport(r) PROVE TypeOK'
    BY <1>8 DEF ResponderIntoTransport, TypeOK
<1>9. CASE UNCHANGED vars
    BY <1>9 DEF vars, TypeOK
<1>10. QED
    BY <1>1, <1>2, <1>3, <1>4, <1>5, <1>6, <1>7, <1>8, <1>9 DEF Next

(* The variables keep their types in every reachable state.               *)
THEOREM TypeCorrect == Spec => []TypeOK
<1>1. Init => TypeOK
    BY ConstantsAssumption DEF Init, TypeOK, Time
<1>2. QED
    BY <1>1, TypeStep, PTL DEF Spec

-----------------------------------------------------------------------------
(* A second flight that passes the certificate check of an initiator      *)
(* configured with the honest authority was written by an honest          *)
(* responder: the attacker's flights carry its own static key, and no     *)
(* certificate it knows binds that key to the honest authority.           *)
LEMMA ForgedFlightRejected ==
    ASSUME TypeOK, FlightsAuthentic,
           NEW m \in Wire, NEW t,
           m.type = "s",
           CertValid(m.cert, m.static, HonestAuth, t)
    PROVE  m \in net
<1> SUFFICES ASSUME m \in AttackerFlights PROVE FALSE
    BY DEF Wire
<1>1. m.static = AttackerStatic /\ m.cert \in KnownCerts
    BY DEF AttackerFlights
<1>2. m.cert.signer = HonestAuth /\ m.cert.key = AttackerStatic
    BY <1>1 DEF CertValid
<1>3. CASE \E f \in net : f.type = "s" /\ m.cert = f.cert
    BY <1>2, <1>3, ConstantsAssumption DEF FlightsAuthentic
<1>4. CASE m.cert \in [key : StaticKeys, signer : {AttackerAuth}, from : {0}, until : {MaxTime + 1}]
    BY <1>2, <1>4, ConstantsAssumption
<1>5. QED
    BY <1>1, <1>3, <1>4 DEF KnownCerts

(* IInv holds initially.                                                  *)
LEMMA InitIInv == Init => IInv
BY ConstantsAssumption
   DEF Init, IInv, TypeOK, Time, ResponderFresh, ResponderCert, FlightsAuthentic, AuthenticPeer

(* Every step keeps IInv: one step per action, and under it one per       *)
(* conjunct the action can disturb.                                       *)
LEMMA IInvStep == IInv /\ [Next]_vars => IInv'
<1> SUFFICES ASSUME IInv, [Next]_vars PROVE IInv'
    OBVIOUS
<1> USE DEF IInv
<1>0. TypeOK'
    BY TypeStep
<1>1. CASE Tick
    BY <1>0, <1>1 DEF Tick, ResponderFresh, ResponderCert, FlightsAuthentic, AuthenticPeer
<1>2. ASSUME NEW r \in Responders, NEW d \in Durations, NEW t \in Time,
             NewResponder(r, d, t)
      PROVE  IInv'
    BY <1>0, <1>2 DEF NewResponder, ResponderFresh, ResponderCert, FlightsAuthentic, AuthenticPeer
<1>3. ASSUME NEW i \in Initiators, InitiatorStep0(i) PROVE IInv'
    BY <1>0, <1>3 DEF InitiatorStep0, ResponderFresh, ResponderCert, FlightsAuthentic, AuthenticPeer
<1>4. ASSUME NEW i \in Initiators, NEW m \in Wire, InitiatorStep1(i, m) PROVE IInv'
    <2>1. AuthenticPeer'
        <3>1. iauth[i] = HonestAuth => m.static \in Responders /\ reph[m.static] = i
            <4>1. iauth[i] = HonestAuth => m \in net
                BY <1>4, ForgedFlightRejected DEF InitiatorStep1, InitiatorReads
            <4>2. QED
                BY <1>4, <4>1 DEF InitiatorStep1, InitiatorReads, FlightsAuthentic
        <3>2. QED
            BY <1>4, <3>1 DEF InitiatorStep1, InitiatorReads, AuthenticPeer, TypeOK
    <2>2. QED
        BY <1>0, <1>4, <2>1 DEF InitiatorStep1, InitiatorReads, ResponderFresh, ResponderCert,
                                FlightsAuthentic
<1>5. ASSUME NEW i \in Initiators, NEW m \in Wire, InitiatorStep1Rejected(i, m) PROVE IInv'
    BY <1>0, <1>5 DEF InitiatorStep1Rejected, InitiatorReads, ResponderFresh, ResponderCert,
                      FlightsAuthentic, AuthenticPeer, TypeOK
<1>6. ASSUME NEW r \in Responders, NEW m \in Wire, ResponderStep0(r, m) PROVE IInv'
    <2>1. ResponderFresh'
        BY <1>6 DEF ResponderStep0, ResponderFresh, TypeOK
    <2>2. ResponderCert'
        BY <1>6 DEF ResponderStep0, ResponderCert
    <2>3. FlightsAuthentic'
        BY <1>6 DEF ResponderStep0, ResponderFresh, ResponderCert, FlightsAuthentic, TypeOK
    <2>4. AuthenticPeer'
        BY <1>6, ConstantsAssumption DEF ResponderStep0, ResponderFresh, AuthenticPeer, TypeOK
    <2>5. QED
        BY <1>0, <2>1, <2>2, <2>3, <2>4
<1>7. ASSUME NEW r \in Responders, ResponderStep1(r) PROVE IInv'
    BY <1>0, <1>7 DEF ResponderStep1, ResponderFresh, ResponderCert, FlightsAuthentic,
                      AuthenticPeer, TypeOK
<1>8. ASSUME NEW i \in Initiators, InitiatorIntoTransport(i) PROVE IInv'
    BY <1>0, <1>8 DEF InitiatorIntoTransport, ResponderFresh, ResponderCert, FlightsAuthentic,
                      AuthenticPeer
<1>9. ASSUME NEW r \in Responders, ResponderIntoTransport(r) PROVE IInv'
    BY <1>0, <1>9 DEF ResponderIntoTransport, ResponderFresh, ResponderCert, FlightsAuthentic,
                      AuthenticPeer
<1>10. CASE UNCHANGED vars
    BY <1>10 DEF vars, TypeOK, ResponderFresh, ResponderCert, FlightsAuthentic, AuthenticPeer
<1>11. QED
    BY <1>1, <1>2, <1>3, <1>4, <1>5, <1>6, <1>7, <1>8, <1>9, <1>10 DEF Next

(* The inductive invariant itself (IInv, checked by handshake_auth): in    *)
(* every reachable state a responder that has not answered has read no    *)
(* ephemeral and written no flight; the certificate from_authority_kp      *)
(* built binds the responder's own key under the honest authority; every  *)
(* second flight on the network is a responder's answer to the ephemeral  *)
(* it read, and an honest certificate in it binds a responder's key; and  *)
(* AuthenticPeer holds.                                                   *)
THEOREM InductiveInvariant == Spec => []IInv
BY InitIInv, IInvStep, PTL DEF Spec

(* Authentication of the responder (AuthenticPeer, checked by the run     *)
(* handshake_auth): for every number of initiators and responders, an      *)
(* initiator configured with the honest authority whose step returned     *)
(* Done talks to an honest responder that answered its ephemeral key.     *)
THEOREM Authentication == Spec => []AuthenticPeer
<1>1. IInv => AuthenticPeer
    BY DEF IInv
<1>2. QED
    BY InitIInv, IInvStep, <1>1, PTL DEF Spec

=============================================================================
