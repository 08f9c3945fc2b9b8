--------------------------- MODULE NoiseHandshake ---------------------------
(***************************************************************************)
(* The Noise NX handshake of noise-sv2 (src/protocols/v2/noise-sv2/src/     *)
(* lib.rs): the Initiator and Responder step machines, the certificate     *)
(* the responder carries, and an active attacker on the wire.              *)
(*                                                                         *)
(* Cryptography is abstract.  The initiator's ephemeral key is the         *)
(* initiator itself; a responder's static key is the responder itself.    *)
(* The responder's flight  <- e, ee, s, es, SIG  is a record bound to the  *)
(* ephemeral it answers (the ee/es DH): snow's read_message succeeds only  *)
(* for a flight built for the reader's ephemeral.  A certificate is the   *)
(* record of what its Ed25519 signature binds: the static key, the         *)
(* signing authority and the validity window.                             *)
(*                                                                         *)
(* snow restores its symmetric state when read_message fails, so a failed *)
(* read is a step that changes nothing and is not an action here.         *)
(***************************************************************************)
EXTENDS Naturals

CONSTANTS
    Initiators,     \* Initiator instances (one handshake each)
    Responders,     \* Responder instances; each has its own static key
    HonestAuth,     \* the pool's certificate authority
    AttackerAuth,   \* an authority whose private key the attacker holds
    AttackerStatic, \* a static key pair the attacker holds
    AttackerEph,    \* an ephemeral key pair the attacker holds
    Durations,      \* certificate durations a responder may be given
    MaxTime,        \* the last instant of the modelled clock
    None

ASSUME ConstantsAssumption ==
    /\ HonestAuth # AttackerAuth
    /\ AttackerStatic \notin Responders
    /\ AttackerEph \notin Initiators
    /\ Durations \subseteq Nat
    /\ MaxTime \in Nat
    /\ None \notin Initiators \cup Responders \cup {AttackerStatic, AttackerEph}

Authorities == {HonestAuth, AttackerAuth}
StaticKeys  == Responders \cup {AttackerStatic}
Ephemerals  == Initiators \cup {AttackerEph}
Time        == 0 .. MaxTime

\* SignatureNoiseMessage: what the signature over header || static ||
\* authority binds (auth.rs, modelled from the spec, section 4.3).
Certs == [key : StaticKeys, signer : Authorities, from : Nat, until : Nat]

\* First flight  -> e  and second flight  <- e, ee, s, es, SIG.
FlightE == [type : {"e"}, eph : Ephemerals]
FlightS == [type : {"s"}, eph : Ephemerals, static : StaticKeys, cert : Certs]

VARIABLES
    now,      \* the clock SignedPartHeader reads (seconds since epoch)
    istage,   \* Initiator.stage
    isnow,    \* pattern position of the initiator's snow HandshakeState
    iauth,    \* Initiator.authority_public_key
    ipeer,    \* the remote static key snow recorded for the initiator
    itrans,   \* the initiator was turned into a transport state
    rstage,   \* Responder.stage
    rsnow,    \* pattern position of the responder's snow HandshakeState
    rcert,    \* Responder.signature_noise_message (None: not built yet)
    reph,     \* the remote ephemeral the responder's snow state read
    rtrans,   \* the responder was turned into a transport state
    net       \* the flights honest parties have put on the wire

vars == <<now, istage, isnow, iauth, ipeer, itrans,
          rstage, rsnow, rcert, reph, rtrans, net>>

-----------------------------------------------------------------------------
(* The attacker sees every flight and can build its own: a first flight   *)
(* from its ephemeral, and a second flight for any ephemeral it has seen,  *)
(* carrying its own static key and any certificate it knows: one from the *)
(* wire, or one it signs with its authority.                              *)
SeenEphemerals == {m.eph : m \in {f \in net : f.type = "e"}} \cup {AttackerEph}

KnownCerts ==
    {m.cert : m \in {f \in net : f.type = "s"}}
      \cup [key : StaticKeys, signer : {AttackerAuth}, from : {0}, until : {MaxTime + 1}]

AttackerFlights ==
    {[type |-> "e", eph |-> AttackerEph]}
      \cup [type : {"s"}, eph : SeenEphemerals, static : {AttackerStatic}, cert : KnownCerts]

Wire == net \cup AttackerFlights

\* Certificate::validate (auth.rs, modelled from the spec, section 4.3): the
\* signature verifies under the configured authority over the peer's static
\* key, and  valid_from <= now < not_valid_after.
CertValid(c, remoteStatic, authority, t) ==
    /\ c.signer = authority
    /\ c.key = remoteStatic
    /\ c.from <= t
    /\ t < c.until

-----------------------------------------------------------------------------
TypeOK ==
    /\ now \in Time
    /\ istage \in [Initiators -> 0 .. 2]
    /\ isnow \in [Initiators -> 0 .. 2]
    /\ iauth \in [Initiators -> Authorities]
    /\ ipeer \in [Initiators -> StaticKeys \cup {None}]
    /\ itrans \in [Initiators -> BOOLEAN]
    /\ rstage \in [Responders -> 0 .. 2]
    /\ rsnow \in [Responders -> 0 .. 2]
    /\ rcert \in [Responders -> Certs \cup {None}]
    /\ reph \in [Responders -> Ephemerals \cup {None}]
    /\ rtrans \in [Responders -> BOOLEAN]
    /\ net \subseteq FlightE \cup FlightS

\* Initiator::new: every initiator is configured with some authority key.
Init ==
    /\ now = 0
    /\ istage = [i \in Initiators |-> 0]
    /\ isnow = [i \in Initiators |-> 0]
    /\ iauth \in [Initiators -> Authorities]
    /\ ipeer = [i \in Initiators |-> None]
    /\ itrans = [i \in Initiators |-> FALSE]
    /\ rstage = [r \in Responders |-> 0]
    /\ rsnow = [r \in Responders |-> 0]
    /\ rcert = [r \in Responders |-> None]
    /\ reph = [r \in Responders |-> None]
    /\ rtrans = [r \in Responders |-> FALSE]
    /\ net = {}

-----------------------------------------------------------------------------
\* The clock advances.
Tick ==
    /\ now < MaxTime
    /\ now' = now + 1
    /\ UNCHANGED <<istage, isnow, iauth, ipeer, itrans,
                   rstage, rsnow, rcert, reph, rtrans, net>>

\* Mutant: the certificate is issued for a static key other than the one the
\* responder's snow state uses.
NewResponderWrongKey(r, d, t) ==
    /\ rcert[r] = None
    /\ rcert' = [rcert EXCEPT ![r] =
                   [key |-> CHOOSE k \in StaticKeys : k # r, signer |-> HonestAuth,
                    from |-> t, until |-> t + d]]
    /\ UNCHANGED <<now, istage, isnow, iauth, ipeer, itrans,
                   rstage, rsnow, reph, rtrans, net>>

\* Responder::from_authority_kp / Responder::new: the responder gets a fresh
\* static key and a certificate the honest authority issued for it at some
\* instant t <= now (Authority::new_cert: valid_from = t,
\* not_valid_after = t + duration).
NewResponder(r, d, t) ==
    /\ rcert[r] = None
    /\ rcert' = [rcert EXCEPT ![r] =
                   [key |-> r, signer |-> HonestAuth, from |-> t, until |-> t + d]]
    /\ UNCHANGED <<now, istage, isnow, iauth, ipeer, itrans,
                   rstage, rsnow, reph, rtrans, net>>

\* Initiator::step at stage 0: write  -> e  and expect a reply.
InitiatorStep0(i) ==
    /\ ~itrans[i]
    /\ istage[i] = 0
    /\ isnow' = [isnow EXCEPT ![i] = 1]
    /\ istage' = [istage EXCEPT ![i] = 1]
    /\ net' = net \cup {[type |-> "e", eph |-> i]}
    /\ UNCHANGED <<now, iauth, ipeer, itrans, rstage, rsnow, rcert, reph, rtrans>>

\* Initiator::step at stage 1 with Some(msg): snow reads the flight (its
\* pattern is then complete and the remote static key recorded), then
\* verify_remote_static_key_signature checks the certificate.
InitiatorReads(i, m) ==
    /\ ~itrans[i]
    /\ istage[i] = 1
    /\ isnow[i] = 1
    /\ m.type = "s"
    /\ m.eph = i
    /\ isnow' = [isnow EXCEPT ![i] = 2]
    /\ ipeer' = [ipeer EXCEPT ![i] = m.static]

\* Mutant: the step returns Done without validating the certificate.
InitiatorStep1NoValidate(i, m) ==
    /\ InitiatorReads(i, m)
    /\ istage' = [istage EXCEPT ![i] = 2]
    /\ UNCHANGED <<now, iauth, itrans, rstage, rsnow, rcert, reph, rtrans, net>>

\* The certificate verifies: stage += 1 and the step returns Done.
InitiatorStep1(i, m) ==
    /\ InitiatorReads(i, m)
    /\ CertValid(m.cert, m.static, iauth[i], now)
    /\ istage' = [istage EXCEPT ![i] = 2]
    /\ UNCHANGED <<now, iauth, itrans, rstage, rsnow, rcert, reph, rtrans, net>>

\* The certificate does not verify: `?` returns the error before
\* `self.stage += 1`, but snow's state has already consumed the flight.
InitiatorStep1Rejected(i, m) ==
    /\ InitiatorReads(i, m)
    /\ ~CertValid(m.cert, m.static, iauth[i], now)
    /\ UNCHANGED <<now, istage, iauth, itrans, rstage, rsnow, rcert, reph, rtrans, net>>

\* Responder::step at stage 0: read  -> e , write  <- e, ee, s, es, SIG.
ResponderStep0(r, m) ==
    /\ ~rtrans[r]
    /\ rcert[r] # None
    /\ rstage[r] = 0
    /\ rsnow[r] = 0
    /\ m.type = "e"
    /\ rsnow' = [rsnow EXCEPT ![r] = 2]
    /\ reph' = [reph EXCEPT ![r] = m.eph]
    /\ rstage' = [rstage EXCEPT ![r] = 1]
    /\ net' = net \cup {[type |-> "s", eph |-> m.eph, static |-> r, cert |-> rcert[r]]}
    /\ UNCHANGED <<now, istage, isnow, iauth, ipeer, itrans, rcert, rtrans>>

\* Mutant: the  _ => return Err  arm is missing, so every later call
\* returns Done and increments the stage.
ResponderStep1Unguarded(r) ==
    /\ ~rtrans[r]
    /\ rstage[r] >= 1
    /\ rstage' = [rstage EXCEPT ![r] = rstage[r] + 1]
    /\ UNCHANGED <<now, istage, isnow, iauth, ipeer, itrans,
                   rsnow, rcert, reph, rtrans, net>>

\* Responder::step at stage 1: Done.
ResponderStep1(r) ==
    /\ ~rtrans[r]
    /\ rstage[r] = 1
    /\ rstage' = [rstage EXCEPT ![r] = 2]
    /\ UNCHANGED <<now, istage, isnow, iauth, ipeer, itrans,
                   rsnow, rcert, reph, rtrans, net>>

\* into_handshake_state().into_transport_mode(): snow converts a handshake
\* state whose pattern is complete, whatever the Initiator's stage.
InitiatorIntoTransport(i) ==
    /\ ~itrans[i]
    /\ isnow[i] = 2
    /\ itrans' = [itrans EXCEPT ![i] = TRUE]
    /\ UNCHANGED <<now, istage, isnow, iauth, ipeer,
                   rstage, rsnow, rcert, reph, rtrans, net>>

ResponderIntoTransport(r) ==
    /\ ~rtrans[r]
    /\ rsnow[r] = 2
    /\ rtrans' = [rtrans EXCEPT ![r] = TRUE]
    /\ UNCHANGED <<now, istage, isnow, iauth, ipeer, itrans,
                   rstage, rsnow, rcert, reph, net>>

Next ==
    \/ Tick
    \/ \E r \in Responders, d \in Durations, t \in Time :
          t <= now /\ NewResponder(r, d, t)
    \/ \E i \in Initiators : InitiatorStep0(i)
    \/ \E i \in Initiators, m \in Wire : InitiatorStep1(i, m)
    \/ \E i \in Initiators, m \in Wire : InitiatorStep1Rejected(i, m)
    \/ \E r \in Responders, m \in Wire : ResponderStep0(r, m)
    \/ \E r \in Responders : ResponderStep1(r)
    \/ \E i \in Initiators : InitiatorIntoTransport(i)
    \/ \E r \in Responders : ResponderIntoTransport(r)

Spec == Init /\ [][Next]_vars

-----------------------------------------------------------------------------
(* Authentication of the responder (the purpose of the certificate, spec   *)
(* sections 4.2 and 4.3): an initiator configured with the honest          *)
(* authority whose step returned Done has, as its peer, an honest          *)
(* responder, and that responder answered this initiator's ephemeral key. *)
AuthenticPeer ==
    \A i \in Initiators :
        (istage[i] = 2 /\ iauth[i] = HonestAuth) =>
            /\ ipeer[i] \in Responders
            /\ reph[ipeer[i]] = i

(* The same for the transport state: an initiator configured with the      *)
(* honest authority that holds a transport state (into_handshake_state,    *)
(* into_transport_mode) talks to an honest responder that answered it.    *)
AuthenticTransport ==
    \A i \in Initiators :
        (itrans[i] /\ iauth[i] = HonestAuth) =>
            /\ ipeer[i] \in Responders
            /\ reph[ipeer[i]] = i

-----------------------------------------------------------------------------
(* The inductive strengthening of AuthenticPeer, checked by TLC and proved *)
(* in NoiseHandshakeProofs.  A responder that has not stepped has read no  *)
(* ephemeral and sent no flight; a built responder's certificate is the    *)
(* honest authority's and names the responder's own static key; every      *)
(* second flight on the wire was written by the responder whose static key *)
(* it carries, for the ephemeral that responder read, and a certificate of *)
(* the honest authority on the wire names an honest responder.  Without    *)
(* these, a forged flight could carry a replayed honest certificate.       *)
ResponderFresh ==
    \A r \in Responders :
        rstage[r] = 0 =>
            /\ reph[r] = None
            /\ \A m \in net : m.type = "s" => m.static # r

ResponderCert ==
    \A r \in Responders :
        rcert[r] # None => rcert[r].key = r /\ rcert[r].signer = HonestAuth

FlightsAuthentic ==
    \A m \in net :
        m.type = "s" =>
            /\ m.static \in Responders
            /\ reph[m.static] = m.eph
            /\ m.cert.signer = HonestAuth => m.cert.key \in Responders

IInv ==
    /\ TypeOK
    /\ ResponderFresh
    /\ ResponderCert
    /\ FlightsAuthentic
    /\ AuthenticPeer

=============================================================================
