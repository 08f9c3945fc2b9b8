# TLA+ models of stratum (noise-sv2, roles-logic-sv2, mining-proxy)

This directory has TLA+ models of the Rust sources under `src/`. The models are checked with TLC on small instances, and some of their properties are proved with TLAPS for every instance. `PROJECT.json` lists:
- the components;
- the runs, with the properties each one checks;
- one mutant per checked property;
- the source lines behind every definition (`map`);
- the findings;
- the hazards;
- the theorems.

## The system and how its parts interact

| Part | Source | What it does |
|---|---|---|
| Noise NX handshake | `src/protocols/v2/noise-sv2/src/lib.rs` | `Initiator` (downstream) and `Responder` (upstream) are step machines over snow's `HandshakeState`. The responder's second flight carries a `SignatureNoiseMessage`: a certificate, signed by an authority, over the responder's static key. The initiator checks it against the authority key it was configured with. Both sides then turn their state into a `TransportMode`. |
| Noise transport | `lib.rs`, `TransportMode` | `new` wraps the transport state a handshake produced. `write` and `read` call snow's `write_message` and `read_message`, under a send nonce and a receive nonce per direction. `read` maps any failure to `Err(Error {})`. |
| Certificates | `auth.rs` (not under src) | `Certificate::validate`: the signature verifies under the configured authority over the remote static key, and `valid_from <= now < not_valid_after`. |
| Mining parsers | `src/protocols/v2/roles-logic-sv2/src/handlers/mining.rs` | `handle_message_mining` in both directions. It decodes a message, may consult the routing logic, and calls the implementor's handler or returns `UnexpectedMessage`. Which happens depends on the connection's channel type and work-selection flag. |
| Proxy sessions | `src/roles/v2/mining-proxy/src/lib/downstream_mining.rs` | One `DownstreamMiningNode` per downstream connection, behind a `Mutex`, with its own task. It handles the set-up, relays channel openings to an upstream picked by the routing logic, and translates shares through the upstream's per-group job dispatcher. |
| Upstream side, routing logic, job dispatcher | not under src | Modelled from sections 4.4 and 4.5 of the specification as far as the sessions use them. |

A downstream task calls the parser while it holds its session lock. The handler then takes the upstream's lock, which every session relaying to that upstream shares. That shared lock is how one session can affect another.

## Modules

- **NoiseHandshake**: the handshake against an active attacker.
  - Variables:
    - `istage`, `rstage`: the code's `stage` fields.
    - `isnow`, `rsnow`: the position in snow's handshake pattern.
    - `ipeer`: the remote static key snow recorded.
    - `rcert`: the responder's `signature_noise_message`.
    - `reph`: the ephemeral the responder read.
    - `itrans`, `rtrans`: whether each side was turned into a transport state.
    - `now`: the clock.
    - `net`: the honest flights.
  - One action per arm of `Initiator::step` and `Responder::step`, per `into_handshake_state().into_transport_mode()` and per `Responder::from_authority_kp`. A failed `read_message` is not an action, because snow restores its state when a read fails.
  - `InitiatorStep1` and `InitiatorStep1Rejected` are the two outcomes of `verify_remote_static_key_signature`. They share snow's read (`InitiatorReads`).
  - The attacker holds its own authority, static key and ephemeral. It can send any flight built from what it has seen (`AttackerFlights`). Its knowledge is derived from `net` rather than stored.
- **NoiseHandshakeProofs**: the TLAPS proofs.
- **FifoChannel**: the abstract specification of a session's transport. In each direction the receiver obtains the sent messages in order, each once.
- **NoiseTransport**: both directions of a session's `TransportMode`.
  - Variables: `wn` and `rn` are the send and receive nonces. `wire` holds the frames of each direction the attacker has seen. `log`, `delivered` and `failed` are history.
  - A frame is its nonce and its plaintext. It decrypts exactly when it is untouched and carries the nonce the reader expects; that is what the AEAD tag enforces.
  - `Write` is `write`. `ReadOk` and `ReadAuthFailure` are the two outcomes of `read`. The attacker may hand the reader any frame of the direction, as often as it likes, tampered or not.
  - The receive nonce advances only on success. That is section 5 of the specification; snow's own source is not in the repository.
  - `Fifo == INSTANCE FifoChannel WITH sent <- log, recvd <- delivered` is the refinement mapping.
  - **MC_NoiseTransport** instantiates it for TLC, and **NoiseTransportProofs** holds its proofs.
- **MiningParsers**: both parsers.
  - The match arms are the tables `DownArms` and `UpArms`, and `Dispatch` is the order of the code's checks.
  - The specification's tables 1 and 2 are written separately, row by row (`Table1`, `Table2`), as the reference.
  - A step is one call to `handle_message_mining` on any message in either direction. The step also covers a routing logic that fails.
- **MiningProxy**: the sessions, with the shared upstream tables and Mutex poisoning.
  - It uses MiningParsers through `INSTANCE`, fixed to the proxy's channel type `Group` and no work selection.
  - `worst` is a history variable: the most severe error, in the terms of section 7, that the session's own messages caused.
  - `downClosed` and `upClosed` say whether each peer's connection is closed. The environment closes them at any moment (`DownstreamCloses`, `UpstreamCloses`).
  - `RecvFails` is the unwrap of `recv()` on a closed connection: at line 326 for the first frame, and in `start`'s loop at line 130.
  - A send to a closed peer ends the session: `todo!("172")` for the downstream (`PeerGone`), the `unwrap` of `UpstreamMiningNode::send` at lines 155-168 for the upstream (`SendUpFails`). `ShareAnswered` is next's match on the share's `SendTo`.
  - These panics come after the sender was cloned out of `safe_lock`, so they poison no Mutex. A closed peer counts as the session's terminal `PeerClosed` (section 7). A send that fails because the proxy's task for the upstream ended, which is another session's doing, records no error of the session.
  - `sessPoisoned` says a session's own Mutex is poisoned. That happens when a `todo!()` panics inside `self_mutex.safe_lock` (mining.rs lines 104-128): in the share handler's lookups, under the upstream's lock, or in `handle_update_channel` (`PoisonSession`).
  - `upDead` says the proxy's task serving an upstream has panicked. `DownstreamMiningNode::send` (lines 186-199) runs in its caller's task. When the upstream's task takes the lock of a session whose Mutex is poisoned (the `unwrap` at 192), or forwards a job to a closed one (`todo!("172")`), that task ends (`UpstreamRelayFails`). It also ends when it takes its own poisoned Mutex (`UpstreamLocksPoisoned`, modelled from the specification).
  - An ended task handles nothing more: `OpenChannelSuccess`, `NewJob` and the upstream's failures require `UpAlive`. Whether its sender is closed is in `upstream_mining.rs`, which is not under src. So a session's send to it may fail (`SendUpFails`) or succeed and stay unanswered (`UpSendOk` only requires the connection to be open).
  - `OpenChannelSuccess` is the upstream's answer to an opened channel, modelled from section 4.5. It takes the session's lock and calls `add_channel`, which looks at neither the session's status nor its connection. Then it forwards the success, and a closed downstream ends the upstream's task on that same step. A poisoned session lock fails before the add (`UpstreamRelayFails`). Whether `UpstreamMiningNode::send` itself takes the upstream's lock (a poisoned one would then panic the session's send) is not known from src. The model lets such a send succeed.
  - **SessionLifecycle** is the abstract lifecycle of a session, from sections 3 and 7 of the specification. A session goes Initializing → Paired (`Pair`) and gets channels only while paired (`OpenChannel`). It ends once (`End`) and reports an error fixed at that step, terminal if it never paired. `LifecycleSafety` says MiningProxy implements it under `channels <- OpenChannels`, the ids `channel_id_to_group_id` maps. It does not: see proxy_lifecycle.
  - **MiningProxyProofs** proves `ChannelIndexSound`, `CascadesHaveOrigin`, and that only Dead sessions are poisoned.
  - **MC_MiningProxy** instantiates it for TLC.
- **MiningParsersProofs**: the proof of `DispatchFollowsTables`.
- **MC_NoiseHandshake**: the TLC instance of NoiseHandshake.

## Runs

| Run | Expect | What it shows |
|---|---|---|
| handshake_auth | pass | Two initiators, two responders, durations {0, 1} and clock 0..2. `AuthenticPeer`: an initiator that is configured with the honest authority and returned Done has an honest responder as its peer, and that responder read this initiator's ephemeral. |
| handshake_transport | violation | `AuthenticTransport` fails. The initiator reads a forged flight and the certificate check fails. `stage` stays 1, but snow's state is complete, and `into_handshake_state` still hands it to `into_transport_mode`. |
| parser_tables | pass | `DispatchFollowsTables`: for all 4 channel types × work selection × routing logic, a handler is called exactly for the messages the tables admit. The exception is a routing-logic error. |
| parser_routing | violation | `RejectedNeverRouted` fails. With channel type Extended, an `OpenStandardMiningChannel` is routed before it is refused. |
| proxy_isolation | violation | `WellBehavedSurvive` fails. Session s1's share names a job announced by u2, which has no dispatcher for s1's group, so the `todo!()` inside `remote.safe_lock` poisons u2. Session s2's valid share then panics on the unwrap of its own `safe_lock`. |
| transport_fifo | pass | Both directions, two plaintexts and three frames each. The attacker replays, reorders and tampers at will. `FifoSafety`: the transport implements `FifoChannel!Spec`, so what `read` returns is always an in-order, gap-free prefix of what was written. |
| transport_poison | violation | `PoisonedAfterAuthFailure` (scenario S4) fails. A tampered frame returns `Err`, and then the untouched frame decrypts and is handed to the caller. `TransportMode` keeps no trace of the failure. |
| proxy_cascade | pass | Two sessions and two upstreams, one channel id, two group ids, and no bound on closures, ended upstream tasks or poisoning. `ChannelIndexSound`: a channel that `channel_id_to_group_id` maps to a group is in that group's list, also when both upstreams assign the same channel id to one session. `CascadesHaveOrigin`: A session that dies without an error of its own died on a poisoned upstream lock or on a send to an ended upstream task. An upstream is poisoned only by a session that died of a semantic error under its lock. An upstream's task ends only on its own poisoned lock, or on a session that is poisoned or whose downstream closed. So every cross-session teardown starts at some session's semantic failure or some closed connection. |
| proxy_lifecycle | violation | `LifecycleSafety` fails. Session s1 opens a channel on u1, and its next message ends its task (`todo!("149")` on a routing error). u1's answer still calls `add_channel`, and the ended session gets a channel. |
| proxy_crossrelay | violation | `ShareGoesToChannelUpstream` fails. Session s1 opens c1 on u1 and c2 on u2, and both upstreams choose group g1. u2 announces job j1. A share on c1 for j1 finds u2 through `upstream_from_job_id`, and u2's dispatcher for g1. It is relayed to u2, which never assigned c1. |
| proxy_upstream | violation | `UpstreamOutlivesSessions` fails. Session s1 opens a channel on u1, then sends `UpdateChannel`, whose `todo!()` panics under s1's lock and poisons it. When u1's task forwards the channel's success to s1, `send` panics in u1's task. u1 is lost for every session, against "a peer outlives every session that references it" (section 3). |
| proxy_errors | violation | `SemanticErrorsReturned` fails. `UnexpectedMessage`, an unknown channel and an unknown job all end the session through `todo!()`. |

**Bounds.** The handshake run uses two initiators and two responders, so that a flight or certificate of one session can be replayed into another. Durations {0, 1} with a clock of 3 instants cover certificates that are already expired, still valid, and that expire mid-run. The proxy runs use two sessions and two upstreams, the fewest with which a failure can cross sessions and a job can come from another upstream than the channel's. Two group ids allow a group collision or a channel moving group across upstreams. One job id is enough for an announcement to move between upstreams. Symmetry is declared over initiators, responders, sessions and upstreams; each set is interchangeable in the model. Symmetry over channel ids and group ids is declared in the share runs too: the model never names a particular id. The violation runs let at most one connection close or one upstream's task end (`MCOneClosure`), and proxy_lifecycle and proxy_crossrelay also keep every upstream's task alive (`MCShareBound`); their counterexamples need no more. proxy_cascade has no such bound: any number of connections may close and upstream tasks end, so a failure can spread through a chain of both. It uses a single channel id, which both upstreams may assign to one session (the id collision of `add_channel`'s insert), and two group ids. A second channel id makes the unbounded run too large; the cross-relay run covers two channels on one session. The transport run has three frames per direction, so the attacker can deliver frame 2 before frame 1 and replay frame 0 after it was read. Two plaintexts make a wrong frame observable.

**Deadlock.** Deadlock checking is off in the handshake and proxy runs. A handshake really ends, and a proxy whose sessions have all died or finished has nothing left to do.

**Deadlock, transport.** Deadlock is checked in transport_fifo. A reader can always be handed a frame once one exists, and a writer can write until the bound.

**Fairness.** No run checks a liveness property, so no specification assumes fairness. The two liveness properties stated earlier were dropped: each followed from the weak fairness of a single action, and that fairness was the whole argument.

## Proofs

### NoiseHandshakeProofs

Both theorems hold for every set of initiators and responders, every set of durations and every clock bound. They rely only on `ConstantsAssumption`.
- `TypeCorrect`: `Spec => []TypeOK`.
- `Authentication`: `Spec => []AuthenticPeer`.

`AuthenticPeer` is not inductive on its own: a forged flight could carry a replayed honest certificate. The strengthening `IInv` adds three facts:
- `ResponderFresh`: a responder that has not stepped has read nothing and written nothing.
- `ResponderCert`: a built responder's certificate is the honest authority's and names the responder's own key.
- `FlightsAuthentic`: every honest second flight was written by the responder whose key it carries, for the ephemeral that responder read.

Lemma `ForgedFlightRejected` shows that no attacker flight passes an honest initiator's check. The attacker's flights carry its own key, and no certificate it can obtain binds that key to the honest authority. `IInvStep` has one step per action. `IInv` is a device of the proof, not a property of the code. It was model-checked as an invariant on the handshake_auth instance before it was proved.

### NoiseTransportProofs

- `TypeCorrect`: `Spec => []TypeOK`.
- `Refinement`: `Spec => FifoSafety`, for every set of directions and payloads and every frame bound.

The inductive invariant `IInv` says, per direction:
- `wn` is the number of frames written and `rn` the number read;
- `delivered` is a prefix of `log`;
- every frame on the wire carries the plaintext written under its nonce.

The last clause is the one the refinement needs. The only frame that decrypts, the untouched one with nonce `rn`, therefore holds message `rn + 1` of the log. `StepRefines` maps `Write` to `Send` and `ReadOk` to `Receive`, and `ReadAuthFailure` to a stutter.

### MiningParsersProofs

`FollowsTables`: `Spec => []DispatchFollowsTables`. `ArmsMatchTables` shows, for each direction, that the match arms call a handler exactly for the messages the printed tables admit. `DispatchFollows` then follows the order of the code's checks. `Dispatch` is an IF chain: in TLA+, a CASE whose guards overlap is an arbitrary choice among the true arms, not the first one.

### MiningProxyProofs

- `TypeCorrect`.
- `IndexSound` (`[]ChannelIndexSound`). The invariant is inductive together with `TypeOK`: only `add_channel` writes the tables, and group lists only grow.
- `PoisonedDead` (`[]PoisonedSessionsDead`). With `TypeOK` it is inductive: `KeepsAlive` shows, action by action, that a step leaving a session alive found it alive and did not touch its flag.
- `Cascades` (`[]CascadesHaveOrigin`). The strengthening is `AliveClean`: a live session has raised no error, because every error is raised on the step its session dies. `SessionFrame` shows, action by action, that a dead session keeps its status and error. `FlagsStay` shows that no step clears a poisoned flag, an ended task or a closed connection. So each clause needs checking only on the step that makes its premise true:
  - `InnocentDeath`: a death that raises nothing is the unwrap of a poisoned upstream's lock (`ShareInnocent`) or a send to an ended upstream task (`SendUpInnocent`).
  - `PoisoningStep`: the step that poisons an upstream kills its session with a semantic error. This needs `AliveClean`, since the error would otherwise stay terminal.
  - `UpstreamEndStep`: each step that ends an upstream task has its cause in its guard.
  - `AliveClean` was model-checked as an invariant on the proxy_cascade instance before it was proved.

### What stays with TLC

TLAPS cannot prove liveness, or anything that involves `ENABLED`; the project has no liveness property. Every property that a passing run checks is also stated by a theorem. The violation runs are TLC's alone: a counterexample is their result.

## Not modelled, and why

- **Inside snow.** The AEAD, nonce exhaustion at `u64::MAX` and the behaviour of the nonce on a failed decryption are modelled from the specification. The size hints are pure arithmetic on lengths, and lengths are abstracted.
- **Byte-level formats and lengths.** This includes the `debug_assert`s on lengths.
- **The I/O layer behind closure.** `PlainConnection` is not under src. A closure is modelled as the connection's flag, with its effect on `recv` and `send`.
- **Lock order between a session and its upstream (section 5).** The upstream side's locking is not under src.
- **network-helpers.** It only re-exports modules that are not under src.

## Plan for later sittings

1. Lock-level steps for the share path, to look for a deadlock against the upstream's reverse lock order, once the upstream side's locking can be modelled.
2. A liveness property for the handshake under weak fairness of the steps: a caller loop drives them, as in `perform_handshake`.
3. Composition of the handshake with the transport: the transport's peer is the handshake's `ipeer`.
4. Channel ids assigned by two upstreams to one session can collide, and `add_channel`'s insert then moves the channel to the second group. A property that a channel keeps its group would state the specification's "each channel belongs to a group_id".
5. A liveness property for the proxy that is not one action's fairness, for example that a session whose upstream task ended is eventually torn down. The code has no timeout for it.
