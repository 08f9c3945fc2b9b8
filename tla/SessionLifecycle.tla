-------------------------- MODULE SessionLifecycle --------------------------
(***************************************************************************)
(* What a downstream session of the proxy promises about its lifecycle,   *)
(* from sections 3 and 7 of the specification.  A session starts          *)
(* Initializing and becomes Paired by a successful SetupConnection;       *)
(* channels exist only on a paired session and are created by an          *)
(* OpenStandardMiningChannelSuccess; a session is torn down once and never *)
(* comes back, and the error it reports is fixed on the step it ends.      *)
(* Before pairing, every failure (a set-up error, a closed peer) is       *)
(* terminal.                                                              *)
(***************************************************************************)
CONSTANTS Sessions, ChannelIds

VARIABLES status, channels, worst

vars == <<status, channels, worst>>

Severities == {"none", "semantic", "terminal"}

TypeOK ==
    /\ status \in [Sessions -> {"Initializing", "Paired", "Dead"}]
    /\ channels \in [Sessions -> SUBSET ChannelIds]
    /\ worst \in [Sessions -> Severities]

Init ==
    /\ status = [s \in Sessions |-> "Initializing"]
    /\ channels = [s \in Sessions |-> {}]
    /\ worst = [s \in Sessions |-> "none"]

\* A successful SetupConnection exchange pairs the session.
Pair(s) ==
    /\ status[s] = "Initializing"
    /\ status' = [status EXCEPT ![s] = "Paired"]
    /\ UNCHANGED <<channels, worst>>

\* A channel is opened on a paired session.
OpenChannel(s, c) ==
    /\ status[s] = "Paired"
    /\ channels' = [channels EXCEPT ![s] = @ \cup {c}]
    /\ UNCHANGED <<status, worst>>

\* The session is torn down and reports sev; a session that never paired
\* ends with a terminal error.
End(s, sev) ==
    /\ status[s] # "Dead"
    /\ status[s] = "Initializing" => sev = "terminal"
    /\ status' = [status EXCEPT ![s] = "Dead"]
    /\ worst' = [worst EXCEPT ![s] = sev]
    /\ UNCHANGED channels

Next ==
    \E s \in Sessions :
        \/ Pair(s)
        \/ \E c \in ChannelIds : OpenChannel(s, c)
        \/ \E sev \in Severities : End(s, sev)

Spec == Init /\ [][Next]_vars

=============================================================================
