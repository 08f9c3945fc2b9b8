---------------------------- MODULE FifoChannel -----------------------------
(***************************************************************************)
(* What an established Noise session promises its two ends (section 8,    *)
(* property 2 of the specification): in each direction, the receiver      *)
(* obtains the messages the sender encrypted, in the order they were       *)
(* encrypted, each once, and nothing else.  A receiver may fall behind,    *)
(* but under fairness it eventually obtains every message sent.           *)
(***************************************************************************)
EXTENDS Naturals, Sequences

CONSTANTS Directions, Payloads

VARIABLES sent, recvd

vars == <<sent, recvd>>

TypeOK ==
    /\ sent \in [Directions -> Seq(Payloads)]
    /\ recvd \in [Directions -> Seq(Payloads)]

Init ==
    /\ sent = [d \in Directions |-> <<>>]
    /\ recvd = [d \in Directions |-> <<>>]

\* The sender of direction d hands m to the channel.
Send(d, m) ==
    /\ sent' = [sent EXCEPT ![d] = Append(@, m)]
    /\ UNCHANGED recvd

\* The receiver of direction d obtains the next message it has not seen.
Receive(d) ==
    /\ Len(recvd[d]) < Len(sent[d])
    /\ recvd' = [recvd EXCEPT ![d] = Append(@, sent[d][Len(recvd[d]) + 1])]
    /\ UNCHANGED sent

Next == \E d \in Directions : Receive(d) \/ \E m \in Payloads : Send(d, m)

Spec == Init /\ [][Next]_vars

=============================================================================
