---------------------------- MODULE MC_MiningProxy ----------------------------
(* Two sessions and two upstreams, so that one session's failure can reach *)
(* the other through a shared upstream, and a job can be announced by a    *)
(* different upstream than the one a channel was opened on.               *)
EXTENDS MiningProxy, Naturals, TLC

MCSymmetry ==
    Permutations(Sessions) \cup Permutations(Upstreams)
        \cup Permutations(ChannelIds) \cup Permutations(GroupIds)

\* The violation runs let at most one connection close or one upstream's
\* task end: that failure can still interleave with every step of the
\* share path, and TLC reaches the counterexamples within seconds.
\* MC_MiningProxy.cfg has no such bound.
MCOneClosure ==
    Cardinality({s \in Sessions : downClosed[s]})
        + Cardinality({u \in Upstreams : upClosed[u] \/ upDead[u]}) <= 1

\* The lifecycle and cross-relay runs also keep every upstream's task
\* alive: their counterexamples need no ended task.
MCShareBound ==
    /\ MCOneClosure
    /\ \A u \in Upstreams : ~upDead[u]

=============================================================================
