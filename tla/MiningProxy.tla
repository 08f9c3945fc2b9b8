----------------------------- MODULE MiningProxy -----------------------------
(***************************************************************************)
(* The downstream sessions of the mining proxy                             *)
(* (src/roles/v2/mining-proxy/src/lib/downstream_mining.rs) and the shared *)
(* upstream state they use.                                                *)
(*                                                                         *)
(* Each accepted connection is a DownstreamMiningNode behind its own       *)
(* Mutex, served by its own task: listen_for_downstream_mining handles the *)
(* SetupConnection, start pairs the node and loops on next, which parses   *)
(* a message with handle_message_mining (channel type Group, no work      *)
(* selection: modelled by MiningParsers) and acts on the SendTo.  A panic  *)
(* (unwrap, todo!, panic!) ends the session's task; a panic while a       *)
(* safe_lock closure holds a Mutex poisons it, and every later safe_lock  *)
(* on it returns Err, which the callers unwrap.                           *)
(*                                                                         *)
(* Modelled from the specification (sections 4.4, 4.5; upstream_mining.rs, *)
(* lib.rs and the routing logic are not under src): the upstream's         *)
(* channel_id_to_job_dispatcher, upstream_from_job_id, the routing logic's *)
(* choice of upstream, and the upstream answering an opened channel.      *)
(*                                                                         *)
(* next runs its handler under the session's lock and the share lookup     *)
(* under the upstream's lock; neither critical section awaits, so each     *)
(* call of next is one step.                                              *)
(***************************************************************************)
EXTENDS FiniteSets

CONSTANTS
    Sessions,    \* accepted downstream connections
    Upstreams,   \* UpstreamMiningNode instances
    ChannelIds,  \* channel ids an upstream may assign
    GroupIds,    \* group channel ids an upstream may assign
    JobIds,      \* job ids upstreams announce
    None

ASSUME ProxyAssumption ==
    /\ IsFiniteSet(Sessions) /\ IsFiniteSet(Upstreams)
    /\ None \notin Upstreams \cup GroupIds

Parser == INSTANCE MiningParsers
              WITH channelType <- "Group", workSelection <- FALSE,
                   routing <- "Proxy", last <- [dir |-> "none"]

\* get_channel_type and is_work_selection_enabled of DownstreamMiningNode.
ProxyDispatch(msg, rr) == Parser!Dispatch("down", msg, "Group", FALSE, "Proxy", rr)

\* The severity of an error in section 7 of the specification.
Severities == {"none", "semantic", "terminal"}

VARIABLES
    status,      \* DownstreamMiningNode.status, or "Dead" once its task panicked
    chanGroup,   \* DownstreamMiningNode.channel_id_to_group_id
    groups,      \* the group_id -> channels map of DownstreamMiningNodeStatus::Paired
    pending,     \* OpenStandardMiningChannel relayed to an upstream, not answered
    allocated,   \* channel ids each upstream has assigned
    dispatcher,  \* the group ids with a JobDispatcher::Group on each upstream
    jobUp,       \* upstream_from_job_id
    poisoned,    \* the upstream's Mutex is poisoned
    lastRelay,   \* the last share relayed upstream (RelayNewMessage)
    worst,       \* the most severe error (section 7) a message of the session caused
    downClosed,  \* the session's connection to its downstream is closed
    upClosed,    \* the connection to the upstream is closed
    sessPoisoned, \* the session's own Mutex is poisoned
    upDead       \* the proxy's task serving the upstream has panicked

vars == <<status, chanGroup, groups, pending, allocated, dispatcher, jobUp,
          poisoned, lastRelay, worst, downClosed, upClosed, sessPoisoned, upDead>>

\* The proxy's task for upstream u still handles what u sends.
UpAlive(u) == ~upClosed[u] /\ ~upDead[u]

\* A send to upstream u (UpstreamMiningNode::send, not under src) fails on
\* a closed connection.  Whether the sender is closed once the proxy's task
\* for u has ended is not in the code under src: such a send may succeed
\* (and is never answered) or fail.
UpSendOk(u) == ~upClosed[u]

Relays == [session : Sessions, channel : ChannelIds, job : JobIds, up : Upstreams]

TypeOK ==
    /\ status \in [Sessions -> {"Initializing", "Paired", "Dead"}]
    /\ chanGroup \in [Sessions -> [ChannelIds -> GroupIds \cup {None}]]
    /\ groups \in [Sessions -> [GroupIds -> SUBSET ChannelIds]]
    /\ pending \subseteq Sessions \X Upstreams
    /\ allocated \in [Upstreams -> SUBSET ChannelIds]
    /\ dispatcher \in [Upstreams -> SUBSET GroupIds]
    /\ jobUp \in [JobIds -> Upstreams \cup {None}]
    /\ poisoned \in [Upstreams -> BOOLEAN]
    /\ lastRelay \in Relays \cup {None}
    /\ worst \in [Sessions -> Severities]
    /\ downClosed \in [Sessions -> BOOLEAN]
    /\ upClosed \in [Upstreams -> BOOLEAN]
    /\ sessPoisoned \in [Sessions -> BOOLEAN]
    /\ upDead \in [Upstreams -> BOOLEAN]

\* DownstreamMiningNode::new; nothing is announced or opened yet.
Init ==
    /\ status = [s \in Sessions |-> "Initializing"]
    /\ chanGroup = [s \in Sessions |-> [c \in ChannelIds |-> None]]
    /\ groups = [s \in Sessions |-> [g \in GroupIds |-> {}]]
    /\ pending = {}
    /\ allocated = [u \in Upstreams |-> {}]
    /\ dispatcher = [u \in Upstreams |-> {}]
    /\ jobUp = [j \in JobIds |-> None]
    /\ poisoned = [u \in Upstreams |-> FALSE]
    /\ lastRelay = None
    /\ worst = [s \in Sessions |-> "none"]
    /\ downClosed = [s \in Sessions |-> FALSE]
    /\ upClosed = [u \in Upstreams |-> FALSE]
    /\ sessPoisoned = [s \in Sessions |-> FALSE]
    /\ upDead = [u \in Upstreams |-> FALSE]

Raise(s, sev) ==
    worst' = [worst EXCEPT ![s] = IF worst[s] = "terminal" THEN "terminal" ELSE sev]

Die(s) == status' = [status EXCEPT ![s] = "Dead"]

\* Mutant: a closed peer ends the session without recording the error.
PeerGoneSilent(s) == Die(s) /\ UNCHANGED worst

\* A send on a closed connection: DownstreamMiningNode::send reaches
\* todo!("172"), and the unwrap of UpstreamMiningNode::send panics.  Both
\* happen after the sender was cloned out of safe_lock, so no Mutex is held
\* and none is poisoned.  The peer is gone (PeerClosed in section 7).
PeerGone(s) == Die(s) /\ Raise(s, "terminal")

\* The unwrap of a failed send to upstream u ends session s: a closed
\* upstream is a PeerClosed; a send that fails because the proxy's task
\* for u ended (another session's doing) is no error of s.
SendUpFails(s, u) ==
    \/ upClosed[u] /\ PeerGone(s)
    \/ ~upClosed[u] /\ upDead[u] /\ Die(s) /\ UNCHANGED worst

-----------------------------------------------------------------------------
(* Session set-up (listen_for_downstream_mining, handle_setup_connection,  *)
(* DownstreamMiningNodeStatus::pair, start).                               *)

\* The first frame is a SetupConnection the common routing logic accepts:
\* the node is paired and start sends SetupConnectionSuccess downstream.
Setup(s) ==
    /\ status[s] = "Initializing"
    /\ \/ ~downClosed[s] /\ status' = [status EXCEPT ![s] = "Paired"]
                         /\ UNCHANGED worst
       \/ downClosed[s] /\ PeerGone(s)
    /\ UNCHANGED <<chanGroup, groups, pending, allocated, dispatcher, jobUp,
                   poisoned, lastRelay, downClosed, upClosed, sessPoisoned, upDead>>

\* The first frame is anything else, or the routing logic returns an
\* error: result.unwrap().unwrap() or the  _ => panic!()  arm.
SetupFails(s) ==
    /\ status[s] = "Initializing"
    /\ Die(s)
    /\ Raise(s, "terminal")
    /\ UNCHANGED <<chanGroup, groups, pending, allocated, dispatcher, jobUp,
                   poisoned, lastRelay, downClosed, upClosed, sessPoisoned, upDead>>

\* receiver.recv().await on a closed connection returns Err: the unwrap in
\* the task of listen_for_downstream_mining (first frame) or in start's
\* loop panics, and the session's task ends.
RecvFails(s) ==
    /\ status[s] # "Dead"
    /\ downClosed[s]
    /\ PeerGone(s)
    /\ UNCHANGED <<chanGroup, groups, pending, allocated, dispatcher, jobUp,
                   poisoned, lastRelay, downClosed, upClosed, sessPoisoned, upDead>>

-----------------------------------------------------------------------------
(* DownstreamMiningNode::next on one message of a paired session.          *)

\* OpenStandardMiningChannel: the routing logic picks upstream u and the
\* handler answers RelaySameMessage(u); the frame is sent to u, and the
\* send's unwrap panics if u is gone.
OpenStandardChannel(s, u) ==
    /\ status[s] = "Paired"
    /\ ProxyDispatch("OpenStandardMiningChannel", "Upstream") = "Handler"
    /\ \/ UpSendOk(u) /\ pending' = pending \cup {<<s, u>>}
                      /\ UNCHANGED <<status, worst>>
       \/ SendUpFails(s, u) /\ UNCHANGED pending
    /\ UNCHANGED <<chanGroup, groups, allocated, dispatcher, jobUp,
                   poisoned, lastRelay, downClosed, upClosed, sessPoisoned, upDead>>

\* The routing logic returns an error: Some(up?) returns it and next
\* reaches  Err(_) => todo!("149").
OpenStandardRoutingFails(s) ==
    /\ status[s] = "Paired"
    /\ ProxyDispatch("OpenStandardMiningChannel", "Err") = "RoutingError"
    /\ Die(s)
    /\ Raise(s, "terminal")
    /\ UNCHANGED <<chanGroup, groups, pending, allocated, dispatcher, jobUp,
                   poisoned, lastRelay, downClosed, upClosed, sessPoisoned, upDead>>

\* Any other message: handle_message_mining returns UnexpectedMessage
\* (OpenExtendedMiningChannel, SubmitSharesExtended, SetCustomMiningJob
\* without work selection, a variant of the other direction) and next
\* reaches todo!("148"); or BadMessage and todo!("149"); or the handler
\* is a todo!() (UpdateChannel), which runs inside the session's
\* safe_lock and poisons its Mutex.
UnsupportedMessage(s, msg) ==
    /\ status[s] = "Paired"
    /\ \/ ProxyDispatch(msg, "Upstream") # "Handler"
       \/ msg = "UpdateChannel"
    /\ Die(s)
    /\ Raise(s, IF ProxyDispatch(msg, "Upstream") = "BadMessage"
                THEN "terminal" ELSE "semantic")
    /\ sessPoisoned' = [sessPoisoned EXCEPT ![s] = @ \/ ProxyDispatch(msg, "Upstream") = "Handler"]
    /\ UNCHANGED <<chanGroup, groups, pending, allocated, dispatcher, jobUp,
                   poisoned, lastRelay, downClosed, upClosed, upDead>>

\* The dispatcher's answer for a share whose lookups succeeded: a valid
\* share is relayed to v (RelayNewMessage), an invalid one answered with
\* SubmitSharesError (Respond); either send fails on a closed connection.
ShareAnswered(s, c, j, valid, v) ==
    \/ /\ valid /\ UpSendOk(v)
       /\ lastRelay' = [session |-> s, channel |-> c, job |-> j, up |-> v]
       /\ UNCHANGED <<status, worst>>
    \/ valid /\ SendUpFails(s, v) /\ UNCHANGED lastRelay
    \/ ~valid /\ ~downClosed[s] /\ UNCHANGED <<status, worst, lastRelay>>
    \/ ~valid /\ downClosed[s] /\ PeerGone(s) /\ UNCHANGED lastRelay

\* A panic inside the session's safe_lock (handle_message_mining calls
\* every handler under it) poisons the session's Mutex.
PoisonSession(s) == sessPoisoned' = [sessPoisoned EXCEPT ![s] = TRUE]

\* SubmitSharesStandard{channel_id c, job_id j}: handle_submit_shares_standard
\* under the session's lock.  An unknown channel or job is a todo!(); the
\* upstream's lock is taken with safe_lock(..).unwrap(), which panics when
\* it is poisoned; a missing dispatcher is a todo!() inside that lock,
\* which poisons it.  Otherwise next sends the dispatcher's answer.
SubmitShare(s, c, j, valid) ==
    LET g == chanGroup[s][c]
        u == jobUp[j]
    IN  /\ status[s] = "Paired"
        /\ ProxyDispatch("SubmitSharesStandard", "Upstream") = "Handler"
        /\ \/ /\ g = None \/ u = None
              /\ Die(s) /\ Raise(s, "semantic") /\ PoisonSession(s)
              /\ UNCHANGED <<poisoned, lastRelay>>
           \/ /\ g # None /\ u # None /\ poisoned[u]
              /\ Die(s) /\ PoisonSession(s)
              /\ UNCHANGED <<poisoned, lastRelay, worst>>
           \/ /\ g # None /\ u # None /\ ~poisoned[u] /\ g \notin dispatcher[u]
              /\ Die(s) /\ Raise(s, "semantic") /\ PoisonSession(s)
              /\ poisoned' = [poisoned EXCEPT ![u] = TRUE]
              /\ UNCHANGED lastRelay
           \/ /\ g # None /\ u # None /\ ~poisoned[u] /\ g \in dispatcher[u]
              /\ ShareAnswered(s, c, j, valid, u)
              /\ UNCHANGED <<poisoned, sessPoisoned>>
        /\ UNCHANGED <<chanGroup, groups, pending, allocated, dispatcher, jobUp,
                       downClosed, upClosed, upDead>>

-----------------------------------------------------------------------------
(* The upstream side, modelled from the specification.                    *)

\* Mutant: DownstreamMiningNode::add_channel updates channel_id_to_group_id
\* and not the status' group map.
AddChannelIndexOnly(s, c, g) ==
    /\ chanGroup' = [chanGroup EXCEPT ![s][c] = g]
    /\ UNCHANGED groups

\* DownstreamMiningNode::add_channel: channel_id_to_group_id.insert, then
\* DownstreamMiningNodeStatus::add_channel pushes onto the group's list
\* (a list: a channel id that is already there stays there).
AddChannel(s, c, g) ==
    /\ chanGroup' = [chanGroup EXCEPT ![s][c] = g]
    /\ groups' = [groups EXCEPT ![s][g] = @ \cup {c}]

\* Upstream u answers OpenStandardMiningChannelSuccess with a channel id it
\* has not assigned before and a group id; the proxy records a group
\* dispatcher for the group on u, takes s's lock and calls add_channel
\* (which looks neither at the status nor at the connection), then
\* forwards the success through DownstreamMiningNode::send, whose
\* todo!("172") on a closed downstream ends the upstream's task.  A
\* poisoned session lock fails before the add (UpstreamRelayFails).
OpenChannelSuccess(s, u, c, g) ==
    /\ <<s, u>> \in pending
    /\ UpAlive(u) /\ ~sessPoisoned[s]
    /\ c \notin allocated[u]
    /\ pending' = pending \ {<<s, u>>}
    /\ allocated' = [allocated EXCEPT ![u] = @ \cup {c}]
    /\ dispatcher' = [dispatcher EXCEPT ![u] = @ \cup {g}]
    /\ AddChannel(s, c, g)
    /\ upDead' = [upDead EXCEPT ![u] = downClosed[s]]
    /\ UNCHANGED <<status, jobUp, poisoned, lastRelay, worst, downClosed, upClosed, sessPoisoned>>

\* Upstream u announces job j: upstream_from_job_id(j) is u from now on.
NewJob(u, j) ==
    /\ UpAlive(u)
    /\ jobUp[j] # u
    /\ jobUp' = [jobUp EXCEPT ![j] = u]
    /\ UNCHANGED <<status, chanGroup, groups, pending, allocated, dispatcher,
                   poisoned, lastRelay, worst, downClosed, upClosed, sessPoisoned, upDead>>

\* Session s holds a channel upstream u assigned.
HasChannelOn(u, s) == \E c \in allocated[u] : chanGroup[s][c] # None

\* The upstream's task takes s's lock for a channel's success (s awaits
\* one) or forwards a job on a channel of s through
\* DownstreamMiningNode::send: safe_lock(..).unwrap() panics on s's
\* poisoned Mutex, and a closed connection reaches todo!("172").  The panic
\* is in the upstream's task, which ends.
UpstreamRelayFails(u, s) ==
    /\ UpAlive(u)
    /\ \/ sessPoisoned[s] /\ (<<s, u>> \in pending \/ HasChannelOn(u, s))
       \/ downClosed[s] /\ HasChannelOn(u, s)
    /\ upDead' = [upDead EXCEPT ![u] = TRUE]
    /\ UNCHANGED <<status, chanGroup, groups, pending, allocated, dispatcher,
                   jobUp, poisoned, lastRelay, worst, downClosed, upClosed, sessPoisoned>>

\* The upstream's task handles its next message under its own poisoned
\* Mutex: safe_lock(..).unwrap() panics.
UpstreamLocksPoisoned(u) ==
    /\ UpAlive(u)
    /\ poisoned[u]
    /\ upDead' = [upDead EXCEPT ![u] = TRUE]
    /\ UNCHANGED <<status, chanGroup, groups, pending, allocated, dispatcher,
                   jobUp, poisoned, lastRelay, worst, downClosed, upClosed, sessPoisoned>>

-----------------------------------------------------------------------------
(* The environment: a peer closes its connection at any moment.           *)

DownstreamCloses(s) ==
    /\ ~downClosed[s]
    /\ downClosed' = [downClosed EXCEPT ![s] = TRUE]
    /\ UNCHANGED <<status, chanGroup, groups, pending, allocated, dispatcher,
                   jobUp, poisoned, lastRelay, worst, upClosed, sessPoisoned, upDead>>

UpstreamCloses(u) ==
    /\ ~upClosed[u]
    /\ upClosed' = [upClosed EXCEPT ![u] = TRUE]
    /\ UNCHANGED <<status, chanGroup, groups, pending, allocated, dispatcher,
                   jobUp, poisoned, lastRelay, worst, downClosed, sessPoisoned, upDead>>

-----------------------------------------------------------------------------
DownMessages == Parser!DownMsgs \cup {Parser!OtherMining, Parser!Undecodable}

Next ==
    \/ \E s \in Sessions : Setup(s) \/ SetupFails(s)
    \/ \E s \in Sessions, u \in Upstreams : OpenStandardChannel(s, u)
    \/ \E s \in Sessions : OpenStandardRoutingFails(s)
    \/ \E s \in Sessions, msg \in DownMessages : UnsupportedMessage(s, msg)
    \/ \E s \in Sessions, c \in ChannelIds, j \in JobIds, valid \in BOOLEAN :
          SubmitShare(s, c, j, valid)
    \/ \E s \in Sessions, u \in Upstreams, c \in ChannelIds, g \in GroupIds :
          OpenChannelSuccess(s, u, c, g)
    \/ \E u \in Upstreams, j \in JobIds : NewJob(u, j)
    \/ \E s \in Sessions : RecvFails(s) \/ DownstreamCloses(s)
    \/ \E u \in Upstreams : UpstreamCloses(u) \/ UpstreamLocksPoisoned(u)
    \/ \E u \in Upstreams, s \in Sessions : UpstreamRelayFails(u, s)

Spec == Init /\ [][Next]_vars

-----------------------------------------------------------------------------
\* The channels a session holds: the ids channel_id_to_group_id maps.
OpenChannels == [s \in Sessions |-> {c \in ChannelIds : chanGroup[s][c] # None}]

Life == INSTANCE SessionLifecycle WITH channels <- OpenChannels

(* The session lifecycle of sections 3 and 7 of the specification: the    *)
(* sessions, their channels and the errors they report behave as          *)
(* SessionLifecycle allows: a session is paired only from Initializing, a *)
(* channel is added only to a paired session, a session ends once and     *)
(* takes no step after, and a failure before pairing is terminal.  In the *)
(* code the upstream's add_channel checks neither the status nor whether  *)
(* the session's task has ended.                                          *)
LifecycleSafety == Life!Spec

-----------------------------------------------------------------------------
(* The two channel tables of a session agree in the direction the share   *)
(* path reads them: a channel that channel_id_to_group_id maps to a group *)
(* is in that group's list of the paired status (add_channel updates      *)
(* both, in two steps of one critical section).                           *)
ChannelIndexSound ==
    \A s \in Sessions, c \in ChannelIds :
        chanGroup[s][c] # None => c \in groups[s][chanGroup[s][c]]

(* Session isolation: a session whose own messages caused no error of      *)
(* section 7 of the specification is never torn down.  In the code, a     *)
(* todo!() inside another session's remote.safe_lock poisons the shared    *)
(* upstream Mutex, and this session's next share panics on its unwrap.    *)
WellBehavedSurvive ==
    \A s \in Sessions : status[s] = "Dead" => worst[s] # "none"

(* Ownership (section 3 of the specification): an upstream peer outlives   *)
(* every session that references it, so no downstream's behaviour ends    *)
(* the proxy's task for an upstream.  DownstreamMiningNode::send panics in *)
(* its caller's task, and the upstream's task calls it.                   *)
UpstreamOutlivesSessions ==
    \A u \in Upstreams : ~upDead[u]

(* Section 7 of the specification: UnexpectedMessage, UnknownChannel and   *)
(* UnknownJob are returned to the caller and the session continues; only  *)
(* terminal errors (BadMessage, a failed set-up or routing) end it.  The   *)
(* code reaches todo!() on every one of them.                             *)
SemanticErrorsReturned ==
    \A s \in Sessions : status[s] = "Dead" => worst[s] = "terminal"

(* Section 4.4 and the Job entity of the specification: a job belongs to  *)
(* one upstream and one channel, and a share is forwarded only when its    *)
(* translated identifiers are unambiguous.  So a share relayed upstream    *)
(* (RelayNewMessage in handle_submit_shares_standard) goes to an upstream  *)
(* that assigned the share's channel.  The code looks the job up in the    *)
(* global upstream_from_job_id and the group on that upstream.            *)
ShareGoesToChannelUpstream ==
    lastRelay # None => lastRelay.channel \in allocated[lastRelay.up]

(* Every cross-session teardown has an origin in some session's own        *)
(* failure.  A session that dies without an error of its own died on the  *)
(* unwrap of a poisoned upstream lock or on a send to an upstream whose    *)
(* task had ended; an upstream's Mutex is poisoned only by the todo!()     *)
(* inside remote.safe_lock of a session that died of that semantic error;  *)
(* and the proxy's task for an upstream ends only on its own poisoned      *)
(* lock, or on a send to a session whose Mutex is poisoned or whose       *)
(* downstream closed.                                                     *)
CascadesHaveOrigin ==
    /\ \A s \in Sessions :
          status[s] = "Dead" /\ worst[s] = "none" =>
              \E u \in Upstreams : poisoned[u] \/ upDead[u]
    /\ \A u \in Upstreams :
          poisoned[u] => \E t \in Sessions : status[t] = "Dead" /\ worst[t] = "semantic"
    /\ \A u \in Upstreams :
          upDead[u] => poisoned[u] \/ \E t \in Sessions : sessPoisoned[t] \/ downClosed[t]

=============================================================================
