------------------------- MODULE MiningProxyProofs --------------------------
(***************************************************************************)
(* Proofs about the proxy's sessions, for every set of sessions,          *)
(* upstreams, channel, group and job ids: the two properties              *)
(* proxy_cascade checks on a small instance.                              *)
(***************************************************************************)
EXTENDS MiningProxy, TLAPS

\* A session that dies or raises an error keeps the types of status and worst.
LEMMA DieRaiseTyped ==
    ASSUME TypeOK, NEW s \in Sessions, NEW sev \in Severities, Die(s), Raise(s, sev)
    PROVE  status' \in [Sessions -> {"Initializing", "Paired", "Dead"}]
           /\ worst' \in [Sessions -> Severities]
BY DEF TypeOK, Die, Raise, Severities

\* So does a session whose peer is gone.
LEMMA PeerGoneTyped ==
    ASSUME TypeOK, NEW s \in Sessions, PeerGone(s)
    PROVE  status' \in [Sessions -> {"Initializing", "Paired", "Dead"}]
           /\ worst' \in [Sessions -> Severities]
<1>1. "terminal" \in Severities
  BY DEF Severities
<1>2. QED
  BY <1>1, DieRaiseTyped DEF PeerGone

\* So does a session whose send to an upstream failed.
LEMMA SendUpFailsTyped ==
    ASSUME TypeOK, NEW s \in Sessions, NEW u \in Upstreams, SendUpFails(s, u)
    PROVE  status' \in [Sessions -> {"Initializing", "Paired", "Dead"}]
           /\ worst' \in [Sessions -> Severities]
<1>1. CASE upClosed[u] /\ PeerGone(s)
  BY <1>1, PeerGoneTyped
<1>2. CASE ~upClosed[u] /\ upDead[u] /\ Die(s) /\ UNCHANGED worst
  BY <1>2 DEF TypeOK, Die
<1>3. QED
  BY <1>1, <1>2 DEF SendUpFails

\* The typing of the variables a session step leaves alone, in one place.
Rest == /\ chanGroup' = chanGroup /\ groups' = groups /\ allocated' = allocated
        /\ dispatcher' = dispatcher /\ jobUp' = jobUp /\ poisoned' = poisoned
        /\ lastRelay' = lastRelay /\ downClosed' = downClosed /\ upClosed' = upClosed
        /\ upDead' = upDead

LEMMA RestTyped ==
    ASSUME TypeOK, Rest, pending' \subseteq Sessions \X Upstreams,
           sessPoisoned' \in [Sessions -> BOOLEAN],
           status' \in [Sessions -> {"Initializing", "Paired", "Dead"}],
           worst' \in [Sessions -> Severities]
    PROVE  TypeOK'
BY DEF TypeOK, Rest

LEMMA SessionStepsTyped ==
    ASSUME TypeOK, NEW s \in Sessions,
           \/ Setup(s) \/ SetupFails(s) \/ OpenStandardRoutingFails(s) \/ RecvFails(s)
           \/ \E u \in Upstreams : OpenStandardChannel(s, u)
           \/ \E msg \in DownMessages : UnsupportedMessage(s, msg)
    PROVE  TypeOK'
<1>1. CASE Setup(s)
  <2>1. status' \in [Sessions -> {"Initializing", "Paired", "Dead"}]
        /\ worst' \in [Sessions -> Severities]
    BY <1>1, PeerGoneTyped DEF TypeOK, Setup
  <2>2. QED
    BY <1>1, <2>1, RestTyped DEF Setup, Rest, TypeOK
<1>2. CASE SetupFails(s) \/ OpenStandardRoutingFails(s)
  <2>1. status' \in [Sessions -> {"Initializing", "Paired", "Dead"}]
        /\ worst' \in [Sessions -> Severities]
    BY <1>2, DieRaiseTyped DEF SetupFails, OpenStandardRoutingFails, Severities
  <2>2. QED
    BY <1>2, <2>1, RestTyped DEF SetupFails, OpenStandardRoutingFails, Rest, TypeOK
<1>3. CASE RecvFails(s)
  <2>1. status' \in [Sessions -> {"Initializing", "Paired", "Dead"}]
        /\ worst' \in [Sessions -> Severities]
    BY <1>3, PeerGoneTyped DEF RecvFails
  <2>2. QED
    BY <1>3, <2>1, RestTyped DEF RecvFails, Rest, TypeOK
<1>4. CASE \E u \in Upstreams : OpenStandardChannel(s, u)
  <2>1. PICK u \in Upstreams : OpenStandardChannel(s, u)
    BY <1>4
  <2>2. status' \in [Sessions -> {"Initializing", "Paired", "Dead"}]
        /\ worst' \in [Sessions -> Severities]
        /\ pending' \subseteq Sessions \X Upstreams
    BY <2>1, SendUpFailsTyped DEF TypeOK, OpenStandardChannel
  <2>3. QED
    BY <2>1, <2>2, RestTyped DEF OpenStandardChannel, Rest, TypeOK
<1>5. CASE \E msg \in DownMessages : UnsupportedMessage(s, msg)
  <2>1. PICK msg \in DownMessages : UnsupportedMessage(s, msg)
    BY <1>5
  <2>2. status' \in [Sessions -> {"Initializing", "Paired", "Dead"}]
        /\ worst' \in [Sessions -> Severities]
    <3>1. (IF ProxyDispatch(msg, "Upstream") = "BadMessage"
           THEN "terminal" ELSE "semantic") \in Severities
      BY DEF Severities
    <3>2. QED
      BY <2>1, <3>1, DieRaiseTyped DEF UnsupportedMessage
  <2>3. sessPoisoned' \in [Sessions -> BOOLEAN]
    BY <2>1 DEF UnsupportedMessage, TypeOK
  <2>4. QED
    BY <2>1, <2>2, <2>3, RestTyped DEF UnsupportedMessage, Rest, TypeOK
<1>6. QED
  BY <1>1, <1>2, <1>3, <1>4, <1>5

LEMMA AnswerTyped ==
    ASSUME TypeOK, NEW s \in Sessions, NEW c \in ChannelIds, NEW j \in JobIds,
           NEW valid \in BOOLEAN, NEW v \in Upstreams, ShareAnswered(s, c, j, valid, v)
    PROVE  /\ status' \in [Sessions -> {"Initializing", "Paired", "Dead"}]
           /\ worst' \in [Sessions -> Severities]
           /\ lastRelay' \in Relays \cup {None}
<1>1. CASE lastRelay' = [session |-> s, channel |-> c, job |-> j, up |-> v]
      /\ UNCHANGED <<status, worst>>
  BY <1>1 DEF TypeOK, Relays
<1>2. CASE UNCHANGED <<status, worst, lastRelay>>
  BY <1>2 DEF TypeOK
<1>3. CASE SendUpFails(s, v) /\ UNCHANGED lastRelay
  BY <1>3, SendUpFailsTyped DEF TypeOK
<1>4. CASE PeerGone(s) /\ UNCHANGED lastRelay
  BY <1>4, PeerGoneTyped DEF TypeOK
<1>5. QED
  BY <1>1, <1>2, <1>3, <1>4 DEF ShareAnswered

LEMMA ShareTyped ==
    ASSUME TypeOK, NEW s \in Sessions, NEW c \in ChannelIds, NEW j \in JobIds,
           NEW valid \in BOOLEAN, SubmitShare(s, c, j, valid)
    PROVE  TypeOK'
<1> DEFINE g == chanGroup[s][c]
           u == jobUp[j]
<1>1. /\ status' \in [Sessions -> {"Initializing", "Paired", "Dead"}]
      /\ worst' \in [Sessions -> Severities]
      /\ lastRelay' \in Relays \cup {None}
      /\ poisoned' \in [Upstreams -> BOOLEAN]
      /\ sessPoisoned' \in [Sessions -> BOOLEAN]
  <2>1. "semantic" \in Severities
    BY DEF Severities
  <2>2. CASE g = None \/ u = None
    BY <2>1, <2>2, DieRaiseTyped DEF TypeOK, SubmitShare, PoisonSession
  <2>3. CASE g # None /\ u # None /\ poisoned[u]
    BY <2>3 DEF TypeOK, SubmitShare, Die, PoisonSession
  <2>4. CASE g # None /\ u # None /\ ~poisoned[u] /\ g \notin dispatcher[u]
    BY <2>1, <2>4, DieRaiseTyped DEF TypeOK, SubmitShare, PoisonSession
  <2>5. CASE g # None /\ u # None /\ ~poisoned[u] /\ g \in dispatcher[u]
    <3>1. u \in Upstreams
      BY <2>5 DEF TypeOK
    <3>2. ShareAnswered(s, c, j, valid, u) /\ UNCHANGED <<poisoned, sessPoisoned>>
      BY <2>5 DEF SubmitShare
    <3>3. QED
      BY <3>1, <3>2, AnswerTyped DEF TypeOK
  <2>6. QED
    BY <2>2, <2>3, <2>4, <2>5
<1>2. QED
  BY <1>1 DEF TypeOK, SubmitShare

LEMMA UpstreamStepsTyped ==
    ASSUME TypeOK,
           \/ \E s \in Sessions, u \in Upstreams, c \in ChannelIds, g \in GroupIds :
                 OpenChannelSuccess(s, u, c, g)
           \/ \E u \in Upstreams, j \in JobIds : NewJob(u, j)
           \/ \E s \in Sessions : DownstreamCloses(s)
           \/ \E u \in Upstreams : UpstreamCloses(u) \/ UpstreamLocksPoisoned(u)
           \/ \E u \in Upstreams, s \in Sessions : UpstreamRelayFails(u, s)
    PROVE  TypeOK'
<1>1. CASE \E s \in Sessions, u \in Upstreams, c \in ChannelIds, g \in GroupIds :
              OpenChannelSuccess(s, u, c, g)
  <2>1. PICK s \in Sessions, u \in Upstreams, c \in ChannelIds, g \in GroupIds :
               OpenChannelSuccess(s, u, c, g)
    BY <1>1
  <2>2. chanGroup' \in [Sessions -> [ChannelIds -> GroupIds \cup {None}]]
        /\ groups' \in [Sessions -> [GroupIds -> SUBSET ChannelIds]]
    <3>1. AddChannel(s, c, g)
      BY <2>1 DEF OpenChannelSuccess
    <3>2. QED
      BY <3>1 DEF TypeOK, AddChannel
  <2>3. pending' \subseteq Sessions \X Upstreams
        /\ allocated' \in [Upstreams -> SUBSET ChannelIds]
        /\ dispatcher' \in [Upstreams -> SUBSET GroupIds]
        /\ upDead' \in [Upstreams -> BOOLEAN]
    BY <2>1 DEF TypeOK, OpenChannelSuccess
  <2>4. QED
    BY <2>1, <2>2, <2>3 DEF TypeOK, OpenChannelSuccess
<1>2. CASE \E u \in Upstreams, j \in JobIds : NewJob(u, j)
  BY <1>2 DEF TypeOK, NewJob
<1>3. CASE \E s \in Sessions : DownstreamCloses(s)
  BY <1>3 DEF TypeOK, DownstreamCloses
<1>4. CASE \E u \in Upstreams : UpstreamCloses(u) \/ UpstreamLocksPoisoned(u)
  BY <1>4 DEF TypeOK, UpstreamCloses, UpstreamLocksPoisoned
<1>5. CASE \E u \in Upstreams, s \in Sessions : UpstreamRelayFails(u, s)
  BY <1>5 DEF TypeOK, UpstreamRelayFails
<1>6. QED
  BY <1>1, <1>2, <1>3, <1>4, <1>5

LEMMA InitTyped == Init => TypeOK
BY ProxyAssumption DEF Init, TypeOK, Severities

LEMMA TypeStep == TypeOK /\ [Next]_vars => TypeOK'
<1> SUFFICES ASSUME TypeOK, [Next]_vars PROVE TypeOK'
  OBVIOUS
<1>1. CASE UNCHANGED vars
  BY <1>1 DEF vars, TypeOK
<1>2. CASE Next
  BY <1>2, SessionStepsTyped, ShareTyped, UpstreamStepsTyped DEF Next
<1>3. QED
  BY <1>1, <1>2

(* The session's tables keep their types in every behaviour.              *)
THEOREM TypeCorrect == Spec => []TypeOK
BY InitTyped, TypeStep, PTL DEF Spec

-----------------------------------------------------------------------------
(* ChannelIndexSound.  Only add_channel (in OpenChannelSuccess) writes    *)
(* either table; it maps c to g and puts c into g's list, and every other *)
(* entry keeps its group, whose list only grows.                          *)

LEMMA IndexInit == Init => ChannelIndexSound
BY DEF Init, ChannelIndexSound

LEMMA IndexAddChannel ==
    ASSUME TypeOK, ChannelIndexSound,
           NEW s \in Sessions, NEW u \in Upstreams, NEW c \in ChannelIds,
           NEW g \in GroupIds, OpenChannelSuccess(s, u, c, g)
    PROVE  ChannelIndexSound'
<1> SUFFICES ASSUME NEW t \in Sessions, NEW k \in ChannelIds,
                    chanGroup'[t][k] # None
             PROVE  k \in groups'[t][chanGroup'[t][k]]
  BY DEF ChannelIndexSound
<1>1. CASE t = s /\ k = c
  BY <1>1 DEF TypeOK, OpenChannelSuccess, AddChannel
<1>2. CASE ~(t = s /\ k = c)
  <2>1. chanGroup'[t][k] = chanGroup[t][k]
    BY <1>2 DEF TypeOK, OpenChannelSuccess, AddChannel
  <2>2. k \in groups[t][chanGroup[t][k]]
    BY <2>1 DEF ChannelIndexSound
  <2>3. groups[t][chanGroup[t][k]] \subseteq groups'[t][chanGroup[t][k]]
    BY <2>1 DEF TypeOK, OpenChannelSuccess, AddChannel
  <2>4. QED
    BY <2>1, <2>2, <2>3
<1>3. QED
  BY <1>1, <1>2

LEMMA IndexStep ==
    TypeOK /\ ChannelIndexSound /\ [Next]_vars => ChannelIndexSound'
<1> SUFFICES ASSUME TypeOK, ChannelIndexSound, [Next]_vars
             PROVE  ChannelIndexSound'
  OBVIOUS
<1>1. CASE \E s \in Sessions, u \in Upstreams, c \in ChannelIds, g \in GroupIds :
              OpenChannelSuccess(s, u, c, g)
  BY <1>1, IndexAddChannel
<1>2. CASE ~\E s \in Sessions, u \in Upstreams, c \in ChannelIds, g \in GroupIds :
               OpenChannelSuccess(s, u, c, g)
  \* every other step leaves both tables as they are
  <2>1. UNCHANGED <<chanGroup, groups>>
    <3>1. CASE UNCHANGED vars
      BY <3>1 DEF vars
    <3>2. CASE \E s \in Sessions : Setup(s) \/ SetupFails(s)
      BY <3>2 DEF Setup, SetupFails
    <3>3. CASE \E s \in Sessions, u \in Upstreams : OpenStandardChannel(s, u)
      BY <3>3 DEF OpenStandardChannel
    <3>4. CASE \E s \in Sessions : OpenStandardRoutingFails(s)
      BY <3>4 DEF OpenStandardRoutingFails
    <3>5. CASE \E s \in Sessions, msg \in DownMessages : UnsupportedMessage(s, msg)
      BY <3>5 DEF UnsupportedMessage
    <3>6. CASE \E s \in Sessions, c \in ChannelIds, j \in JobIds, valid \in BOOLEAN :
                 SubmitShare(s, c, j, valid)
      BY <3>6 DEF SubmitShare
    <3>7. CASE \E u \in Upstreams, j \in JobIds : NewJob(u, j)
      BY <3>7 DEF NewJob
    <3>8. CASE \E s \in Sessions : RecvFails(s) \/ DownstreamCloses(s)
      BY <3>8 DEF RecvFails, DownstreamCloses
    <3>9. CASE \E u \in Upstreams : UpstreamCloses(u) \/ UpstreamLocksPoisoned(u)
      BY <3>9 DEF UpstreamCloses, UpstreamLocksPoisoned
    <3>10. CASE \E u \in Upstreams, s \in Sessions : UpstreamRelayFails(u, s)
      BY <3>10 DEF UpstreamRelayFails
    <3>11. QED
      BY <1>2, <3>1, <3>2, <3>3, <3>4, <3>5, <3>6, <3>7, <3>8, <3>9, <3>10 DEF Next
  <2>2. QED
    BY <2>1 DEF ChannelIndexSound
<1>3. QED
  BY <1>1, <1>2

(* The two channel tables of a session agree in the direction the share   *)
(* path reads them, for every number of sessions, upstreams and ids.      *)
THEOREM IndexSound == Spec => []ChannelIndexSound
<1>1. TypeOK /\ ChannelIndexSound /\ [Next]_vars
         => (TypeOK /\ ChannelIndexSound)'
  BY TypeStep, IndexStep
<1>2. Init => TypeOK /\ ChannelIndexSound
  BY InitTyped, IndexInit
<1>3. QED
  BY <1>1, <1>2, PTL DEF Spec

-----------------------------------------------------------------------------
(* A session's Mutex is poisoned only by a panic in a handler that also   *)
(* ends the session: every poisoned session is Dead.                      *)
PoisonedSessionsDead == \A s \in Sessions : sessPoisoned[s] => status[s] = "Dead"

\* A step that leaves t alive found t alive, and left t's Mutex as it was.
KeepsAlive(t) ==
    status'[t] # "Dead" => status[t] # "Dead" /\ sessPoisoned'[t] = sessPoisoned[t]

LEMMA SessionStepKeeps ==
    ASSUME TypeOK, NEW s \in Sessions, NEW t \in Sessions,
           \/ Setup(s) \/ SetupFails(s) \/ OpenStandardRoutingFails(s) \/ RecvFails(s)
           \/ \E u \in Upstreams : OpenStandardChannel(s, u)
           \/ \E msg \in DownMessages : UnsupportedMessage(s, msg)
    PROVE  KeepsAlive(t)
<1> USE DEF KeepsAlive, TypeOK
<1>1. CASE Setup(s)
  BY <1>1 DEF Setup, PeerGone, Die
<1>2. CASE SetupFails(s) \/ OpenStandardRoutingFails(s) \/ RecvFails(s)
  BY <1>2 DEF SetupFails, OpenStandardRoutingFails, RecvFails, PeerGone, Die
<1>3. CASE \E u \in Upstreams : OpenStandardChannel(s, u)
  BY <1>3 DEF OpenStandardChannel, SendUpFails, PeerGone, Die
<1>4. CASE \E msg \in DownMessages : UnsupportedMessage(s, msg)
  BY <1>4 DEF UnsupportedMessage, Die
<1>5. QED
  BY <1>1, <1>2, <1>3, <1>4

LEMMA ShareStepKeeps ==
    ASSUME TypeOK, NEW s \in Sessions, NEW t \in Sessions, NEW c \in ChannelIds,
           NEW j \in JobIds, NEW valid \in BOOLEAN, SubmitShare(s, c, j, valid)
    PROVE  KeepsAlive(t)
<1> USE DEF KeepsAlive, TypeOK
<1>1. CASE t = s
  BY <1>1 DEF SubmitShare, ShareAnswered, SendUpFails, PeerGone, Die, PoisonSession
<1>2. CASE t # s
  BY <1>2 DEF SubmitShare, ShareAnswered, SendUpFails, PeerGone, Die, PoisonSession
<1>3. QED
  BY <1>1, <1>2

LEMMA UpstreamStepKeeps ==
    ASSUME TypeOK, NEW t \in Sessions,
           \/ \E s \in Sessions, u \in Upstreams, c \in ChannelIds, g \in GroupIds :
                 OpenChannelSuccess(s, u, c, g)
           \/ \E u \in Upstreams, j \in JobIds : NewJob(u, j)
           \/ \E s \in Sessions : DownstreamCloses(s)
           \/ \E u \in Upstreams : UpstreamCloses(u) \/ UpstreamLocksPoisoned(u)
           \/ \E u \in Upstreams, s \in Sessions : UpstreamRelayFails(u, s)
    PROVE  KeepsAlive(t)
BY DEF KeepsAlive, OpenChannelSuccess, NewJob, DownstreamCloses, UpstreamCloses,
       UpstreamLocksPoisoned, UpstreamRelayFails

LEMMA PoisonedStep ==
    TypeOK /\ PoisonedSessionsDead /\ [Next]_vars => PoisonedSessionsDead'
<1> SUFFICES ASSUME TypeOK, PoisonedSessionsDead, [Next]_vars,
                    NEW t \in Sessions, sessPoisoned'[t]
             PROVE  status'[t] = "Dead"
  BY DEF PoisonedSessionsDead
<1>1. KeepsAlive(t)
  <2>1. CASE UNCHANGED vars
    BY <2>1 DEF vars, KeepsAlive
  <2>2. CASE Next
    BY <2>2, SessionStepKeeps, ShareStepKeeps, UpstreamStepKeeps DEF Next
  <2>3. QED
    BY <2>1, <2>2
<1>2. QED
  BY <1>1 DEF KeepsAlive, PoisonedSessionsDead

(* Only a Dead session has a poisoned Mutex, in every behaviour.          *)
THEOREM PoisonedDead == Spec => []PoisonedSessionsDead
<1>1. Init => TypeOK /\ PoisonedSessionsDead
  BY InitTyped DEF Init, PoisonedSessionsDead
<1>2. TypeOK /\ PoisonedSessionsDead /\ [Next]_vars
         => (TypeOK /\ PoisonedSessionsDead)'
  BY TypeStep, PoisonedStep
<1>3. QED
  BY <1>1, <1>2, PTL DEF Spec


-----------------------------------------------------------------------------
(* CascadesHaveOrigin.  Every error is raised on the step its session      *)
(* dies, so a live session has raised none (AliveClean), and a dead one   *)
(* keeps its status and error for ever (SessionFrame).  The poisoned       *)
(* flags, the ended upstream tasks and the closed connections are never   *)
(* cleared.  So each conjunct only has to be checked on the step that     *)
(* makes its premise true: a death that raises nothing is the unwrap of a *)
(* poisoned upstream lock or a send to an upstream whose task ended; the  *)
(* step that poisons an upstream kills its session with a semantic error; *)
(* and the steps that end an upstream task name their cause.              *)

AliveClean == \A s \in Sessions : status[s] # "Dead" => worst[s] = "none"

\* What a step does to one session's status and error: a dead session
\* stays dead with its error, and one alive after the step was alive before
\* it with the same error.
Frame(t) ==
    /\ status[t] = "Dead" => status'[t] = "Dead" /\ worst'[t] = worst[t]
    /\ status'[t] # "Dead" => status[t] # "Dead" /\ worst'[t] = worst[t]

LEMMA SessionStepsFrame ==
    ASSUME TypeOK, NEW s \in Sessions, NEW t \in Sessions,
           \/ Setup(s) \/ SetupFails(s) \/ OpenStandardRoutingFails(s) \/ RecvFails(s)
           \/ \E u \in Upstreams : OpenStandardChannel(s, u)
           \/ \E msg \in DownMessages : UnsupportedMessage(s, msg)
    PROVE  Frame(t)
<1> USE DEF Frame, TypeOK, Die, Raise
<1>1. CASE Setup(s)
  BY <1>1 DEF Setup, PeerGone
<1>2. CASE SetupFails(s) \/ OpenStandardRoutingFails(s) \/ RecvFails(s)
  BY <1>2 DEF SetupFails, OpenStandardRoutingFails, RecvFails, PeerGone
<1>3. CASE \E u \in Upstreams : OpenStandardChannel(s, u)
  BY <1>3 DEF OpenStandardChannel, SendUpFails, PeerGone
<1>4. CASE \E msg \in DownMessages : UnsupportedMessage(s, msg)
  BY <1>4 DEF UnsupportedMessage
<1>5. QED
  BY <1>1, <1>2, <1>3, <1>4

LEMMA ShareStepFrame ==
    ASSUME TypeOK, NEW s \in Sessions, NEW t \in Sessions, NEW c \in ChannelIds,
           NEW j \in JobIds, NEW valid \in BOOLEAN, SubmitShare(s, c, j, valid)
    PROVE  Frame(t)
<1> USE DEF Frame, TypeOK, Die, Raise
<1>1. CASE t = s
  BY <1>1 DEF SubmitShare, ShareAnswered, SendUpFails, PeerGone
<1>2. CASE t # s
  BY <1>2 DEF SubmitShare, ShareAnswered, SendUpFails, PeerGone
<1>3. QED
  BY <1>1, <1>2

LEMMA SessionFrame ==
    ASSUME TypeOK, [Next]_vars, NEW t \in Sessions
    PROVE  Frame(t)
<1>1. CASE UNCHANGED vars
  BY <1>1 DEF vars, Frame
<1>2. CASE Next
  BY <1>2, SessionStepsFrame, ShareStepFrame
     DEF Next, Frame, OpenChannelSuccess, NewJob, DownstreamCloses, UpstreamCloses,
         UpstreamLocksPoisoned, UpstreamRelayFails
<1>3. QED
  BY <1>1, <1>2

LEMMA AliveCleanStep ==
    ASSUME TypeOK, AliveClean, [Next]_vars
    PROVE  AliveClean'
BY SessionFrame DEF AliveClean, Frame

\* The steps that leave every flag of a failure where it was.
LEMMA FlagsFrame ==
    ASSUME [Next]_vars,
           ~\E s \in Sessions, c \in ChannelIds, j \in JobIds, valid \in BOOLEAN :
               SubmitShare(s, c, j, valid),
           ~\E s \in Sessions, msg \in DownMessages : UnsupportedMessage(s, msg),
           ~\E s \in Sessions, u \in Upstreams, c \in ChannelIds, g \in GroupIds :
               OpenChannelSuccess(s, u, c, g),
           ~\E s \in Sessions : DownstreamCloses(s),
           ~\E u \in Upstreams : UpstreamLocksPoisoned(u),
           ~\E u \in Upstreams, s \in Sessions : UpstreamRelayFails(u, s)
    PROVE  UNCHANGED <<poisoned, upDead, sessPoisoned, downClosed>>
BY DEF Next, vars, Setup, SetupFails, OpenStandardChannel, OpenStandardRoutingFails,
       NewJob, RecvFails, UpstreamCloses

\* No step clears a poisoned upstream, an ended upstream task, a poisoned
\* session or a closed downstream.
LEMMA FlagsStay ==
    ASSUME TypeOK, [Next]_vars
    PROVE  /\ \A v \in Upstreams : poisoned[v] => poisoned'[v]
           /\ \A v \in Upstreams : upDead[v] => upDead'[v]
           /\ \A t \in Sessions : sessPoisoned[t] => sessPoisoned'[t]
           /\ \A t \in Sessions : downClosed[t] => downClosed'[t]
<1>1. CASE \E s \in Sessions, c \in ChannelIds, j \in JobIds, valid \in BOOLEAN :
              SubmitShare(s, c, j, valid)
  <2>1. PICK s \in Sessions, c \in ChannelIds, j \in JobIds, valid \in BOOLEAN :
           SubmitShare(s, c, j, valid)
    BY <1>1
  <2>2. poisoned' = poisoned \/ poisoned' = [poisoned EXCEPT ![jobUp[j]] = TRUE]
    BY <2>1 DEF SubmitShare
  <2>3. sessPoisoned' = sessPoisoned \/ sessPoisoned' = [sessPoisoned EXCEPT ![s] = TRUE]
    BY <2>1 DEF SubmitShare, PoisonSession
  <2>4. UNCHANGED <<upDead, downClosed>>
    BY <2>1 DEF SubmitShare
  <2>5. QED
    BY <2>2, <2>3, <2>4 DEF TypeOK
<1>2. CASE \E s \in Sessions, msg \in DownMessages : UnsupportedMessage(s, msg)
  BY <1>2 DEF UnsupportedMessage, TypeOK
<1>3. CASE \E s \in Sessions, u \in Upstreams, c \in ChannelIds, g \in GroupIds :
              OpenChannelSuccess(s, u, c, g)
  BY <1>3 DEF OpenChannelSuccess, UpAlive, TypeOK
<1>4. CASE \E s \in Sessions : DownstreamCloses(s)
  BY <1>4 DEF DownstreamCloses, TypeOK
<1>5. CASE \E u \in Upstreams : UpstreamLocksPoisoned(u)
  BY <1>5 DEF UpstreamLocksPoisoned, TypeOK
<1>6. CASE \E u \in Upstreams, s \in Sessions : UpstreamRelayFails(u, s)
  BY <1>6 DEF UpstreamRelayFails, TypeOK
<1>7. QED
  BY <1>1, <1>2, <1>3, <1>4, <1>5, <1>6, FlagsFrame
\* Session t dies on this step and raises no error.
DiesInnocent(t) == status[t] # "Dead" /\ status'[t] = "Dead" /\ worst'[t] = "none"

\* A failed send to u kills only its session, and without an error only
\* when u's task has ended.
LEMMA SendUpInnocent ==
    ASSUME TypeOK, NEW s \in Sessions, NEW u \in Upstreams, NEW t \in Sessions,
           SendUpFails(s, u), DiesInnocent(t)
    PROVE  upDead[u]
BY DEF SendUpFails, PeerGone, DiesInnocent, Die, Raise, TypeOK

LEMMA SessionStepsInnocent ==
    ASSUME TypeOK, NEW s \in Sessions, NEW t \in Sessions, DiesInnocent(t),
           \/ Setup(s) \/ SetupFails(s) \/ OpenStandardRoutingFails(s) \/ RecvFails(s)
           \/ \E u \in Upstreams : OpenStandardChannel(s, u)
           \/ \E msg \in DownMessages : UnsupportedMessage(s, msg)
    PROVE  \E u \in Upstreams : upDead[u]
<1> USE DEF DiesInnocent, TypeOK, Die, Raise
<1>1. CASE Setup(s) \/ SetupFails(s) \/ OpenStandardRoutingFails(s) \/ RecvFails(s)
  BY <1>1 DEF Setup, SetupFails, OpenStandardRoutingFails, RecvFails, PeerGone
<1>2. CASE \E u \in Upstreams : OpenStandardChannel(s, u)
  <2>1. PICK u \in Upstreams : OpenStandardChannel(s, u)
    BY <1>2
  <2>2. SendUpFails(s, u)
    BY <2>1 DEF OpenStandardChannel
  <2>3. QED
    BY <2>2, SendUpInnocent
<1>3. CASE \E msg \in DownMessages : UnsupportedMessage(s, msg)
  BY <1>3 DEF UnsupportedMessage
<1>4. QED
  BY <1>1, <1>2, <1>3

LEMMA ShareInnocent ==
    ASSUME TypeOK, NEW s \in Sessions, NEW t \in Sessions, NEW c \in ChannelIds,
           NEW j \in JobIds, NEW valid \in BOOLEAN, SubmitShare(s, c, j, valid),
           DiesInnocent(t)
    PROVE  \E v \in Upstreams : poisoned[v] \/ upDead[v]
<1> DEFINE g == chanGroup[s][c]
           w == jobUp[j]
<1>1. t = s
  BY DEF SubmitShare, ShareAnswered, SendUpFails, PeerGone, DiesInnocent, Die, TypeOK
<1>2. CASE g = None \/ w = None \/ (~poisoned[w] /\ g \notin dispatcher[w])
  BY <1>1, <1>2 DEF SubmitShare, DiesInnocent, Die, Raise, TypeOK
<1>3. CASE g # None /\ w # None /\ poisoned[w]
  BY <1>3 DEF TypeOK
<1>4. CASE g # None /\ w # None /\ ~poisoned[w] /\ g \in dispatcher[w]
  <2>1. w \in Upstreams /\ ShareAnswered(s, c, j, valid, w)
    BY <1>4 DEF SubmitShare, TypeOK
  <2>2. CASE SendUpFails(s, w)
    BY <2>1, <2>2, SendUpInnocent
  <2>3. CASE ~SendUpFails(s, w)
    BY <1>1, <2>1, <2>3 DEF ShareAnswered, PeerGone, DiesInnocent, Die, Raise, TypeOK
  <2>4. QED
    BY <2>2, <2>3
<1>5. QED
  BY <1>2, <1>3, <1>4

\* A session that dies without an error of its own found an upstream
\* poisoned or an upstream's task ended.
LEMMA InnocentDeath ==
    ASSUME TypeOK, Next, NEW t \in Sessions, DiesInnocent(t)
    PROVE  \E v \in Upstreams : poisoned[v] \/ upDead[v]
<1>1. CASE \E s \in Sessions, c \in ChannelIds, j \in JobIds, valid \in BOOLEAN :
              SubmitShare(s, c, j, valid)
  BY <1>1, ShareInnocent
<1>2. CASE \/ \E s \in Sessions : Setup(s) \/ SetupFails(s) \/ OpenStandardRoutingFails(s)
                                  \/ RecvFails(s)
           \/ \E s \in Sessions, u \in Upstreams : OpenStandardChannel(s, u)
           \/ \E s \in Sessions, msg \in DownMessages : UnsupportedMessage(s, msg)
  BY <1>2, SessionStepsInnocent
<1>3. CASE \/ \E s \in Sessions, u \in Upstreams, c \in ChannelIds, g \in GroupIds :
                 OpenChannelSuccess(s, u, c, g)
           \/ \E u \in Upstreams, j \in JobIds : NewJob(u, j)
           \/ \E s \in Sessions : DownstreamCloses(s)
           \/ \E u \in Upstreams : UpstreamCloses(u) \/ UpstreamLocksPoisoned(u)
           \/ \E u \in Upstreams, s \in Sessions : UpstreamRelayFails(u, s)
  BY <1>3 DEF DiesInnocent, OpenChannelSuccess, NewJob, DownstreamCloses, UpstreamCloses,
              UpstreamLocksPoisoned, UpstreamRelayFails
<1>4. QED
  BY <1>1, <1>2, <1>3 DEF Next

\* A step that poisons an upstream kills the session that took its lock
\* with a semantic error.
LEMMA PoisoningStep ==
    ASSUME TypeOK, AliveClean, [Next]_vars, NEW u \in Upstreams, ~poisoned[u], poisoned'[u]
    PROVE  \E t \in Sessions : status'[t] = "Dead" /\ worst'[t] = "semantic"
<1>1. PICK s \in Sessions, c \in ChannelIds, j \in JobIds, valid \in BOOLEAN :
           SubmitShare(s, c, j, valid)
  BY DEF Next, vars, Setup, SetupFails, OpenStandardChannel, OpenStandardRoutingFails,
         UnsupportedMessage, OpenChannelSuccess, NewJob, RecvFails, DownstreamCloses,
         UpstreamCloses, UpstreamLocksPoisoned, UpstreamRelayFails
<1>2. status[s] = "Paired" /\ worst[s] = "none"
  BY <1>1 DEF SubmitShare, AliveClean
<1>3. status'[s] = "Dead" /\ worst'[s] = "semantic"
  BY <1>1, <1>2 DEF SubmitShare, Die, Raise, TypeOK
<1>4. QED
  BY <1>3

\* A step that ends the proxy's task for u names its cause: u's own
\* poisoned lock, or a session it sent to that is poisoned or closed.
LEMMA UpstreamEndStep ==
    ASSUME TypeOK, [Next]_vars, NEW u \in Upstreams, ~upDead[u], upDead'[u]
    PROVE  poisoned[u] \/ \E t \in Sessions : sessPoisoned[t] \/ downClosed[t]
<1>1. CASE \E s \in Sessions, v \in Upstreams, c \in ChannelIds, g \in GroupIds :
              OpenChannelSuccess(s, v, c, g)
  <2>1. PICK s \in Sessions, v \in Upstreams, c \in ChannelIds, g \in GroupIds :
           OpenChannelSuccess(s, v, c, g)
    BY <1>1
  <2>2. upDead' = [upDead EXCEPT ![v] = downClosed[s]]
    BY <2>1 DEF OpenChannelSuccess
  <2>3. QED
    BY <2>2 DEF TypeOK
<1>2. CASE \E v \in Upstreams, s \in Sessions : UpstreamRelayFails(v, s)
  BY <1>2 DEF UpstreamRelayFails, TypeOK
<1>3. CASE \E v \in Upstreams : UpstreamLocksPoisoned(v)
  BY <1>3 DEF UpstreamLocksPoisoned, TypeOK
<1>4. QED
  BY <1>1, <1>2, <1>3 DEF Next, vars, Setup, SetupFails, OpenStandardChannel,
     OpenStandardRoutingFails, UnsupportedMessage, SubmitShare, NewJob, RecvFails,
     DownstreamCloses, UpstreamCloses

LEMMA CascadeStep ==
    ASSUME TypeOK, AliveClean, CascadesHaveOrigin, [Next]_vars
    PROVE  CascadesHaveOrigin'
<1>2. ASSUME NEW s \in Sessions, status'[s] = "Dead", worst'[s] = "none"
      PROVE  \E v \in Upstreams : poisoned'[v] \/ upDead'[v]
  <2>1. \E v \in Upstreams : poisoned[v] \/ upDead[v]
    <3>1. CASE status[s] = "Dead"
      \* it died earlier with the same error
      <4>1. worst[s] = "none"
        BY <1>2, <3>1, SessionFrame DEF Frame
      <4>2. QED
        BY <3>1, <4>1 DEF CascadesHaveOrigin
    <3>2. CASE status[s] # "Dead"
      <4>1. Next
        BY <1>2, <3>2 DEF vars
      <4>2. QED
        BY <1>2, <3>2, <4>1, InnocentDeath DEF DiesInnocent
    <3>3. QED
      BY <3>1, <3>2
  <2>2. QED
    BY <2>1, FlagsStay
<1>3. ASSUME NEW u \in Upstreams, poisoned'[u]
      PROVE  \E t \in Sessions : status'[t] = "Dead" /\ worst'[t] = "semantic"
  <2>1. CASE poisoned[u]
    <3>1. PICK t \in Sessions : status[t] = "Dead" /\ worst[t] = "semantic"
      BY <2>1 DEF CascadesHaveOrigin
    <3>2. QED
      BY <3>1, SessionFrame DEF Frame
  <2>2. CASE ~poisoned[u]
    BY <1>3, <2>2, PoisoningStep
  <2>3. QED
    BY <2>1, <2>2
<1>4. ASSUME NEW u \in Upstreams, upDead'[u]
      PROVE  poisoned'[u] \/ \E t \in Sessions : sessPoisoned'[t] \/ downClosed'[t]
  <2>1. poisoned[u] \/ \E t \in Sessions : sessPoisoned[t] \/ downClosed[t]
    <3>1. CASE upDead[u]
      BY <3>1 DEF CascadesHaveOrigin
    <3>2. CASE ~upDead[u]
      BY <1>4, <3>2, UpstreamEndStep
    <3>3. QED
      BY <3>1, <3>2
  <2>2. QED
    BY <2>1, FlagsStay
<1>5. QED
  BY <1>2, <1>3, <1>4 DEF CascadesHaveOrigin

(* Every cross-session teardown has an origin (CascadesHaveOrigin, checked *)
(* by proxy_cascade), for every number of sessions, upstreams and ids: a  *)
(* session torn down without an error of its own died on a poisoned       *)
(* upstream lock or on a send to an upstream whose task had ended; every   *)
(* poisoned upstream was poisoned by a session that died of a semantic     *)
(* error; and an upstream's task ended only on its own poisoned lock or on *)
(* a session whose lock was poisoned or whose downstream closed.           *)
THEOREM Cascades == Spec => []CascadesHaveOrigin
<1> DEFINE Inv == TypeOK /\ AliveClean /\ CascadesHaveOrigin
<1>1. Init => Inv
  BY InitTyped DEF Init, AliveClean, CascadesHaveOrigin
<1>2. Inv /\ [Next]_vars => Inv'
  BY TypeStep, AliveCleanStep, CascadeStep
<1>3. QED
  BY <1>1, <1>2, PTL DEF Spec

=============================================================================
