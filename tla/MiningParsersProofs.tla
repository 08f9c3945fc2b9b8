------------------------- MODULE MiningParsersProofs ------------------------
(***************************************************************************)
(* Proof that both handle_message_mining functions follow tables 1 and 2  *)
(* of the specification for every channel type, work-selection flag,      *)
(* routing logic and message: the match arms (DownArms, UpArms,           *)
(* WorkSelectionMsgs) and the order of the checks in Dispatch agree with  *)
(* the tables as the specification prints them.                          *)
(***************************************************************************)
EXTENDS MiningParsers, TLAPS

\* What one call returns satisfies the four clauses of DispatchFollowsTables.
Follows(dir, msg, ct, ws, r) ==
    /\ r = "Handler" => Admissible(dir, msg, ct, ws)
    /\ r = "UnexpectedMessage" => ~Admissible(dir, msg, ct, ws)
    /\ Admissible(dir, msg, ct, ws) /\ r # "RoutingError" => r = "Handler"
    /\ r = "BadMessage" <=> msg = Undecodable

\* The arms call a handler exactly for the admitted messages.
LEMMA ArmsMatchTables ==
    ASSUME NEW dir \in {"down", "up"}, NEW ct \in ChannelTypes, NEW ws \in BOOLEAN,
           NEW msg \in Msgs(dir) \cup {OtherMining, Undecodable}
    PROVE  CallsHandler(dir, msg, ct, ws) <=> Admissible(dir, msg, ct, ws)
<1>1. CASE dir = "down"
  BY <1>1 DEF CallsHandler, Admissible, Msgs, Arms, DownArms, DownMsgs, UpMsgs,
              WorkSelectionMsgs, Table1, Column, ChannelTypes, OtherMining, Undecodable
<1>2. CASE dir = "up"
  BY <1>2 DEF CallsHandler, Admissible, Msgs, Arms, UpArms, UpMsgs, DownMsgs,
              WorkSelectionMsgs, Table2, AllFour, Column, ChannelTypes,
              OtherMining, Undecodable
<1>3. QED
  BY <1>1, <1>2

\* An undecodable payload and a variant of the other direction are in no
\* table; the routed opening message is.
LEMMA NotInTables ==
    ASSUME NEW dir \in {"down", "up"}, NEW ct \in ChannelTypes, NEW ws \in BOOLEAN
    PROVE  /\ ~Admissible(dir, Undecodable, ct, ws)
           /\ ~Admissible(dir, OtherMining, ct, ws)
BY DEF Admissible, Table1, Table2, AllFour, Undecodable, OtherMining

LEMMA DispatchFollows ==
    ASSUME NEW dir \in {"down", "up"}, NEW ct \in ChannelTypes, NEW ws \in BOOLEAN,
           NEW rl \in {"None", "Proxy"}, NEW rr \in RouteResults,
           NEW msg \in Msgs(dir) \cup {OtherMining, Undecodable}
    PROVE  Follows(dir, msg, ct, ws, Dispatch(dir, msg, ct, ws, rl, rr))
<1> DEFINE r == Dispatch(dir, msg, ct, ws, rl, rr)
<1>1. CASE msg = Undecodable
  <2>1. r = "BadMessage"
    BY <1>1 DEF Dispatch
  <2>2. QED
    BY <1>1, <2>1, NotInTables DEF Follows
<1>2. CASE msg # Undecodable /\ Routes(dir, msg, rl) /\ rr = "Err"
  <2>1. r = "RoutingError"
    BY <1>2 DEF Dispatch
  <2>2. QED
    BY <1>2, <2>1 DEF Follows
<1>3. CASE msg # Undecodable /\ ~(Routes(dir, msg, rl) /\ rr = "Err")
  <2>1. r = IF CallsHandler(dir, msg, ct, ws) THEN "Handler" ELSE "UnexpectedMessage"
    BY <1>3 DEF Dispatch
  <2>2. QED
    BY <1>3, <2>1, ArmsMatchTables DEF Follows
<1>4. QED
  BY <1>1, <1>2, <1>3

LEMMA InitTyped == Init => TypeOK
BY DEF Init, TypeOK

LEMMA TypeStep == TypeOK /\ [Next]_vars => TypeOK'
<1> SUFFICES ASSUME TypeOK, [Next]_vars PROVE TypeOK'
  OBVIOUS
<1>1. ASSUME NEW dir \in {"down", "up"}, NEW msg \in Msgs(dir) \cup {OtherMining, Undecodable},
             NEW rr \in RouteResults, HandleMessage(dir, msg, rr)
      PROVE  TypeOK'
  <2>1. Dispatch(dir, msg, channelType, workSelection, routing, rr) \in Results
    BY DEF Dispatch, Results
  <2>2. msg \in DownMsgs \cup UpMsgs \cup {OtherMining, Undecodable}
    BY DEF Msgs
  <2>3. QED
    BY <1>1, <2>1, <2>2 DEF TypeOK, HandleMessage, Calls, Routes
<1>2. OpenMsg("down") \in Msgs("down") /\ OpenMsg("up") \in Msgs("up")
  BY DEF OpenMsg, Msgs, DownMsgs, UpMsgs
<1>3. QED
  BY <1>1, <1>2 DEF TypeOK, Next, vars, RouteResults

LEMMA CallFollows ==
    ASSUME TypeOK, NEW dir \in {"down", "up"},
           NEW msg \in Msgs(dir) \cup {OtherMining, Undecodable},
           NEW rr \in RouteResults, HandleMessage(dir, msg, rr)
    PROVE  DispatchFollowsTables'
<1>1. last' # None
  BY DEF HandleMessage, None
<1>2. Follows(dir, msg, channelType, workSelection,
              Dispatch(dir, msg, channelType, workSelection, routing, rr))
  BY DispatchFollows DEF TypeOK
<1>3. QED
  BY <1>1, <1>2 DEF HandleMessage, Follows, DispatchFollowsTables, LastAdmissible

LEMMA FollowsStep ==
    TypeOK /\ DispatchFollowsTables /\ [Next]_vars => DispatchFollowsTables'
<1> SUFFICES ASSUME TypeOK, DispatchFollowsTables, [Next]_vars
             PROVE  DispatchFollowsTables'
  OBVIOUS
<1>1. CASE UNCHANGED vars
  BY <1>1 DEF vars, DispatchFollowsTables, LastAdmissible
<1>2. CASE Next
  <2>1. PICK dir \in {"down", "up"} :
           \/ \E msg \in Msgs(dir) \cup {OtherMining, Undecodable} :
                 HandleMessage(dir, msg, "Upstream")
           \/ routing = "Proxy" /\ HandleMessage(dir, OpenMsg(dir), "Err")
    BY <1>2 DEF Next
  <2>2. OpenMsg(dir) \in Msgs(dir)
    BY DEF OpenMsg, Msgs, DownMsgs, UpMsgs
  <2>3. QED
    BY <2>1, <2>2, CallFollows DEF RouteResults
<1>3. QED
  BY <1>1, <1>2

(* Property 6 of the specification, for every connection: after any call *)
(* of handle_message_mining, a handler was called exactly when the table  *)
(* of the direction admits the message for the connection's channel type *)
(* and work-selection flag, unless a Proxy routing logic failed.         *)
THEOREM FollowsTables == Spec => []DispatchFollowsTables
<1>1. Init => TypeOK /\ DispatchFollowsTables
  BY InitTyped DEF Init, DispatchFollowsTables
<1>2. TypeOK /\ DispatchFollowsTables /\ [Next]_vars
         => (TypeOK /\ DispatchFollowsTables)'
  BY TypeStep, FollowsStep
<1>3. QED
  BY <1>1, <1>2, PTL DEF Spec

=============================================================================
