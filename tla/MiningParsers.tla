---------------------------- MODULE MiningParsers ----------------------------
(***************************************************************************)
(* The two connection-wide mining message parsers of roles-logic-sv2       *)
(* (src/protocols/v2/roles-logic-sv2/src/handlers/mining.rs):              *)
(* ParseDownstreamMiningMessages::handle_message_mining, run by an upstream *)
(* on what its downstream sends, and                                       *)
(* ParseUpstreamMiningMessages::handle_message_mining, run by a downstream  *)
(* on what its upstream sends.                                             *)
(*                                                                         *)
(* A connection has a fixed channel type (get_channel_type), a fixed       *)
(* work-selection flag (is_work_selection_enabled) and a routing logic     *)
(* (MiningRoutingLogic::None or ::Proxy).  Each step parses one message:   *)
(* it decodes the type, may consult the routing logic, and either calls    *)
(* the message's handler or returns an error.  Payloads are abstract: a    *)
(* message is its variant; a payload that does not decode is Undecodable.  *)
(* The handlers themselves are the implementor's (abstract here).          *)
(***************************************************************************)

ChannelTypes == {"Standard", "Extended", "Group", "GroupAndExtended"}

\* Variants of the Mining parser a downstream sends upstream.
DownMsgs == {"OpenStandardMiningChannel", "OpenExtendedMiningChannel",
             "UpdateChannel", "SubmitSharesStandard", "SubmitSharesExtended",
             "SetCustomMiningJob"}

\* Variants an upstream sends downstream.
UpMsgs == {"OpenStandardMiningChannelSuccess", "OpenExtendedMiningChannelSuccess",
           "OpenMiningChannelError", "UpdateChannelError", "CloseChannel",
           "SetExtranoncePrefix", "SubmitSharesSuccess", "SubmitSharesError",
           "NewMiningJob", "NewExtendedMiningJob", "SetNewPrevHash",
           "SetCustomMiningJobSuccess", "SetCustomMiningJobError", "SetTarget",
           "Reconnect", "SetGroupChannel"}

\* What try_into may produce besides the variants above: a Mining variant
\* of the other direction (the  Ok(_)  arm) or a decoding error (Err(e)).
OtherMining == "OtherMining"
Undecodable == "Undecodable"

\* What on_open_standard_channel(_success) of a Proxy routing logic returns.
RouteResults == {"Upstream", "Err"}

Results == {"Handler", "UnexpectedMessage", "BadMessage", "RoutingError"}

-----------------------------------------------------------------------------
\* Mutant: the Extended arm of SubmitSharesStandard calls the handler.
DownArmsSharesOnExtended ==
    [OpenStandardMiningChannel |-> {"Standard", "Group", "GroupAndExtended"},
     OpenExtendedMiningChannel |-> {"Extended", "GroupAndExtended"},
     UpdateChannel             |-> ChannelTypes,
     SubmitSharesStandard      |-> ChannelTypes,
     SubmitSharesExtended      |-> {"Extended", "GroupAndExtended"},
     SetCustomMiningJob        |-> {"Extended", "Group", "GroupAndExtended"}]

(* The match arms of ParseDownstreamMiningMessages::handle_message_mining:  *)
(* for each variant, the channel types whose arm calls the handler.  Any   *)
(* other arm is  Err(Error::UnexpectedMessage).  SetCustomMiningJob        *)
(* matches on (channel_type, is_work_selection_enabled) instead.           *)
DownArms ==
    [OpenStandardMiningChannel |-> {"Standard", "Group", "GroupAndExtended"},
     OpenExtendedMiningChannel |-> {"Extended", "GroupAndExtended"},
     UpdateChannel             |-> ChannelTypes,
     SubmitSharesStandard      |-> {"Standard", "Group", "GroupAndExtended"},
     SubmitSharesExtended      |-> {"Extended", "GroupAndExtended"},
     SetCustomMiningJob        |-> {"Extended", "Group", "GroupAndExtended"}]

\* The same for ParseUpstreamMiningMessages::handle_message_mining.
UpArms ==
    [OpenStandardMiningChannelSuccess |-> {"Standard", "Group", "GroupAndExtended"},
     OpenExtendedMiningChannelSuccess |-> {"Extended", "GroupAndExtended"},
     OpenMiningChannelError    |-> ChannelTypes,
     UpdateChannelError        |-> ChannelTypes,
     CloseChannel              |-> ChannelTypes,
     SetExtranoncePrefix       |-> ChannelTypes,
     SubmitSharesSuccess       |-> ChannelTypes,
     SubmitSharesError         |-> ChannelTypes,
     NewMiningJob              |-> {"Standard"},
     NewExtendedMiningJob      |-> {"Extended", "Group", "GroupAndExtended"},
     SetNewPrevHash            |-> ChannelTypes,
     SetCustomMiningJobSuccess |-> {"Extended", "Group", "GroupAndExtended"},
     SetCustomMiningJobError   |-> {"Extended", "Group", "GroupAndExtended"},
     SetTarget                 |-> ChannelTypes,
     Reconnect                 |-> ChannelTypes,
     SetGroupChannel           |-> {"Group", "GroupAndExtended"}]

\* The arms that also require is_work_selection_enabled.
WorkSelectionMsgs == {"SetCustomMiningJob", "SetCustomMiningJobSuccess",
                      "SetCustomMiningJobError"}

\* The variant whose arm consults the routing logic before its match on
\* the channel type, in each direction.
OpenMsg(dir) == IF dir = "down" THEN "OpenStandardMiningChannel"
                                ELSE "OpenStandardMiningChannelSuccess"

Arms(dir) == IF dir = "down" THEN DownArms ELSE UpArms
Msgs(dir) == IF dir = "down" THEN DownMsgs ELSE UpMsgs

\* The arm of  msg  calls its handler on a connection of type ct.
CallsHandler(dir, msg, ct, ws) ==
    /\ msg \in Msgs(dir)
    /\ ct \in Arms(dir)[msg]
    /\ msg \in WorkSelectionMsgs => ws

\* The routing logic is consulted: the opening arm with a Proxy routing
\* logic, whatever the channel type.
Routes(dir, msg, rl) == msg = OpenMsg(dir) /\ rl = "Proxy"

\* handle_message_mining: what one call returns, the checks in the code's
\* order.  A failed routing logic returns its error through  Some(up?)
\* before the channel-type match.
Dispatch(dir, msg, ct, ws, rl, rr) ==
    IF msg = Undecodable THEN "BadMessage"
    ELSE IF Routes(dir, msg, rl) /\ rr = "Err" THEN "RoutingError"
    ELSE IF CallsHandler(dir, msg, ct, ws) THEN "Handler"
    ELSE "UnexpectedMessage"

-----------------------------------------------------------------------------
VARIABLES
    channelType,    \* get_channel_type() of the connection
    workSelection,  \* is_work_selection_enabled() of the connection
    routing,        \* the MiningRoutingLogic variant passed to the parser
    last            \* the last call: direction, message, routed, result

vars == <<channelType, workSelection, routing, last>>

None == [dir |-> "none"]

Calls == [dir : {"down", "up"},
          msg : DownMsgs \cup UpMsgs \cup {OtherMining, Undecodable},
          routed : BOOLEAN, result : Results]

TypeOK ==
    /\ channelType \in ChannelTypes
    /\ workSelection \in BOOLEAN
    /\ routing \in {"None", "Proxy"}
    /\ last \in Calls \cup {None}

Init ==
    /\ channelType \in ChannelTypes
    /\ workSelection \in BOOLEAN
    /\ routing \in {"None", "Proxy"}
    /\ last = None

\* One call of handle_message_mining in direction dir on message msg, the
\* routing logic (when consulted) returning rr.
HandleMessage(dir, msg, rr) ==
    /\ last' = [dir |-> dir, msg |-> msg,
                routed |-> Routes(dir, msg, routing),
                result |-> Dispatch(dir, msg, channelType, workSelection, routing, rr)]
    /\ UNCHANGED <<channelType, workSelection, routing>>

Next ==
    \E dir \in {"down", "up"} :
        \/ \E msg \in Msgs(dir) \cup {OtherMining, Undecodable} :
              HandleMessage(dir, msg, "Upstream")
        \/ /\ routing = "Proxy"
           /\ HandleMessage(dir, OpenMsg(dir), "Err")

Spec == Init /\ [][Next]_vars

-----------------------------------------------------------------------------
(* The admissibility tables of the specification (section 4.4), written    *)
(* row by row as they are printed: one cell per channel type, in the      *)
(* order Standard, Extended, Group, Group+Ext.  "WS": admissible only with *)
(* work selection enabled.                                                 *)
Column == [Standard |-> 1, Extended |-> 2, Group |-> 3, GroupAndExtended |-> 4]

Table1 ==
    [OpenStandardMiningChannel |-> <<"Y", "N", "Y", "Y">>,
     OpenExtendedMiningChannel |-> <<"N", "Y", "N", "Y">>,
     UpdateChannel             |-> <<"Y", "Y", "Y", "Y">>,
     SubmitSharesStandard      |-> <<"Y", "N", "Y", "Y">>,
     SubmitSharesExtended      |-> <<"N", "Y", "N", "Y">>,
     SetCustomMiningJob        |-> <<"N", "WS", "WS", "WS">>]

AllFour == <<"Y", "Y", "Y", "Y">>

Table2 ==
    [OpenStandardMiningChannelSuccess |-> <<"Y", "N", "Y", "Y">>,
     OpenExtendedMiningChannelSuccess |-> <<"N", "Y", "N", "Y">>,
     NewMiningJob              |-> <<"Y", "N", "N", "N">>,
     NewExtendedMiningJob      |-> <<"N", "Y", "Y", "Y">>,
     SetGroupChannel           |-> <<"N", "N", "Y", "Y">>,
     SetNewPrevHash |-> AllFour, SetTarget |-> AllFour,
     SetExtranoncePrefix |-> AllFour, OpenMiningChannelError |-> AllFour,
     UpdateChannelError |-> AllFour, SubmitSharesSuccess |-> AllFour,
     SubmitSharesError |-> AllFour, CloseChannel |-> AllFour, Reconnect |-> AllFour,
     SetCustomMiningJobSuccess |-> <<"N", "WS", "WS", "WS">>,
     SetCustomMiningJobError   |-> <<"N", "WS", "WS", "WS">>]

Admissible(dir, msg, ct, ws) ==
    LET table == IF dir = "down" THEN Table1 ELSE Table2
    IN  /\ msg \in DOMAIN table
        /\ \/ table[msg][Column[ct]] = "Y"
           \/ table[msg][Column[ct]] = "WS" /\ ws

LastAdmissible == Admissible(last.dir, last.msg, channelType, workSelection)

(* Property 6 of the specification, for every channel type, work-selection *)
(* flag and routing logic: the parser calls a handler only for a message   *)
(* its table admits, calls it for every admitted message unless the Proxy  *)
(* routing logic failed, answers UnexpectedMessage only for a message the  *)
(* table refuses, and BadMessage exactly for what does not decode.         *)
DispatchFollowsTables ==
    last # None =>
        /\ last.result = "Handler" => LastAdmissible
        /\ last.result = "UnexpectedMessage" => ~LastAdmissible
        /\ LastAdmissible /\ last.result # "RoutingError" => last.result = "Handler"
        /\ last.result = "BadMessage" <=> last.msg = Undecodable

(* Steps 2 and 3 of the parser in section 4.4 of the specification: the   *)
(* message is classified against the channel type first, and only an      *)
(* admitted opening message consults the routing logic.  The code calls   *)
(* on_open_standard_channel(_success) before the channel-type match.      *)
RejectedNeverRouted ==
    last # None /\ last.routed => LastAdmissible

=============================================================================
