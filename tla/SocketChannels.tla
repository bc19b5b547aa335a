--------------------------- MODULE SocketChannels ---------------------------
(***************************************************************************)
(* What the four parties of Bluetooth socket offload say to one another.   *)
(*                                                                         *)
(*   socket HAL (Android)    --hal2om-->  offload manager (ADSP)           *)
(*   offload manager         --om2hal-->  socket HAL                       *)
(*   offload manager         --om2bmm-->  microstack manager (ADSP)        *)
(*   microstack manager      --bmm2om-->  offload manager                  *)
(*   offload manager         --om2awm-->  app manager and microapps (AWM)  *)
(*   app manager, microapps  --awm2om-->  offload manager                  *)
(*                                                                         *)
(* Every channel is first-in first-out: the glink channels and the          *)
(* microstack scheduler keep the order of their messages, and the offload  *)
(* manager thread empties one pipe into which all three sources write.     *)
(* Three separate incoming queues, served in any order, allow every order  *)
(* in which the three sources can reach that pipe.                         *)
(***************************************************************************)
EXTENDS Integers, Sequences, FiniteSets

CONSTANTS
  Sockets,          \* the socket ids the Android stack uses
  NoSocket,         \* the zero a cleared table entry holds in place of an id
  UnknownId,        \* 0xFF, the id of an answer about an unknown endpoint
  Low16,            \* the low 16 bits of a socket id, as a function
  NumInstances,     \* MAX_OFFLOAD_INSTANCES
  MaxRfcommConn,    \* BMM_SOCK_MAX_RFCOMM_CONN
  MaxLecocConn,     \* BMM_SOCK_MAX_LECOC_CONN
  InvalidConnId     \* BMM_INVALID_CONNID

(* An id is never 0 and never 0xFF: the code uses these two values as marks. *)
ASSUME SocketsAssumption ==
  /\ NoSocket \notin Sockets
  /\ UnknownId \notin Sockets
  /\ NoSocket # UnknownId

ASSUME SizesAssumption ==
  /\ NumInstances \in Nat \ {0}
  /\ MaxRfcommConn \in Nat \ {0}
  /\ MaxLecocConn \in Nat \ {0}

Types == {"LE_COC", "RFCOMM"}

(* The two microapps register one endpoint each; a context hub client may   *)
(* also name an endpoint nobody registered.                                *)
Endpoints == {"lecocEp", "rfcommEp", "unknownEp"}

EndpointType(ep) == CASE ep = "lecocEp" -> "LE_COC"
                      [] ep = "rfcommEp" -> "RFCOMM"
                      [] OTHER -> "none"

Slots == 1 .. NumInstances

(* BMM_SOCK_MAX_CONN: the macro adds the RFCOMM limit twice. *)
SockMaxConn == MaxRfcommConn + MaxRfcommConn
Indices == 0 .. SockMaxConn - 1

MaxConn(t) == IF t = "RFCOMM" THEN MaxRfcommConn ELSE MaxLecocConn

(* Mutant: an id that says nothing of the socket. *)
BmmGenerateConnId_noSocket(t, s, x) == [low16 |-> 0, proto |-> t, index |-> x]

(* BmmGenerateConnId: (socketId & 0xFFFF) << 16 | protocol << 8 | index. *)
BmmGenerateConnId(t, s, x) == [low16 |-> Low16[s], proto |-> t, index |-> x]

ConnIds == {BmmGenerateConnId(t, s, x) : t \in Types, s \in Sockets, x \in Indices}

ASSUME ConnIdAssumption ==
  \A s \in Sockets, t \in Types, x \in Indices :
     BmmGenerateConnId(t, s, x) # InvalidConnId

-----------------------------------------------------------------------------
VARIABLES hal2om, om2hal, om2bmm, bmm2om, om2awm, awm2om

channels == <<hal2om, om2hal, om2bmm, bmm2om, om2awm, awm2om>>

Results == {"SUCCESS", "FAILURE"}

HalToOmMsgs ==
  [op : {"OPEN_SOCKET"}, id : Sockets, type : Types, ep : Endpoints]
    \cup [op : {"CLOSE_SOCKET"}, id : Sockets]

OmToHalMsgs ==
  [op : {"OPEN_RSP"}, id : Sockets, status : Results]
    \cup [op : {"CLOSE_RSP", "CLOSE_IND"}, id : Sockets]

OmToBmmMsgs ==
  [op : {"OFFLOAD_REQ"}, id : Sockets, type : Types, context : Slots]
    \cup [op : {"CLOSE_REQ", "SET_PARAMS_REQ"}, connId : ConnIds \cup {InvalidConnId}]

BmmToOmMsgs ==
  [op : {"OFFLOAD_CFM"}, context : Slots, connId : ConnIds \cup {InvalidConnId},
   result : Results]
    \cup [op : {"CLOSE_CFM"}, connId : ConnIds \cup {InvalidConnId}, result : Results]

OmToAwmMsgs ==
  [op : {"OPEN_REQ"}, id : Sockets, type : Types, ep : Endpoints]
    \cup [op : {"CLOSE_CMD"}, id : Sockets, ep : Endpoints]

AwmToOmMsgs ==
  [op : {"OPEN_RES"}, id : Sockets \cup {UnknownId}, status : Results]
    \cup [op : {"CLOSE_IND"}, id : Sockets]

ChannelsTypeOK ==
  /\ hal2om \in Seq(HalToOmMsgs)
  /\ om2hal \in Seq(OmToHalMsgs)
  /\ om2bmm \in Seq(OmToBmmMsgs)
  /\ bmm2om \in Seq(BmmToOmMsgs)
  /\ om2awm \in Seq(OmToAwmMsgs)
  /\ awm2om \in Seq(AwmToOmMsgs)

ChannelsInit ==
  /\ hal2om = <<>> /\ om2hal = <<>>
  /\ om2bmm = <<>> /\ bmm2om = <<>>
  /\ om2awm = <<>> /\ awm2om = <<>>

(* The messages still in a queue. *)
InFlight(queue) == {queue[k] : k \in DOMAIN queue}

(* The next message of a queue is one with this operation. *)
Next1(queue, op) == queue # <<>> /\ Head(queue).op = op
=============================================================================
