----------------------------- MODULE MicroApps ------------------------------
(***************************************************************************)
(* The AWM side: the app manager finds the endpoint a message names and     *)
(* calls the LE CoC or the RFCOMM microapp, which keeps a small table of   *)
(* the sockets it serves.  One thread handles the messages of the ADSP;    *)
(* the user of a microapp asks for a close from another one.               *)
(* Bluetooth stays on: btStatus, which silences the app manager, is the    *)
(* subject of the power sequence and not of this module.                   *)
(***************************************************************************)
EXTENDS SocketChannels

CONSTANTS
  MaxSocketSupported,   \* MAX_SOCKET_SUPPORTED of either microapp
  MaxCloseInd           \* bound: close indications under way at a time

ASSUME MicroAppsAssumption ==
  /\ MaxSocketSupported \in Nat \ {0}
  /\ MaxCloseInd \in Nat

VARIABLES
  socketDetails,   \* socketDetails[t][k]: the id in entry k of the microapp for t
  socketsInUse     \* socketsInUse[t]: the counter it keeps beside the table

appVars == <<socketDetails, socketsInUse>>

Entries == 1 .. MaxSocketSupported

(* idxInUse and socketId are set and cleared together: NoSocket is both.    *)
AppsTypeOK ==
  /\ socketDetails \in [Types -> [Entries -> Sockets \cup {NoSocket}]]
  /\ socketsInUse \in [Types -> Int]

AppsInit ==
  /\ socketDetails = [t \in Types |-> [k \in Entries |-> NoSocket]]
  /\ socketsInUse = [t \in Types |-> 0]

Lowest(found) == CHOOSE k \in found : \A l \in found : k <= l
Unused(t) == {k \in Entries : socketDetails[t][k] = NoSocket}
Holding(t, s) == {k \in Entries : socketDetails[t][k] = s}

(* Mutant: the id of the answer is read before the entry was filled.         *)
OpenRes_early(s, status) == Append(awm2om, [op |-> "OPEN_RES", id |-> NoSocket, status |-> status])

OpenRes(s, status) == Append(awm2om, [op |-> "OPEN_RES", id |-> s, status |-> status])

(* rfcomm_socket_opened(), lecoc_socket_opened() of the microapp for t.  The *)
(* counter moves first; without an unused entry no answer is sent at all.   *)
socket_opened(t, m) ==
  IF m.type # t \/ socketsInUse[t] >= MaxSocketSupported
  THEN awm2om' = OpenRes(m.id, "FAILURE") /\ UNCHANGED appVars
  ELSE /\ socketsInUse' = [socketsInUse EXCEPT ![t] = @ + 1]
       /\ IF Unused(t) = {} THEN UNCHANGED <<awm2om, socketDetails>>
          ELSE /\ socketDetails' = [socketDetails EXCEPT ![t][Lowest(Unused(t))] = m.id]
               /\ awm2om' = OpenRes(m.id, "SUCCESS")

(* rfcomm_socket_closed(), lecoc_socket_closed(): no answer either way. *)
socket_closed(t, s) ==
  IF Holding(t, s) = {} THEN UNCHANGED appVars
  ELSE /\ socketsInUse' = [socketsInUse EXCEPT ![t] = @ - 1]
       /\ socketDetails' = [socketDetails EXCEPT ![t][Lowest(Holding(t, s))] = NoSocket]

(* lpai_bt_app_mgr_handle_open_socket_req(): the answer about an endpoint    *)
(* that nobody registered does not carry the socket's id.                  *)
open_socket_req ==
  /\ Next1(om2awm, "OPEN_REQ")
  /\ om2awm' = Tail(om2awm)
  /\ LET m == Head(om2awm)
     IN IF EndpointType(m.ep) \in Types
        THEN socket_opened(EndpointType(m.ep), m)
        ELSE awm2om' = OpenRes(UnknownId, "FAILURE") /\ UNCHANGED appVars
  /\ UNCHANGED <<hal2om, om2hal, om2bmm, bmm2om>>

(* lpai_bt_app_manager_handle_close_socket_cmd(). *)
close_socket_cmd ==
  /\ Next1(om2awm, "CLOSE_CMD")
  /\ om2awm' = Tail(om2awm)
  /\ LET m == Head(om2awm)
     IN IF EndpointType(m.ep) \in Types
        THEN socket_closed(EndpointType(m.ep), m.id)
        ELSE UNCHANGED appVars
  /\ UNCHANGED <<hal2om, om2hal, om2bmm, bmm2om, awm2om>>

(* qapi_bt_rfcomm_close_socket() and its LE CoC twin: the microapp asks for  *)
(* the close and keeps its entry until it is told.                         *)
close_socket_qapi(t, s) ==
  /\ Holding(t, s) # {}
  /\ Cardinality({k \in DOMAIN awm2om : awm2om[k].op = "CLOSE_IND"})
       + Cardinality({k \in DOMAIN om2hal : om2hal[k].op = "CLOSE_IND"}) < MaxCloseInd
  /\ awm2om' = Append(awm2om, [op |-> "CLOSE_IND", id |-> s])
  /\ UNCHANGED <<appVars, hal2om, om2hal, om2bmm, bmm2om, om2awm>>

AppManager == open_socket_req \/ close_socket_cmd
=============================================================================
