--------------------------- MODULE OffloadManager ---------------------------
(***************************************************************************)
(* The offload manager thread on the ADSP: the table of offload instances,  *)
(* the state machine each of them runs, and the handlers of the messages   *)
(* of the HAL, of the microstack manager and of the microapps.  Each       *)
(* handler runs to its end on that one thread.                             *)
(*                                                                         *)
(* GATT sessions live in the same table.  Here they only occupy an         *)
(* instance and give it back; GattProfile has their side of it.            *)
(***************************************************************************)
EXTENDS SocketChannels, OffloadStateMachine

CONSTANT MaxGattSessions     \* bound: GATT sessions that hold an instance at a time

ASSUME GattAssumption == MaxGattSessions \in Nat

VARIABLE instances     \* offload_instances[]

(* Offload_State_t; Gatt stands for whatever state a GATT session is in. *)
SMStates == OffloadStates \cup {"Gatt"}

InstancesTypeOK ==
  instances \in [Slots -> [state : SMStates, id : Sockets \cup {NoSocket}, type : Types,
                           ep : Endpoints, pseudo_id : ConnIds \cup {InvalidConnId}]]

(* offload_mgr_sm_init(): memset to zero, every instance Idle. *)
InstancesInit ==
  instances = [i \in Slots |-> [state |-> "Idle", id |-> NoSocket, type |-> "LE_COC",
                                ep |-> "unknownEp", pseudo_id |-> InvalidConnId]]

-----------------------------------------------------------------------------
(* The look-ups go through the table from its start; only the first one     *)
(* looks at the state.                                                     *)
(* Mutant: a loop that does not stop at the first idle instance.             *)
find_idle_offload_instance_last ==
  LET idle == {i \in Slots : instances[i].state = "Idle"}
  IN IF idle = {} THEN 0 ELSE CHOOSE i \in idle : \A j \in idle : j <= i

find_idle_offload_instance == First({i \in Slots : instances[i].state = "Idle"})
find_by_socket_id(s) == First({i \in Slots : instances[i].id = s})
find_by_pseudo_id(c) == First({i \in Slots : instances[i].pseudo_id = c})

-----------------------------------------------------------------------------
(* The event that the entry function of a state raises itself, before it    *)
(* returns: a final state frees its instance, and the close request to the *)
(* microapp is answered on the spot (the "mock" answer of                  *)
(* socket_mgr_unoffload_req_to_microapp), the microapp's is never awaited. *)
OwnEvent(state) ==
  CASE state \in {"OffloadFailure", "UnoffloadSuccess"} -> "OFFLOAD_INSTANCE_FREE"
    [] state = "UnOffloadReqFromHAL" -> "UNOFFLOAD_FROM_MICROAPP_SUCCESS"
    [] OTHER -> "none"

Rest(state) == IF OwnEvent(state) = "none" THEN state
               ELSE NextState(state, OwnEvent(state))

(* Mutants: the open is reported before the microapp has answered; a failed  *)
(* open is not reported at all.                                            *)
TellHal_early(i, state) ==
  om2hal' = CASE state = "OffloadFailure" ->
                   Append(om2hal, [op |-> "OPEN_RSP", id |-> instances[i].id, status |-> "FAILURE"])
              [] state = "OffloadToMicrostackSuccess" ->
                   Append(om2hal, [op |-> "OPEN_RSP", id |-> instances[i].id, status |-> "SUCCESS"])
              [] state = "UnoffloadSuccess" ->
                   Append(om2hal, [op |-> "CLOSE_RSP", id |-> instances[i].id])
              [] OTHER -> om2hal

TellHal_noFailure(i, state) ==
  om2hal' = CASE state = "OffloadToMicroappSuccess" ->
                   Append(om2hal, [op |-> "OPEN_RSP", id |-> instances[i].id, status |-> "SUCCESS"])
              [] state = "UnoffloadSuccess" ->
                   Append(om2hal, [op |-> "CLOSE_RSP", id |-> instances[i].id])
              [] OTHER -> om2hal

(* What entering a state sends to each party.                              *)
TellHal(i, state) ==
  om2hal' = CASE state = "OffloadFailure" ->
                   Append(om2hal, [op |-> "OPEN_RSP", id |-> instances[i].id, status |-> "FAILURE"])
              [] state = "OffloadToMicroappSuccess" ->
                   Append(om2hal, [op |-> "OPEN_RSP", id |-> instances[i].id, status |-> "SUCCESS"])
              [] state = "UnoffloadSuccess" ->
                   Append(om2hal, [op |-> "CLOSE_RSP", id |-> instances[i].id])
              [] OTHER -> om2hal

(* Mutant: after a failed microapp open the microstack is left alone.       *)
TellMicrostack_onCloseOnly(i, state) ==
  om2bmm' = CASE state = "UnOffloadReqToMicrostack" ->
                   Append(om2bmm, [op |-> "CLOSE_REQ", connId |-> instances[i].pseudo_id])
              [] state = "OffloadToMicroappSuccess" ->
                   Append(om2bmm, [op |-> "SET_PARAMS_REQ", connId |-> instances[i].pseudo_id])
              [] OTHER -> om2bmm

TellMicrostack(i, state) ==
  om2bmm' = CASE state \in {"UnOffloadReqToMicrostack", "OffloadToMicroappFailure"} ->
                   Append(om2bmm, [op |-> "CLOSE_REQ", connId |-> instances[i].pseudo_id])
              [] state = "OffloadToMicroappSuccess" ->
                   Append(om2bmm, [op |-> "SET_PARAMS_REQ", connId |-> instances[i].pseudo_id])
              [] OTHER -> om2bmm

(* Mutant: the microapp is not told of a close.                             *)
TellMicroapp_noClose(i, state) ==
  om2awm' = IF state = "OffloadToMicrostackSuccess"
            THEN Append(om2awm, [op |-> "OPEN_REQ", id |-> instances[i].id,
                                 type |-> instances[i].type, ep |-> instances[i].ep])
            ELSE om2awm

TellMicroapp(i, state) ==
  om2awm' = CASE state = "OffloadToMicrostackSuccess" ->
                   Append(om2awm, [op |-> "OPEN_REQ", id |-> instances[i].id,
                                   type |-> instances[i].type, ep |-> instances[i].ep])
              [] state = "UnOffloadReqFromHAL" ->
                   Append(om2awm, [op |-> "CLOSE_CMD", id |-> instances[i].id,
                                   ep |-> instances[i].ep])
              [] OTHER -> om2awm

(* sm_process_evt_with_cb() on instance i, whose microstack id the caller   *)
(* may just have set to c.  Without a row the event is logged and dropped. *)
(* The states that raise their own event say nothing to the microstack, so *)
(* what it is told is that of the state the instance comes to rest in.     *)
ProcessEvent(i, evt, c) ==
  LET held == [instances EXCEPT ![i].pseudo_id = c]
  IN IF Rows(instances[i].state, evt) = {}
     THEN instances' = held /\ UNCHANGED <<om2hal, om2bmm, om2awm>>
     ELSE LET new == NextState(instances[i].state, evt)
          IN /\ instances' = [held EXCEPT ![i].state = Rest(new)]
             /\ TellHal(i, new)
             /\ TellMicrostack(i, Rest(new))
             /\ TellMicroapp(i, new)

Drop == UNCHANGED <<instances, om2hal, om2bmm, om2awm>>

-----------------------------------------------------------------------------
(* socket_mgr_handle_open_socket(): the first idle instance, or a refusal.  *)
handle_open_socket ==
  /\ Next1(hal2om, "OPEN_SOCKET")
  /\ hal2om' = Tail(hal2om)
  /\ LET m == Head(hal2om)
         i == find_idle_offload_instance
     IN IF i = 0
        THEN /\ om2hal' = Append(om2hal, [op |-> "OPEN_RSP", id |-> m.id, status |-> "FAILURE"])
             /\ UNCHANGED <<instances, om2bmm>>
        ELSE /\ instances' = [instances EXCEPT ![i] =
                                [@ EXCEPT !.state = NextState("Idle", "OFFLOAD_REQ"),
                                          !.id = m.id, !.type = m.type, !.ep = m.ep]]
             /\ om2bmm' = Append(om2bmm, [op |-> "OFFLOAD_REQ", id |-> m.id, type |-> m.type,
                                          context |-> i])
             /\ UNCHANGED om2hal
  /\ UNCHANGED <<bmm2om, om2awm, awm2om>>

(* socket_mgr_handle_close_socket(): an id nobody holds is ignored. *)
handle_close_socket ==
  /\ Next1(hal2om, "CLOSE_SOCKET")
  /\ hal2om' = Tail(hal2om)
  /\ LET i == find_by_socket_id(Head(hal2om).id)
     IN IF i = 0 THEN Drop
        ELSE ProcessEvent(i, "UNOFFLOAD_REQ", instances[i].pseudo_id)
  /\ UNCHANGED <<bmm2om, awm2om>>

(* socket_mgr_microstack_offload_cfm(): the context is the instance. *)
microstack_offload_cfm ==
  /\ Next1(bmm2om, "OFFLOAD_CFM")
  /\ bmm2om' = Tail(bmm2om)
  /\ LET m == Head(bmm2om)
     IN ProcessEvent(m.context,
                     IF m.result = "SUCCESS" THEN "OFFLOAD_TO_MICROSTACK_SUCCESS"
                                             ELSE "OFFLOAD_TO_MICROSTACK_FAILURE",
                     m.connId)
  /\ UNCHANGED <<hal2om, awm2om>>

(* socket_mgr_microstack_unoffload_cfm(): a failed close raises no event. *)
microstack_unoffload_cfm ==
  /\ Next1(bmm2om, "CLOSE_CFM")
  /\ bmm2om' = Tail(bmm2om)
  /\ LET i == find_by_pseudo_id(Head(bmm2om).connId)
     IN IF i = 0 \/ Head(bmm2om).result = "FAILURE" THEN Drop
        ELSE ProcessEvent(i, "UNOFFLOAD_FROM_MICROSTACK_SUCCESS", instances[i].pseudo_id)
  /\ UNCHANGED <<hal2om, awm2om>>

(* endpt_mgr_handle_offload_app_evt(), UAPP_OPEN_SOCKET_RES. *)
uapp_open_socket_res ==
  /\ Next1(awm2om, "OPEN_RES")
  /\ awm2om' = Tail(awm2om)
  /\ LET m == Head(awm2om)
         i == find_by_socket_id(m.id)
     IN IF i = 0 THEN Drop
        ELSE ProcessEvent(i, IF m.status = "SUCCESS" THEN "OFFLOAD_TO_MICROAPP_SUCCESS"
                                                     ELSE "OFFLOAD_TO_MICROAPP_FAILURE",
                          instances[i].pseudo_id)
  /\ UNCHANGED <<hal2om, bmm2om>>

(* endpt_mgr_handle_offload_app_evt(), UAPP_SOCKET_CLOSE_IND: passed on to   *)
(* the HAL, whatever the table says of that id.                            *)
uapp_socket_close_ind ==
  /\ Next1(awm2om, "CLOSE_IND")
  /\ awm2om' = Tail(awm2om)
  /\ om2hal' = Append(om2hal, [op |-> "CLOSE_IND", id |-> Head(awm2om).id])
  /\ UNCHANGED <<instances, hal2om, om2bmm, bmm2om, om2awm>>

-----------------------------------------------------------------------------
(* A GATT session takes the first idle instance, in which its pointer now   *)
(* lies over the socket id (offload_data is a union): no socket's id is    *)
(* left there.  The field of the microstack id is not touched.             *)
gatt_offload ==
  /\ Cardinality({i \in Slots : instances[i].state = "Gatt"}) < MaxGattSessions
  /\ find_idle_offload_instance # 0
  /\ instances' = [instances EXCEPT ![find_idle_offload_instance] =
                     [@ EXCEPT !.state = "Gatt", !.id = NoSocket]]
  /\ UNCHANGED channels

(* Mutant: any instance in use is cleared, a socket's too.                  *)
gatt_clear_offload_data_any(i) ==
  /\ instances[i].state # "Idle"
  /\ instances' = [instances EXCEPT ![i].state = "Idle"]
  /\ UNCHANGED channels

gatt_clear_offload_data(i) ==
  /\ instances[i].state = "Gatt"
  /\ instances' = [instances EXCEPT ![i].state = "Idle"]
  /\ UNCHANGED channels

FromHal == handle_open_socket \/ handle_close_socket
FromMicrostack == microstack_offload_cfm \/ microstack_unoffload_cfm
FromMicroapps == uapp_open_socket_res \/ uapp_socket_close_ind
GattSessions == gatt_offload \/ \E i \in Slots : gatt_clear_offload_data(i)
=============================================================================
