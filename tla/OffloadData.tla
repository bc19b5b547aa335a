----------------------------- MODULE OffloadData -----------------------------
(***************************************************************************)
(* The offload manager's part in RFCOMM data: it finds the instance of a   *)
(* socket or of a connection and passes the message on, on its one thread. *)
(* It keeps nothing of its own; the context of a request is the address of *)
(* the instance, and comes back with the confirmation.                     *)
(***************************************************************************)
EXTENDS OffloadManager

(* UAPP_DATA_TX_REQ, socket_mgr_data_tx(), profile_mgr_rfcomm_data_tx().   *)
uapp_data_tx_req ==
  /\ Next1(awm2om, "TX_REQ")
  /\ awm2om' = Tail(awm2om)
  /\ LET m == Head(awm2om)
         i == find_by_socket_id(m.id)
     IN om2bmm' = IF i = 0 THEN om2bmm
                  ELSE Append(om2bmm, [op |-> "DATA_REQ", connId |-> instances[i].pseudo_id,
                                       context |-> i, data |-> m.id])
  /\ UNCHANGED <<instances, hal2om, om2hal, bmm2om, om2awm>>

(* Mutant: a failed confirmation is not passed on.                         *)
microstack_data_cfm_successOnly ==
  /\ Next1(bmm2om, "DATA_CFM")
  /\ bmm2om' = Tail(bmm2om)
  /\ LET m == Head(bmm2om)
     IN om2awm' = IF m.result = "FAILURE" THEN om2awm
                  ELSE Append(om2awm, [op |-> "TX_RES", id |-> instances[m.context].id])
  /\ UNCHANGED <<instances, hal2om, om2hal, om2bmm, awm2om>>

(* BMM_SOCKET_DATA_CFM, socket_mgr_send_data_tx_cfm_to_uapp(): the id is   *)
(* the one the instance holds now.                                         *)
microstack_data_cfm ==
  /\ Next1(bmm2om, "DATA_CFM")
  /\ bmm2om' = Tail(bmm2om)
  /\ om2awm' = Append(om2awm, [op |-> "TX_RES", id |-> instances[Head(bmm2om).context].id])
  /\ UNCHANGED <<instances, hal2om, om2hal, om2bmm, awm2om>>

(* BMM_SOCKET_DATA_IND: the microapp is told, if an instance has the       *)
(* connection, and the microstack manager is answered in any case.         *)
microstack_data_ind ==
  /\ Next1(bmm2om, "DATA_IND")
  /\ bmm2om' = Tail(bmm2om)
  /\ LET m == Head(bmm2om)
         i == find_by_pseudo_id(m.connId)
     IN /\ om2awm' = IF i = 0 THEN om2awm
                     ELSE Append(om2awm, [op |-> "RX_IND", id |-> instances[i].id,
                                          data |-> m.data])
        /\ om2bmm' = Append(om2bmm, [op |-> "DATA_RSP", connId |-> m.connId,
                                     context |-> m.context])
  /\ UNCHANGED <<instances, hal2om, om2hal, awm2om>>

DataFromMicrostack == microstack_data_cfm \/ microstack_data_ind
=============================================================================
