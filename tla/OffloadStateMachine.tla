------------------------ MODULE OffloadStateMachine -------------------------
(***************************************************************************)
(* The state machine of an offload instance, offload_mgr_state_table[].    *)
(* Sockets and GATT sessions run the same table; they differ in what       *)
(* entering a state does.                                                  *)
(***************************************************************************)

EXTENDS Integers

(* A look-up goes through its table from the start.  0 stands for "not      *)
(* found": no instance and no slot has it.                                 *)
First(found) == IF found = {} THEN 0
                ELSE CHOOSE i \in found : \A j \in found : i <= j

(* Mutant: a microapp may not give up a session by itself. *)
offload_mgr_state_table_asked ==
  { <<"Idle", "OFFLOAD_REQ", "OffloadReq">>,
    <<"OffloadReq", "OFFLOAD_TO_MICROSTACK_SUCCESS", "OffloadToMicrostackSuccess">>,
    <<"OffloadReq", "OFFLOAD_TO_MICROSTACK_FAILURE", "OffloadFailure">>,
    <<"OffloadReq", "UNOFFLOAD_REQ", "UnOffloadReqToMicrostack">>,
    <<"OffloadToMicroappSuccess", "UNOFFLOAD_REQ", "UnOffloadReqFromHAL">>,
    <<"UnOffloadReqFromHAL", "UNOFFLOAD_FROM_MICROAPP_SUCCESS", "UnOffloadReqToMicrostack">>,
    <<"OffloadToMicroappFailure", "UNOFFLOAD_FROM_MICROSTACK_SUCCESS", "OffloadFailure">>,
    <<"UnOffloadReqToMicrostack", "UNOFFLOAD_FROM_MICROSTACK_SUCCESS", "UnoffloadSuccess">>,
    <<"OffloadToMicrostackSuccess", "UNOFFLOAD_REQ", "UnOffloadReqToMicrostack">>,
    <<"OffloadToMicrostackSuccess", "OFFLOAD_TO_MICROAPP_SUCCESS", "OffloadToMicroappSuccess">>,
    <<"OffloadToMicrostackSuccess", "OFFLOAD_TO_MICROAPP_FAILURE", "OffloadToMicroappFailure">>,
    <<"UnoffloadSuccess", "OFFLOAD_INSTANCE_FREE", "Idle">>,
    <<"OffloadFailure", "OFFLOAD_INSTANCE_FREE", "Idle">> }

(* Mutant: what a microapp has refused is tried again. *)
offload_mgr_state_table_retry ==
  { <<"Idle", "OFFLOAD_REQ", "OffloadReq">>,
    <<"OffloadReq", "OFFLOAD_TO_MICROSTACK_SUCCESS", "OffloadToMicrostackSuccess">>,
    <<"OffloadReq", "OFFLOAD_TO_MICROSTACK_FAILURE", "OffloadFailure">>,
    <<"OffloadReq", "UNOFFLOAD_REQ", "UnOffloadReqToMicrostack">>,
    <<"OffloadToMicroappSuccess", "UNOFFLOAD_REQ", "UnOffloadReqFromHAL">>,
    <<"UnOffloadReqFromHAL", "UNOFFLOAD_FROM_MICROAPP_SUCCESS", "UnOffloadReqToMicrostack">>,
    <<"OffloadToMicroappSuccess", "UNOFFLOAD_FROM_MICROAPP_SUCCESS", "UnOffloadReqToMicrostack">>,
    <<"OffloadToMicroappFailure", "UNOFFLOAD_FROM_MICROSTACK_SUCCESS", "OffloadReq">>,
    <<"UnOffloadReqToMicrostack", "UNOFFLOAD_FROM_MICROSTACK_SUCCESS", "UnoffloadSuccess">>,
    <<"OffloadToMicrostackSuccess", "UNOFFLOAD_REQ", "UnOffloadReqToMicrostack">>,
    <<"OffloadToMicrostackSuccess", "OFFLOAD_TO_MICROAPP_SUCCESS", "OffloadToMicroappSuccess">>,
    <<"OffloadToMicrostackSuccess", "OFFLOAD_TO_MICROAPP_FAILURE", "OffloadToMicroappFailure">>,
    <<"UnoffloadSuccess", "OFFLOAD_INSTANCE_FREE", "Idle">>,
    <<"OffloadFailure", "OFFLOAD_INSTANCE_FREE", "Idle">> }

(* offload_mgr_state_table[]: current state, event, next state. *)
offload_mgr_state_table ==
  { <<"Idle", "OFFLOAD_REQ", "OffloadReq">>,
    <<"OffloadReq", "OFFLOAD_TO_MICROSTACK_SUCCESS", "OffloadToMicrostackSuccess">>,
    <<"OffloadReq", "OFFLOAD_TO_MICROSTACK_FAILURE", "OffloadFailure">>,
    <<"OffloadReq", "UNOFFLOAD_REQ", "UnOffloadReqToMicrostack">>,
    <<"OffloadToMicroappSuccess", "UNOFFLOAD_REQ", "UnOffloadReqFromHAL">>,
    <<"UnOffloadReqFromHAL", "UNOFFLOAD_FROM_MICROAPP_SUCCESS", "UnOffloadReqToMicrostack">>,
    <<"OffloadToMicroappSuccess", "UNOFFLOAD_FROM_MICROAPP_SUCCESS", "UnOffloadReqToMicrostack">>,
    <<"OffloadToMicroappFailure", "UNOFFLOAD_FROM_MICROSTACK_SUCCESS", "OffloadFailure">>,
    <<"UnOffloadReqToMicrostack", "UNOFFLOAD_FROM_MICROSTACK_SUCCESS", "UnoffloadSuccess">>,
    <<"OffloadToMicrostackSuccess", "UNOFFLOAD_REQ", "UnOffloadReqToMicrostack">>,
    <<"OffloadToMicrostackSuccess", "OFFLOAD_TO_MICROAPP_SUCCESS", "OffloadToMicroappSuccess">>,
    <<"OffloadToMicrostackSuccess", "OFFLOAD_TO_MICROAPP_FAILURE", "OffloadToMicroappFailure">>,
    <<"UnoffloadSuccess", "OFFLOAD_INSTANCE_FREE", "Idle">>,
    <<"OffloadFailure", "OFFLOAD_INSTANCE_FREE", "Idle">> }

(* The rows for a state and an event; a pair has one row at most. *)
Rows(state, evt) == {row \in offload_mgr_state_table : row[1] = state /\ row[2] = evt}
NextState(state, evt) == (CHOOSE row \in Rows(state, evt) : TRUE)[3]

OffloadStates ==
  {"Idle", "OffloadReq", "OffloadToMicrostackSuccess", "UnOffloadReqToMicrostack",
   "UnOffloadReqFromHAL", "OffloadFailure", "OffloadToMicroappSuccess",
   "OffloadToMicroappFailure", "UnoffloadSuccess"}
=============================================================================
