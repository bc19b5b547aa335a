------------------------------ MODULE GattHal -------------------------------
(***************************************************************************)
(* The Bluetooth GATT HAL, BluetoothGattImpl.  One mutex covers each of     *)
(* its calls and each message of its receive thread, except clearServices, *)
(* which only sends.                                                       *)
(***************************************************************************)
EXTENDS GattChannels

VARIABLE stateTable     \* stateTable[s]: the entry of s; CLOSED: there is none

HalStates == {"CLOSED", "OPENING", "OPENED", "CLOSING"}

HalTypeOK == stateTable \in [Sessions -> HalStates]
HalInit == stateTable = [s \in Sessions |-> "CLOSED"]

registerService(s) ==
  /\ stateTable[s] = "CLOSED"
  /\ stateTable' = [stateTable EXCEPT ![s] = "OPENING"]
  /\ hal2om' = Append(hal2om, [op |-> "REGISTER", id |-> s])
  /\ UNCHANGED om2hal

unregisterService(s) ==
  /\ stateTable[s] = "OPENED"
  /\ stateTable' = [stateTable EXCEPT ![s] = "CLOSING"]
  /\ hal2om' = Append(hal2om, [op |-> "UNREGISTER", id |-> s])
  /\ UNCHANGED om2hal

clearServices(a) ==
  /\ hal2om' = Append(hal2om, [op |-> "CLEAR", acl |-> a])
  /\ UNCHANGED <<stateTable, om2hal>>

-----------------------------------------------------------------------------
(* updateState() changes nothing when there is no entry. *)
updateState(s, new) ==
  IF stateTable[s] = "CLOSED" THEN stateTable ELSE [stateTable EXCEPT ![s] = new]

(* The answer to a clear removes the entries of every connection: its       *)
(* handler calls removeEntry(0).                                           *)
processGattOffloadRx ==
  /\ om2hal # <<>>
  /\ LET m == Head(om2hal)
     IN stateTable' = CASE m.op = "REGISTER_RSP" ->
                             updateState(m.id, IF m.ok THEN "OPENED" ELSE "CLOSED")
                        [] m.op = "UNREGISTER_RSP" -> updateState(m.id, "CLOSED")
                        [] m.op = "CLEAR_RSP" -> [s \in Sessions |-> "CLOSED"]
  /\ om2hal' = Tail(om2hal)
  /\ UNCHANGED hal2om
=============================================================================
