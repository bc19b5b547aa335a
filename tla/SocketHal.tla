----------------------------- MODULE SocketHal ------------------------------
(***************************************************************************)
(* The Bluetooth socket HAL, BluetoothSocketImpl.  Its state table is       *)
(* shared, without a lock, by the binder thread that runs opened() and     *)
(* closed() and by glink_rx_thread, which runs processSocketOffloadRx()    *)
(* and calls closed() itself on a close indication.  A check of the table  *)
(* and the update that follows it are therefore two steps of a thread.     *)
(*                                                                         *)
(* The stack calls the interface from one thread of its own, so there is   *)
(* one binder call at a time.  The model starts once the capabilities have *)
(* been exchanged: getSocketCapabilities() is what opens the channel.      *)
(***************************************************************************)
EXTENDS SocketChannels

CONSTANT Contexts     \* the [type, ep] pairs the stack opens sockets with

ASSUME ContextsAssumption == Contexts \subseteq [type : Types, ep : Endpoints]

VARIABLES
  stateTable,   \* stateTable[s]: the entry of s; state CLOSED: there is none
  binder,       \* what the binder thread is in the middle of
  rx            \* what glink_rx_thread is in the middle of

halVars == <<stateTable, binder, rx>>

HalStates == {"CLOSED", "OPENING", "OPENED", "CLOSING"}

NoEntry == [state |-> "CLOSED", type |-> "none"]
Resting == [op |-> "idle", id |-> NoSocket]

HalTypeOK ==
  /\ stateTable \in [Sockets -> [state : HalStates, type : Types \cup {"none"}]]
  /\ binder \in [op : {"idle", "close"}, id : Sockets \cup {NoSocket}]
  /\ rx \in [op : {"idle", "close", "remove"}, id : Sockets \cup {NoSocket}]
  /\ binder.op # "idle" => binder.id \in Sockets
  /\ rx.op # "idle" => rx.id \in Sockets

HalInit ==
  /\ stateTable = [s \in Sockets |-> NoEntry]
  /\ binder = Resting
  /\ rx = Resting

getState(s) == stateTable[s].state

countEntriesWithType(t) == Cardinality({s \in Sockets : stateTable[s].type = t})

(* Mutant: one more than the limit. *)
isMaxOffloadSocketLimitReached_offByOne(t) == countEntriesWithType(t) > MaxConn(t)

isMaxOffloadSocketLimitReached(t) == countEntriesWithType(t) >= MaxConn(t)

(* Mutant: the entry is written whether there is one or not. *)
updateState_unchecked(s, new) == stateTable' = [stateTable EXCEPT ![s].state = new]

(* updateState() changes nothing when there is no entry. *)
updateState(s, new) ==
  stateTable' = IF getState(s) = "CLOSED" THEN stateTable
                ELSE [stateTable EXCEPT ![s].state = new]

-----------------------------------------------------------------------------
(* Mutant: an id that has an entry is not ignored. *)
Opened_again(s, c) ==
  /\ binder = Resting
  /\ ~isMaxOffloadSocketLimitReached(c.type)
  /\ stateTable' = [stateTable EXCEPT ![s] = [state |-> "OPENING", type |-> c.type]]
  /\ hal2om' = Append(hal2om, [op |-> "OPEN_SOCKET", id |-> s, type |-> c.type, ep |-> c.ep])
  /\ UNCHANGED <<binder, rx, om2hal>>

(* opened(): an id that has an entry is ignored, a full type is refused at  *)
(* once through the callback, which changes nothing here.                  *)
Opened(s, c) ==
  /\ binder = Resting
  /\ getState(s) = "CLOSED"
  /\ ~isMaxOffloadSocketLimitReached(c.type)
  /\ stateTable' = [stateTable EXCEPT ![s] = [state |-> "OPENING", type |-> c.type]]
  /\ hal2om' = Append(hal2om, [op |-> "OPEN_SOCKET", id |-> s, type |-> c.type, ep |-> c.ep])
  /\ UNCHANGED <<binder, rx, om2hal>>

(* closed() on the binder thread: the check of the state ...               *)
ClosedCheck(s) ==
  /\ binder = Resting
  /\ getState(s) = "OPENED"
  /\ binder' = [op |-> "close", id |-> s]
  /\ UNCHANGED <<stateTable, rx, hal2om, om2hal>>

(* ... and what closed() does once the check has passed.                   *)
CloseSocket(s) ==
  /\ updateState(s, "CLOSING")
  /\ hal2om' = Append(hal2om, [op |-> "CLOSE_SOCKET", id |-> s])

ClosedCommit ==
  /\ binder.op = "close"
  /\ CloseSocket(binder.id)
  /\ binder' = Resting
  /\ UNCHANGED <<rx, om2hal>>

-----------------------------------------------------------------------------
(* BT_OFFLOAD_SOCKET_OPEN_CB: on failure the callback runs first and the    *)
(* entry goes afterwards.                                                  *)
RxOpenCb ==
  /\ rx = Resting
  /\ Next1(om2hal, "OPEN_RSP")
  /\ om2hal' = Tail(om2hal)
  /\ IF Head(om2hal).status = "SUCCESS"
     THEN updateState(Head(om2hal).id, "OPENED") /\ UNCHANGED rx
     ELSE rx' = [op |-> "remove", id |-> Head(om2hal).id] /\ UNCHANGED stateTable
  /\ UNCHANGED <<binder, hal2om>>

(* BT_OFFLOAD_SOCKET_CLOSE_CB: the callback, then the entry. *)
RxCloseCb ==
  /\ rx = Resting
  /\ Next1(om2hal, "CLOSE_RSP")
  /\ om2hal' = Tail(om2hal)
  /\ rx' = [op |-> "remove", id |-> Head(om2hal).id]
  /\ UNCHANGED <<stateTable, binder, hal2om>>

(* Mutant: the indication is acted on in the wrong state. *)
RxCloseInd_closing ==
  /\ rx = Resting
  /\ Next1(om2hal, "CLOSE_IND")
  /\ om2hal' = Tail(om2hal)
  /\ rx' = IF getState(Head(om2hal).id) = "CLOSING"
           THEN [op |-> "close", id |-> Head(om2hal).id]
           ELSE Resting
  /\ UNCHANGED <<stateTable, binder, hal2om>>

(* BT_OFFLOAD_SOCKET_CLOSE_IND: the check of closed(), on this thread.      *)
RxCloseInd ==
  /\ rx = Resting
  /\ Next1(om2hal, "CLOSE_IND")
  /\ om2hal' = Tail(om2hal)
  /\ rx' = IF getState(Head(om2hal).id) = "OPENED"
           THEN [op |-> "close", id |-> Head(om2hal).id]
           ELSE Resting
  /\ UNCHANGED <<stateTable, binder, hal2om>>

RxClosedCommit ==
  /\ rx.op = "close"
  /\ CloseSocket(rx.id)
  /\ rx' = Resting
  /\ UNCHANGED <<binder, om2hal>>

removeEntry ==
  /\ rx.op = "remove"
  /\ stateTable' = [stateTable EXCEPT ![rx.id] = NoEntry]
  /\ rx' = Resting
  /\ UNCHANGED <<binder, hal2om, om2hal>>

StackCall == \E s \in Sockets : ClosedCheck(s) \/ \E c \in Contexts : Opened(s, c)

RxThread == RxOpenCb \/ RxCloseCb \/ RxCloseInd \/ RxClosedCommit \/ removeEntry
=============================================================================
