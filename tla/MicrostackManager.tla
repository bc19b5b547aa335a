-------------------------- MODULE MicrostackManager --------------------------
(***************************************************************************)
(* The Bluetooth microstack manager (BMM): the table of offloaded           *)
(* connections, gBmm.socket[], and the handlers of the requests of the     *)
(* offload manager.  One scheduler task; a handler answers before it       *)
(* returns.  The protocol layers below it are not modelled, except that    *)
(* the HCI arbiter may refuse to set a filter.                             *)
(***************************************************************************)
EXTENDS SocketChannels

VARIABLE socket     \* gBmm.socket[]

FreeInst == [inUse |-> FALSE, connId |-> InvalidConnId, socketId |-> NoSocket,
             protocol |-> "none", creditInitialised |-> FALSE]

BmmTypeOK ==
  socket \in [Indices -> [inUse : BOOLEAN, connId : ConnIds \cup {InvalidConnId},
                          socketId : Sockets \cup {NoSocket},
                          protocol : Types \cup {"none"}, creditInitialised : BOOLEAN]]

BmmInit == socket = [x \in Indices |-> FreeInst]

Active(t) == {x \in Indices : socket[x].inUse /\ socket[x].protocol = t}

(* BmmGetFreeConnIdIndex(): the lowest index not in use. *)
FreeIndices == {x \in Indices : ~socket[x].inUse}
BmmGetFreeConnIdIndex == CHOOSE x \in FreeIndices : \A y \in FreeIndices : x <= y

BmmIsConnIdValid(c) == \E x \in Indices : socket[x].inUse /\ socket[x].connId = c

(* The refusals of BmmValidateSocketOffloadReq() that depend on the table.  *)
RefusedByTable(s, t) ==
  \/ \E x \in Indices : socket[x].inUse /\ socket[x].socketId = s
  \/ Cardinality(Active(t)) >= MaxConn(t)
  \/ FreeIndices = {}

OffloadCfm(m, c, result) ==
  [op |-> "OFFLOAD_CFM", context |-> m.context, connId |-> c, result |-> result]

(* BmmSocketRfcommOffloadReqHandler() and BmmSocketLecocOffloadReqHandler().  *)
(* The parameters may be bad (a DLCI of 0, initial receive credits), and     *)
(* the arbiter may refuse the filter after the connection id was made: that  *)
(* answer carries the id of a connection that does not exist.                *)
BmmSocketOffloadReqHandler(paramsOk, filterOk) ==
  /\ Next1(om2bmm, "OFFLOAD_REQ")
  /\ om2bmm' = Tail(om2bmm)
  /\ LET m == Head(om2bmm)
         x == BmmGetFreeConnIdIndex
         c == BmmGenerateConnId(m.type, m.id, x)
     IN IF RefusedByTable(m.id, m.type) \/ ~paramsOk
        THEN /\ bmm2om' = Append(bmm2om, OffloadCfm(m, InvalidConnId, "FAILURE"))
             /\ UNCHANGED socket
        ELSE IF filterOk
        THEN /\ bmm2om' = Append(bmm2om, OffloadCfm(m, c, "SUCCESS"))
             /\ socket' = [socket EXCEPT ![x] =
                             [inUse |-> TRUE, connId |-> c, socketId |-> m.id,
                              protocol |-> m.type, creditInitialised |-> FALSE]]
        ELSE /\ bmm2om' = Append(bmm2om, OffloadCfm(m, c, "FAILURE"))
             /\ UNCHANGED socket
  /\ UNCHANGED <<hal2om, om2hal, om2awm, awm2om>>

(* The index of a connection id that BmmIsConnIdValid() accepts. *)
IndexOf(c) == CHOOSE x \in Indices : socket[x].inUse /\ socket[x].connId = c

(* BmmSocketCloseReqHandler(). *)
BmmSocketCloseReqHandler ==
  /\ Next1(om2bmm, "CLOSE_REQ")
  /\ om2bmm' = Tail(om2bmm)
  /\ LET c == Head(om2bmm).connId
     IN IF BmmIsConnIdValid(c)
        THEN /\ socket' = [socket EXCEPT ![IndexOf(c)] = FreeInst]
             /\ bmm2om' = Append(bmm2om, [op |-> "CLOSE_CFM", connId |-> c, result |-> "SUCCESS"])
        ELSE /\ bmm2om' = Append(bmm2om, [op |-> "CLOSE_CFM", connId |-> c, result |-> "FAILURE"])
             /\ UNCHANGED socket
  /\ UNCHANGED <<hal2om, om2hal, om2awm, awm2om>>

(* BmmSocketSetParamsReqHandler() with BMM_SOCK_PREFERRED_RX_CREDITS, the    *)
(* only parameter the offload manager sets; its confirmation is only       *)
(* logged there, and is left out.                                          *)
BmmSocketSetParamsReqHandler ==
  /\ Next1(om2bmm, "SET_PARAMS_REQ")
  /\ om2bmm' = Tail(om2bmm)
  /\ LET c == Head(om2bmm).connId
     IN IF BmmIsConnIdValid(c)
        THEN socket' = [socket EXCEPT ![IndexOf(c)].creditInitialised = TRUE]
        ELSE UNCHANGED socket
  /\ UNCHANGED <<hal2om, om2hal, bmm2om, om2awm, awm2om>>

Microstack ==
  \/ \E paramsOk, filterOk \in BOOLEAN : BmmSocketOffloadReqHandler(paramsOk, filterOk)
  \/ BmmSocketCloseReqHandler
  \/ BmmSocketSetParamsReqHandler
=============================================================================
