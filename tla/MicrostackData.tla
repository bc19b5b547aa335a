--------------------------- MODULE MicrostackData ---------------------------
(***************************************************************************)
(* The microstack manager's part in RFCOMM data: the connection record     *)
(* beside each entry of its table, the window that holds back the          *)
(* confirmation of a packet, and the queue that holds back packets of the  *)
(* peer until the offload manager has answered for the last one.           *)
(***************************************************************************)
EXTENDS MicrostackManager, RfcommChannel

CONSTANTS
  TxWindow,     \* BMM_RFCOMM_TX_WINDOW_SIZE
  RxAppCredit   \* BMM_RFCOMM_RX_APP_CREDIT

ASSUME MicrostackDataAssumption == TxWindow \in Nat \ {0} /\ RxAppCredit \in Nat \ {0}

VARIABLE conn    \* gBmm.socket[].proto.rfcomm

(* txPending holds the context of the request that waits, if there is one. *)
NoConn == [rfcConnId |-> NoSocket, txCount |-> 0, txPending |-> {}, rxQueue |-> <<>>,
           rxAppCredits |-> 0]

ConnTypeOK ==
  conn \in [Indices -> [rfcConnId : Sockets \cup {NoSocket}, txCount : 0 .. TxWindow,
                        txPending : SUBSET Slots, rxQueue : Seq(PeerPackets),
                        rxAppCredits : 0 .. RxAppCredit]]

ConnInit == conn = [x \in Indices |-> NoConn]

(* BmmGetIndexFromRfcommConId(): the index, if there is one.               *)
IndexFromRfcommConId(s) == {x \in Indices : socket[x].inUse /\ conn[x].rfcConnId = s}

DataCfm(connId, context, result) ==
  [op |-> "DATA_CFM", connId |-> connId, context |-> context, result |-> result]

-----------------------------------------------------------------------------
(* The three requests of MicrostackManager, with what they do to the       *)
(* connection.  The peer has granted some credits before the offload.      *)
OffloadReq ==
  /\ \E paramsOk, filterOk \in BOOLEAN : BmmSocketOffloadReqHandler(paramsOk, filterOk)
  /\ LET s == Head(om2bmm).id
         x == BmmGetFreeConnIdIndex
     IN IF socket' = socket THEN UNCHANGED <<conn, dlc, peer>>
        ELSE /\ conn' = [conn EXCEPT ![x] = [NoConn EXCEPT !.rfcConnId = s,
                                                           !.rxAppCredits = RxAppCredit]]
             /\ \E granted \in 0 .. PeerBuffers : rfcomm_offload_dlci(s, granted)
  /\ UNCHANGED <<rfcQueue, rfc2bmm, l2cap, toPeer, fromPeer>>

(* A request that waits in txPending is freed with the connection.         *)
CloseReq ==
  /\ BmmSocketCloseReqHandler
  /\ LET c == Head(om2bmm).connId
     IN IF BmmIsConnIdValid(c)
        THEN /\ rfcomm_disconnect_dlci(conn[IndexOf(c)].rfcConnId)
             /\ conn' = [conn EXCEPT ![IndexOf(c)] = NoConn]
        ELSE UNCHANGED <<conn, dlc, l2cap, toPeer, fromPeer, peer>>
  /\ UNCHANGED <<rfcQueue, rfc2bmm>>

(* The preferred receive credits go to RFCOMM as a write without data.     *)
SetParamsReq ==
  /\ BmmSocketSetParamsReqHandler
  /\ LET c == Head(om2bmm).connId
     IN rfcQueue' = IF BmmIsConnIdValid(c)
                    THEN Append(rfcQueue, [op |-> "DATAWRITE_REQ", data |-> NoData,
                                           connId |-> conn[IndexOf(c)].rfcConnId,
                                           credits |-> InitCredits])
                    ELSE rfcQueue
  /\ UNCHANGED <<conn, dlc, rfc2bmm, l2cap, toPeer, fromPeer, peer>>

-----------------------------------------------------------------------------
ToRfcomm(x, data) ==
  rfcQueue' = Append(rfcQueue, [op |-> "DATAWRITE_REQ", connId |-> conn[x].rfcConnId,
                                credits |-> 0, data |-> data])

(* Mutant: the window takes one request too many.                          *)
RfcommDataWriteReq_oneMore(x, m) ==
  IF conn[x].txCount <= TxWindow
  THEN /\ ToRfcomm(x, m.data)
       /\ IF conn[x].txCount + 1 < TxWindow
          THEN /\ conn' = [conn EXCEPT ![x].txCount = @ + 1]
               /\ bmm2om' = Append(bmm2om, DataCfm(m.connId, m.context, "SUCCESS"))
          ELSE /\ conn' = [conn EXCEPT ![x] = [@ EXCEPT !.txCount = @ + 1,
                                                        !.txPending = {m.context}]]
               /\ UNCHANGED bmm2om
  ELSE /\ bmm2om' = Append(bmm2om, DataCfm(m.connId, m.context, "FAILURE"))
       /\ UNCHANGED <<conn, rfcQueue>>

(* BmmRfcommDataWriteReqHandler(): a request below the window is confirmed *)
(* at once, the one that fills it when L2CAP has sent a packet, and one    *)
(* more is discarded (BMM_RESULT_FLOW_CONTROL_VIOLATED).                   *)
RfcommDataWriteReq(x, m) ==
  IF conn[x].txCount < TxWindow
  THEN /\ ToRfcomm(x, m.data)
       /\ IF conn[x].txCount + 1 < TxWindow
          THEN /\ conn' = [conn EXCEPT ![x].txCount = @ + 1]
               /\ bmm2om' = Append(bmm2om, DataCfm(m.connId, m.context, "SUCCESS"))
          ELSE /\ conn' = [conn EXCEPT ![x] = [@ EXCEPT !.txCount = @ + 1,
                                                        !.txPending = {m.context}]]
               /\ UNCHANGED bmm2om
  ELSE /\ bmm2om' = Append(bmm2om, DataCfm(m.connId, m.context, "FAILURE"))
       /\ UNCHANGED <<conn, rfcQueue>>

(* BmmSocketDataReqHandler(). *)
BmmSocketDataReqHandler ==
  /\ Next1(om2bmm, "DATA_REQ")
  /\ om2bmm' = Tail(om2bmm)
  /\ LET m == Head(om2bmm)
     IN IF BmmIsConnIdValid(m.connId) THEN RfcommDataWriteReq(IndexOf(m.connId), m)
        ELSE /\ bmm2om' = Append(bmm2om, DataCfm(m.connId, m.context, "FAILURE"))
             /\ UNCHANGED <<conn, rfcQueue>>
  /\ UNCHANGED <<socket, dlc, rfc2bmm, l2cap, toPeer, fromPeer, peer,
                 hal2om, om2hal, om2awm, awm2om>>

(* BmmRfcommDataWriteCfmHandler(): the confirmation that was held back is  *)
(* sent when the window is left; one for a connection that is gone is      *)
(* ignored.                                                                *)
RfcommDataWriteCfm ==
  /\ Next1(rfc2bmm, "DATAWRITE_CFM")
  /\ rfc2bmm' = Tail(rfc2bmm)
  /\ LET found == IndexFromRfcommConId(Head(rfc2bmm).connId)
     IN IF found = {} THEN UNCHANGED <<conn, bmm2om>>
        ELSE \E x \in found :
               /\ IF conn[x].txCount = TxWindow
                  THEN \E context \in conn[x].txPending :
                         bmm2om' = Append(bmm2om, DataCfm(socket[x].connId, context, "SUCCESS"))
                  ELSE UNCHANGED bmm2om
               /\ conn' = [conn EXCEPT ![x] = [@ EXCEPT
                             !.txPending = {},
                             !.txCount = IF @ > 0 THEN @ - 1 ELSE 0]]
  /\ UNCHANGED <<socket, dlc, rfcQueue, l2cap, toPeer, fromPeer, peer,
                 hal2om, om2hal, om2bmm, om2awm, awm2om>>

-----------------------------------------------------------------------------
(* BmmRfcommRestoreRxQueue(): packets go up while there are credits of the *)
(* application, and RFCOMM is answered for each.                           *)
RestoreRxQueue(x, c) ==
  LET n == IF c.rxAppCredits < Len(c.rxQueue) THEN c.rxAppCredits ELSE Len(c.rxQueue)
  IN /\ conn' = [conn EXCEPT ![x] = [c EXCEPT !.rxAppCredits = @ - n,
                                              !.rxQueue = SubSeq(@, n + 1, Len(@))]]
     /\ bmm2om' = bmm2om \o [k \in 1 .. n |->
                    [op |-> "DATA_IND", connId |-> socket[x].connId, context |-> x,
                     data |-> c.rxQueue[k]]]
     /\ rfcQueue' = rfcQueue \o [k \in 1 .. n |->
                      [op |-> "DATAREAD_RSP", connId |-> c.rfcConnId]]

(* Mutant: a packet that finds no credit of the application is not kept.   *)
RfcommDataReadInd_drops ==
  /\ Next1(rfc2bmm, "DATAREAD_IND")
  /\ rfc2bmm' = Tail(rfc2bmm)
  /\ LET m == Head(rfc2bmm)
         found == {x \in IndexFromRfcommConId(m.connId) : conn[x].rxAppCredits > 0}
     IN IF found = {} THEN UNCHANGED <<conn, bmm2om, rfcQueue>>
        ELSE \E x \in found : RestoreRxQueue(x, [conn[x] EXCEPT !.rxQueue = Append(@, m.data)])
  /\ UNCHANGED <<socket, dlc, l2cap, toPeer, fromPeer, peer,
                 hal2om, om2hal, om2bmm, om2awm, awm2om>>

(* BmmRfcommDataReadIndHandler(): a packet that may go up at once does, one *)
(* that has to wait is queued; both are the queue's rule for a packet put  *)
(* at its end.                                                             *)
RfcommDataReadInd ==
  /\ Next1(rfc2bmm, "DATAREAD_IND")
  /\ rfc2bmm' = Tail(rfc2bmm)
  /\ LET m == Head(rfc2bmm)
         found == IndexFromRfcommConId(m.connId)
     IN IF found = {} THEN UNCHANGED <<conn, bmm2om, rfcQueue>>
        ELSE \E x \in found : RestoreRxQueue(x, [conn[x] EXCEPT !.rxQueue = Append(@, m.data)])
  /\ UNCHANGED <<socket, dlc, l2cap, toPeer, fromPeer, peer,
                 hal2om, om2hal, om2bmm, om2awm, awm2om>>

(* BmmSocketDataRspHandler(): the context is the index, which by now may be *)
(* another connection's.                                                   *)
BmmSocketDataRspHandler ==
  /\ Next1(om2bmm, "DATA_RSP")
  /\ om2bmm' = Tail(om2bmm)
  /\ LET m == Head(om2bmm)
         x == m.context
     IN IF socket[x].inUse /\ socket[x].connId = m.connId
        THEN RestoreRxQueue(x, [conn[x] EXCEPT !.rxAppCredits = @ + 1])
        ELSE UNCHANGED <<conn, bmm2om, rfcQueue>>
  /\ UNCHANGED <<socket, dlc, rfc2bmm, l2cap, toPeer, fromPeer, peer,
                 hal2om, om2hal, om2awm, awm2om>>

FromOffloadManager ==
  OffloadReq \/ CloseReq \/ SetParamsReq \/ BmmSocketDataReqHandler \/ BmmSocketDataRspHandler
FromRfcomm == RfcommDataWriteCfm \/ RfcommDataReadInd
=============================================================================
