----------------------------- MODULE SocketData -----------------------------
(***************************************************************************)
(* RFCOMM data over offloaded sockets, from the microapps to the peer and  *)
(* back: SocketOffload, whose opens and closes go on at any time, with the *)
(* data side of each party.  The messages of the data share the channels   *)
(* of the others.                                                          *)
(***************************************************************************)
EXTENDS SocketOffload, OffloadData, MicrostackData, MicroAppData

CONSTANT MaxTraffic     \* bound: operations of the user and packets of the peer

ASSUME DataAssumption ==
  /\ Sockets \subseteq Nat
  /\ MaxTraffic \in Nat

VARIABLE traffic        \* how many of them there have been

dataVars == <<rfcommVars, conn, appDataVars, traffic>>
allVars == <<vars, dataVars>>

DataInit ==
  /\ Init
  /\ RfcommInit
  /\ ConnInit
  /\ AppDataInit
  /\ traffic = 0

Bounded(A) == A /\ traffic < MaxTraffic /\ traffic' = traffic + 1
Unbounded(A) == A /\ UNCHANGED traffic

(* The stack gives a new socket a new id: ids are taken in order, and one  *)
(* whose channel was released is not used again.                           *)
NewId(s) == dlc[s].state # "released" /\ \A r \in Sockets : r < s => dlc[r].state # "none"
NewIds == \A s \in Sockets : getState(s) = "CLOSED" /\ getState(s)' # "CLOSED" => NewId(s)

HalSide(A) == HalStep(A) /\ UNCHANGED dataVars
OmSide(A) == OmStep(A) /\ UNCHANGED dataVars
BmmSide(A) == BmmStep(A) /\ UNCHANGED <<appDataVars, traffic>>
AwmSide(A) == AwmStep(A) /\ UNCHANGED <<rfcommVars, conn>>
RfcommSide(A) == A /\ UNCHANGED <<vars, conn, appDataVars>>

DataNext ==
  \/ HalSide(StackCall /\ NewIds)
  \/ HalSide(ClosedCommit)
  \/ HalSide(RxThread)
  \/ OmSide(FromHal)
  \/ OmSide(FromMicrostack)
  \/ OmSide(FromMicroapps)
  \/ OmSide(uapp_data_tx_req)
  \/ OmSide(DataFromMicrostack)
  \/ BmmSide(FromOffloadManager)
  \/ BmmSide(FromRfcomm)
  \/ Unbounded(RfcommSide(Rfcomm))
  \/ Unbounded(RfcommSide(parse_frame))
  \/ Unbounded(RfcommSide(CreditTimer))
  \/ Unbounded(RfcommSide(L2capConfirms))
  \/ Unbounded(RfcommSide(PeerTakes))
  \/ Unbounded(RfcommSide(PeerReturns))
  \/ Bounded(RfcommSide(PeerPacket))
  \/ Unbounded(AwmSide(DataAppManager))
  \/ Unbounded(AwmSide(ShellGoesOn))
  \/ Bounded(AwmSide(User))

DataSpec == DataInit /\ [][DataNext]_allVars

-----------------------------------------------------------------------------
(* Every variable of the data side holds a value of its declared type, and *)
(* so do the messages the data adds to the channels.                       *)
DataTypeOK ==
  /\ RfcommTypeOK
  /\ ConnTypeOK
  /\ AppDataTypeOK
  /\ \A m \in InFlight(awm2om) : m.op = "TX_REQ" => m.id \in Sockets \cup {NoSocket}
  /\ \A m \in InFlight(om2bmm) :
       /\ m.op = "DATA_REQ" => m.context \in Slots /\ m.data \in Sockets \cup {NoSocket}
       /\ m.op = "DATA_RSP" => m.context \in Indices
  /\ \A m \in InFlight(bmm2om) :
       /\ m.op = "DATA_CFM" => m.context \in Slots /\ m.result \in Results
       /\ m.op = "DATA_IND" => m.context \in Indices /\ m.data \in PeerPackets
  /\ \A m \in InFlight(om2awm) : m.op = "RX_IND" => m.data \in PeerPackets

-----------------------------------------------------------------------------
Seqs == INSTANCE SequencesExt

(* The messages of one kind in a queue; the data and the credits they carry. *)
Of(queue, Is(_)) == SelectSeq(queue, Is)
Count(queue, Is(_)) == Len(Of(queue, Is))
DataOf(queue) == [k \in DOMAIN queue |-> queue[k].data]
CreditsOf(queue) == Seqs!FoldLeft(LAMBDA sum, f : sum + f.credits, 0, queue)

OnAir(queue, s) == Of(queue, LAMBDA f : f.dlc = s)
SentUp(s) == Of(rfc2bmm, LAMBDA m : m.op = "DATAREAD_IND" /\ m.connId = s)
Indicated(x) == Of(bmm2om, LAMBDA m : m.op = "DATA_IND" /\ m.connId = socket[x].connId)

(* Credits are neither made nor lost.  Those we gave to the peer are there, *)
(* or on their way, or with a packet that has not been consumed, or waiting *)
(* to be returned; those the peer gave us likewise; and those the offload  *)
(* manager gave to the microstack manager.  (One lost stops a direction for *)
(* good once it happens often enough, and one made overruns a buffer.)     *)
CreditsConserved ==
  \A x \in Indices : conn[x] # NoConn =>
    LET s == conn[x].rfcConnId
        c == conn[x]
    IN /\ Open(s)
       /\ dlc[s].allocated =
            peer[s].credits + CreditsOf(OnAir(toPeer, s))
            + Count(OnAir(fromPeer, s), LAMBDA f : f.n # 0)
            + Len(SentUp(s)) + Len(c.rxQueue)
            + Count(rfcQueue, LAMBDA m : m.op = "DATAREAD_RSP" /\ m.connId = s)
            + dlc[s].rx_credits
       /\ PeerBuffers =
            dlc[s].tx_credits + CreditsOf(OnAir(fromPeer, s)) + peer[s].owed
            + Count(OnAir(toPeer, s), LAMBDA f : f.data # NoData)
       /\ RxAppCredit =
            c.rxAppCredits + Len(Indicated(x))
            + Count(om2bmm, LAMBDA m : m.op = "DATA_RSP" /\ m.connId = socket[x].connId)

(* The window counts the packets that RFCOMM has not confirmed, wherever   *)
(* they are; a request waits for its confirmation exactly while it is full; *)
(* and a channel carries the packets of its own socket only.               *)
WindowAccounts ==
  \A x \in Indices : conn[x] # NoConn =>
    LET s == conn[x].rfcConnId
        c == conn[x]
        Asked(m) == m.op = "DATAWRITE_REQ" /\ m.connId = s /\ m.data # NoData
    IN /\ c.txCount = Count(rfcQueue, Asked) + Len(dlc[s].data_q) + l2cap[s]
                      + Count(rfc2bmm, LAMBDA m : m.op = "DATAWRITE_CFM" /\ m.connId = s)
       /\ Cardinality(c.txPending) = IF c.txCount = TxWindow THEN 1 ELSE 0
       /\ \A k \in DOMAIN dlc[s].data_q : dlc[s].data_q[k] = s
       /\ \A f \in InFlight(OnAir(toPeer, s)) : f.data \in {s, NoData}
       /\ \A m \in InFlight(rfcQueue) : Asked(m) => m.data = s

(* The sockets a microapp serves and nobody has closed yet.                *)
Served == {s \in Sockets : /\ EntriesOf(s) # {}
                           /\ ~\E m \in InFlight(om2awm) : m.op = "CLOSE_CMD" /\ m.id = s}

(* Every request of a microapp for a socket it serves is answered once, and *)
(* the answer is to that socket: what it has not been answered for is one  *)
(* message somewhere, or the request that the window holds back.  (The     *)
(* confirmation carries a pointer to the instance, which may serve another *)
(* socket by the time it is read.)                                         *)
AnsweredOnce ==
  \A s \in Served : \A k \in EntriesOf(s) :
    LET Cfm(m) == m.op = "DATA_CFM"
                  /\ \E x \in Indices : m.connId = BmmGenerateConnId("RFCOMM", s, x)
        waiting == {x \in Indices : conn[x].rfcConnId = s /\ conn[x].txPending # {}}
    IN detail[k].unanswered =
         Count(awm2om, LAMBDA m : m.op = "TX_REQ" /\ m.id = s)
         + Count(om2bmm, LAMBDA m : m.op = "DATA_REQ" /\ m.data = s)
         + Cardinality(waiting) + Count(bmm2om, Cfm)
         + Count(om2awm, LAMBDA m : m.op = "TX_RES" /\ m.id = s)

(* The packets of the peer reach the microapp of their socket in the order *)
(* they were sent: the ones on their way, from the nearest to the farthest, *)
(* are the next one it waits for up to the last one sent.                  *)
RxInOrder ==
  \A s \in Served : \A k \in EntriesOf(s), x \in Indices : conn[x].rfcConnId = s =>
    LET up == DataOf(Of(om2awm, LAMBDA m : m.op = "RX_IND" /\ m.id = s))
              \o DataOf(Indicated(x)) \o conn[x].rxQueue \o DataOf(SentUp(s))
        air == Of(OnAir(fromPeer, s), LAMBDA f : f.n # 0)
        got == detail[k].received
    IN up \o [j \in DOMAIN air |-> [dlc |-> air[j].dlc, n |-> air[j].n]]
         = [j \in 1 .. peer[s].sent - got |-> [dlc |-> s, n |-> got + j]]

(* No thread, timer, link or peer has anything left to do.                 *)
Quiet ==
  /\ \A queue \in {hal2om, om2hal, om2bmm, bmm2om, om2awm, awm2om} : queue = <<>>
  /\ binder = Resting /\ rx = Resting /\ shell = ShellResting
  /\ rfcQueue = <<>> /\ rfc2bmm = <<>> /\ toPeer = <<>> /\ fromPeer = <<>>
  /\ \A s \in Sockets : l2cap[s] = 0 /\ ~dlc[s].timer /\ peer[s].owed = 0

(* Then nothing is held back: no packet waits in either direction, every   *)
(* request has been answered, and every credit is with the one who may use *)
(* it.  The window, the two kinds of credits and the queues behind them    *)
(* never wait for one another, and the few credits that no frame has       *)
(* carried do not stay behind.                                             *)
NothingStuck ==
  Quiet =>
    /\ \A x \in Indices : conn[x] # NoConn =>
         LET s == conn[x].rfcConnId
         IN /\ conn[x].rxQueue = <<>> /\ conn[x].rxAppCredits = RxAppCredit
            /\ dlc[s].data_q = <<>> /\ dlc[s].tx_credits = PeerBuffers
            /\ peer[s].credits = dlc[s].allocated
    /\ \A s \in Served : \A k \in EntriesOf(s) : detail[k].unanswered = 0
=============================================================================
