---------------------------- MODULE MicroAppData ----------------------------
(***************************************************************************)
(* The RFCOMM microapp's part in data.  Each entry of its table has one    *)
(* operation at most: a transmission, a throughput test in either          *)
(* direction, or a loopback.  The user starts one from the shell's thread, *)
(* without a lock: the check of pendingOperations, its update and the      *)
(* request are three steps, between which the thread that serves the       *)
(* messages of the ADSP may run.                                           *)
(***************************************************************************)
EXTENDS MicroApps

CONSTANT NumPackets     \* the length of a throughput test

ASSUME MicroAppDataAssumption == NumPackets \in Nat \ {0}

VARIABLES
  detail,    \* the rest of the entries: pendingOperations, tputPktDetail
  shell      \* what the shell's thread is in the middle of

appDataVars == <<detail, shell>>

Operations == {"TX", "TX_TPUT", "RX_TPUT", "LOOPBACK"}

(* An entry after memset().  Two fields are the observer's: the requests of *)
(* this entry's socket that have not been answered, and the number of the  *)
(* last packet its user was given.                                         *)
NoDetail == [pending |-> "none", curCnt |-> 0, totalCnt |-> 0,
             unanswered |-> 0, received |-> 0]

ShellResting == [op |-> "none", entry |-> 1, set |-> FALSE]

AppDataTypeOK ==
  /\ detail \in [Entries -> [pending : Operations \cup {"none"}, curCnt : 0 .. NumPackets,
                             totalCnt : {0, NumPackets}, unanswered : Nat,
                             received : Nat]]
  /\ shell \in [op : Operations \cup {"none"}, entry : Entries, set : BOOLEAN]

AppDataInit ==
  /\ detail = [k \in Entries |-> NoDetail]
  /\ shell = ShellResting

IdOf(k) == socketDetails["RFCOMM"][k]
EntriesOf(s) == Holding("RFCOMM", s)

(* rfcomm_socket_data_tx_req(), once for each of some entries with the id s. *)
data_tx_req(s, ks) ==
  awm2om' = awm2om \o [n \in 1 .. Cardinality(ks) |-> [op |-> "TX_REQ", id |-> s]]

(* What the observer notes of a request and of an answer.  A clear entry has *)
(* the id 0 in it, which no socket has.                                    *)
Noted(k, d, n) == IF IdOf(k) = NoSocket THEN d ELSE [d EXCEPT !.unanswered = @ + n]

-----------------------------------------------------------------------------
(* The shell: qapi_bt_rfcomm_send_data() and the three tests.  The entry of *)
(* the socket is found and has no operation ...                            *)
QapiCheck(op, s) ==
  /\ shell = ShellResting
  /\ \E k \in EntriesOf(s) :
       /\ detail[k].pending = "none"
       /\ shell' = [op |-> op, entry |-> k, set |-> FALSE]
  /\ UNCHANGED <<detail, appVars, channels>>

(* ... it is given this one.  A test of the transmit direction sets up its *)
(* counters only if they are clear; one of the receive direction always    *)
(* does.  Only the two that transmit go on.                                *)
QapiSet ==
  /\ shell.op # "none" /\ ~shell.set
  /\ LET k == shell.entry
         clear == detail[k].totalCnt = 0
     IN /\ detail' = [detail EXCEPT ![k] = [@ EXCEPT
              !.pending = shell.op,
              !.totalCnt = IF shell.op = "RX_TPUT" \/ (shell.op = "TX_TPUT" /\ clear)
                           THEN NumPackets ELSE @,
              !.curCnt = IF shell.op = "RX_TPUT" THEN 0 ELSE @]]
        /\ shell' = IF shell.op = "TX" \/ (shell.op = "TX_TPUT" /\ clear)
                    THEN [shell EXCEPT !.set = TRUE] ELSE ShellResting
  /\ UNCHANGED <<appVars, channels>>

(* ... and the first packet is sent.                                       *)
QapiSend ==
  /\ shell.set
  /\ data_tx_req(IdOf(shell.entry), {shell.entry})
  /\ detail' = [detail EXCEPT ![shell.entry] = Noted(shell.entry, @, 1)]
  /\ shell' = ShellResting
  /\ UNCHANGED <<appVars, hal2om, om2hal, om2bmm, bmm2om, om2awm>>

-----------------------------------------------------------------------------
(* UAPP_SOCKET_CLOSE_CMD: memset() clears the operation with the entry.    *)
CloseCmd ==
  /\ close_socket_cmd
  /\ detail' = [k \in Entries |-> IF socketDetails'["RFCOMM"][k] = IdOf(k) THEN detail[k]
                                  ELSE NoDetail]
  /\ UNCHANGED shell

OpenReq == open_socket_req /\ UNCHANGED appDataVars

(* An entry that is given packet n of its socket: a loopback sends it back *)
(* and is over, without waiting for the answer; a receive test counts it.  *)
AfterRx(k, n) ==
  LET d == [detail[k] EXCEPT !.received = n]
      cur == IF d.curCnt < d.totalCnt THEN d.curCnt + 1 ELSE d.curCnt
  IN CASE d.pending = "LOOPBACK" -> Noted(k, [d EXCEPT !.pending = "none"], 1)
       [] d.pending = "RX_TPUT" /\ cur # d.totalCnt -> [d EXCEPT !.curCnt = cur]
       [] d.pending = "RX_TPUT" /\ cur = d.totalCnt ->
            [d EXCEPT !.pending = "none", !.curCnt = 0, !.totalCnt = 0]
       [] OTHER -> d

(* UAPP_DATA_RX_IND, for every entry with the id: a packet for a socket that *)
(* is not served is dropped.                                               *)
RxInd ==
  /\ Next1(om2awm, "RX_IND")
  /\ om2awm' = Tail(om2awm)
  /\ LET m == Head(om2awm)
     IN /\ detail' = [k \in Entries |-> IF IdOf(k) = m.id THEN AfterRx(k, m.data.n)
                                        ELSE detail[k]]
        /\ data_tx_req(m.id, {k \in EntriesOf(m.id) : detail[k].pending = "LOOPBACK"})
  /\ UNCHANGED <<shell, appVars, hal2om, om2hal, om2bmm, bmm2om>>

(* An answer, whatever its status: a transmission is over; a transmit test *)
(* sends the next packet, and is over as soon as it has sent the last.     *)
GoesOn(k) == detail[k].pending = "TX_TPUT" /\ detail[k].curCnt < detail[k].totalCnt

AfterTx(k) ==
  LET d == Noted(k, detail[k], -1)
      sent == IF GoesOn(k) THEN Noted(k, [d EXCEPT !.curCnt = @ + 1], 1) ELSE d
  IN CASE d.pending = "TX" -> [d EXCEPT !.pending = "none"]
       [] d.pending = "TX_TPUT" /\ sent.curCnt = d.totalCnt ->
            [sent EXCEPT !.pending = "none", !.curCnt = 0, !.totalCnt = 0]
       [] OTHER -> sent

(* UAPP_DATA_TX_RES, for every entry with the id, which clear entries have *)
(* too if it is 0.                                                         *)
TxRes ==
  /\ Next1(om2awm, "TX_RES")
  /\ om2awm' = Tail(om2awm)
  /\ LET s == Head(om2awm).id
     IN /\ detail' = [k \in Entries |-> IF IdOf(k) = s THEN AfterTx(k) ELSE detail[k]]
        /\ data_tx_req(s, {k \in EntriesOf(s) : GoesOn(k)})
  /\ UNCHANGED <<shell, appVars, hal2om, om2hal, om2bmm, bmm2om>>

User == \E op \in Operations, s \in Sockets : QapiCheck(op, s)
ShellGoesOn == QapiSet \/ QapiSend
DataAppManager == OpenReq \/ CloseCmd \/ RxInd \/ TxRes
=============================================================================
