---------------------------- MODULE RfcommChannel ----------------------------
(***************************************************************************)
(* The RFCOMM task of the microstack under the connections that have been  *)
(* offloaded: credit based flow control in both directions, the queue of   *)
(* packets that wait for a credit of the peer, and the timer after which   *)
(* credits are returned that nothing else has carried.                     *)
(*                                                                         *)
(*   microstack manager  --rfcQueue-->  RFCOMM  --toPeer-->    peer        *)
(*   microstack manager  <--rfc2bmm--   RFCOMM  <--fromPeer--  peer        *)
(*                                                                         *)
(* A data channel (DLC) is named by the socket it was offloaded for; a     *)
(* socket has one in its life.  L2CAP keeps the order of the frames and    *)
(* confirms each data frame at some time after it was handed over.  The    *)
(* task's one queue also holds what comes from L2CAP: taking the two       *)
(* sources in any order allows every order in which they can reach it.     *)
(***************************************************************************)
EXTENDS SocketChannels

CONSTANTS
  InitCredits,          \* SOCKET_MGR_RFCOMM_MAX_INITIAL_CREDITS
  CreditSendThreshold,  \* RFC_CREDIT_SEND_THRESHOLD
  PeerBuffers           \* the credits the peer has for us, granted or not yet

ASSUME RfcommAssumption ==
  /\ InitCredits \in Nat \ {0}
  /\ CreditSendThreshold \in Nat \ {0}
  /\ PeerBuffers \in Nat \ {0}

VARIABLES
  dlc,         \* the data channel of each socket
  rfcQueue,    \* requests of the microstack manager
  rfc2bmm,     \* confirmations and indications to it
  l2cap,       \* l2cap[s]: data frames L2CAP has not confirmed
  toPeer,      \* frames on the air
  fromPeer,
  peer         \* the peer's end of each channel

rfcommVars == <<dlc, rfcQueue, rfc2bmm, l2cap, toPeer, fromPeer, peer>>

NoData == NoSocket

(* A packet of a microapp is known by the socket it was sent on, a packet of *)
(* the peer by its channel and its number there.                           *)
PeerPackets == [dlc : Sockets, n : Nat \ {0}]

NoDlc == [state |-> "none", tx_credits |-> 0, rx_credits |-> 0, allocated |-> 0,
          data_q |-> <<>>, timer |-> FALSE]

NoPeer == [credits |-> 0, owed |-> 0, sent |-> 0]

RfcommTypeOK ==
  /\ dlc \in [Sockets -> [state : {"none", "open", "released"}, tx_credits : Nat,
                          rx_credits : Nat, allocated : {0, InitCredits},
                          data_q : Seq(Sockets), timer : BOOLEAN]]
  /\ rfcQueue \in Seq([op : {"DATAWRITE_REQ"}, connId : Sockets, credits : {0, InitCredits},
                       data : Sockets \cup {NoData}]
                      \cup [op : {"DATAREAD_RSP"}, connId : Sockets])
  /\ rfc2bmm \in Seq([op : {"DATAWRITE_CFM"}, connId : Sockets]
                     \cup [op : {"DATAREAD_IND"}, connId : Sockets, data : PeerPackets])
  /\ l2cap \in [Sockets -> Nat]
  /\ toPeer \in Seq([dlc : Sockets, credits : Nat, data : Sockets \cup {NoData}])
  /\ fromPeer \in Seq([dlc : Sockets, credits : Nat, n : Nat])
  /\ peer \in [Sockets -> [credits : Nat, owed : Nat, sent : Nat]]

RfcommInit ==
  /\ dlc = [s \in Sockets |-> NoDlc]
  /\ rfcQueue = <<>> /\ rfc2bmm = <<>>
  /\ l2cap = [s \in Sockets |-> 0]
  /\ toPeer = <<>> /\ fromPeer = <<>>
  /\ peer = [s \in Sockets |-> NoPeer]

Open(s) == dlc[s].state = "open"

-----------------------------------------------------------------------------
(* What a channel becomes and the frames it sends meanwhile.               *)
Outcome(c, frames) == [chan |-> c, frames |-> frames]
Frame(credits, data) == [credits |-> credits, data |-> data]

(* rfc_try_send_credit_only_frame(): more credits than the threshold go out *)
(* at once, in a frame of their own, and no timer is needed for them; fewer *)
(* wait for the timer.                                                     *)
try_send_credit_only_frame(c, thresh) ==
  IF c.rx_credits > thresh
  THEN Outcome([c EXCEPT !.rx_credits = 0, !.timer = FALSE], <<Frame(c.rx_credits, NoData)>>)
  ELSE Outcome([c EXCEPT !.timer = TRUE], <<>>)

Threshold(c) == c.allocated \div CreditSendThreshold

(* Mutant: the credits a frame carries stay with the channel, too.         *)
process_txdata_keepsCredits(c, credit_frame_send) ==
  LET n == IF c.tx_credits < Len(c.data_q) THEN c.tx_credits ELSE Len(c.data_q)
  IN IF n = 0
     THEN try_send_credit_only_frame(c, IF credit_frame_send THEN 0 ELSE Threshold(c))
     ELSE Outcome([c EXCEPT !.tx_credits = @ - n, !.timer = @ /\ c.rx_credits = 0,
                            !.data_q = SubSeq(@, n + 1, Len(@))],
                  [k \in 1 .. n |-> Frame(IF k = 1 THEN c.rx_credits ELSE 0, c.data_q[k])])

process_txdata_dropsRest(c, credit_frame_send) ==
  LET n == IF c.tx_credits < Len(c.data_q) THEN c.tx_credits ELSE Len(c.data_q)
  IN IF n = 0
     THEN try_send_credit_only_frame(c, IF credit_frame_send THEN 0 ELSE Threshold(c))
     ELSE Outcome([c EXCEPT !.tx_credits = @ - n, !.rx_credits = 0,
                            !.timer = @ /\ c.rx_credits = 0, !.data_q = <<>>],
                  [k \in 1 .. n |-> Frame(IF k = 1 THEN c.rx_credits ELSE 0, c.data_q[k])])

(* rfc_process_txdata(): as many packets as the peer's credits allow, the  *)
(* first of which carries all the credits there are to return; if none goes *)
(* out, the credits are looked at on their own.                            *)
process_txdata(c, credit_frame_send) ==
  LET n == IF c.tx_credits < Len(c.data_q) THEN c.tx_credits ELSE Len(c.data_q)
  IN IF n = 0
     THEN try_send_credit_only_frame(c, IF credit_frame_send THEN 0 ELSE Threshold(c))
     ELSE Outcome([c EXCEPT !.tx_credits = @ - n, !.rx_credits = 0,
                            !.timer = @ /\ c.rx_credits = 0,
                            !.data_q = SubSeq(@, n + 1, Len(@))],
                  [k \in 1 .. n |-> Frame(IF k = 1 THEN c.rx_credits ELSE 0, c.data_q[k])])

(* rfc_send_raw_uih_frame() for each frame: L2CAP will confirm the ones with *)
(* data.                                                                   *)
Send(s, out) ==
  /\ dlc' = [dlc EXCEPT ![s] = out.chan]
  /\ toPeer' = toPeer \o [k \in DOMAIN out.frames |->
                            [dlc |-> s, credits |-> out.frames[k].credits,
                             data |-> out.frames[k].data]]
  /\ l2cap' = [l2cap EXCEPT ![s] = @ + Cardinality({k \in DOMAIN out.frames :
                                                      out.frames[k].data # NoData})]

Stay == UNCHANGED <<dlc, toPeer, l2cap>>

-----------------------------------------------------------------------------
(* rfc_handle_datawrite_req(): data, or credits without data.  A channel   *)
(* that is gone is confirmed at once.                                      *)
handle_datawrite_req ==
  /\ Next1(rfcQueue, "DATAWRITE_REQ")
  /\ rfcQueue' = Tail(rfcQueue)
  /\ LET m == Head(rfcQueue)
         empty == m.data = NoData
         c == [dlc[m.connId] EXCEPT !.rx_credits = @ + m.credits,
                                    !.allocated = IF empty THEN @ + m.credits ELSE @,
                                    !.data_q = IF empty THEN @ ELSE Append(@, m.data)]
     IN IF Open(m.connId)
        THEN Send(m.connId, process_txdata(c, empty)) /\ UNCHANGED rfc2bmm
        ELSE /\ rfc2bmm' = Append(rfc2bmm, [op |-> "DATAWRITE_CFM", connId |-> m.connId])
             /\ Stay
  /\ UNCHANGED <<fromPeer, peer>>

(* rfc_handle_dataread_rsp(): a packet has been consumed, its credit can go *)
(* back.                                                                   *)
handle_dataread_rsp ==
  /\ Next1(rfcQueue, "DATAREAD_RSP")
  /\ rfcQueue' = Tail(rfcQueue)
  /\ LET s == Head(rfcQueue).connId
         c == [dlc[s] EXCEPT !.rx_credits = @ + 1]
     IN IF Open(s) THEN Send(s, try_send_credit_only_frame(c, Threshold(c))) ELSE Stay
  /\ UNCHANGED <<rfc2bmm, fromPeer, peer>>

(* Mutant: the packets that waited for a credit are not sent when it comes. *)
parse_frame_noKick ==
  /\ fromPeer # <<>>
  /\ fromPeer' = Tail(fromPeer)
  /\ LET f == Head(fromPeer)
     IN IF Open(f.dlc)
        THEN /\ rfc2bmm' = IF f.n = 0 THEN rfc2bmm
                           ELSE Append(rfc2bmm, [op |-> "DATAREAD_IND", connId |-> f.dlc,
                                                 data |-> [dlc |-> f.dlc, n |-> f.n]])
             /\ dlc' = [dlc EXCEPT ![f.dlc].tx_credits = @ + f.credits]
             /\ UNCHANGED <<toPeer, l2cap>>
        ELSE Stay /\ UNCHANGED rfc2bmm
  /\ UNCHANGED <<rfcQueue, peer>>

(* rfc_parse_frame() and rfc_process_rx_data(): the credits are added, the *)
(* data goes up, and what waited for credits is sent.                      *)
parse_frame ==
  /\ fromPeer # <<>>
  /\ fromPeer' = Tail(fromPeer)
  /\ LET f == Head(fromPeer)
     IN IF Open(f.dlc)
        THEN /\ rfc2bmm' = IF f.n = 0 THEN rfc2bmm
                           ELSE Append(rfc2bmm, [op |-> "DATAREAD_IND", connId |-> f.dlc,
                                                 data |-> [dlc |-> f.dlc, n |-> f.n]])
             /\ Send(f.dlc, process_txdata([dlc[f.dlc] EXCEPT !.tx_credits = @ + f.credits],
                                           FALSE))
        ELSE Stay /\ UNCHANGED rfc2bmm
  /\ UNCHANGED <<rfcQueue, peer>>

(* rfc_handle_l2ca_datawrite_cfm(). *)
handle_l2ca_datawrite_cfm(s) ==
  /\ l2cap[s] > 0
  /\ l2cap' = [l2cap EXCEPT ![s] = @ - 1]
  /\ rfc2bmm' = Append(rfc2bmm, [op |-> "DATAWRITE_CFM", connId |-> s])
  /\ UNCHANGED <<dlc, rfcQueue, toPeer, fromPeer, peer>>

(* rfc_credit_return_timer_event(): whatever there is is sent, and nothing *)
(* starts the timer again.                                                 *)
credit_return_timer_event(s) ==
  /\ dlc[s].timer
  /\ LET stopped == [dlc[s] EXCEPT !.timer = FALSE]
     IN IF dlc[s].rx_credits > 0 THEN Send(s, try_send_credit_only_frame(stopped, 0))
        ELSE Send(s, Outcome(stopped, <<>>))
  /\ UNCHANGED <<rfcQueue, rfc2bmm, fromPeer, peer>>

-----------------------------------------------------------------------------
(* rfcomm_offload_dlci(), within a step of the microstack manager: the peer *)
(* has granted some of its credits, and we none of ours.                   *)
rfcomm_offload_dlci(s, tx_credits) ==
  /\ dlc' = [dlc EXCEPT ![s] = [NoDlc EXCEPT !.state = "open", !.tx_credits = tx_credits]]
  /\ peer' = [peer EXCEPT ![s].owed = PeerBuffers - tx_credits]

(* rfcomm_disconnect_dlci(), likewise: the queue and the timer go with the *)
(* channel.  L2CAP forgets what it has not sent, and without its filter    *)
(* (HciArbDisableFilter()) the frames of the peer go to the Android stack. *)
rfcomm_disconnect_dlci(s) ==
  /\ dlc' = [dlc EXCEPT ![s] = [NoDlc EXCEPT !.state = "released"]]
  /\ l2cap' = [l2cap EXCEPT ![s] = 0]
  /\ toPeer' = SelectSeq(toPeer, LAMBDA f : f.dlc # s)
  /\ fromPeer' = SelectSeq(fromPeer, LAMBDA f : f.dlc # s)
  /\ peer' = [peer EXCEPT ![s] = NoPeer]

-----------------------------------------------------------------------------
(* The peer: it takes a frame of ours, returns the credits of the packets it *)
(* has taken, and sends packets while it has credits of ours.  Once our end *)
(* of a channel is released it is no longer ours to hear from.             *)
PeerTakes ==
  /\ toPeer # <<>>
  /\ toPeer' = Tail(toPeer)
  /\ LET f == Head(toPeer)
     IN peer' = [peer EXCEPT ![f.dlc] =
                   [@ EXCEPT !.credits = @ + f.credits,
                             !.owed = @ + (IF f.data = NoData THEN 0 ELSE 1)]]
  /\ UNCHANGED <<dlc, rfcQueue, rfc2bmm, l2cap, fromPeer>>

PeerSays(s, credits, n) ==
  fromPeer' = Append(fromPeer, [dlc |-> s, credits |-> credits, n |-> n])

PeerReturnsCredits(s) ==
  /\ Open(s) /\ peer[s].owed > 0
  /\ PeerSays(s, peer[s].owed, 0)
  /\ peer' = [peer EXCEPT ![s].owed = 0]
  /\ UNCHANGED <<dlc, rfcQueue, rfc2bmm, l2cap, toPeer>>

PeerSends(s, credits) ==
  /\ Open(s) /\ peer[s].credits > 0
  /\ PeerSays(s, credits, peer[s].sent + 1)
  /\ peer' = [peer EXCEPT ![s] = [@ EXCEPT !.credits = @ - 1, !.sent = @ + 1,
                                           !.owed = @ - credits]]
  /\ UNCHANGED <<dlc, rfcQueue, rfc2bmm, l2cap, toPeer>>

Rfcomm == handle_datawrite_req \/ handle_dataread_rsp
L2capConfirms == \E s \in Sockets : handle_l2ca_datawrite_cfm(s)
CreditTimer == \E s \in Sockets : credit_return_timer_event(s)
PeerReturns == \E s \in Sockets : PeerReturnsCredits(s)
PeerPacket == \E s \in Sockets : \E credits \in {0, peer[s].owed} : PeerSends(s, credits)
=============================================================================
