---------------------------- MODULE LpaiTransport ----------------------------
(***************************************************************************)
(* The link from the low-power processor to the HAL host: its glink        *)
(* channels, opened again after every loss.  glink's callbacks run in      *)
(* glink's own context; they write the state of a channel or of the link   *)
(* where it stands and queue an event for the offload manager's thread,    *)
(* in the one pipe that the HAL's messages take too.  The event does not   *)
(* carry the state but points at it: the thread acts on the state of the   *)
(* moment in which it takes the event.                                     *)
(*                                                                         *)
(* glink itself is not part of the repository.  It is modelled from how    *)
(* the code uses it: a close is confirmed by GLINK_LOCAL_DISCONNECTED, and *)
(* a channel that is open at both ends of a link that is up connects.      *)
(***************************************************************************)
EXTENDS Naturals, Sequences

CONSTANTS
  Channels,        \* the channels of the link
  HalChannels,     \* those of the Bluetooth HALs: their loss is a HAL's crash
  Hci,             \* the channel that carries BT_ENABLE
  PipeSize,        \* the messages the offload manager's pipe can hold
  MaxSessions,     \* bound: how many times the HAL starts
  MaxLinkDowns     \* bound: how many times the link goes down

ASSUME TransportAssumption ==
  /\ Hci \in HalChannels /\ HalChannels \subseteq Channels
  /\ {PipeSize, MaxSessions} \subseteq Nat \ {0} /\ MaxLinkDowns \in Nat

VARIABLES
  hal,             \* the HAL: is it running, which start is it, has it enabled
  remote,          \* the channels that are open at its end
  linkUp, linkDowns,
  glink,           \* the state of our end of each channel, in glink
  link_state,      \* lpai_transport_glink_interfaces[].link_state
  chnl_state,      \* channels[].chnl_state
  callback,        \* what glink's callback goes on to post: one event, or <<>>
  pipe,            \* offload_mgr_main.offload_mgr_pipe
  bt_on,           \* the start of the HAL that Bluetooth is on for, or 0
  untold           \* history: channels lost, and no mock off considered since

halVars   == <<hal, remote>>
glinkVars == <<linkUp, linkDowns, glink>>
vars == <<halVars, glinkVars, link_state, chnl_state, callback, pipe, bt_on, untold>>

ChannelStates == {"CONNECTED", "REMOTE_DISCONNECTED", "LOCAL_DISCONNECTED"}
LinkEvent == [op |-> "LINK_STATE"]
ChannelEvent(c) == [op |-> "CHANNEL_STATE", chnl |-> c]
EnableEvent(session) == [op |-> "BT_ENABLE", session |-> session]
Event ==
  {LinkEvent} \cup {ChannelEvent(c) : c \in Channels}
  \cup {EnableEvent(s) : s \in 1..MaxSessions}

(* Every value is of its type and the pipe is within its size. *)
TypeOK ==
  /\ hal \in [up : BOOLEAN, session : 0..MaxSessions, enabled : BOOLEAN]
  /\ remote \subseteq Channels
  /\ linkUp \in BOOLEAN /\ linkDowns \in 0..MaxLinkDowns
  /\ glink \in [Channels -> {"closed", "open", "connected", "remoteGone", "closing"}]
  /\ link_state \in {"UP", "DOWN"}
  /\ chnl_state \in [Channels -> ChannelStates]
  /\ callback \in Seq(Event) /\ Len(callback) <= 1
  /\ pipe \in Seq(Event) /\ Len(pipe) <= PipeSize
  /\ bt_on \in 0..MaxSessions
  /\ untold \subseteq HalChannels

(* LPAI_Transport_Init() is done; the link comes up later. *)
Init ==
  /\ hal = [up |-> FALSE, session |-> 0, enabled |-> FALSE]
  /\ remote = {}
  /\ linkUp = FALSE /\ linkDowns = 0
  /\ glink = [c \in Channels |-> "closed"]
  /\ link_state = "DOWN"
  /\ chnl_state = [c \in Channels |-> "REMOTE_DISCONNECTED"]
  /\ callback = <<>>
  /\ pipe = <<>>
  /\ bt_on = 0
  /\ untold = {}

-----------------------------------------------------------------------------
(* The HAL's process.  A new one starts once glink has told of the end of    *)
(* the last one's channels.                                                 *)

unchangedByHal == <<glinkVars, link_state, chnl_state, callback, bt_on, untold>>

HalStart ==
  /\ ~hal.up /\ hal.session < MaxSessions
  /\ \A c \in Channels : glink[c] # "connected"
  /\ hal' = [up |-> TRUE, session |-> hal.session + 1, enabled |-> FALSE]
  /\ UNCHANGED <<remote, pipe, unchangedByHal>>

HalOpen(c) ==
  /\ hal.up /\ c \notin remote
  /\ remote' = remote \cup {c}
  /\ UNCHANGED <<hal, pipe, unchangedByHal>>

HalCrash ==
  /\ hal.up
  /\ hal' = [hal EXCEPT !.up = FALSE]
  /\ remote' = {}
  /\ UNCHANGED <<pipe, unchangedByHal>>

(* LPAI_Transport_Glink_Rx_Notification_Cb() of a BT_ENABLE, through          *)
(* Offload_Mgr_Post_arbiter_event().                                        *)
HalEnable ==
  /\ hal.up /\ ~hal.enabled
  /\ glink[Hci] = "connected" /\ Hci \in remote
  /\ callback = <<>> /\ Len(pipe) < PipeSize
  /\ hal' = [hal EXCEPT !.enabled = TRUE]
  /\ pipe' = Append(pipe, EnableEvent(hal.session))
  /\ UNCHANGED <<remote, unchangedByHal>>

Hal == HalStart \/ (\E c \in Channels : HalOpen(c)) \/ HalCrash \/ HalEnable

-----------------------------------------------------------------------------
(* glink's context: one callback at a time.  It writes the state, and waits *)
(* if it must until the pipe has room for the event.                        *)

(* LPAI_Transport_Glink_Channel_State_Cb() *)
Channel_State_Cb(c, event) ==
  /\ callback = <<>>
  /\ callback' = <<ChannelEvent(c)>>
  /\ chnl_state' = [chnl_state EXCEPT ![c] = event]
  /\ UNCHANGED <<halVars, linkUp, linkDowns, link_state, pipe, bt_on>>

Connected(c) ==
  /\ linkUp /\ glink[c] = "open" /\ c \in remote
  /\ glink' = [glink EXCEPT ![c] = "connected"]
  /\ Channel_State_Cb(c, "CONNECTED")
  /\ UNCHANGED untold

RemoteDisconnected(c) ==
  /\ glink[c] = "connected" /\ (c \notin remote \/ ~linkUp)
  /\ glink' = [glink EXCEPT ![c] = "remoteGone"]
  /\ Channel_State_Cb(c, "REMOTE_DISCONNECTED")
  /\ untold' = untold \cup ({c} \cap HalChannels)

LocalDisconnected(c) ==
  /\ glink[c] = "closing"
  /\ glink' = [glink EXCEPT ![c] = "closed"]
  /\ Channel_State_Cb(c, "LOCAL_DISCONNECTED")
  /\ UNCHANGED untold

(* LPAI_Transport_Glink_Link_State_Cb() *)
Link_State_Cb ==
  /\ callback = <<>>
  /\ ~linkUp \/ linkDowns < MaxLinkDowns
  /\ linkUp' = ~linkUp
  /\ linkDowns' = IF linkUp THEN linkDowns + 1 ELSE linkDowns
  /\ link_state' = IF linkUp THEN "DOWN" ELSE "UP"
  /\ callback' = <<LinkEvent>>
  /\ UNCHANGED <<halVars, glink, chnl_state, pipe, bt_on, untold>>

(* Mutant: it does not wait for room. *)
LPAI_Transport_Queue_Evt_try ==
  /\ callback # <<>>
  /\ pipe' = pipe \o callback
  /\ callback' = <<>>
  /\ UNCHANGED <<halVars, glinkVars, link_state, chnl_state, bt_on, untold>>

(* LPAI_Transport_Queue_Evt(), at the end of either. *)
LPAI_Transport_Queue_Evt ==
  /\ callback # <<>> /\ Len(pipe) < PipeSize
  /\ pipe' = pipe \o callback
  /\ callback' = <<>>
  /\ UNCHANGED <<halVars, glinkVars, link_state, chnl_state, bt_on, untold>>

GlinkContext ==
  \/ \E c \in Channels : Connected(c) \/ RemoteDisconnected(c) \/ LocalDisconnected(c)
  \/ LPAI_Transport_Queue_Evt

-----------------------------------------------------------------------------
(* The offload manager's thread: LPAI_Transport_Handle_Event().             *)

(* glink_open() of a channel that is not closed is an error and changes      *)
(* nothing; it may be refused while the link is down.                       *)
glink_open(C) ==
  \E refused \in BOOLEAN :
    /\ refused => ~linkUp
    /\ glink' = [c \in Channels |->
                   IF c \in C /\ glink[c] = "closed" /\ ~refused THEN "open" ELSE glink[c]]

(* glink_close() of a channel that is closed or closing is an error. *)
glink_close(C) ==
  glink' = [c \in Channels |->
              IF c \in C /\ glink[c] \in {"open", "connected", "remoteGone"} THEN "closing"
                                                                             ELSE glink[c]]

Take(event) == pipe # <<>> /\ Head(pipe) = event /\ pipe' = Tail(pipe)

unchangedByThread == <<halVars, linkUp, linkDowns, link_state, chnl_state, callback>>

LPAI_Transport_Glink_Handle_Link_State ==
  /\ Take(LinkEvent)
  /\ IF link_state = "UP" THEN glink_open(Channels) ELSE glink_close(Channels)
  /\ UNCHANGED <<bt_on, untold, unchangedByThread>>

ChannelConnected(c) ==
  /\ Take(ChannelEvent(c)) /\ chnl_state[c] = "CONNECTED"
  /\ UNCHANGED <<glink, bt_on, untold, unchangedByThread>>

(* Mutant: one HAL's channel is forgotten. *)
MockOffConsidered_hci(c) == c = Hci

MockOffConsidered(c) == c \in HalChannels

(* Mutant: it is not closed at our end. *)
ChannelLost_noClose(c) ==
  /\ Take(ChannelEvent(c)) /\ chnl_state[c] = "REMOTE_DISCONNECTED"
  /\ IF MockOffConsidered(c) THEN bt_on' = 0 /\ untold' = {} ELSE UNCHANGED <<bt_on, untold>>
  /\ UNCHANGED <<glink, unchangedByThread>>

(* bt_state_check_and_mock_off(): Bluetooth goes off if it is on. *)
ChannelLost(c) ==
  /\ Take(ChannelEvent(c)) /\ chnl_state[c] = "REMOTE_DISCONNECTED"
  /\ glink_close({c})
  /\ IF MockOffConsidered(c) THEN bt_on' = 0 /\ untold' = {} ELSE UNCHANGED <<bt_on, untold>>
  /\ UNCHANGED unchangedByThread

(* Mutants: it is left closed; only now is a mock off considered (as the     *)
(* app manager's end of its own link does).                                  *)
ChannelClosed_stays(c) ==
  /\ Take(ChannelEvent(c)) /\ chnl_state[c] = "LOCAL_DISCONNECTED"
  /\ UNCHANGED <<glink, bt_on, untold, unchangedByThread>>

ChannelClosed_mockOff(c) ==
  /\ Take(ChannelEvent(c)) /\ chnl_state[c] = "LOCAL_DISCONNECTED"
  /\ glink_open({c})
  /\ bt_on' = 0 /\ untold' = {}
  /\ UNCHANGED unchangedByThread

ChannelClosed(c) ==
  /\ Take(ChannelEvent(c)) /\ chnl_state[c] = "LOCAL_DISCONNECTED"
  /\ glink_open({c})
  /\ UNCHANGED <<bt_on, untold, unchangedByThread>>

(* bt_state_on_handle(). *)
EnableReceived ==
  \E s \in 1..MaxSessions :
    /\ Take(EnableEvent(s))
    /\ bt_on' = s
    /\ UNCHANGED <<glink, untold, unchangedByThread>>

OffloadManagerThread ==
  \/ LPAI_Transport_Glink_Handle_Link_State
  \/ \E c \in Channels : ChannelConnected(c) \/ ChannelLost(c) \/ ChannelClosed(c)
  \/ EnableReceived

-----------------------------------------------------------------------------
Next == Hal \/ GlinkContext \/ Link_State_Cb \/ OffloadManagerThread

Spec == Init /\ [][Next]_vars

(* glink calls back, the thread goes on, and a HAL that runs opens its       *)
(* channels.  Nothing makes the link come up, and nothing starts a HAL.      *)
FairSpec ==
  /\ Spec
  /\ WF_vars(OffloadManagerThread)
  /\ WF_vars(LPAI_Transport_Queue_Evt)
  /\ \A c \in Channels :
       /\ WF_vars(HalOpen(c))
       /\ SF_vars(Connected(c) \/ RemoteDisconnected(c) \/ LocalDisconnected(c))

-----------------------------------------------------------------------------
(* With nothing left to handle and the link up, no channel is closed for     *)
(* good: each is open at our end, or glink still has to confirm a close.     *)
(* States that are overwritten before their event is taken, events that act  *)
(* on a later state, and a link that goes down and up in between leave none  *)
(* behind.                                                                   *)
NeverDeaf ==
  linkUp /\ pipe = <<>> /\ callback = <<>> =>
    \A c \in Channels : glink[c] \notin {"closed", "remoteGone"}

(* A HAL channel that was lost is not opened again before the state manager  *)
(* has considered a mock off, unless the link went down: then                *)
(* LPAI_Transport_Glink_Close_Channels() may close it first.                 *)
LossIsTold ==
  [][\A c \in HalChannels :
       (glink[c] = "closed" /\ glink'[c] = "open" /\ linkDowns = 0) => c \notin untold]_vars

(* A HAL that is still running is not mocked off by an event that the end of *)
(* an earlier one left in the pipe, unless the link went down.               *)
LiveHalKept ==
  [][(bt_on # 0 /\ bt_on' = 0 /\ linkDowns = 0) => ~(hal.up /\ hal.session = bt_on)]_vars

(* A HAL that runs gets every channel connected while the link stays up.     *)
ReadyAgain ==
  \A c \in Channels : hal.up /\ linkUp ~> glink[c] = "connected" \/ ~hal.up \/ ~linkUp

(* When the HAL is gone and nothing is left to handle, Bluetooth is off: the *)
(* crash of a HAL is cleaned up after (the comment of ChannelLost's code).   *)
CrashIsMockedOff ==
  ~hal.up /\ pipe = <<>> /\ callback = <<>> /\ (\A c \in Channels : glink[c] = "open")
    => bt_on = 0
=============================================================================
