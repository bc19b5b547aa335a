------------------------- MODULE LpaiTransportProofs -------------------------
(***************************************************************************)
(* Proofs about LpaiTransport, for any channels, sizes and bounds.         *)
(*                                                                         *)
(* The inductive invariant says what is still to be handled: a channel     *)
(* whose remote end is gone has an event in the pipe, or in the callback   *)
(* that is about to post it, and its state still is the loss; a closed     *)
(* channel of a link that is up has an event that will open it, its own or *)
(* the link's.  Nothing else writes a channel's state while it is closed   *)
(* or lost, and this is why events may read it late.                       *)
(***************************************************************************)
EXTENDS LpaiTransport, SequenceTheorems, TLAPS

(* The event is in the pipe or about to be posted. *)
Pending(e) == (\E k \in DOMAIN pipe : pipe[k] = e) \/ callback = <<e>>

LinkKnown == link_state = "UP" <=> linkUp

LossPending ==
  \A c \in Channels :
    glink[c] = "remoteGone" => chnl_state[c] = "REMOTE_DISCONNECTED" /\ Pending(ChannelEvent(c))

OpenPending ==
  \A c \in Channels :
    glink[c] = "closed" /\ linkUp =>
      \/ Pending(LinkEvent)
      \/ chnl_state[c] = "LOCAL_DISCONNECTED" /\ Pending(ChannelEvent(c))

(* Only a HAL that was started runs. *)
HalStarted == hal.up => hal.session \in 1..MaxSessions

(* While the link has never been down, no event of it says so, and a channel *)
(* that is lost and not told of has not been closed.                        *)
NotTold ==
  linkDowns = 0 =>
    /\ Pending(LinkEvent) => linkUp
    /\ \A c \in untold : glink[c] = "remoteGone"

TInv == TypeOK /\ HalStarted /\ LinkKnown /\ LossPending /\ OpenPending /\ NotTold

-----------------------------------------------------------------------------
(* Events are told apart by what they are of. *)
LEMMA EventsDiffer ==
  /\ \A c, d : ChannelEvent(c) = ChannelEvent(d) => c = d
  /\ \A c : LinkEvent # ChannelEvent(c)
  /\ \A s : LinkEvent # EnableEvent(s)
  /\ \A c, s : ChannelEvent(c) # EnableEvent(s)
<1>1. \A c, d : ChannelEvent(c) = ChannelEvent(d) => c = d
  <2>1. \A c : ChannelEvent(c).chnl = c
    BY DEF ChannelEvent
  <2>2. QED BY <2>1
<1>2. \A c, s : /\ LinkEvent.op = "LINK_STATE"
               /\ ChannelEvent(c).op = "CHANNEL_STATE"
               /\ EnableEvent(s).op = "BT_ENABLE"
  BY DEF LinkEvent, ChannelEvent, EnableEvent
<1>3. QED BY <1>1, <1>2

(* What is pending is the same when neither the pipe nor the callback moves. *)
LEMMA StillPending ==
  ASSUME UNCHANGED <<pipe, callback>>, NEW f
  PROVE  Pending(f)' <=> Pending(f)
BY DEF Pending

(* A callback adds its own event. *)
LEMMA CallbackPending ==
  ASSUME callback = <<>>, NEW e, callback' = <<e>>, UNCHANGED pipe, NEW f
  PROVE  Pending(f)' <=> Pending(f) \/ f = e
<1>1. <<e>> = <<f>> <=> e = f
  <2>1. <<e>> [1] = e /\ <<f>> [1] = f
    OBVIOUS
  <2>2. QED BY <2>1
<1>2. <<>> # <<f>>
  OBVIOUS
<1>3. QED BY <1>1, <1>2 DEF Pending

(* A message of the HAL adds its own event. *)
LEMMA AppendPending ==
  ASSUME TypeOK, NEW e, pipe' = Append(pipe, e), UNCHANGED callback, NEW f
  PROVE  Pending(f)' <=> Pending(f) \/ f = e
<1>1. pipe \in Seq(Event)
  BY DEF TypeOK
<1>2. /\ DOMAIN pipe = 1..Len(pipe) /\ DOMAIN pipe' = 1..(Len(pipe) + 1)
      /\ \A k \in 1..Len(pipe) : pipe'[k] = pipe[k]
      /\ pipe'[Len(pipe) + 1] = e
      /\ Len(pipe) \in Nat
  BY <1>1
<1>3. (\E k \in DOMAIN pipe' : pipe'[k] = f) <=> (\E k \in DOMAIN pipe : pipe[k] = f) \/ f = e
  BY <1>2
<1>4. QED BY <1>3 DEF Pending

(* A callback posts one event. *)
LEMMA OneCallback ==
  ASSUME TypeOK, callback # <<>>
  PROVE  \E e \in Event : callback = <<e>>
<1>1. callback \in Seq(Event) /\ Len(callback) <= 1
  BY DEF TypeOK
<1>2. Len(callback) \in Nat \ {0}
  BY <1>1, EmptySeq
<1>3. Len(callback) = 1
  <2> HIDE DEF TypeOK
  <2>1. \A n \in Nat \ {0} : n <= 1 => n = 1
    OBVIOUS
  <2>2. QED BY <1>1, <1>2, <2>1
<1>4. callback[1] \in Event
  BY <1>1, <1>3, ElementOfSeq
<1>5. callback = <<callback[1]>>
  <2>1. <<callback[1]>> \in Seq(Event) /\ Len(<<callback[1]>>) = 1
    BY <1>4
  <2>2. \A i \in 1..1 : callback[i] = <<callback[1]>>[i]
    OBVIOUS
  <2>3. QED BY <1>1, <1>3, <2>1, <2>2, SeqEqual
<1>6. QED BY <1>4, <1>5

(* The event of a callback is pending before and after it is posted. *)
LEMMA PostPending ==
  ASSUME TypeOK, callback # <<>>, pipe' = pipe \o callback, callback' = <<>>, NEW f
  PROVE  Pending(f)' <=> Pending(f)
<1>1. PICK e \in Event : callback = <<e>>
  BY OneCallback
<1>2. pipe \in Seq(Event) /\ <<e>> \in Seq(Event) /\ Len(<<e>>) = 1 /\ <<e>>[1] = e
  BY DEF TypeOK
<1>3. /\ Len(pipe) \in Nat /\ DOMAIN pipe = 1..Len(pipe)
      /\ pipe' \in Seq(Event) /\ Len(pipe') = Len(pipe) + 1
      /\ DOMAIN pipe' = 1..Len(pipe')
  BY <1>1, <1>2, ConcatProperties, LenProperties
<1>4. \A k \in 1..(Len(pipe) + 1) : pipe'[k] = IF k <= Len(pipe) THEN pipe[k] ELSE <<e>>[k - Len(pipe)]
  BY <1>1, <1>2, ConcatProperties
<1>5. (\E k \in DOMAIN pipe' : pipe'[k] = f)
        <=> (\E k \in DOMAIN pipe : pipe[k] = f) \/ e = f
  <2>1. /\ \A k \in 1..Len(pipe) : k \in 1..(Len(pipe) + 1) /\ pipe'[k] = pipe[k]
        /\ pipe'[Len(pipe) + 1] = e
    BY <1>2, <1>3, <1>4
  <2>2. \A k \in 1..(Len(pipe) + 1) : k \in 1..Len(pipe) \/ k = Len(pipe) + 1
    BY <1>3
  <2>3. Len(pipe) + 1 \in 1..(Len(pipe) + 1)
    BY <1>3
  <2>4. QED BY <1>3, <2>1, <2>2, <2>3
<1>6. (<<e>> = <<f>> <=> e = f) /\ <<>> # <<f>>
  <2>1. <<e>>[1] = e /\ <<f>>[1] = f
    OBVIOUS
  <2>2. <<>> # <<f>>
    OBVIOUS
  <2>3. QED BY <2>1, <2>2
<1>7. QED BY <1>1, <1>5, <1>6 DEF Pending

LEMMA TakePending ==
  ASSUME TypeOK, NEW e, Take(e), UNCHANGED callback, NEW f
  PROVE  /\ Pending(f) /\ f # e => Pending(f)'
         /\ Pending(f)' => Pending(f)
         /\ Pending(e)
<1>1. pipe \in Seq(Event) /\ pipe # <<>> /\ pipe[1] = e
  BY DEF TypeOK, Take
<1>2. /\ DOMAIN pipe = 1..Len(pipe) /\ DOMAIN pipe' = 1..(Len(pipe) - 1)
      /\ \A k \in 1..(Len(pipe) - 1) : pipe'[k] = pipe[k + 1]
      /\ Len(pipe) \in Nat /\ Len(pipe) >= 1
  BY <1>1 DEF Take
<1>3. ASSUME NEW k \in DOMAIN pipe, pipe[k] = f, f # e
      PROVE  \E j \in DOMAIN pipe' : pipe'[j] = f
  <2>1. k \in 2..Len(pipe)
    BY <1>1, <1>2, <1>3
  <2>2. k - 1 \in 1..(Len(pipe) - 1) /\ (k - 1) + 1 = k
    BY <1>2, <2>1
  <2>3. QED BY <1>2, <1>3, <2>2
<1>4. ASSUME NEW j \in DOMAIN pipe', pipe'[j] = f
      PROVE  \E k \in DOMAIN pipe : pipe[k] = f
  <2>1. j + 1 \in 1..Len(pipe)
    BY <1>2
  <2>2. QED BY <1>2, <1>4, <2>1
<1>5. \E k \in DOMAIN pipe : pipe[k] = e
  BY <1>1, <1>2
<1>6. QED BY <1>3, <1>4, <1>5 DEF Pending

-----------------------------------------------------------------------------
(* The bounds, as the provers need them. *)
LEMMA Bounds ==
  /\ PipeSize \in Nat /\ MaxSessions \in Nat /\ MaxLinkDowns \in Nat
  /\ HalChannels \subseteq Channels
BY TransportAssumption

(* At first nothing is pending and the link is down. *)
LEMMA TInvInit == Init => TInv
<1> SUFFICES ASSUME Init PROVE TInv
  OBVIOUS
<1>1. TypeOK
  <2>1. hal \in [up : BOOLEAN, session : 0..MaxSessions, enabled : BOOLEAN]
    BY Bounds DEF Init
  <2>2. remote \subseteq Channels /\ linkUp \in BOOLEAN /\ untold \subseteq HalChannels
    BY DEF Init
  <2>3. linkDowns \in 0..MaxLinkDowns /\ bt_on \in 0..MaxSessions
    BY Bounds DEF Init
  <2>4. glink \in [Channels -> {"closed", "open", "connected", "remoteGone", "closing"}]
    BY DEF Init
  <2>5. link_state \in {"UP", "DOWN"} /\ chnl_state \in [Channels -> ChannelStates]
    BY DEF Init, ChannelStates
  <2>6. /\ callback \in Seq(Event) /\ Len(callback) <= 1
        /\ pipe \in Seq(Event) /\ Len(pipe) <= PipeSize
    <3>1. <<>> \in Seq(Event) /\ Len(<<>>) = 0
      BY EmptySeq
    <3>2. pipe = <<>> /\ callback = <<>>
      BY DEF Init
    <3>3. 0 <= PipeSize /\ 0 <= 1
      BY Bounds
    <3>4. QED BY <3>1, <3>2, <3>3
  <2>7. QED BY <2>1, <2>2, <2>3, <2>4, <2>5, <2>6 DEF TypeOK
<1>2. /\ ~linkUp /\ link_state = "DOWN" /\ untold = {} /\ ~hal.up
      /\ \A c \in Channels : glink[c] = "closed"
  BY DEF Init
<1>3. \A f : ~Pending(f)
  <2>1. pipe = <<>> /\ callback = <<>>
    BY DEF Init
  <2>2. \A f : <<>> # <<f>>
    OBVIOUS
  <2>3. QED BY <2>1, <2>2 DEF Pending
<1>4. LinkKnown /\ HalStarted
  BY <1>2 DEF LinkKnown, HalStarted
<1>5. LossPending /\ OpenPending /\ NotTold
  BY <1>2, <1>3 DEF LossPending, OpenPending, NotTold
<1>6. QED BY <1>1, <1>4, <1>5 DEF TInv

-----------------------------------------------------------------------------
(* The types, one step at a time.                                           *)

(* Whatever glink_open() and glink_close() do, a channel keeps a state. *)
LEMMA GlinkStates ==
  ASSUME TypeOK, NEW C, glink_open(C) \/ glink_close(C)
  PROVE  glink' \in [Channels -> {"closed", "open", "connected", "remoteGone", "closing"}]
BY DEF TypeOK, glink_open, glink_close

(* An event that is taken or appended keeps the pipe within its size. *)
LEMMA TakeType ==
  ASSUME TypeOK, NEW e, Take(e)
  PROVE  pipe' \in Seq(Event) /\ Len(pipe') <= PipeSize
<1>1. pipe \in Seq(Event) /\ pipe # <<>> /\ pipe' = Tail(pipe) /\ Len(pipe) <= PipeSize
  BY DEF TypeOK, Take
<1>2. Tail(pipe) \in Seq(Event) /\ Len(Tail(pipe)) = Len(pipe) - 1 /\ Len(pipe) \in Nat
  BY <1>1, HeadTailProperties, LenProperties
<1>3. QED BY <1>1, <1>2, Bounds

(* As before, for an event that is appended. *)
LEMMA AppendType ==
  ASSUME TypeOK, Len(pipe) < PipeSize, NEW e \in Event, pipe' = pipe \o <<e>>
  PROVE  pipe' \in Seq(Event) /\ Len(pipe') <= PipeSize
<1>1. pipe \in Seq(Event) /\ <<e>> \in Seq(Event) /\ Len(<<e>>) = 1
  BY DEF TypeOK
<1>2. pipe' \in Seq(Event) /\ Len(pipe') = Len(pipe) + 1 /\ Len(pipe) \in Nat
  BY <1>1, ConcatProperties, LenProperties
<1>3. QED BY <1>2, Bounds

(* A step of the HAL keeps the types. *)
LEMMA HalType ==
  ASSUME TypeOK, HalStarted, Hal
  PROVE  TypeOK' /\ HalStarted'
<1>1. CASE HalStart
  <2>1. hal' \in [up : BOOLEAN, session : 0..MaxSessions, enabled : BOOLEAN] /\ HalStarted'
    BY <1>1, Bounds DEF HalStart, TypeOK, HalStarted
  <2>2. QED BY <1>1, <2>1 DEF HalStart, TypeOK, unchangedByHal, glinkVars
<1>2. ASSUME NEW c \in Channels, HalOpen(c)
      PROVE  TypeOK' /\ HalStarted'
  BY <1>2 DEF HalOpen, TypeOK, HalStarted, unchangedByHal, glinkVars
<1>3. CASE HalCrash
  <2>1. hal' \in [up : BOOLEAN, session : 0..MaxSessions, enabled : BOOLEAN] /\ HalStarted'
    BY <1>3 DEF HalCrash, TypeOK, HalStarted
  <2>2. QED BY <1>3, <2>1 DEF HalCrash, TypeOK, unchangedByHal, glinkVars
<1>4. CASE HalEnable
  <2>1. EnableEvent(hal.session) \in Event
    BY <1>4 DEF HalEnable, HalStarted, Event
  <2>2. pipe' = pipe \o <<EnableEvent(hal.session)>>
    BY <1>4, <2>1 DEF HalEnable, TypeOK
  <2>3. pipe' \in Seq(Event) /\ Len(pipe') <= PipeSize
    BY <1>4, <2>1, <2>2, AppendType DEF HalEnable
  <2>4. hal' \in [up : BOOLEAN, session : 0..MaxSessions, enabled : BOOLEAN] /\ HalStarted'
    BY <1>4 DEF HalEnable, TypeOK, HalStarted
  <2>5. QED BY <1>4, <2>3, <2>4 DEF HalEnable, TypeOK, unchangedByHal, glinkVars
<1>5. QED BY <1>1, <1>2, <1>3, <1>4 DEF Hal

(* So does a callback of glink for a channel. *)
LEMMA ChannelCallbackType ==
  ASSUME TypeOK, NEW c \in Channels, Connected(c) \/ RemoteDisconnected(c) \/ LocalDisconnected(c)
  PROVE  TypeOK'
<1>1. callback' \in Seq(Event) /\ Len(callback') <= 1
  <2>1. callback' = <<ChannelEvent(c)>>
    BY DEF Connected, RemoteDisconnected, LocalDisconnected, Channel_State_Cb
  <2>2. ChannelEvent(c) \in Event
    BY DEF Event
  <2>3. QED BY <2>1, <2>2
<1>2. /\ glink' \in [Channels -> {"closed", "open", "connected", "remoteGone", "closing"}]
      /\ chnl_state' \in [Channels -> ChannelStates]
      /\ untold' \subseteq HalChannels
  BY DEF TypeOK, Connected, RemoteDisconnected, LocalDisconnected, Channel_State_Cb, ChannelStates
<1>3. UNCHANGED <<halVars, linkUp, linkDowns, link_state, pipe, bt_on>>
  BY DEF Connected, RemoteDisconnected, LocalDisconnected, Channel_State_Cb
<1>4. QED BY <1>1, <1>2, <1>3 DEF TypeOK, halVars

(* And the one for the link. *)
LEMMA LinkCallbackType ==
  ASSUME TypeOK, Link_State_Cb
  PROVE  TypeOK'
<1>1. callback' \in Seq(Event) /\ Len(callback') <= 1
  <2>1. callback' = <<LinkEvent>> /\ LinkEvent \in Event
    BY DEF Link_State_Cb, Event
  <2>2. QED BY <2>1
<1>2. linkUp' \in BOOLEAN /\ linkDowns' \in 0..MaxLinkDowns /\ link_state' \in {"UP", "DOWN"}
  BY Bounds DEF TypeOK, Link_State_Cb
<1>3. QED BY <1>1, <1>2 DEF TypeOK, Link_State_Cb, halVars

(* Posting the event does. *)
LEMMA PostType ==
  ASSUME TypeOK, LPAI_Transport_Queue_Evt
  PROVE  TypeOK'
<1>1. PICK e \in Event : callback = <<e>>
  BY OneCallback DEF LPAI_Transport_Queue_Evt
<1>2. pipe' \in Seq(Event) /\ Len(pipe') <= PipeSize
  BY <1>1, AppendType DEF LPAI_Transport_Queue_Evt
<1>3. callback' \in Seq(Event) /\ Len(callback') <= 1
  <2>1. callback' = <<>>
    BY DEF LPAI_Transport_Queue_Evt
  <2>2. QED BY <2>1, EmptySeq
<1>4. QED BY <1>2, <1>3 DEF TypeOK, LPAI_Transport_Queue_Evt, halVars, glinkVars

(* And so does a step of the thread. *)
LEMMA ThreadType ==
  ASSUME TypeOK, OffloadManagerThread
  PROVE  TypeOK'
<1>1. CASE LPAI_Transport_Glink_Handle_Link_State
  <2>1. glink' \in [Channels -> {"closed", "open", "connected", "remoteGone", "closing"}]
    BY <1>1, GlinkStates DEF LPAI_Transport_Glink_Handle_Link_State
  <2>2. pipe' \in Seq(Event) /\ Len(pipe') <= PipeSize
    BY <1>1, TakeType DEF LPAI_Transport_Glink_Handle_Link_State
  <2>3. QED BY <1>1, <2>1, <2>2
        DEF LPAI_Transport_Glink_Handle_Link_State, TypeOK, unchangedByThread, halVars
<1>2. ASSUME NEW c \in Channels, ChannelConnected(c) \/ ChannelLost(c) \/ ChannelClosed(c)
      PROVE  TypeOK'
  <2>1. glink' \in [Channels -> {"closed", "open", "connected", "remoteGone", "closing"}]
    BY <1>2, GlinkStates DEF ChannelConnected, ChannelLost, ChannelClosed, TypeOK
  <2>2. pipe' \in Seq(Event) /\ Len(pipe') <= PipeSize
    BY <1>2, TakeType DEF ChannelConnected, ChannelLost, ChannelClosed
  <2>3. bt_on' \in 0..MaxSessions /\ untold' \subseteq HalChannels
    BY <1>2, Bounds DEF ChannelConnected, ChannelLost, ChannelClosed, TypeOK
  <2>4. UNCHANGED unchangedByThread
    BY <1>2 DEF ChannelConnected, ChannelLost, ChannelClosed
  <2>5. QED BY <2>1, <2>2, <2>3, <2>4 DEF TypeOK, unchangedByThread, halVars
<1>3. CASE EnableReceived
  <2>1. PICK s \in 1..MaxSessions : Take(EnableEvent(s)) /\ bt_on' = s
    BY <1>3 DEF EnableReceived
  <2>2. pipe' \in Seq(Event) /\ Len(pipe') <= PipeSize
    BY <2>1, TakeType
  <2>3. bt_on' \in 0..MaxSessions
    BY <2>1, Bounds
  <2>4. QED BY <1>3, <2>2, <2>3 DEF EnableReceived, TypeOK, unchangedByThread, halVars
<1>4. QED BY <1>1, <1>2, <1>3 DEF OffloadManagerThread

(* Every step keeps the types. *)
LEMMA TypeStep ==
  ASSUME TypeOK, HalStarted, [Next]_vars
  PROVE  TypeOK' /\ HalStarted'
<1>1. CASE Hal
  BY <1>1, HalType
<1>2. CASE GlinkContext \/ Link_State_Cb \/ OffloadManagerThread
  <2>1. TypeOK'
    BY <1>2, ChannelCallbackType, LinkCallbackType, PostType, ThreadType DEF GlinkContext
  <2>2. UNCHANGED hal
    <3>1. CASE GlinkContext
      BY <3>1 DEF GlinkContext, Connected, RemoteDisconnected, LocalDisconnected,
                  Channel_State_Cb, LPAI_Transport_Queue_Evt, halVars
    <3>2. CASE Link_State_Cb
      BY <3>2 DEF Link_State_Cb, halVars
    <3>3. CASE OffloadManagerThread
      BY <3>3 DEF OffloadManagerThread, LPAI_Transport_Glink_Handle_Link_State, ChannelConnected,
                  ChannelLost, ChannelClosed, EnableReceived, unchangedByThread, halVars
    <3>4. QED BY <1>2, <3>1, <3>2, <3>3
  <2>3. QED BY <2>1, <2>2 DEF HalStarted
<1>3. CASE UNCHANGED vars
  BY <1>3 DEF vars, halVars, glinkVars, TypeOK, HalStarted
<1>4. QED BY <1>1, <1>2, <1>3 DEF Next

-----------------------------------------------------------------------------
(* What is to be handled, one step at a time. *)
ToHandle == LinkKnown /\ LossPending /\ OpenPending /\ NotTold

(* A step that writes no state and takes no event of glink's. *)
LEMMA NothingHandled ==
  ASSUME ToHandle, UNCHANGED <<linkUp, linkDowns, glink, link_state, chnl_state, untold>>,
         Pending(LinkEvent)' <=> Pending(LinkEvent),
         \A c \in Channels : Pending(ChannelEvent(c))' <=> Pending(ChannelEvent(c))
  PROVE  ToHandle'
BY DEF ToHandle, LinkKnown, LossPending, OpenPending, NotTold

(* The HAL's steps are such steps. *)
LEMMA HalHandles ==
  ASSUME TypeOK, ToHandle, Hal
  PROVE  ToHandle'
<1>1. UNCHANGED <<linkUp, linkDowns, glink, link_state, chnl_state, untold, callback>>
  BY DEF Hal, HalStart, HalOpen, HalCrash, HalEnable, unchangedByHal, glinkVars
<1>2. CASE HalEnable
  <2>1. pipe' = Append(pipe, EnableEvent(hal.session))
    BY <1>2 DEF HalEnable
  <2>2. \A f : Pending(f)' <=> Pending(f) \/ f = EnableEvent(hal.session)
    BY <1>1, <2>1, AppendPending
  <2>3. QED BY <1>1, <2>2, EventsDiffer, NothingHandled
<1>3. CASE UNCHANGED pipe
  BY <1>1, <1>3, StillPending, NothingHandled
<1>4. QED BY <1>2, <1>3 DEF Hal, HalStart, HalOpen, HalCrash

(* Posting is one. *)
LEMMA PostHandles ==
  ASSUME TypeOK, ToHandle, LPAI_Transport_Queue_Evt
  PROVE  ToHandle'
<1>1. UNCHANGED <<linkUp, linkDowns, glink, link_state, chnl_state, untold>>
  BY DEF LPAI_Transport_Queue_Evt, glinkVars
<1>2. \A f : Pending(f)' <=> Pending(f)
  BY PostPending DEF LPAI_Transport_Queue_Evt
<1>3. QED BY <1>1, <1>2, NothingHandled

(* A callback for a channel writes that channel's state and adds its event. *)
LEMMA ChannelCallbackHandles ==
  ASSUME TypeOK, ToHandle, NEW c \in Channels,
         Connected(c) \/ RemoteDisconnected(c) \/ LocalDisconnected(c)
  PROVE  ToHandle'
<1>1. UNCHANGED <<linkUp, linkDowns, link_state>>
  BY DEF Connected, RemoteDisconnected, LocalDisconnected, Channel_State_Cb
<1>2. \A f : Pending(f)' <=> Pending(f) \/ f = ChannelEvent(c)
  BY CallbackPending DEF Connected, RemoteDisconnected, LocalDisconnected, Channel_State_Cb
<1>3. /\ \A d \in Channels \ {c} : glink'[d] = glink[d] /\ chnl_state'[d] = chnl_state[d]
      /\ glink'[c] = "remoteGone" => chnl_state'[c] = "REMOTE_DISCONNECTED"
      /\ glink'[c] = "closed" => chnl_state'[c] = "LOCAL_DISCONNECTED"
  BY DEF TypeOK, Connected, RemoteDisconnected, LocalDisconnected, Channel_State_Cb
<1>4. linkDowns = 0 => \A d \in untold' : glink'[d] = "remoteGone"
  <2>1. CASE RemoteDisconnected(c)
    BY <2>1 DEF ToHandle, NotTold, RemoteDisconnected, TypeOK
  <2>2. CASE Connected(c) \/ LocalDisconnected(c)
    BY <2>2, Bounds DEF ToHandle, NotTold, Connected, LocalDisconnected, TypeOK
  <2>3. QED BY <2>1, <2>2
<1>5. LinkKnown'
  BY <1>1 DEF ToHandle, LinkKnown
<1>6. LossPending'
  BY <1>2, <1>3 DEF ToHandle, LossPending
<1>7. OpenPending'
  BY <1>1, <1>2, <1>3 DEF ToHandle, OpenPending
<1>8. NotTold'
  BY <1>1, <1>2, <1>4, EventsDiffer DEF ToHandle, NotTold
<1>9. QED BY <1>5, <1>6, <1>7, <1>8 DEF ToHandle

(* The one for the link adds its own. *)
LEMMA LinkCallbackHandles ==
  ASSUME TypeOK, ToHandle, Link_State_Cb
  PROVE  ToHandle'
<1>1. UNCHANGED <<glink, chnl_state, untold>>
  BY DEF Link_State_Cb
<1>2. \A f : Pending(f)' <=> Pending(f) \/ f = LinkEvent
  BY CallbackPending DEF Link_State_Cb
<1>3. LinkKnown'
  BY DEF ToHandle, LinkKnown, Link_State_Cb, TypeOK
<1>4. LossPending' /\ OpenPending'
  BY <1>1, <1>2 DEF ToHandle, LossPending, OpenPending
<1>5. NotTold'
  <2>1. linkDowns' = 0 => linkDowns = 0 /\ linkUp'
    <3>1. CASE linkUp
      <4>1. linkDowns \in Nat /\ linkDowns' = linkDowns + 1
        BY <3>1, Bounds DEF Link_State_Cb, TypeOK
      <4>2. QED BY <4>1
    <3>2. CASE ~linkUp
      BY <3>2 DEF Link_State_Cb
    <3>3. QED BY <3>1, <3>2
  <2>2. QED BY <1>1, <2>1 DEF ToHandle, NotTold
<1>6. QED BY <1>3, <1>4, <1>5 DEF ToHandle

(* The event of the link opens every channel when the link is up. *)
LEMMA LinkEventHandled ==
  ASSUME TypeOK, ToHandle, LPAI_Transport_Glink_Handle_Link_State
  PROVE  ToHandle'
<1>1. UNCHANGED <<linkUp, linkDowns, link_state, chnl_state, untold, callback>>
  BY DEF LPAI_Transport_Glink_Handle_Link_State, unchangedByThread
<1>2. /\ \A f : Pending(f) /\ f # LinkEvent => Pending(f)'
      /\ \A f : Pending(f)' => Pending(f)
      /\ Pending(LinkEvent)
  BY <1>1, TakePending DEF LPAI_Transport_Glink_Handle_Link_State
<1>3. CASE linkUp
  <2>1. glink_open(Channels)
    BY <1>3 DEF LPAI_Transport_Glink_Handle_Link_State, ToHandle, LinkKnown
  <2>2. \A c \in Channels : glink'[c] = IF glink[c] = "closed" THEN "open" ELSE glink[c]
    BY <1>3, <2>1 DEF glink_open
  <2>3. LossPending'
    BY <1>1, <1>2, <2>2, EventsDiffer DEF ToHandle, LossPending
  <2>4. OpenPending'
    BY <2>2 DEF OpenPending
  <2>5. NotTold'
    BY <1>1, <1>2, <1>3, <2>2, Bounds DEF ToHandle, NotTold, TypeOK
  <2>6. QED BY <1>1, <2>3, <2>4, <2>5 DEF ToHandle, LinkKnown
<1>4. CASE ~linkUp
  <2>1. glink_close(Channels)
    BY <1>4 DEF LPAI_Transport_Glink_Handle_Link_State, ToHandle, LinkKnown
  <2>2. \A c \in Channels : glink'[c] # "remoteGone"
    BY <2>1 DEF glink_close
  <2>3. LossPending' /\ OpenPending'
    BY <1>1, <1>4, <2>2 DEF LossPending, OpenPending
  <2>4. linkDowns # 0
    BY <1>2, <1>4 DEF ToHandle, NotTold
  <2>5. QED BY <1>1, <2>3, <2>4 DEF ToHandle, LinkKnown, NotTold
<1>5. QED BY <1>3, <1>4

(* The event of a channel closes it or opens it again; in between it has     *)
(* nothing to do.                                                           *)
LEMMA ChannelEventHandled ==
  ASSUME TypeOK, ToHandle, NEW c \in Channels,
         ChannelConnected(c) \/ ChannelLost(c) \/ ChannelClosed(c)
  PROVE  ToHandle'
<1>1. UNCHANGED <<linkUp, linkDowns, link_state, chnl_state, callback>>
  BY DEF ChannelConnected, ChannelLost, ChannelClosed, unchangedByThread
<1>2. /\ \A f : Pending(f) /\ f # ChannelEvent(c) => Pending(f)'
      /\ \A f : Pending(f)' => Pending(f)
  BY <1>1, TakePending DEF ChannelConnected, ChannelLost, ChannelClosed
<1>3. /\ \A d \in Channels \ {c} : Pending(ChannelEvent(d)) => Pending(ChannelEvent(d))'
      /\ Pending(LinkEvent)' <=> Pending(LinkEvent)
  BY <1>2, EventsDiffer
<1>4. LinkKnown'
  BY <1>1 DEF ToHandle, LinkKnown
<1>5. CASE ChannelConnected(c)
  <2>1. UNCHANGED <<glink, untold>> /\ chnl_state[c] = "CONNECTED"
    BY <1>5 DEF ChannelConnected
  <2>2. LossPending' /\ OpenPending'
    BY <1>1, <1>3, <2>1 DEF ToHandle, LossPending, OpenPending
  <2>3. NotTold'
    BY <1>1, <1>3, <2>1 DEF ToHandle, NotTold
  <2>4. QED BY <1>4, <2>2, <2>3 DEF ToHandle
<1>6. CASE ChannelLost(c)
  <2>1. /\ glink'[c] # "remoteGone" /\ (glink'[c] = "closed" => glink[c] = "closed")
        /\ \A d \in Channels \ {c} : glink'[d] = glink[d]
        /\ chnl_state[c] = "REMOTE_DISCONNECTED"
    BY <1>6 DEF ChannelLost, glink_close, TypeOK
  <2>2. LossPending' /\ OpenPending'
    BY <1>1, <1>3, <2>1 DEF ToHandle, LossPending, OpenPending
  <2>3. untold' \subseteq untold /\ c \notin untold'
    BY <1>6 DEF ChannelLost, MockOffConsidered, TypeOK
  <2>4. NotTold'
    BY <1>1, <1>3, <2>1, <2>3, Bounds DEF ToHandle, NotTold, TypeOK
  <2>5. QED BY <1>4, <2>2, <2>4 DEF ToHandle
<1>7. CASE ChannelClosed(c)
  <2>1. /\ \A d \in Channels \ {c} : glink'[d] = glink[d]
        /\ glink[c] # "closed" => glink'[c] = glink[c]
        /\ glink[c] = "closed" => glink'[c] \in {"closed", "open"}
        /\ glink[c] = "closed" /\ linkUp => glink'[c] = "open"
        /\ chnl_state[c] = "LOCAL_DISCONNECTED" /\ UNCHANGED untold
    BY <1>7 DEF ChannelClosed, glink_open, TypeOK
  <2>2. glink[c] # "remoteGone"
    BY <2>1 DEF ToHandle, LossPending
  <2>3. LossPending' /\ OpenPending'
    BY <1>1, <1>3, <2>1, <2>2 DEF ToHandle, LossPending, OpenPending
  <2>4. NotTold'
    BY <1>1, <1>3, <2>1, <2>2, Bounds DEF ToHandle, NotTold, TypeOK
  <2>5. QED BY <1>4, <2>3, <2>4 DEF ToHandle
<1>8. QED BY <1>5, <1>6, <1>7

(* A BT_ENABLE is no event of glink's. *)
LEMMA EnableHandled ==
  ASSUME TypeOK, ToHandle, EnableReceived
  PROVE  ToHandle'
<1>1. PICK s \in 1..MaxSessions : Take(EnableEvent(s))
  BY DEF EnableReceived
<1>2. UNCHANGED <<linkUp, linkDowns, glink, link_state, chnl_state, untold, callback>>
  BY DEF EnableReceived, unchangedByThread
<1>3. /\ \A f : Pending(f) /\ f # EnableEvent(s) => Pending(f)'
      /\ \A f : Pending(f)' => Pending(f)
  BY <1>1, <1>2, TakePending
<1>4. QED BY <1>2, <1>3, EventsDiffer, NothingHandled

-----------------------------------------------------------------------------
(* TInv is kept by every step. *)
LEMMA TInvStep == TInv /\ [Next]_vars => TInv'
<1> SUFFICES ASSUME TInv, [Next]_vars PROVE TInv'
  OBVIOUS
<1>1. TypeOK /\ HalStarted /\ ToHandle
  BY DEF TInv, ToHandle
<1>2. TypeOK' /\ HalStarted'
  BY <1>1, TypeStep
<1>3. ToHandle'
  <2>1. CASE Hal
    BY <1>1, <2>1, HalHandles
  <2>2. CASE GlinkContext
    BY <1>1, <2>2, ChannelCallbackHandles, PostHandles DEF GlinkContext
  <2>3. CASE Link_State_Cb
    BY <1>1, <2>3, LinkCallbackHandles
  <2>4. CASE OffloadManagerThread
    BY <1>1, <2>4, LinkEventHandled, ChannelEventHandled, EnableHandled DEF OffloadManagerThread
  <2>5. CASE UNCHANGED vars
    <3>1. UNCHANGED <<linkUp, linkDowns, glink, link_state, chnl_state, untold, pipe, callback>>
      BY <2>5 DEF vars, glinkVars
    <3>2. QED BY <1>1, <3>1, StillPending, NothingHandled
  <2>6. QED BY <2>1, <2>2, <2>3, <2>4, <2>5 DEF Next
<1>4. QED BY <1>2, <1>3 DEF TInv, ToHandle

(* What is still to be handled is always as TInv says. *)
THEOREM TInvInvariant == Spec => []TInv
<1>1. Init => TInv
  BY TInvInit
<1>2. TInv /\ [Next]_vars => TInv'
  BY TInvStep
<1>3. QED BY <1>1, <1>2, PTL DEF Spec

(* lpai_transport.c: every value stays in its type and the offload manager's *)
(* pipe within its size, however the callbacks and the thread interleave.   *)
THEOREM TransportTypeCorrect == Spec => []TypeOK
<1>1. TInv => TypeOK
  BY DEF TInv
<1>2. QED BY <1>1, TInvInvariant, PTL

(* lpai_transport.c: once every event is handled and the link is up, no      *)
(* channel is left closed or lost, although the events read the state late. *)
THEOREM NeverDeafAlways == Spec => []NeverDeaf
<1>1. TInv => NeverDeaf
  <2> SUFFICES ASSUME TInv, linkUp, pipe = <<>>, callback = <<>>, NEW c \in Channels
               PROVE  glink[c] \notin {"closed", "remoteGone"}
    BY DEF NeverDeaf
  <2>1. \A f : ~Pending(f)
    <3>1. \A f : <<>> # <<f>>
      OBVIOUS
    <3>2. QED BY <3>1 DEF Pending
  <2>2. QED BY <2>1 DEF TInv, LossPending, OpenPending
<1>2. QED BY <1>1, TInvInvariant, PTL

(* lpai_transport.c: while the link has never gone down, a HAL's channel that *)
(* was lost is opened again only after a mock off has been considered for it. *)
THEOREM LossIsToldAlways == Spec => LossIsTold
<1>1. TInv /\ [Next]_vars =>
        [\A c \in HalChannels :
           (glink[c] = "closed" /\ glink'[c] = "open" /\ linkDowns = 0) => c \notin untold]_vars
  BY DEF TInv, NotTold
<1>2. QED BY <1>1, TInvInvariant, PTL DEF Spec, LossIsTold
-----------------------------------------------------------------------------
(* A HAL that runs is not mocked off for the end of an earlier one.  The     *)
(* losses of the earlier one were posted before glink took the BT_ENABLE of  *)
(* the next, its callbacks and its receive notification being of one        *)
(* context, and so they are ahead of it in the pipe; and while the HAL runs  *)
(* none is added, since it closes no channel.                               *)

(* No e stands behind an f, or is about to. *)
AheadOf(e, f) ==
  \A k \in DOMAIN pipe :
    pipe[k] = f => callback # <<e>> /\ \A l \in DOMAIN pipe : pipe[l] = e => l < k

(* What is connected at our end is open at the other. *)
BothEnds ==
  linkDowns = 0 =>
    \A c \in Channels : glink[c] = "connected" => linkUp /\ (hal.up => c \in remote)

(* A start of the HAL enables once, and Bluetooth is on for no later one. *)
EnableOnce ==
  /\ bt_on <= hal.session
  /\ \A s \in 1..MaxSessions : Pending(EnableEvent(s)) => s <= hal.session
  /\ hal.up /\ ~hal.enabled => bt_on # hal.session /\ ~Pending(EnableEvent(hal.session))

(* A loss that is still to be handled is ahead of the HAL's BT_ENABLE. *)
LossesAhead ==
  hal.up /\ linkDowns = 0 =>
    \A c \in HalChannels :
      chnl_state[c] = "REMOTE_DISCONNECTED" =>
        /\ bt_on = hal.session => ~Pending(ChannelEvent(c))
        /\ AheadOf(ChannelEvent(c), EnableEvent(hal.session))

LInv == TInv /\ BothEnds /\ EnableOnce /\ LossesAhead

(* Order is kept when neither the pipe nor the callback moves. *)
LEMMA StillAhead ==
  ASSUME UNCHANGED <<pipe, callback>>, NEW e, NEW f, AheadOf(e, f)
  PROVE  AheadOf(e, f)'
BY DEF AheadOf

(* A callback with an event of another kind keeps it. *)
LEMMA CallbackAhead ==
  ASSUME NEW e, NEW f, NEW g, g # e, AheadOf(e, f), callback' = <<g>>, UNCHANGED pipe
  PROVE  AheadOf(e, f)'
<1>1. <<g>> # <<e>>
  <2>1. <<g>>[1] = g /\ <<e>>[1] = e
    OBVIOUS
  <2>2. QED BY <2>1
<1>2. QED BY <1>1 DEF AheadOf

(* An event that is appended, the first of its kind, has all others ahead. *)
LEMMA AppendAhead ==
  ASSUME TypeOK, NEW e, NEW f, e # f, ~Pending(f), callback = <<>>,
         pipe' = Append(pipe, f), UNCHANGED callback
  PROVE  AheadOf(e, f)'
<1>1. pipe \in Seq(Event)
  BY DEF TypeOK
<1>2. /\ DOMAIN pipe = 1..Len(pipe) /\ DOMAIN pipe' = 1..(Len(pipe) + 1)
      /\ \A k \in 1..Len(pipe) : pipe'[k] = pipe[k]
      /\ pipe'[Len(pipe) + 1] = f
      /\ Len(pipe) \in Nat
  BY <1>1
<1>3. <<>> # <<e>>
  OBVIOUS
<1>4. \A k \in DOMAIN pipe : pipe[k] # f
  BY DEF Pending
<1>5. SUFFICES ASSUME NEW k \in DOMAIN pipe', pipe'[k] = f, NEW l \in DOMAIN pipe', pipe'[l] = e
               PROVE  l < k
  BY <1>3 DEF AheadOf
<1>6. k = Len(pipe) + 1
  BY <1>2, <1>4, <1>5
<1>7. l # Len(pipe) + 1
  BY <1>2, <1>5
<1>8. QED BY <1>2, <1>5, <1>6, <1>7

(* Posting keeps the order. *)
LEMMA PostAhead ==
  ASSUME TypeOK, NEW e, NEW f, e # f, AheadOf(e, f), callback # <<>>,
         pipe' = pipe \o callback, callback' = <<>>
  PROVE  AheadOf(e, f)'
<1>1. PICK g \in Event : callback = <<g>>
  BY OneCallback
<1>2. pipe \in Seq(Event) /\ <<g>> \in Seq(Event) /\ Len(<<g>>) = 1 /\ <<g>>[1] = g
  BY DEF TypeOK
<1>3. /\ Len(pipe) \in Nat /\ DOMAIN pipe = 1..Len(pipe)
      /\ pipe' \in Seq(Event) /\ Len(pipe') = Len(pipe) + 1
      /\ DOMAIN pipe' = 1..(Len(pipe) + 1)
  BY <1>1, <1>2, ConcatProperties, LenProperties
<1>4. \A k \in 1..(Len(pipe) + 1) : pipe'[k] = IF k <= Len(pipe) THEN pipe[k] ELSE <<g>>[k - Len(pipe)]
  BY <1>1, <1>2, ConcatProperties
<1>5. /\ \A k \in 1..Len(pipe) : pipe'[k] = pipe[k]
      /\ pipe'[Len(pipe) + 1] = g
  BY <1>2, <1>3, <1>4
<1>6. <<>> # <<e>>
  OBVIOUS
<1>7. SUFFICES ASSUME NEW k \in DOMAIN pipe', pipe'[k] = f, NEW l \in DOMAIN pipe', pipe'[l] = e
               PROVE  l < k
  BY <1>6 DEF AheadOf
<1>8. CASE k = Len(pipe) + 1
  <2>1. l # Len(pipe) + 1
    BY <1>5, <1>7, <1>8
  <2>2. QED BY <1>3, <1>7, <1>8, <2>1
<1>9. CASE k # Len(pipe) + 1
  <2>1. k \in DOMAIN pipe /\ pipe[k] = f
    BY <1>3, <1>5, <1>7, <1>9
  <2>2. g # e
    BY <1>1, <2>1 DEF AheadOf
  <2>3. l \in DOMAIN pipe /\ pipe[l] = e
    BY <1>3, <1>5, <1>7, <2>2
  <2>4. QED BY <2>1, <2>3 DEF AheadOf
<1>10. QED BY <1>8, <1>9

(* So does a take; and what is ahead of the event taken has been handled. *)
LEMMA TakeAhead ==
  ASSUME TypeOK, NEW g, Take(g), UNCHANGED callback, NEW e, NEW f, AheadOf(e, f)
  PROVE  /\ AheadOf(e, f)'
         /\ g = f /\ e # f => ~Pending(e)
<1>1. pipe \in Seq(Event) /\ pipe # <<>> /\ pipe[1] = g
  BY DEF TypeOK, Take
<1>2. /\ DOMAIN pipe = 1..Len(pipe) /\ DOMAIN pipe' = 1..(Len(pipe) - 1)
      /\ \A k \in 1..(Len(pipe) - 1) : pipe'[k] = pipe[k + 1]
      /\ Len(pipe) \in Nat /\ Len(pipe) >= 1
  BY <1>1 DEF Take
<1>3. ASSUME NEW k \in DOMAIN pipe', pipe'[k] = f
      PROVE  callback' # <<e>> /\ \A l \in DOMAIN pipe' : pipe'[l] = e => l < k
  <2>1. k + 1 \in DOMAIN pipe /\ pipe[k + 1] = f
    BY <1>2, <1>3
  <2>2. callback' # <<e>>
    BY <2>1 DEF AheadOf
  <2>3. ASSUME NEW l \in DOMAIN pipe', pipe'[l] = e
        PROVE  l < k
    <3>1. l + 1 \in DOMAIN pipe /\ pipe[l + 1] = e
      BY <1>2, <2>3
    <3>2. l + 1 < k + 1
      BY <2>1, <3>1 DEF AheadOf
    <3>3. QED BY <1>2, <1>3, <2>3, <3>2
  <2>4. QED BY <2>2, <2>3
<1>4. ASSUME g = f, e # f
      PROVE  ~Pending(e)
  <2>1. 1 \in DOMAIN pipe /\ pipe[1] = f
    BY <1>1, <1>2, <1>4
  <2>2. callback # <<e>> /\ \A l \in DOMAIN pipe : pipe[l] = e => l < 1
    BY <2>1 DEF AheadOf
  <2>3. \A l \in DOMAIN pipe : pipe[l] # e
    BY <1>2, <2>2
  <2>4. QED BY <2>2, <2>3 DEF Pending
<1>5. QED BY <1>3, <1>4 DEF AheadOf

(* The bounds of a session's number, for arithmetic. *)
LEMMA SessionTypes ==
  ASSUME TypeOK
  PROVE  /\ hal.session \in 0..MaxSessions /\ hal.session \in Nat
         /\ bt_on \in 0..MaxSessions /\ bt_on \in Nat
         /\ linkDowns \in Nat /\ hal.up \in BOOLEAN
BY Bounds DEF TypeOK

-----------------------------------------------------------------------------
(* A start has enabled nothing yet; a crash and an opening add nothing; a    *)
(* BT_ENABLE goes behind what is pending.                                   *)
LEMMA HalAhead ==
  ASSUME LInv, Hal
  PROVE  BothEnds' /\ EnableOnce' /\ LossesAhead'
<1>1. TypeOK /\ HalStarted /\ UNCHANGED <<linkUp, linkDowns, glink, chnl_state, callback, bt_on>>
  BY DEF LInv, TInv, Hal, HalStart, HalOpen, HalCrash, HalEnable, unchangedByHal, glinkVars
<1>2. CASE HalStart
  <2>1. /\ hal'.up /\ ~hal'.enabled /\ hal'.session = hal.session + 1
        /\ UNCHANGED <<pipe, callback>>
        /\ \A c \in Channels : glink'[c] # "connected"
    BY <1>1, <1>2 DEF HalStart
  <2>2. hal.session + 1 \in 1..MaxSessions
    BY <1>1, <1>2, SessionTypes, Bounds DEF HalStart
  <2>3. PICK n \in 1..MaxSessions : n = hal.session + 1
    BY <2>2
  <2>4. bt_on <= hal.session /\ hal.session < n /\ bt_on # n /\ ~Pending(EnableEvent(n))
    BY <1>1, <2>3, SessionTypes DEF LInv, EnableOnce
  <2>5. /\ bt_on' <= hal'.session /\ bt_on' # n /\ hal'.session = n
        /\ ~Pending(EnableEvent(n))'
    BY <1>1, <2>1, <2>3, <2>4, StillPending, SessionTypes
  <2>6. EnableOnce'
    <3>1. ASSUME NEW s \in 1..MaxSessions, Pending(EnableEvent(s))'
          PROVE  s <= hal'.session
      <4>1. Pending(EnableEvent(s))
        BY <2>1, <3>1, StillPending
      <4>2. s <= hal.session
        BY <4>1 DEF LInv, EnableOnce
      <4>3. QED BY <1>1, <2>1, <4>2, SessionTypes
    <3>2. ~Pending(EnableEvent(hal.session))'
      BY <2>5
    <3>3. QED BY <2>1, <2>5, <3>1, <3>2 DEF EnableOnce
  <2>7. LossesAhead'
    <3>1. \A k \in DOMAIN pipe' : pipe'[k] # EnableEvent(hal'.session)
      BY <2>5 DEF Pending
    <3>2. \A c : AheadOf(ChannelEvent(c), EnableEvent(hal.session))'
      BY <3>1 DEF AheadOf
    <3>3. QED BY <2>5, <3>2 DEF LossesAhead
  <2>8. QED BY <2>1, <2>6, <2>7 DEF BothEnds
<1>3. ASSUME NEW c \in Channels, HalOpen(c)
      PROVE  BothEnds' /\ EnableOnce' /\ LossesAhead'
  <2>1. UNCHANGED <<hal, pipe, callback>> /\ remote \subseteq remote'
    BY <1>1, <1>3 DEF HalOpen
  <2>2. BothEnds'
    BY <1>1, <2>1 DEF LInv, BothEnds
  <2>3. EnableOnce' /\ LossesAhead'
    BY <1>1, <2>1 DEF LInv, EnableOnce, LossesAhead, Pending, AheadOf
  <2>4. QED BY <2>2, <2>3
<1>4. CASE HalCrash
  <2>1. ~hal'.up /\ hal'.session = hal.session /\ UNCHANGED <<pipe, callback>>
    BY <1>1, <1>4 DEF HalCrash, TypeOK
  <2>2. QED BY <1>1, <2>1 DEF LInv, BothEnds, EnableOnce, LossesAhead, Pending
<1>5. CASE HalEnable
  <2>1. /\ hal.up /\ ~hal.enabled /\ hal'.up /\ hal'.enabled /\ hal'.session = hal.session
        /\ callback = <<>> /\ pipe' = Append(pipe, EnableEvent(hal.session)) /\ UNCHANGED remote
    BY <1>1, <1>5 DEF HalEnable, TypeOK
  <2>2. PICK n \in 1..MaxSessions : n = hal.session
    BY <1>1, <2>1 DEF HalStarted
  <2>3. bt_on # n /\ ~Pending(EnableEvent(n)) /\ pipe' = Append(pipe, EnableEvent(n))
    BY <2>1, <2>2 DEF LInv, EnableOnce
  <2>4. \A f : Pending(f)' <=> Pending(f) \/ f = EnableEvent(n)
    BY <1>1, <2>1, <2>3, AppendPending
  <2>5. BothEnds'
    BY <1>1, <2>1 DEF LInv, BothEnds
  <2>6. EnableOnce'
    <3>1. ASSUME NEW s \in 1..MaxSessions, EnableEvent(s) = EnableEvent(n)
          PROVE  s = n
      <4>1. EnableEvent(s).session = s /\ EnableEvent(n).session = n
        BY DEF EnableEvent
      <4>2. QED BY <3>1, <4>1
    <3>2. hal.session \in Nat
      BY <1>1, SessionTypes
    <3>3. \A s \in 1..MaxSessions : Pending(EnableEvent(s))' => s <= hal.session
      BY <2>2, <2>4, <3>1, <3>2 DEF LInv, EnableOnce
    <3>4. QED BY <1>1, <2>1, <3>3 DEF LInv, EnableOnce
  <2>7. LossesAhead'
    <3>1. \A c : ChannelEvent(c) # EnableEvent(n)
      BY EventsDiffer
    <3>2. \A c : AheadOf(ChannelEvent(c), EnableEvent(n))'
      BY <1>1, <2>1, <2>3, <3>1, AppendAhead
    <3>3. QED BY <1>1, <2>1, <2>2, <2>3, <3>2 DEF LossesAhead
  <2>8. QED BY <2>5, <2>6, <2>7
<1>6. QED BY <1>2, <1>3, <1>4, <1>5 DEF Hal

(* A callback for a channel: no channel is lost while the HAL runs and the   *)
(* link is up, so the state it writes is no loss.                           *)
LEMMA ChannelCallbackAhead ==
  ASSUME LInv, NEW d \in Channels, Connected(d) \/ RemoteDisconnected(d) \/ LocalDisconnected(d)
  PROVE  BothEnds' /\ EnableOnce' /\ LossesAhead'
<1>1. /\ TypeOK /\ UNCHANGED <<hal, remote, linkUp, linkDowns, pipe, bt_on>>
      /\ callback = <<>> /\ callback' = <<ChannelEvent(d)>>
  BY DEF LInv, TInv, Connected, RemoteDisconnected, LocalDisconnected, Channel_State_Cb, halVars
<1>2. \A f : Pending(f)' <=> Pending(f) \/ f = ChannelEvent(d)
  BY <1>1, CallbackPending
<1>3. /\ \A c \in Channels \ {d} : glink'[c] = glink[c] /\ chnl_state'[c] = chnl_state[c]
      /\ glink'[d] = "connected" => linkUp /\ d \in remote
  BY <1>1 DEF TypeOK, Connected, RemoteDisconnected, LocalDisconnected, Channel_State_Cb
<1>4. BothEnds'
  BY <1>1, <1>3 DEF LInv, BothEnds
<1>5. EnableOnce'
  BY <1>1, <1>2, EventsDiffer DEF LInv, EnableOnce
<1>6. LossesAhead'
  <2> SUFFICES ASSUME hal.up, linkDowns = 0, NEW c \in HalChannels,
                      chnl_state'[c] = "REMOTE_DISCONNECTED"
               PROVE  /\ bt_on = hal.session => ~Pending(ChannelEvent(c))'
                      /\ AheadOf(ChannelEvent(c), EnableEvent(hal.session))'
    BY <1>1 DEF LossesAhead
  <2>1. ~RemoteDisconnected(d)
    BY DEF LInv, BothEnds, RemoteDisconnected
  <2>2. chnl_state'[d] # "REMOTE_DISCONNECTED"
    BY <1>1, <2>1 DEF TypeOK, Connected, LocalDisconnected, Channel_State_Cb
  <2>3. c \in Channels /\ c # d /\ chnl_state[c] = "REMOTE_DISCONNECTED"
    BY <1>3, <2>2, Bounds
  <2>4. ChannelEvent(d) # ChannelEvent(c)
    BY <2>3, EventsDiffer
  <2>5. bt_on = hal.session => ~Pending(ChannelEvent(c))'
    BY <1>2, <2>3, <2>4 DEF LInv, LossesAhead
  <2>6. PICK n \in 1..MaxSessions : n = hal.session
    BY DEF LInv, TInv, HalStarted
  <2>7. AheadOf(ChannelEvent(c), EnableEvent(n))
    BY <2>3, <2>6 DEF LInv, LossesAhead
  <2>8. AheadOf(ChannelEvent(c), EnableEvent(n))'
    BY <1>1, <2>4, <2>7, CallbackAhead
  <2>9. QED BY <1>1, <2>5, <2>6, <2>8
<1>7. QED BY <1>4, <1>5, <1>6

(* The callback for the link has an event of its own; a link that goes down  *)
(* does so for the first time.                                              *)
LEMMA LinkCallbackAhead ==
  ASSUME LInv, Link_State_Cb
  PROVE  BothEnds' /\ EnableOnce' /\ LossesAhead'
<1>1. /\ TypeOK /\ UNCHANGED <<hal, remote, glink, chnl_state, pipe, bt_on>>
      /\ callback = <<>> /\ callback' = <<LinkEvent>>
  BY DEF LInv, TInv, Link_State_Cb, halVars
<1>2. linkDowns' = 0 => linkDowns = 0 /\ linkUp'
  <2>1. CASE linkUp
    <3>1. linkDowns \in Nat /\ linkDowns' = linkDowns + 1
      BY <1>1, <2>1, SessionTypes DEF Link_State_Cb
    <3>2. QED BY <3>1
  <2>2. CASE ~linkUp
    BY <2>2 DEF Link_State_Cb
  <2>3. QED BY <2>1, <2>2
<1>3. \A f : Pending(f)' <=> Pending(f) \/ f = LinkEvent
  BY <1>1, CallbackPending
<1>4. BothEnds'
  BY <1>1, <1>2 DEF LInv, BothEnds
<1>5. EnableOnce'
  BY <1>1, <1>3, EventsDiffer DEF LInv, EnableOnce
<1>6. LossesAhead'
  <2> SUFFICES ASSUME hal.up, linkDowns = 0, NEW c \in HalChannels,
                      chnl_state[c] = "REMOTE_DISCONNECTED"
               PROVE  /\ bt_on = hal.session => ~Pending(ChannelEvent(c))'
                      /\ AheadOf(ChannelEvent(c), EnableEvent(hal.session))'
    BY <1>1, <1>2 DEF LossesAhead
  <2>1. bt_on = hal.session => ~Pending(ChannelEvent(c))'
    BY <1>3, EventsDiffer DEF LInv, LossesAhead
  <2>2. PICK n \in 1..MaxSessions : n = hal.session
    BY DEF LInv, TInv, HalStarted
  <2>3. AheadOf(ChannelEvent(c), EnableEvent(n))
    BY <2>2 DEF LInv, LossesAhead
  <2>4. AheadOf(ChannelEvent(c), EnableEvent(n))'
    BY <1>1, <2>3, CallbackAhead, EventsDiffer
  <2>5. QED BY <1>1, <2>1, <2>2, <2>4
<1>7. QED BY <1>4, <1>5, <1>6

(* Posting moves an event and changes no order. *)
LEMMA PostedAhead ==
  ASSUME LInv, LPAI_Transport_Queue_Evt
  PROVE  BothEnds' /\ EnableOnce' /\ LossesAhead'
<1>1. /\ TypeOK /\ UNCHANGED <<hal, remote, linkUp, linkDowns, glink, chnl_state, bt_on>>
      /\ callback # <<>> /\ pipe' = pipe \o callback /\ callback' = <<>>
  BY DEF LInv, TInv, LPAI_Transport_Queue_Evt, halVars, glinkVars
<1>2. \A f : Pending(f)' <=> Pending(f)
  BY <1>1, PostPending
<1>3. BothEnds'
  BY <1>1 DEF LInv, BothEnds
<1>4. EnableOnce'
  BY <1>1, <1>2 DEF LInv, EnableOnce
<1>5. LossesAhead'
  <2> SUFFICES ASSUME hal.up, linkDowns = 0, NEW c \in HalChannels,
                      chnl_state[c] = "REMOTE_DISCONNECTED"
               PROVE  /\ bt_on = hal.session => ~Pending(ChannelEvent(c))'
                      /\ AheadOf(ChannelEvent(c), EnableEvent(hal.session))'
    BY <1>1 DEF LossesAhead
  <2>1. bt_on = hal.session => ~Pending(ChannelEvent(c))'
    BY <1>2 DEF LInv, LossesAhead
  <2>2. PICK n \in 1..MaxSessions : n = hal.session
    BY DEF LInv, TInv, HalStarted
  <2>3. AheadOf(ChannelEvent(c), EnableEvent(n))
    BY <2>2 DEF LInv, LossesAhead
  <2>4. AheadOf(ChannelEvent(c), EnableEvent(n))'
    BY <1>1, <2>3, PostAhead, EventsDiffer
  <2>5. QED BY <1>1, <2>1, <2>2, <2>4
<1>6. QED BY <1>3, <1>4, <1>5

(* What the thread's steps have in common: they take an event, connect no    *)
(* channel, and turn Bluetooth on only for a BT_ENABLE they take.            *)
LEMMA ThreadTakes ==
  ASSUME TypeOK, OffloadManagerThread
  PROVE  /\ UNCHANGED <<hal, remote, linkUp, linkDowns, chnl_state, callback>>
         /\ \A c \in Channels : glink'[c] = "connected" => glink[c] = "connected"
         /\ \/ bt_on' \in {bt_on, 0} /\ \E e : Take(e)
            \/ \E s \in 1..MaxSessions : Take(EnableEvent(s)) /\ bt_on' = s
<1>1. ASSUME NEW C, glink_open(C) \/ glink_close(C)
      PROVE  \A c \in Channels : glink'[c] = "connected" => glink[c] = "connected"
  BY <1>1 DEF glink_open, glink_close
<1>2. CASE LPAI_Transport_Glink_Handle_Link_State
  BY <1>1, <1>2 DEF LPAI_Transport_Glink_Handle_Link_State, unchangedByThread, halVars
<1>3. ASSUME NEW c \in Channels, ChannelConnected(c) \/ ChannelLost(c) \/ ChannelClosed(c)
      PROVE  /\ UNCHANGED <<hal, remote, linkUp, linkDowns, chnl_state, callback>>
             /\ \A d \in Channels : glink'[d] = "connected" => glink[d] = "connected"
             /\ bt_on' \in {bt_on, 0} /\ \E e : Take(e)
  <2>1. UNCHANGED <<hal, remote, linkUp, linkDowns, chnl_state, callback>> /\ \E e : Take(e)
    BY <1>3 DEF ChannelConnected, ChannelLost, ChannelClosed, unchangedByThread, halVars
  <2>2. \A d \in Channels : glink'[d] = "connected" => glink[d] = "connected"
    BY <1>1, <1>3 DEF ChannelConnected, ChannelLost, ChannelClosed
  <2>3. bt_on' \in {bt_on, 0}
    BY <1>3 DEF ChannelConnected, ChannelLost, ChannelClosed
  <2>4. QED BY <2>1, <2>2, <2>3
<1>4. CASE EnableReceived
  BY <1>4 DEF EnableReceived, unchangedByThread, halVars
<1>5. QED BY <1>2, <1>3, <1>4 DEF OffloadManagerThread

(* When BT_ENABLE is taken, the losses ahead of it have been handled. *)
LEMMA ThreadAhead ==
  ASSUME LInv, OffloadManagerThread
  PROVE  BothEnds' /\ EnableOnce' /\ LossesAhead'
<1>1. /\ TypeOK /\ UNCHANGED <<hal, remote, linkUp, linkDowns, chnl_state, callback>>
      /\ \A c \in Channels : glink'[c] = "connected" => glink[c] = "connected"
      /\ \/ bt_on' \in {bt_on, 0} /\ \E e : Take(e)
         \/ \E s \in 1..MaxSessions : Take(EnableEvent(s)) /\ bt_on' = s
  BY ThreadTakes DEF LInv, TInv
<1>2. PICK e : Take(e)
  BY <1>1
<1>3. \A f : Pending(f)' => Pending(f)
  BY <1>1, <1>2, TakePending
<1>4. BothEnds'
  BY <1>1 DEF LInv, BothEnds
<1>5. \A s \in 1..MaxSessions : Pending(EnableEvent(s))' => s <= hal'.session
  BY <1>1, <1>3 DEF LInv, EnableOnce
<1>6. hal.up /\ ~hal.enabled => ~Pending(EnableEvent(hal.session))'
  <2> SUFFICES ASSUME hal.up, ~hal.enabled PROVE ~Pending(EnableEvent(hal.session))'
    OBVIOUS
  <2>1. PICK n \in 1..MaxSessions : n = hal.session
    BY DEF LInv, TInv, HalStarted
  <2>2. ~Pending(EnableEvent(n))
    BY <2>1 DEF LInv, EnableOnce
  <2>3. ~Pending(EnableEvent(n))' /\ hal'.session = n
    BY <1>1, <1>3, <2>1, <2>2
  <2>4. QED BY <2>1, <2>3 DEF Pending
<1>7. CASE bt_on' \in {bt_on, 0}
  <2>1. bt_on' <= hal'.session /\ (hal.up => hal.session \in Nat \ {0})
    BY <1>1, <1>7, SessionTypes DEF LInv, EnableOnce, TInv, HalStarted
  <2>2. hal.up /\ bt_on' = hal.session => bt_on' = bt_on
    BY <1>7, <2>1
  <2>3. EnableOnce'
    BY <1>1, <1>5, <1>6, <2>1, <2>2 DEF LInv, EnableOnce
  <2>4. LossesAhead'
    <3> SUFFICES ASSUME hal.up, linkDowns = 0, NEW c \in HalChannels,
                        chnl_state[c] = "REMOTE_DISCONNECTED"
                 PROVE  /\ bt_on' = hal.session => ~Pending(ChannelEvent(c))'
                        /\ AheadOf(ChannelEvent(c), EnableEvent(hal.session))'
      BY <1>1 DEF LossesAhead
    <3>1. bt_on' = hal.session => ~Pending(ChannelEvent(c))'
      BY <1>3, <2>2 DEF LInv, LossesAhead
    <3>2. PICK n \in 1..MaxSessions : n = hal.session
      BY DEF LInv, TInv, HalStarted
    <3>3. AheadOf(ChannelEvent(c), EnableEvent(n))
      BY <3>2 DEF LInv, LossesAhead
    <3>4. AheadOf(ChannelEvent(c), EnableEvent(n))'
      BY <1>1, <1>2, <3>3, TakeAhead
    <3>5. QED BY <1>1, <3>1, <3>2, <3>4
  <2>5. QED BY <1>4, <2>3, <2>4
<1>8. ASSUME NEW s \in 1..MaxSessions, Take(EnableEvent(s)), bt_on' = s
      PROVE  EnableOnce' /\ LossesAhead'
  <2>1. Pending(EnableEvent(s))
    BY <1>1, <1>8, TakePending
  <2>2. s <= hal.session /\ (hal.up /\ ~hal.enabled => s # hal.session)
    BY <2>1 DEF LInv, EnableOnce
  <2>3. EnableOnce'
    BY <1>1, <1>5, <1>6, <1>8, <2>2 DEF EnableOnce
  <2>4. LossesAhead'
    <3> SUFFICES ASSUME hal.up, linkDowns = 0, NEW c \in HalChannels,
                        chnl_state[c] = "REMOTE_DISCONNECTED"
                 PROVE  /\ bt_on' = hal.session => ~Pending(ChannelEvent(c))'
                        /\ AheadOf(ChannelEvent(c), EnableEvent(hal.session))'
      BY <1>1 DEF LossesAhead
    <3>1. PICK n \in 1..MaxSessions : n = hal.session
      BY DEF LInv, TInv, HalStarted
    <3>2. AheadOf(ChannelEvent(c), EnableEvent(n))
      BY <3>1 DEF LInv, LossesAhead
    <3>3. /\ AheadOf(ChannelEvent(c), EnableEvent(n))'
          /\ EnableEvent(s) = EnableEvent(n) => ~Pending(ChannelEvent(c))
      BY <1>1, <1>8, <3>2, TakeAhead, EventsDiffer
    <3>4. bt_on' = n => ~Pending(ChannelEvent(c))'
      BY <1>3, <1>8, <3>3
    <3>5. QED BY <1>1, <3>1, <3>3, <3>4
  <2>5. QED BY <2>3, <2>4
<1>9. QED BY <1>1, <1>4, <1>7, <1>8

-----------------------------------------------------------------------------
(* LInv is kept by every step. *)
LEMMA LInvStep == LInv /\ [Next]_vars => LInv'
<1> SUFFICES ASSUME LInv, [Next]_vars PROVE LInv'
  OBVIOUS
<1>1. TInv'
  BY TInvStep DEF LInv
<1>2. BothEnds' /\ EnableOnce' /\ LossesAhead'
  <2>1. CASE Hal
    BY <2>1, HalAhead
  <2>2. CASE GlinkContext
    BY <2>2, ChannelCallbackAhead, PostedAhead DEF GlinkContext
  <2>3. CASE Link_State_Cb
    BY <2>3, LinkCallbackAhead
  <2>4. CASE OffloadManagerThread
    BY <2>4, ThreadAhead
  <2>5. CASE UNCHANGED vars
    BY <2>5 DEF vars, halVars, glinkVars, LInv, BothEnds, EnableOnce, LossesAhead, Pending, AheadOf
  <2>6. QED BY <2>1, <2>2, <2>3, <2>4, <2>5 DEF Next
<1>3. QED BY <1>1, <1>2 DEF LInv

(* The losses of one HAL are ahead of the BT_ENABLE of the next, always. *)
THEOREM LInvInvariant == Spec => []LInv
<1>1. Init => LInv
  <2> SUFFICES ASSUME Init PROVE LInv
    OBVIOUS
  <2>1. TInv
    BY TInvInit
  <2>2. /\ ~hal.up /\ hal.session = 0 /\ bt_on = 0 /\ pipe = <<>> /\ callback = <<>>
        /\ \A c \in Channels : glink[c] # "connected"
    BY DEF Init
  <2>3. \A f : ~Pending(f)
    <3>1. \A f : <<>> # <<f>>
      OBVIOUS
    <3>2. QED BY <2>2, <3>1 DEF Pending
  <2>4. BothEnds /\ LossesAhead
    BY <2>2 DEF BothEnds, LossesAhead
  <2>5. EnableOnce
    BY <2>2, <2>3 DEF EnableOnce
  <2>6. QED BY <2>1, <2>4, <2>5 DEF LInv
<1>2. QED BY <1>1, LInvStep, PTL DEF Spec

(* lpai_transport.c and bt_state_check_and_mock_off(): while the link has     *)
(* never gone down, a HAL that runs is not mocked off by an event that the   *)
(* end of an earlier one left in the pipe.                                  *)
THEOREM LiveHalIsKept == Spec => LiveHalKept
<1>1. LInv /\ [Next]_vars =>
        [(bt_on # 0 /\ bt_on' = 0 /\ linkDowns = 0) => ~(hal.up /\ hal.session = bt_on)]_vars
  <2> SUFFICES ASSUME LInv, [Next]_vars, bt_on # 0, bt_on' = 0, linkDowns = 0,
                      hal.up, hal.session = bt_on
               PROVE  FALSE
    OBVIOUS
  <2>1. PICK c \in Channels : ChannelLost(c)
    <3>1. ~EnableReceived
      BY DEF EnableReceived
    <3>2. QED BY <3>1 DEF Next, Hal, HalStart, HalOpen, HalCrash, HalEnable, unchangedByHal,
            GlinkContext, Connected, RemoteDisconnected, LocalDisconnected, Channel_State_Cb,
            LPAI_Transport_Queue_Evt, Link_State_Cb, OffloadManagerThread,
            LPAI_Transport_Glink_Handle_Link_State, ChannelConnected, ChannelClosed, vars
  <2>2. c \in HalChannels /\ chnl_state[c] = "REMOTE_DISCONNECTED"
    BY <2>1 DEF ChannelLost, MockOffConsidered
  <2>3. Pending(ChannelEvent(c))
    BY <2>1, TakePending DEF LInv, TInv, ChannelLost, unchangedByThread
  <2>4. QED BY <2>2, <2>3 DEF LInv, LossesAhead
<1>2. QED BY <1>1, LInvInvariant, PTL DEF Spec, LiveHalKept
=============================================================================
