----------------------------- MODULE BtStateMgr -----------------------------
(***************************************************************************)
(* Bluetooth on and off on the low-power processor.  The HAL host (HLOS)   *)
(* enables and disables Bluetooth, closes its glink channels or crashes;   *)
(* the offload manager's thread takes these events, one at a time, from    *)
(* a bounded pipe and starts, prepares to stop and stops the microstack;   *)
(* the microstack's own thread runs the microstack manager (BMM) and the   *)
(* callback of the Bluetooth state manager, which writes bt_on_mode too.   *)
(*                                                                         *)
(* Nothing but the order of the messages protects bt_on_mode: the manager's *)
(* thread writes it last in bt_state_on_handle(), and the callback reads   *)
(* it twice while it handles BMM_INITIALIZED_IND.                          *)
(***************************************************************************)
EXTENDS MicrostackScheduler, FiniteSets

CONSTANTS
  PipeSize,        \* the messages the offload manager's pipe can hold
  MaxSessions,     \* bound: how many times HLOS enables Bluetooth
  MaxRx,           \* bound: client messages the stack delivers in one session
  MaxBtss,         \* bound: crashes of the controller
  Uart,            \* the transport of the build is a UART
  RestartWaits,    \* a crashed HAL comes back only once all is quiet
  EarlyClose       \* a HAL may close channels before its disable is answered

ASSUME BtStateAssumption ==
  /\ {PipeSize, MaxSessions} \subseteq Nat \ {0}
  /\ {MaxRx, MaxBtss} \subseteq Nat
  /\ {Uart, RestartWaits, EarlyClose} \subseteq BOOLEAN

VARIABLES
  hlos,            \* the HAL host: its state, and the mode it asked for
  sessions,        \* how many times it has enabled Bluetooth
  channels,        \* the HAL channels that are connected
  rsp,             \* answers on their way to HLOS
  pipe,            \* offload_mgr_main.offload_mgr_pipe
  om,              \* where the offload manager's thread is
  bt_on_mode,
  app_callbacks,   \* app_callbacks[] holds the clients' handle
  clients,         \* the client managers are initialised
  appInfo,         \* BtHostApiInst.appInfo: the handles with a callback
  arbiter,         \* BT_Offload_Post_HciArb_HciMsg # NULL
  awm,             \* the Bluetooth status last sent to the app manager
  island,          \* the vote: the processor may enter island mode
  gBmm,            \* gBmm.state, .subscriptions and .prepareStopHandle
  retryCount,
  activation,      \* the transport activation BMM asked for
  periOff,         \* the controller owes a BT_OFF_IND
  btss,            \* the controller: how often it crashed, and is it down
  rx,              \* client messages the stack may still deliver
  failed           \* how the processor went down, or "none"

hlosVars  == <<hlos, sessions, channels>>
mgrVars   == <<bt_on_mode, app_callbacks, clients, appInfo, arbiter, awm, island>>
bmmVars   == <<gBmm, retryCount>>
stackEnv  == <<activation, periOff, btss, rx>>
vars == <<hlosVars, rsp, pipe, om, mgrVars, bmmVars, stackEnv, failed, schedVars>>

Modes       == {"OFFLD", "PASSTHROUGH"}
SsrModes    == {"OFFLD_SSR", "PASSTHROUGH_SSR"}
StopReasons == {"USER", "SSR", "FMD"}
HalChannels == {"hci", "socket"}
MaxStopRetryAttempts == 2       \* BMM_MAX_STOP_RETRY_ATTEMPTS

Msg(op, arg) == [op |-> op, arg |-> arg]
PipeMessage ==
  {Msg("BT_ENABLE", m) : m \in Modes} \cup {Msg("BT_DISABLE", r) : r \in StopReasons}
  \cup {Msg("DISCONNECTED", c) : c \in HalChannels}
  \cup {Msg("PREP_STOP_DONE", "none"), Msg("MICROSTACK_RX", "none")}
BmmMessage ==
  {Msg("SET_EVENT_MASK", "none"), Msg("BT_OFF", "none"), Msg("BTSS_CRASH", "none")}
  \cup {Msg("PREPARE_STOP", r) : r \in StopReasons}
  \cup {Msg("ACTIVATE_CFM", s) : s \in {"INIT_SUCCESS", "INIT_FAILURE"}}

(* Every value is of its type, the pipe is within its size, and the retry   *)
(* counter of the wait before the stop stays small.                         *)
TypeOK ==
  /\ hlos \in [state : {"off", "enabling", "on", "disabling", "dead"}, mode : Modes]
  /\ sessions \in 0..MaxSessions
  /\ channels \subseteq HalChannels
  /\ rsp \in Seq({"BT_ENABLE", "BT_DISABLE"})
  /\ pipe \in Seq(PipeMessage) /\ Len(pipe) <= PipeSize
  /\ om \in [pc : {"idle", "register", "mask", "record", "stopWait", "deinitWait"}, mode : Modes]
  /\ bt_on_mode \in Modes \cup SsrModes \cup {"DEFAULT"}
  /\ app_callbacks \in BOOLEAN /\ clients \in BOOLEAN /\ arbiter \in BOOLEAN
  /\ appInfo \subseteq {"mgr", "client"}
  /\ awm \in {"ON", "OFF"} /\ island \in BOOLEAN
  /\ gBmm \in [state : {"NOT_INITIALIZED", "INIT_IN_PROGRESS", "INIT_SUCCESS", "INIT_FAILURE"},
               subscribed : BOOLEAN, prepareStopHandle : {"none", "mgr"}]
  /\ retryCount \in 0..(MaxStopRetryAttempts + 3)
  /\ activation \in {"none", "pending", "done"}
  /\ periOff \in BOOLEAN
  /\ btss \in [crashes : 0..MaxBtss, down : BOOLEAN]
  /\ rx \in 0..MaxRx
  /\ failed \in {"none", "assert", "panic", "null"}
  /\ SchedTypeOK(BmmMessage)

Init ==
  /\ hlos = [state |-> "off", mode |-> "OFFLD"]
  /\ sessions = 0 /\ channels = {} /\ rsp = <<>>
  /\ pipe = <<>> /\ om = [pc |-> "idle", mode |-> "OFFLD"]
  /\ bt_on_mode = "DEFAULT"                                \* bt_state_mgr_init()
  /\ app_callbacks = FALSE /\ clients = FALSE
  /\ appInfo = {} /\ arbiter = FALSE /\ awm = "OFF" /\ island = TRUE
  /\ gBmm = [state |-> "NOT_INITIALIZED", subscribed |-> FALSE, prepareStopHandle |-> "none"]
  /\ retryCount = 0
  /\ activation = "none" /\ periOff = FALSE /\ btss = [crashes |-> 0, down |-> FALSE] /\ rx = 0
  /\ failed = "none"
  /\ SchedInit

(* A fatal error ends every thread of the processor. *)
Running == failed = "none"

(* Offload_Mgr_Post_Event(): the sender waits while the pipe is full. *)
Offload_Mgr_Post_Event(m) ==
  Running /\ Len(pipe) < PipeSize /\ pipe' = Append(pipe, m)

Quiet == ~schedInstance /\ pipe = <<>> /\ om.pc = "idle"

-----------------------------------------------------------------------------
(* HLOS, and the glink callbacks that post what it sends.                   *)

unchangedByHlos == <<om, mgrVars, bmmVars, activation, periOff, btss, failed, schedVars>>

HlosEnable(mode) ==
  /\ hlos.state = "off" /\ sessions < MaxSessions
  /\ hlos' = [state |-> "enabling", mode |-> mode]
  /\ sessions' = sessions + 1
  /\ channels' = HalChannels
  /\ Offload_Mgr_Post_Event(Msg("BT_ENABLE", mode))
  /\ UNCHANGED <<rsp, rx, unchangedByHlos>>

HlosDisable(reason) ==
  /\ hlos.state = "on"
  /\ hlos' = [hlos EXCEPT !.state = "disabling"]
  /\ Offload_Mgr_Post_Event(Msg("BT_DISABLE", reason))
  /\ UNCHANGED <<sessions, channels, rsp, rx, unchangedByHlos>>

(* Once Bluetooth is on, HLOS may offload sockets: the stack has messages   *)
(* for the clients.                                                         *)
HlosReceive ==
  /\ rsp # <<>> /\ hlos.state # "dead"
  /\ rsp' = Tail(rsp)
  /\ hlos' = [hlos EXCEPT !.state =
                CASE @ = "enabling"  /\ Head(rsp) = "BT_ENABLE"  -> "on"
                  [] @ = "disabling" /\ Head(rsp) = "BT_DISABLE" -> "off"
                  [] OTHER -> @]
  /\ rx' = IF hlos.state = "enabling" /\ hlos'.state = "on" /\ app_callbacks THEN MaxRx ELSE rx
  /\ UNCHANGED <<sessions, channels, pipe, unchangedByHlos>>

HlosCrash ==
  /\ hlos.state \in {"enabling", "on", "disabling"}
  /\ hlos' = [hlos EXCEPT !.state = "dead"]
  /\ UNCHANGED <<sessions, channels, rsp, pipe, rx, unchangedByHlos>>

(* GLINK_REMOTE_DISCONNECTED of a HAL channel, queued by                     *)
(* LPAI_Transport_Glink_Channel_State_Cb().                                 *)
ChannelDisconnect(c) ==
  /\ c \in channels
  /\ \/ hlos.state \in {"dead", "off"}
     \/ EarlyClose /\ hlos.state = "disabling"
  /\ channels' = channels \ {c}
  /\ Offload_Mgr_Post_Event(Msg("DISCONNECTED", c))
  /\ UNCHANGED <<hlos, sessions, rsp, rx, unchangedByHlos>>

HlosRestart ==
  /\ hlos.state = "dead" /\ channels = {}
  /\ RestartWaits => Quiet
  /\ hlos' = [hlos EXCEPT !.state = "off"]
  /\ rsp' = <<>>
  /\ UNCHANGED <<sessions, channels, pipe, rx, unchangedByHlos>>

(* Offload_Mgr_SendDataToHCI() of post_bt_state_to_apss(): it reaches HLOS   *)
(* over the HCI channel.                                                    *)
post_bt_state_to_apss(state) ==
  rsp' = IF hlos.state # "dead" /\ "hci" \in channels THEN Append(rsp, state) ELSE rsp

-----------------------------------------------------------------------------
(* The offload manager's thread: Offload_Mgr_Task_Handler().                *)

Receive(op) ==
  Running /\ om.pc = "idle" /\ pipe # <<>> /\ Head(pipe).op = op /\ pipe' = Tail(pipe)
At(pc) == Running /\ om.pc = pc
Goto(pc) == om' = [om EXCEPT !.pc = pc]

unchangedByOm == <<hlosVars, rsp, bmmVars, stackEnv>>

(* bt_state_on_handle(): MicroStackStart(), which starts nothing when there  *)
(* is an instance already, ...                                              *)
bt_state_on_handle ==
  /\ Receive("BT_ENABLE")
  /\ om' = [pc |-> "register", mode |-> Head(pipe).arg]
  /\ island' = FALSE
  /\ IF schedInstance THEN UNCHANGED schedVars ELSE CsrSched
  /\ UNCHANGED <<bt_on_mode, app_callbacks, clients, appInfo, arbiter, awm, failed, unchangedByOm>>

(* ... MicroStackRegisterAppCb(), ... *)
MicroStackRegisterAppCb ==
  /\ At("register") /\ Goto("mask")
  /\ appInfo' = appInfo \cup {"mgr"}
  /\ UNCHANGED <<pipe, bt_on_mode, app_callbacks, clients, arbiter, awm, island, failed, schedVars,
                 unchangedByOm>>

(* ... BmmSetEventMaskReqSend(), ... *)
BmmSetEventMaskReqSend ==
  /\ At("mask") /\ Goto("record")
  /\ PutExternal(Msg("SET_EVENT_MASK", "none"))
  /\ UNCHANGED <<pipe, mgrVars, failed, unchangedByOm>>

(* ... and only then the mode. *)
RecordMode ==
  /\ At("record") /\ Goto("idle")
  /\ bt_on_mode' = om.mode
  /\ UNCHANGED <<pipe, app_callbacks, clients, appInfo, arbiter, awm, island, failed, schedVars,
                 unchangedByOm>>

(* BmmPrepareStopReqSend(): do_put_message() does not look whether there is  *)
(* an instance.                                                             *)
BmmPrepareStopReqSend(reason) ==
  IF schedInstance
  THEN PutExternal(Msg("PREPARE_STOP", reason)) /\ UNCHANGED failed
  ELSE failed' = "null" /\ UNCHANGED schedVars

(* translate_bt_off_mode(): HLOS's modes here are its results; the two user  *)
(* modes are one reason.                                                    *)
bt_state_off_handle ==
  /\ Receive("BT_DISABLE")
  /\ BmmPrepareStopReqSend(Head(pipe).arg)
  /\ island' = FALSE
  /\ UNCHANGED <<om, bt_on_mode, app_callbacks, clients, appInfo, arbiter, awm, unchangedByOm>>

(* The SSR form of the mode of a session that is being mocked off. *)
SsrOf(mode) == IF mode = "PASSTHROUGH" THEN "PASSTHROUGH_SSR" ELSE "OFFLD_SSR"

(* Mutants: whatever the mode; not for a session with offload. *)
MockOffNeeded_always == TRUE
MockOffNeeded_passthrough == bt_on_mode = "PASSTHROUGH"

(* A session is on and not yet being mocked off. *)
MockOffNeeded == bt_on_mode \in Modes

(* LPAI_Transport_Handle_Glink_Channel_State() of a HAL channel that its    *)
(* remote end closed: bt_state_check_and_mock_off().                        *)
bt_state_check_and_mock_off ==
  /\ Receive("DISCONNECTED")
  /\ IF MockOffNeeded
     THEN BmmPrepareStopReqSend("USER") /\ bt_on_mode' = SsrOf(bt_on_mode) /\ island' = FALSE
     ELSE UNCHANGED <<bt_on_mode, island, failed, schedVars>>
  /\ UNCHANGED <<om, app_callbacks, clients, appInfo, arbiter, awm, unchangedByOm>>

(* bt_state_mgr_microstack_stop(), MicroStackStop(): nothing without an      *)
(* instance; otherwise the thread waits for the stack's, twice.             *)
MicroStackStop ==
  /\ Receive("PREP_STOP_DONE")
  /\ IF schedInstance THEN CsrSchedStop /\ Goto("stopWait") ELSE UNCHANGED <<om, schedVars>>
  /\ UNCHANGED <<mgrVars, failed, unchangedByOm>>

StackStopped ==
  /\ At("stopWait") /\ StopConfirmed /\ Goto("deinitWait")
  /\ UNCHANGED <<pipe, mgrVars, failed, unchangedByOm>>

StackDeinitialised ==
  /\ At("deinitWait") /\ CsrSchedDeinit /\ Goto("idle")
  /\ UNCHANGED <<pipe, mgrVars, failed, unchangedByOm>>

(* offload_mgr_microstack_msg_handler(): a message for a handle without a    *)
(* callback is a fatal error.                                               *)
offload_mgr_microstack_msg_handler ==
  /\ Receive("MICROSTACK_RX")
  /\ failed' = IF app_callbacks THEN failed ELSE "assert"
  /\ UNCHANGED <<om, mgrVars, schedVars, unchangedByOm>>

OffloadManagerThread ==
  \/ bt_state_on_handle \/ MicroStackRegisterAppCb \/ BmmSetEventMaskReqSend \/ RecordMode
  \/ bt_state_off_handle \/ bt_state_check_and_mock_off \/ MicroStackStop \/ StackStopped
  \/ StackDeinitialised \/ offload_mgr_microstack_msg_handler

-----------------------------------------------------------------------------
(* The microstack's thread. *)

unchangedByStack == <<hlosVars, om>>

(* BmmInit(), once the thread runs: BmmReset(), and the transport is asked   *)
(* for.                                                                     *)
BmmInit ==
  /\ Running /\ LoopStart
  /\ gBmm' = [state |-> "INIT_IN_PROGRESS", subscribed |-> FALSE, prepareStopHandle |-> "none"]
  /\ activation' = "pending"
  /\ periOff' = FALSE
  /\ btss' = [btss EXCEPT !.down = FALSE]
  /\ rx' = 0
  /\ UNCHANGED <<rsp, pipe, mgrVars, retryCount, failed, unchangedByStack>>

(* The transport manager's task confirms the activation. *)
TransportActivated(status) ==
  /\ activation = "pending"
  /\ activation' = "done"
  /\ Running /\ OtherTurn(<<Msg("ACTIVATE_CFM", status)>>, "events")
  /\ UNCHANGED <<rsp, pipe, mgrVars, bmmVars, periOff, btss, rx, failed, unchangedByStack>>

(* BtHostExternalAppCallBack() of a message to the state manager's handle:   *)
(* without a callback the stack panics.                                     *)
Callback == IF "mgr" \in appInfo THEN UNCHANGED failed ELSE failed' = "panic"

(* Mutant: the mode taken for a flag of offload. *)
offload_mgr_client_interface_init_flag(mode) ==
  /\ app_callbacks' = (mode = "PASSTHROUGH")
  /\ clients' = (clients \/ mode = "PASSTHROUGH")
  /\ appInfo' = IF mode = "PASSTHROUGH" THEN appInfo \cup {"client"} ELSE appInfo

(* offload_mgr_client_interface_init(): the clients register their handle    *)
(* in app_callbacks[] and with the stack.                                   *)
offload_mgr_client_interface_init(mode) ==
  /\ app_callbacks' = (mode = "OFFLD")
  /\ clients' = (clients \/ mode = "OFFLD")
  /\ appInfo' = IF mode = "OFFLD" THEN appInfo \cup {"client"} ELSE appInfo

(* BMM_INITIALIZED_IND, first read of the mode. *)
InitializedInd ==
  /\ Callback
  /\ arbiter' = TRUE
  /\ offload_mgr_client_interface_init(bt_on_mode)
  /\ UNCHANGED <<bt_on_mode, awm, island>>

(* Second read of the mode; offload_mgr_sm_init() clears a table that no     *)
(* session left in use.                                                     *)
InitializedIndEnd ==
  /\ Running /\ thread = "initInd" /\ thread' = "events"
  /\ awm' = IF bt_on_mode = "OFFLD" THEN "ON" ELSE awm
  /\ post_bt_state_to_apss("BT_ENABLE")
  /\ island' = TRUE
  /\ UNCHANGED <<pipe, bt_on_mode, app_callbacks, clients, appInfo, arbiter, bmmVars, stackEnv,
                 failed, unchangedByStack, schedInstance, threadEvents, schedEvents, extMsgQueue,
                 taskQueue, timers>>

(* Mutant: a subscriber that comes late is told nothing. *)
InitOver_never == FALSE

InitOver == gBmm.state \in {"INIT_SUCCESS", "INIT_FAILURE"}

(* BmmSetEventMaskReqHandler(): it answers at once when the initialisation   *)
(* is over already.                                                         *)
BmmSetEventMaskReqHandler ==
  /\ Running
  /\ TakeMessage(Msg("SET_EVENT_MASK", "none"), IF InitOver THEN "initInd" ELSE "events")
  /\ gBmm' = [gBmm EXCEPT !.subscribed = TRUE]
  /\ IF InitOver THEN InitializedInd ELSE Callback /\ UNCHANGED mgrVars
  /\ UNCHANGED <<rsp, pipe, retryCount, stackEnv, timers, unchangedByStack>>

BmmActivateTransportCfmHandler(status) ==
  /\ Running
  /\ TakeMessage(Msg("ACTIVATE_CFM", status), IF gBmm.subscribed THEN "initInd" ELSE "events")
  /\ gBmm' = [gBmm EXCEPT !.state = status]
  /\ IF gBmm.subscribed THEN InitializedInd ELSE UNCHANGED <<mgrVars, failed>>
  /\ UNCHANGED <<rsp, pipe, retryCount, stackEnv, timers, unchangedByStack>>

BmmStartSchedTaskWaitTimer == retryCount' = retryCount + 1 /\ timers' = timers + 1

(* With a UART a user's off first tells the controller, and waits for its    *)
(* BT_OFF_IND.                                                              *)
BmmPrepareStopReqHandler(reason) ==
  /\ Running /\ TakeMessage(Msg("PREPARE_STOP", reason), "events")
  /\ gBmm' = [gBmm EXCEPT !.prepareStopHandle = "mgr"]
  /\ IF Uart /\ reason = "USER"
     THEN periOff' = TRUE /\ UNCHANGED <<retryCount, timers>>
     ELSE BmmStartSchedTaskWaitTimer /\ UNCHANGED periOff
  /\ UNCHANGED <<rsp, pipe, mgrVars, activation, btss, rx, failed, unchangedByStack>>

BmmHciArbiterBtOffIndHandler ==
  /\ Running /\ TakeMessage(Msg("BT_OFF", "none"), "events")
  /\ BmmStartSchedTaskWaitTimer
  /\ UNCHANGED <<rsp, pipe, mgrVars, gBmm, stackEnv, failed, unchangedByStack>>

(* BMM_BTSS_ERROR_IND: no more HCI packets downstream. *)
BmmHciArbiterBtssCrashIndHandler ==
  /\ Running /\ TakeMessage(Msg("BTSS_CRASH", "none"), "events")
  /\ IF gBmm.subscribed THEN Callback /\ arbiter' = FALSE ELSE UNCHANGED <<arbiter, failed>>
  /\ UNCHANGED <<rsp, pipe, bt_on_mode, app_callbacks, clients, appInfo, awm, island, bmmVars,
                 stackEnv, timers, unchangedByStack>>

(* Mutant: it waits until the queues are empty, however long. *)
RetriesOver_never == FALSE

RetriesOver == retryCount > MaxStopRetryAttempts

(* schedTaskWaitTimerFire(): with the queues empty, or after three timers,   *)
(* BMM_PREPARE_STOP_CFM: its callback goes on to post PREP_STOP_DONE.       *)
schedTaskWaitTimerFire(others) ==
  /\ Running /\ thread = "turn" /\ timers > 0
  /\ IF CsrSchedIsQueueEmpty(others) \/ RetriesOver
     THEN /\ timers' = timers - 1
          /\ retryCount' = 0
          /\ Callback
          /\ arbiter' = FALSE
          /\ thread' = "postStop"
     ELSE /\ retryCount' = retryCount + 1
          /\ UNCHANGED <<timers, failed, arbiter, thread>>
  /\ UNCHANGED <<rsp, pipe, bt_on_mode, app_callbacks, clients, appInfo, awm, island, gBmm,
                 stackEnv, unchangedByStack, schedInstance, threadEvents, schedEvents, extMsgQueue,
                 taskQueue>>

(* The post of a callback: the thread does nothing else while the pipe is    *)
(* full, and does not see a stop request.                                   *)
PostFromStack(from, m, next) ==
  /\ thread = from /\ thread' = next
  /\ Offload_Mgr_Post_Event(m)
  /\ UNCHANGED <<rsp, mgrVars, bmmVars, stackEnv, failed, unchangedByStack, schedInstance,
                 threadEvents, schedEvents, extMsgQueue, taskQueue, timers>>

PostStopDone     == PostFromStack("postStop", Msg("PREP_STOP_DONE", "none"), "turn")
PostMicrostackRx == PostFromStack("postRx", Msg("MICROSTACK_RX", "none"), "events")

SchedulerWait ==
  /\ Running /\ EventWait
  /\ UNCHANGED <<rsp, pipe, mgrVars, bmmVars, stackEnv, failed, unchangedByStack>>

(* The stack has a message for a client: microstack_cb() goes on to post it. *)
microstack_cb ==
  /\ rx > 0 /\ "client" \in appInfo
  /\ Running /\ OtherTurn(<<>>, "postRx")
  /\ rx' = rx - 1
  /\ UNCHANGED <<rsp, pipe, mgrVars, bmmVars, activation, periOff, btss, failed, unchangedByStack>>

(* The controller's answer to the off of a UART, and its crash. *)
BtOffInd ==
  /\ periOff /\ ~btss.down
  /\ periOff' = FALSE
  /\ Running /\ OtherTurn(<<Msg("BT_OFF", "none")>>, "events")
  /\ UNCHANGED <<rsp, pipe, mgrVars, bmmVars, activation, btss, rx, failed, unchangedByStack>>

BtssCrash ==
  /\ btss.crashes < MaxBtss /\ ~btss.down /\ gBmm.state = "INIT_SUCCESS"
  /\ btss' = [crashes |-> btss.crashes + 1, down |-> TRUE]
  /\ Running /\ OtherTurn(<<Msg("BTSS_CRASH", "none")>>, "events")
  /\ UNCHANGED <<rsp, pipe, mgrVars, bmmVars, activation, periOff, rx, failed, unchangedByStack>>

(* offload_mgr_client_interface_deinit(bt_on_mode). *)
offload_mgr_client_interface_deinit(mode) ==
  /\ clients' = (clients /\ mode # "OFFLD")
  /\ app_callbacks' = FALSE

(* Mutants: a session of pass-through is not answered; the app manager is    *)
(* not told of a session that was mocked off.                               *)
DisableIsAnswered_offload == bt_on_mode = "OFFLD"
AppManagerIsTold_asked == bt_on_mode = "OFFLD"

DisableIsAnswered == bt_on_mode \in Modes
AppManagerIsTold == bt_on_mode \in {"OFFLD", "OFFLD_SSR"}

(* BMM_DEINITIALIZED_IND, with bt_state_mgr_deinit(). *)
DeinitializedInd ==
  /\ Callback
  /\ IF DisableIsAnswered THEN post_bt_state_to_apss("BT_DISABLE") ELSE UNCHANGED rsp
  /\ awm' = IF AppManagerIsTold THEN "OFF" ELSE awm
  /\ offload_mgr_client_interface_deinit(bt_on_mode)
  /\ bt_on_mode' = "DEFAULT"
  /\ island' = TRUE
  /\ appInfo' = appInfo \ (IF bt_on_mode = "OFFLD" /\ app_callbacks THEN {"mgr", "client"}
                                                                    ELSE {"mgr"})
  /\ UNCHANGED arbiter

BmmDeinit ==
  /\ Running /\ TaskDeinit
  /\ IF gBmm.subscribed THEN DeinitializedInd ELSE UNCHANGED <<rsp, mgrVars, failed>>
  /\ UNCHANGED <<pipe, bmmVars, stackEnv, unchangedByStack>>

MicrostackThread ==
  \/ BmmInit \/ SchedulerWait \/ InitializedIndEnd \/ BmmSetEventMaskReqHandler
  \/ \E s \in {"INIT_SUCCESS", "INIT_FAILURE"} : BmmActivateTransportCfmHandler(s)
  \/ \E r \in StopReasons : BmmPrepareStopReqHandler(r)
  \/ BmmHciArbiterBtOffIndHandler \/ BmmHciArbiterBtssCrashIndHandler
  \/ \E others \in BOOLEAN : schedTaskWaitTimerFire(others)
  \/ PostStopDone \/ PostMicrostackRx \/ BmmDeinit

-----------------------------------------------------------------------------
Transport == \E s \in {"INIT_SUCCESS", "INIT_FAILURE"} : TransportActivated(s)

Next ==
  \/ \E m \in Modes : HlosEnable(m)
  \/ \E r \in StopReasons : HlosDisable(r)
  \/ HlosReceive
  \/ HlosCrash
  \/ \E c \in HalChannels : ChannelDisconnect(c)
  \/ HlosRestart
  \/ OffloadManagerThread
  \/ MicrostackThread
  \/ Transport
  \/ microstack_cb
  \/ BtOffInd
  \/ BtssCrash

Spec == Init /\ [][Next]_vars

(* Both threads run when they can, the transport manager and the controller *)
(* answer, HLOS reads its answers, and the channels of a dead HAL close.    *)
Fairness ==
  /\ WF_vars(OffloadManagerThread)
  /\ WF_vars(MicrostackThread)
  /\ WF_vars(Transport)
  /\ WF_vars(BtOffInd)
  /\ WF_vars(HlosReceive)
  /\ WF_vars(hlos.state = "dead" /\ \E c \in HalChannels : ChannelDisconnect(c))

FairSpec == Spec /\ Fairness

-----------------------------------------------------------------------------
(* Safety. *)

(* No request reaches a scheduler that is not there, and the stack never has *)
(* an indication for a state manager that is not registered: two threads     *)
(* register, subscribe, deregister and ask, and only their order helps.      *)
NoStackCrash == failed \notin {"null", "panic"}

(* Whatever ended a session, an answered disable, a mock off of a dead HAL   *)
(* or both, once the stack is gone the mode is forgotten, the state manager  *)
(* has no callback with the stack, the app manager knows that Bluetooth is   *)
(* off, and the processor may sleep again.                                  *)
SessionEndsClean ==
  ~schedInstance => bt_on_mode = "DEFAULT" /\ "mgr" \notin appInfo /\ awm = "OFF" /\ island

(* While Bluetooth is on for HLOS nothing goes by the mode of another        *)
(* session: the mode recorded is the one asked for or not yet any, clients  *)
(* and app manager serve offload only, and no client is ready for the stack *)
(* while the app manager takes Bluetooth for off.  (That both are told of   *)
(* an offload session at all is not so: an indication that overtakes the    *)
(* write at the end of bt_state_on_handle() finds no mode yet.)             *)
NoOtherMode ==
  hlos.state = "on" =>
    /\ bt_on_mode \in {hlos.mode, "DEFAULT"}
    /\ app_callbacks => awm = "ON"
    /\ awm = "ON" => hlos.mode = "OFFLD"

DisableReceived ==
  hlos.state = "disabling" /\ \A k \in DOMAIN pipe : pipe[k].op # "BT_DISABLE"

(* A mock off is for a HAL that crashed, not for one whose BT_DISABLE was    *)
(* received and that closes a channel (the comment of                       *)
(* bt_state_check_and_mock_off()).                                          *)
MockOffOnlyWithoutDisable ==
  [][(bt_on_mode \in Modes /\ bt_on_mode' \in SsrModes) => ~DisableReceived]_vars

(* Every client message that the offload manager's thread takes from the     *)
(* pipe finds the client's callback (the comment of                         *)
(* offload_mgr_microstack_msg_handler() calls the other case unexpected).    *)
ClientMessagesExpected == failed # "assert"

(* Liveness. *)

(* The stop of the stack comes to its end: a thread that does not answer, as *)
(* it waits for room in the pipe that only the manager's thread empties,     *)
(* does not hold that thread for ever (the comment of processStopEvt() has  *)
(* such a shutdown aborted).                                                *)
StopReturns == om.pc \in {"stopWait", "deinitWait"} ~> om.pc = "idle" \/ ~Running

(* Every enable is answered, unless the HAL dies first or the processor goes *)
(* down.                                                                    *)
EnableAnswered == hlos.state = "enabling" ~> hlos.state # "enabling" \/ ~Running

(* The controller has crashed before it has answered the off of a UART: the  *)
(* wait for its BT_OFF_IND has no time limit.                               *)
OffIndLost == periOff /\ btss.down

(* Every disable is answered, whatever crashes of the controller, retries    *)
(* and late messages come in between, unless the HAL dies or closes a        *)
(* channel first (which is taken for its death), the processor goes down,   *)
(* or the controller crashes exactly while its BT_OFF_IND is waited for.    *)
DisableAnswered ==
  hlos.state = "disabling" ~>
    hlos.state # "disabling" \/ channels # HalChannels \/ OffIndLost \/ ~Running

(* After a crash of the HAL, at any moment of a session and also after an     *)
(* early close, the low-power side takes itself down to where the restarted *)
(* HAL can begin again; with the same exception of the controller.          *)
CrashCleanedUp == hlos.state = "dead" ~> Quiet \/ OffIndLost \/ ~Running
=============================================================================
