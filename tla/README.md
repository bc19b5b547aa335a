# Verification of Bluetooth offload: TLA+ models, TLC runs and TLAPS proofs

The program moves Bluetooth traffic off the application processor. An Android
HAL asks an *offload manager* on the ADSP to take over a socket or a GATT
session. The offload manager sets it up in a *microstack* on the same processor
and hands it to a *microapp* on a third one, the always-on AWM. This directory
holds models of that system, the TLC runs that check them, and machine-checked
proofs.

Paths below are relative to `src/`. `B` is `non_HLOS/adsp_proc/bt`, `M` is
`non_HLOS/wm_proc/productsw/btsw/bt`, `HAL` is
`vendor_android/vendor/qcom/proprietary/bluetooth/hidl_transport/bluetooth_socket/aidl/default`.

## 1. Inventory

| Part | State it keeps | Operations | What makes it correct |
|---|---|---|---|
| Socket HAL (`HAL/bluetooth_socket_impl.cpp`) | `stateTable`: socket id, state, type; shared without a lock by two threads | `opened`, `closed`; OPEN_CB, CLOSE_CB, CLOSE_IND, CAPS from the ADSP | a socket moves along CLOSED, OPENING, OPENED, CLOSING only; every open and close is answered |
| GATT HAL (`bluetooth_gatt_offload_impl.cpp`, in `bluetooth_gatt` beside `HAL`) | `stateTable` of sessions, under one mutex | `registerService`, `unregisterService`, `clearServices`; the answers to each | every call is answered; no session is open in the table that nobody serves |
| Offload manager, instances (`B/offload_mgr/main`, `B/offload_mgr/sm`) | nine `offload_instances[]`, each with a state machine; never cleared when idle | find idle, find by socket id / pseudo id / GATT session; the transition table and its entry functions | look-ups find the live instance, never a stale one; one instance per socket |
| Socket manager and profile managers (`B/offload_mgr/socket_mgr`, `profile_mgr_{lecoc,rfcomm}.c`) | none beside the instance | open, close, offload and unoffload confirmations, data TX/RX, capabilities | what the HAL is told agrees with the microstack and the microapp |
| Endpoint manager (`B/offload_mgr/endpt_mgr`) | none | messages of the AWM: answers to opens, close indications, data, GATT | an answer reaches the instance that waits for it |
| GATT profile manager (`B/offload_mgr/profile_mgr/gatt`) | endpoints (`gatt_uapp[]`), their services (`svc_list`) and the sessions of each; instances of the shared table | register/unregister service, characteristic operations, link loss; the microstack's confirmations; the microapps' messages | a place is given back exactly once; a service is offloaded while somebody uses it, and no longer; no confirmation for what is gone |
| GATT layer of the microstack (`B/microstack/bt/core_stack/gatt`) | applications, connections, the services offloaded on each with their filters, a queue of requests for each connection | register, connection info, enable and disable services, read | requests of one connection in order; a service held exactly as long as the manager holds it |
| GATT microapps (`M/lpai_bt_microapps/gatt`) | sessions served, operations outstanding | activate, register, unregister, read a characteristic | a session is served from its registration to its end; every operation is answered |
| Microstack manager, BMM (`B/microstack/bt/microstack_mgr`) | `gBmm.socket[]`, event masks; for each connection a window, a receive queue, the application's credits | offload, close, set parameters, data, Bluetooth off | no connection without an instance; no refusal for want of room after admission |
| RFCOMM task of the microstack (`B/microstack/bt/core_stack/rfcomm`) | channels with credits in both directions, a queue of packets that wait for one, a timer | offload and release a channel, write, answer a read, frames and confirmations from L2CAP | no credit made or lost; packets in order; nothing waits for what will not come |
| App manager (`M/lpai_bt_app_mgr`) | registered endpoints, `btStatus`, a message queue | dispatch to endpoints, Bluetooth status, registration | every request is answered under the id it was made for |
| Microapps (`M/lpai_bt_microapps`) | `socketDetails[]` and `socketsInUse` each; one pending operation for each entry | open, close, close asked by the user, send, throughput tests, loopback | counter and table agree; entries are given back; a request is answered once |
| Bluetooth state manager (`B/offload_mgr/bt_state_mgr`, `M/lpai_bt_app_mgr/src/lpai_bt_state_mgr.c`) | `bt_on_mode`, written by two threads; the clients' callbacks | on, off, mock off after a HAL crash | each enable and disable is answered; nothing of a session is left when its stack is gone; every callback is valid when it is called |
| Microstack scheduler and callback table (`B/microstack/frw/gsp/src/sched/csr_sched.c`, `B/microstack/product`) | the instance, its thread, event bits, an external queue, task queues, timers; `appInfo` | start, put a message, stop in two waits, deinit | a stop ends; no message for a stack that is not there |
| Transport (`B/glink`, `M/lpai_transport`) | link and channel states, written by glink's callbacks and read by the manager's thread | open, close, send, receive, reconnect | every channel is opened again after a loss; a loss is told to the state manager, in its place among the messages |
| Offload manager thread (`B/offload_mgr/main/src/offload_mgr_thread.c`) | a pipe of 50 elements | all handlers of the ADSP side run on this thread | handlers are atomic to one another; the thread never waits for one who waits for the pipe |
| Heap, island votes, LE scan/advertising, glink shell, QSH router, sensors, other HALs | - | - | listed in `PROJECT.json`, not part of the core |

How they interact: the HAL and the offload manager exchange glink messages, as
do the offload manager and the AWM; the offload manager and the BMM exchange
primitives through the microstack's scheduler. No party waits for another: every
request is a message, every answer another one, and each party acts on what it
has in its own table at that moment. Four tables on three processors have to
agree on who owns a socket, with requests and answers on six queues between
them. Turning Bluetooth on and off is the one place where a thread does wait: the
offload manager's thread starts and stops the microstack's, and while it waits
for it nobody empties the pipe into which the microstack's thread posts.

That is what is hard here, and what a test hardly reaches:

- the two HAL threads between their check and their update of the table;
- look-ups that take the first match, idle or not, in tables never cleared;
- a table shared by two kinds of client (sockets and GATT sessions);
- resources that are given back at different moments, of which one party only
  counts its own;
- a refusal after half of the set-up is done, an answer that does not say
  whose it is, a close that nobody acknowledges;
- a mode that two threads write and one of them reads twice while it handles one
  indication, with only the order of the messages between them;
- events that point at a state instead of carrying it, handled after the state has
  changed again;
- a service that sessions share: what one asks for changes it for the others, and
  a confirmation comes when the session, or the service, is already gone;
- a window and two kinds of credits, one behind the other, of which a packet needs
  all; credits that are returned only by a frame that happens to pass, or by a timer;
- a confirmation that carries a pointer, and a user's thread that checks an entry and
  uses it later, while the entry changes hands;
- an end of a session asked for twice (by a disable and by a closed channel), or
  while the session still comes up, or with messages of it still in the pipe.

`PROJECT.json` lists these hazards one by one, at the line where each bites,
with the properties that watch it.

## 2. Modules

| Module | Models | Lines of state |
|---|---|---|
| `SocketChannels` | the messages, the six queues, identifiers and limits | `hal2om` ... `awm2om` |
| `SocketHal` | `BluetoothSocketImpl`, both threads | `stateTable`, `binder`, `rx` |
| `OffloadStateMachine` | `offload_mgr_state_table[]`, which sockets and GATT sessions share | - |
| `OffloadManager` | instance table, state machine for sockets, socket and endpoint manager handlers | `instances` |
| `MicrostackManager` | the BMM's connection table and request handlers | `socket` |
| `MicroApps` | app manager dispatch and the two microapps | `socketDetails`, `socketsInUse` |
| `SocketOffload` | the composition of the five, `Spec`, `FairSpec`, the properties | - |
| `SocketLifecycle` | the abstract promise to the Android stack: one life cycle per socket | `life` |
| `MCSocketOffload` | constants for TLC | - |
| `RfcommChannel` | the RFCOMM task under offloaded channels, its L2CAP and its peer | `dlc`, `rfcQueue`, `rfc2bmm`, `l2cap`, `toPeer`, `fromPeer`, `peer` |
| `MicrostackData` | the BMM's window and receive queue; EXTENDS `MicrostackManager`, `RfcommChannel` | `conn` |
| `OffloadData` | the socket manager's data handlers; EXTENDS `OffloadManager` | - |
| `MicroAppData` | operations of the RFCOMM microapp, the shell's thread; EXTENDS `MicroApps` | `detail`, `shell` |
| `SocketData` | the composition of the four with `SocketOffload`, the properties of the data | `traffic` |
| `MCSocketData` | constants for TLC | - |
| `MicrostackScheduler` | one scheduler instance: thread, event bits, queues, timers; callers' side and thread's side | `schedInstance` ... `timers` |
| `BtStateMgr` | HLOS, the offload manager's thread with its pipe, and the microstack's thread with the BMM's life cycle and the state manager's callback; EXTENDS `MicrostackScheduler` | `hlos` ... `failed` |
| `LpaiTransport` | the HLOS link of the ADSP: glink's callbacks, the events in the pipe, the thread that opens and closes channels; the HAL's process at the other end | `hal` ... `untold` |
| `GattChannels` | the messages of GATT offload, its six queues, the registrations the stack may make | `hal2om` ... `awm2om`, `reg`, `failed` |
| `GattHal` | `BluetoothGattImpl` | `stateTable` |
| `GattProfile` | `profile_mgr_gatt.c` with the state machine's functions for GATT | `instances`, `gattId`, `svc_list` |
| `GattMicrostack` | the GATT layer of the microstack | `apps`, `conns`, `svcs`, `reading`, `queue` |
| `GattUapp` | the GATT microapps and their part of the app manager | see there |
| `GattOffload` | the composition of the four, what the surroundings must leave time for, `FairSpec`, the properties | - |
| `MCGattOffload` | constants for TLC | - |
| `SocketOffloadProofs` | the theorems about `SocketOffload`: types, owners, routing by socket id | - |
| `SocketLifecycleProofs` | that `SocketOffload` implements the steps of `SocketLifecycle`; EXTENDS `SocketOffloadProofs` | - |
| `SocketTablesProofs` | what the tables of socket offload hold, and for whom: the microapps' entries, the connections of the microstack, and an open socket from end to end; EXTENDS `SocketLifecycleProofs` | - |
| `SocketRoutingProofs` | what socket offload relies on and does not check: that every confirmation and every answer reaches the instance that waits for it, and that no table behind the HAL runs out of room for what the HAL has let pass, each under its hypotheses; EXTENDS `SocketTablesProofs` | - |
| `LpaiTransportProofs` | the theorems about `LpaiTransport` | - |
| `GattProfileProofs` | lemmas on queues, and on what each operator of `GattProfile` that is handed the globals does to places, instances and messages | - |
| `GattOffloadProofs` | the theorems about `GattOffload`: types, one place and one instance for a session; EXTENDS `GattProfileProofs` | - |
| `BtStateProofs` | lemmas on queues of messages (how many of a kind, which kind ahead of which), and the theorems about `BtStateMgr` | - |

### Correspondence with the code

*HAL.* `closed()` is two steps, `ClosedCheck` and `ClosedCommit`, because the
other thread may run between `getState` and `updateState`; on `glink_rx_thread`
the same pair is `RxCloseInd` and `RxClosedCommit`. A failed open is `RxOpenCb`
(the callback) and `removeEntry`, in this order as in the code. `opened()` is
one step: it is the only writer that adds an entry, and the receive thread never
acts on an id that has none in flight (this is `OneOwner`). A refusal through
the callback changes nothing and is left out. The memory-level data race on the
`std::vector` itself is not modelled.

*Offload manager.* Each handler is one action: all of them run on one thread, to
their end. `ProcessEvent` is `sm_process_evt_with_cb` with the entry function of
the new state, including the events an entry function raises itself: the two
final states free the instance, and the close request to the microapp raises its
own success at once (the code calls this a mock answer). `Rest` follows those to
the state in which the instance comes to rest. An instance that becomes idle
keeps its socket id and connection id, as in the code. GATT sessions take the
first idle instance, put their pointer over the socket id (`offload_data` is a
union; the connection id lies behind it and stays), and give the instance back.

*Microstack manager.* The refusals of `BmmValidateSocketOffloadReq` that depend
on the table are modelled as such, those that depend on the request's contents
are a free choice, as is the arbiter's refusal, which comes after the connection
id has been made and therefore carries it. The connection id is a record of the
protocol, the low 16 bits of the socket id (`Low16`) and the index.

*AWM.* `socket_opened` counts before it looks for an entry, as in the code. The
`close_socket_qapi` action is the microapp's user, on a thread of its own. The
state of a socket in the microapp is its id; `idxInUse` and `socketId` are set
and cleared together.

*RFCOMM data.* `SocketData` is `SocketOffload` with the data side of each party:
opens, refusals and closes go on while data flows, and a data message stands in the
same channel as the others, with its place among them. A connection record of the BMM
(`conn`) lies beside the entry of `socket`; `OffloadReq`, `CloseReq` and
`SetParamsReq` are the handlers of `MicrostackManager` with what they do to it and to
the channel, in one step. The RFCOMM task takes its messages in any order of the two
sources, the BMM and L2CAP. `process_txdata` is the loop of `rfc_process_txdata`: as
many packets as there are credits, all credits to return in the first; if none can go,
the credits are looked at alone. `RestoreRxQueue` is the loop of
`BmmRfcommRestoreRxQueue`, and also the direct path of `BmmRfcommDataReadIndHandler`,
which is the same rule for an empty queue. A channel is named by the socket it was
offloaded for (the code numbers channels), a packet of a microapp by its socket, a
packet of the peer by its channel and number. In the microapp the user's call is
three steps, `QapiCheck`, `QapiSet` and `QapiSend`, as no lock keeps the app manager's
thread out between the test of `pendingOperations`, its update and the read of the
entry's socket id for the request. Two fields of `detail` are the observer's and
in no guard: `unanswered` counts requests without an answer, `received` is the number of the
last packet handed to the user. `NewIds` makes the stack use a fresh id for a new
socket; `SocketOffload` alone has ids used again.

*Channels.* First-in first-out. Three queues into the offload manager, served in
any order, stand for its one pipe: they allow every order in which the three
sources can reach it. The model starts when Bluetooth is on and the HAL has the
capabilities, and Bluetooth stays on. Ids are neither 0 nor 0xFF, which the code
uses as marks.

*GATT.* A handler of `profile_mgr_gatt.c` is a chain of calls, each of which reads
and writes the same globals and may raise an event that makes the next. The
operators of `GattProfile` therefore take the globals as one record `t` and give
back the record a call leaves; a handler is an action that runs its chain on
`Now` and ends with `Becomes`. `GattMicrostack` does the same for one connection
(`At`, `AtBecomes`). The pointers of an instance to its service and session are
their indices, 0 for `NULL`; a confirmation that follows `NULL` sets `failed`. A
characteristic is stood for by the session that registers it, and a service by
its pair of role and UUID. `CsrBtGattOffload`'s ids are the lowest one that
nobody has or may still be told of (`Fresh`); the code counts, and comes round
after 65535. What the peer, the arbiter and the filter of the controller answer
is a free choice. A request that waited behind a read is performed when the read
is over (`Restore`); the code then validates it from `inst->msg`, which by that
time is another message, so an enable request that has waited may succeed, be
refused or be followed into nothing (`RestoreOne`).
The offload manager has no answer to a stack that asks for something before the
last thing it asked for is done: the comment at `profile_mgr_gatt.c:972` leaves
"handling if state machine is busy" to be done. `MayRegister`, `MayClose`, `MayClear` and `MayRead` say how much time the
surroundings give, each for one reason, and a member of `Adversities` lifts each
(see the bounds in section 3).
Instance ids are 1 to `NumInstances`, as in the code, where the look-up by session
answers `MAX_OFFLOAD_INSTANCES` for "none", the id of the last instance: what the
microapps say of that one is dropped.

*Bluetooth on and off.* `BtStateMgr` is composed of three parties. HLOS enables,
disables, crashes, comes back, and closes its two channels; what it does reaches
the processor as elements of the pipe. The offload manager's thread takes them
one by one. `bt_state_on_handle` is four steps, because the microstack's thread
runs from the first on and the mode is written in the last: `bt_state_on_handle`
(which starts the stack), `MicroStackRegisterAppCb`, `BmmSetEventMaskReqSend`,
`RecordMode`. `MicroStackStop` is three (`MicroStackStop`, `StackStopped`,
`StackDeinitialised`), one for each of its waits. Everything else this thread does
is one step. The microstack's thread is at a named place: `thread = "turn"` after
its event wait, `"events"` before it, `"initInd"` between the two reads of the
mode, `"postStop"` and `"postRx"` while it posts into the pipe, where it waits if
the pipe is full. A handler of the BMM with the callback it ends in is one action,
except at these places. `activation`, `periOff` and `btss` are the transport
manager and the controller, of which only the answers are seen; the other tasks
of the stack take turns of which only the messages for the BMM and for the
clients are seen (`OtherTurn`), and whether their queues hold anything when the
timer fires is a free choice. A wrong end is recorded in `failed`: `null` is a
message for a scheduler that is not there, `panic` an indication for a handle
without a callback, `assert` the fatal assertion of the offload manager. A failed
processor does nothing more.

The build decides some of this code. What is modelled is the build in which
`CsrSched` returns at once (`CSR_SCHED_NO_WAIT_FOR_EXIT`), the stack can be shut down
(`ENABLE_SHUTDOWN`), and the transport has no thread of its own
(`LPAI_TRANSPORT_THREAD_ENABLED` not defined). The build files are not part of the
repository; this is the build that the rest of the code expects. `Uart` is a constant because it stands for another build option that both
forms of the code serve.

*Transport.* `LpaiTransport` has three parties: the HAL's process, glink's context
and the offload manager's thread. A callback is two steps: it writes
`chnl_state` or `link_state`, and then posts an event, for which it may have to
wait (`callback` is the event in between; glink calls back one thing at a time).
The thread takes the event and acts on the state it reads then: `ChannelConnected`,
`ChannelLost` and `ChannelClosed` are the three cases of
`LPAI_Transport_Handle_Glink_Channel_State`, and
`LPAI_Transport_Glink_Handle_Link_State` opens or closes all channels. glink itself
is external: a close is confirmed later, opening a channel that is not closed and
closing one that is closed or closing are errors without effect, and an open may be
refused while the link is down. The state manager is reduced to `bt_on`, the start of
the HAL that Bluetooth is on for; the HALs are one process, and a new one starts only
once glink has told of the end of the last one's channels.

`BtStateMgr` takes the loss of a channel as an element of the pipe that carries
its own meaning. `LpaiTransport` shows where this is exact (no event of that
channel is still in the pipe when it is lost) and where it is not (the fifth
finding).

## 3. Properties and runs

| Property | Says |
|---|---|
| `TypeOK` | the one type invariant |
| `OneOwner` | a socket with an entry in the HAL is owned in exactly one place (request unread, one live instance, last answer on its way, removal under way); a socket without an entry in none |
| `SocketIdRouting` | the look-up by socket id finds the live instance, whatever stale ids idle instances hold |
| `ConnIdRouting` | the same for the look-up by connection id, for every connection the BMM holds |
| `NoMicrostackLeak` | the BMM holds a connection exactly for the instances that have one |
| `NoMicroappLeak` | a microapp serves a socket only for a live instance or until it reads the close; its counter agrees with its table |
| `NoLateRefusal` | no table behind the HAL refuses for want of room what the HAL admitted |
| `OpenedEndToEnd` | a socket reported open has its instance, its connection, its credits (granted or on their way) and its microapp entry |
| `LifecycleSafety` | every step is a step of `SocketLifecycle` or none (refinement) |
| `LifecycleLive` | every open and every close is answered (refinement with fairness) |
| `CloseIndHonoured` | a close asked for by the microapp closes the socket |
| `CloseCfmCompletes`, `OpenResCompletes` | a close that is confirmed frees the instance that waits for it, and the answer of a microapp moves on the one that waits for that: rows of the documented state table, proved under the hypotheses of section 4 and not kept without them, see Findings |

`TablesAgree` is the conjunction of `OneOwner`, `SocketIdRouting`, `ConnIdRouting`,
`NoMicrostackLeak`, `NoMicroappLeak` and `OpenedEndToEnd`, checked where a GATT session
and close indications are in play.

Of RFCOMM data:

| Property | Says |
|---|---|
| `DataTypeOK` | the type invariant, the window and the application's credits within their sizes |
| `CreditsConserved` | each credit of the three kinds (ours with the peer, the peer's with us, the application's with the BMM) is in exactly one place |
| `WindowAccounts` | the window counts what RFCOMM has not confirmed, wherever it is; a confirmation is held back exactly while the window is full; no channel carries another socket's packets |
| `AnsweredOnce` | what a served socket's microapp has not been answered for is one message, or the request that the window holds back |
| `RxInOrder` | the peer's packets on their way to a microapp are the next it waits for up to the last one sent, in order |
| `NothingStuck` | when no thread, timer, link or peer has anything left to do, no packet waits, all requests are answered and all credits are home |

Of Bluetooth on and off:

| Property | Says |
|---|---|
| `TypeOK` | the type invariant, the pipe within its size and the wait's retries bounded |
| `NoStackCrash` | no message for a scheduler that is gone, no indication without a callback |
| `SessionEndsClean` | however a session ended, with its stack go the mode, the callback, the app manager's `ON` and the vote against sleep |
| `NoOtherMode` | while Bluetooth is on for HLOS nothing goes by another session's mode, and the clients are never ready behind the app manager's back |
| `EnableAnswered`, `DisableAnswered` | HLOS gets its answers; a disable not if the HAL closes a channel first (the third finding), or if the controller crashes while its answer to the off is waited for |
| `CrashCleanedUp` | after a crash of the HAL, at any moment, the processor comes to rest by itself, without a stack; with the same exception of the controller |
| `MockOffOnlyWithoutDisable`, `ClientMessagesExpected`, `StopReturns` | what three comments say and the code does not keep, see Findings |

Of the transport:

| Property | Says |
|---|---|
| `TypeOK` | the type invariant, the pipe within its size |
| `NeverDeaf` | with nothing left to handle and the link up, no channel is closed for good, whatever events read a later state than theirs |
| `ReadyAgain` | every channel of a running HAL connects while the link stays up |
| `LossIsTold` | a HAL channel that was lost is not opened again before a mock off was considered, as long as the link has not been down |
| `LiveHalKept` | a running HAL is not mocked off by what an earlier one left in the pipe |
| `CrashIsMockedOff` | what a comment says of crashes and the code does not always keep, see Findings |

Of GATT offload:

| Property | Says |
|---|---|
| `TypeOK` | the type invariant |
| `SessionsOwned` | a place in a service is taken exactly while one instance works for it; no session has two; a service without sessions is cleared |
| `NoServiceLeak` | with nothing on its way, the microstack has enabled what the manager has offloaded, with the characteristics of its sessions |
| `ServedEndToEnd` | an offloaded session is held by its microapp, let through by the microstack, and open in the HAL or about to be |
| `StackAnswered` | the stack gets its answer to every registration, unregistration and clear, and after a link loss none of its sessions is left |
| `ReadsEnd` | an app that has asked as often as it may gets an answer, and no operation stays pending, which would refuse all later ones |
| `MicroappCloseHonoured` | a session given up by its microapp is closed in the HAL |

| Run | Constants | Result |
|---|---|---|
| `socket_safety` | 3 sockets, 2 instances, room for 2 in the HAL and in each microapp, right, wrong and unknown endpoint | holds; 602,676 states |
| `socket_live` | 2 sockets, 1 instance, microapp with 1 entry, 1 GATT session, 1 close indication | holds; 74,068 states |
| `gatt_offload` | 2 sessions in 5 settings, 2 endpoints, 2 connections, 2 services, 3 instances | holds; 131,981 states |
| `rfcomm_data` | 2 sockets, 1 instance, window 2, 2 credits for the peer and 1 of the peer, 1 credit of the application, 2 operations or packets of the peer | holds; 421,005 states |
| `close_cfm_lost` | 2 sockets, 2 instances, 1 GATT session, no unknown endpoint | violated |
| `unknown_endpoint` | 2 sockets, 2 instances, no GATT session | violated |
| `bt_state` | 2 sessions, pipe of 3, 1 client message, 1 crash of the controller, early closes, a transport that activates at any time | holds; 382,480 states |
| `transport_reopen` | 2 channels, 2 starts of the HAL, 1 link down, pipe of 4 | holds; 144,534 states |
| `crash_overtaken` | as `transport_reopen`, the link stays up | violated |
| `mock_off_after_disable` | as `bt_state`, nothing else going on | violated |
| `late_client_message` | as `bt_state`, nothing else going on | violated |
| `stop_blocked` | 1 session, pipe of 2, 1 client message, no crash of the controller, no early close | violated |

*Bounds and why they are enough.* Two sockets and two instances are the least
that let one socket's stale instance lie before another's live one, that let a
socket come back in another instance than before, and that let one refuse while
the other works; the safety run has a third, so that they compete for room for two
and an instance passes through the hands of several. Close indications and GATT
sessions are left to the live run, whose invariant `TablesAgree` repeats the tables'
agreement for them. One instance with two sockets makes the offload manager refuse.
`MaxCloseInd` bounds close indications on their way, since a microapp's user may repeat
them; `MaxGattSessions` bounds sessions that hold an instance. No other bound is
needed: a socket has one open request at a time, so the queues are finite by
themselves. Symmetry among sockets is used in the safety runs only. Deadlock is
checked except where an unknown endpoint occurs: its answer names no socket and
everything may wait for ever, which is the second finding.

*Bounds of the data run.* A window of 2 is the least that confirms one packet at once
and holds back the next (the product has 8); one credit of the peer makes the second
packet wait, and two of ours with a threshold of half of them leave a credit that is not
enough for a frame of its own (5 and a quarter in the product); one credit of the application is the
product's. `MaxTraffic` bounds the user's operations and the peer's packets together. Two
suffice, since a throughput test of one packet sends two (see below) and a loopback answers a packet
with one, to reach a full window and a request discarded for it, a packet that
waits behind the application's credit, two packets waiting for the peer's, credits left to the
timer, and a confirmation that finds its instance with another socket. Two sockets on one
instance is what makes instances, connections and entries change hands. Wider
instances were run once by hand and hold as well: `MaxTraffic` 3 (4.25 million states), and two
instances with `MaxTraffic` 1 (1.58 million). The data run has no fairness and no
temporal property: apart from opens that are refused and asked for again, every behaviour
of it is finite, so what must happen in the end is what `NothingStuck` says of
the states in which nobody has anything left to do. Deadlock is not checked, since those
states are where it ends.

*Bounds and assumptions of the GATT run.* Two sessions can meet in one service that
the microapp serves both of or has no room for, in two services of one connection
for which the manager has room or not, and at two connections: `MCRegistrations`
has a setting for each. A third session makes a difference to one assumption only, `MayRead`, which
looks at every session of the connection and at those it shares its service with. The
safety properties were run once by hand on three sessions, and hold (23.8 million states). A
session registers one characteristic (with three, more than a microapp decodes,
`StackAnswered` is violated), and its app has at most two reads
outstanding, so that one can wait behind another. Three instances are one more
than two sessions need, because of the last one's id: with two, the answer for a
session in the second is dropped and the session stays in OPENING for ever, and
with one a place in the table that was taken before an instance was found is
never given back. The product has nine for five sessions and four sockets, so
the last one is in use exactly when all are. What the run assumes of the
surroundings are the members of `Adversities`. No run admits one, since nothing in the
repository promises what is then violated; by hand TLC finds with one of them admitted:

| Admitted | What happens | Violated |
|---|---|---|
| `registrations` | a second registration for an endpoint before the first is answered: two instances at one place | `SessionsOwned`, in 7 states |
| `clear` | a registration behind a clear: the clear's answer wipes the HAL's entry, and the id can be registered twice | `SessionsOwned`, 10 |
| `acls` | a clear of one connection while another has sessions: its answer calls `removeEntry(0)`, which removes the entries of all | `SessionsOwned`, 10 |
| `channel` | a service changed while a read runs: the enable request that waited is validated from another message, and its confirmation is followed into a service that is gone | `~failed`, 21 |
| `filters` | the controller's filter refuses a service that is enabled already, whose filter is gone by then | `ServedEndToEnd`, 17 |
| `closings` | a session comes or goes while another of its service does: the service is enabled with nobody | `NoServiceLeak`, 26 |

*Bounds and assumptions of the Bluetooth runs.* Two sessions are the least in which
one can leave something to another. A pipe of 3 stands for one of 50: it is full
often enough for senders to wait, and still never full during a stop. With 2 it may
be: the offload manager's thread waits for the end of a stack whose thread waits for
room in the pipe, for ever (`stop_blocked`, the sixth finding). With 50 elements this takes that many
messages in the time of a stop. The transport may activate at any time, also before
`bt_state_on_handle` is through. The mode is written after the stack is started,
and an indication that overtakes the write finds the mode of nobody: HLOS is told that Bluetooth is on in
offload mode, and neither the clients nor the app manager are (13 states). So
`NoOtherMode` does not say that an offload session is announced, only that it is never
taken for one of another mode. Three assumptions are constants, so that a run can do without them:

- `RestartWaits`: a crashed HAL comes back only when the processor is quiet. The
  code has no guard for one that comes back sooner. Without the assumption
  `NoStackCrash` and `SessionEndsClean` are violated, and the confirmation left by a mock off may
  stop the next session's stack, which was not asked to prepare.
- `EarlyClose`: a HAL may close channels before its disable is answered. The run
  allows it, and `DisableAnswered` stops where a channel is closed, since the third finding leaves that
  disable unanswered.
- `MaxBtss`: how often the controller crashes. A user's off over
  a UART waits for the controller's `BT_OFF_IND` without a time limit
  (`bmm_btoff_event.c:82`); the state in which a crashed controller owes it, `OffIndLost`, is
  excepted from `DisableAnswered` and `CrashCleanedUp`, and no other.

With `Uart = FALSE` the run holds as well. Deadlock is not checked: after its
last session the system rests.

The transport run has two channels, since the events of one must be able to stand
among the messages of the other, and a pipe of 4, which fills up. A second start of
the HAL is what stale events can hurt; a third adds none that a second does not
have, since every event of a start is read in the order it was posted.

*Fairness.* Weak fairness for every thread that has a message or a call in hand:
the HAL's two threads, the offload manager for each of its three sources (one
first-in first-out pipe leaves none behind), the microstack's scheduler task and
the app manager's thread. None of them blocks in a handler. Nothing is assumed
of the Android stack, of the microapp's user or of GATT sessions. For GATT it is weak
fairness of the reader of each of the six queues, and of the peer's answer to a read
(the ATT layer gives up on a peer that does not answer). For Bluetooth on
and off it is weak fairness of both threads (each runs when it can; neither has a
priority that would keep the other out for ever), of the transport manager's
confirmation, of the controller's `BT_OFF_IND`, of HLOS reading what it was sent, and
of glink, which closes the channels of a dead HAL. Nothing is assumed of what HLOS
asks for. For the transport it is the manager's thread, a HAL that opens its
channels, and strong fairness of each channel's callbacks, as the channels take
turns in glink's one context; nothing makes a HAL start or a link come up.

## 4. Proofs

`SocketOffloadProofs` proves for every number of sockets, instances,
connections, microapp entries, close indications and GATT sessions, and for any
`Low16`:

- `TypeCorrect`: `Spec => []TypeOK`
- `OneOwnerAlways`: `Spec => []OneOwner`
- `SocketIdsRouted`: `Spec => []SocketIdRouting`

The assumptions are those of the modules: the marks are no socket ids, the sizes
are positive, the contexts are well formed.

The inductive invariant is `IInv == TypeOK /\ LiveIds /\ Books /\ Routing`, itself
the theorem `IInvInvariant`. None of the three properties is inductive alone.
`SocketIdRouting` is kept when a socket is opened only because the new instance
is the *lowest* idle one, and because no instance already serves that socket:
a stale id may lie behind the live one, never before it. That no instance serves
it already follows from the HAL's refusal of an id that has an entry, together
with the fact that an entry stays until the last answer of its life has been
read, of which there is one. `Books` is that fact as a ledger: for each socket,
the number of unread open requests, live instances, last answers in flight and
removals under way is one if the HAL has an entry and zero otherwise, with the
position of each named so that "exactly one" needs no counting. Every action
either leaves a socket's ledger alone or moves its one entry to the next column.
`Routing` says that no slot below a live instance's holds the same id. That a
look-up returns the lowest match needs least elements of sets of naturals, taken
from the library's well-foundedness of `<`. `IInv` was checked with TLC on two
sockets, two instances and a GATT session before it was proved.

`SocketLifecycleProofs` proves, for the same constants,

- `LifecycleKept`: `Spec => LifecycleSafety`,

the refinement: initial states map to initial states, and each step of the two HAL
threads, the offload manager, the microstack and the microapps is a step of
`SocketLifecycle` or leaves `life` alone. The inductive invariant is
`PInv == IInv /\ Rests /\ Checked /\ \A s : Phase(s)` (theorem `PhasesAlways`).
`Books` says that one thing answers for a socket; `Phase` says which state of the
HAL's table goes with it. While the open request is unread the table says `OPENING`
and no close stands behind it; an instance that still comes up has an `OPENING` entry
and no close in flight; an instance that serves has an `OPENING` entry just as long as
the good news is unread, and `OPENED` or `CLOSING` afterwards; a last answer has the
entry it ends. `Checked` is what the two HAL threads rely on between `getState` and
`updateState`: the entry may have changed, but a close checked against it cannot find
it `OPENING` again, as one opener at a time owns an id. `Rests` says that the state
machine comes to rest only in the states of its table that wait for a message, so
that `RestRows` names every row an event can take.

`SocketTablesProofs` proves, again for the same constants,

- `NoMicroappLeakAlways`: `Spec => []NoMicroappLeak`.

The inductive invariant is `AInv == PInv /\ Counters /\ \A s : App(s)` (theorem
`AppsAlways`). `App` follows one socket through the queues to and from the app manager.
`Asking`: one request to the microapp is under way at a time, its answer is never
there together with it, and an instance waits for it. `Held`: a microapp that has an entry for a
socket serves an instance that knows it, or is about to be told; otherwise a close
command for that microapp is in the queue. What makes it inductive is the order: no open
request stands in front of a close command of its id, so what an earlier life of
the id left behind is gone when the next one is let in. That a look-up by socket id
finds the live instance (`SocketIdsRouted`) is used at each answer of a microapp, and the
phases of the refinement at each early close.

Its second part proves, for the same constants once more,

- `NoMicrostackLeakAlways`: `Spec => []NoMicrostackLeak`
- `OpenedEndToEndAlways`: `Spec => []OpenedEndToEnd`

The inductive invariant is `CInv == PInv /\ Links` (theorem `LinksAlways`). `Links` follows
one entry of `gBmm.socket[]` through three phases. `Arriving`: its grant is on the way to an
instance that waits for it. `Used`: the instance has its id. `Leaving`: the instance has
asked for the close, and waits for the confirmation. `Instance` is the other side: an
instance that waits has one request or one answer under way, never both, and a
grant names a connection that is there. The step that needs thought is the reuse of a
connection id, which is a function of the socket, its type and the entry: a confirmation of
an earlier close with the same id may still be in the queue when the entry is granted
again. It is then in front of the grant, so it has been read by the time the
connection is used, and a close that is confirmed always is that of the present one.
None of this needs the look-up by connection id to be right: a confirmation that goes to the
wrong instance (finding 1) leaves its own instance waiting for ever, with a connection that is
gone, which `NoMicrostackLeak` allows and `CloseCfmCompletes` does not. So the
theorems hold for every `Low16` and with GATT sessions, where `ConnIdRouting` does not.
`OpenedEndToEnd` joins the three ledgers: `Phase` and `OneAnswers` give the instance of an
open socket and its state, `Links` the connection and its credits, and `Held` of
`AInv` the entry of the microapp. TLC found `Links` kept on some 376,000 states with a GATT session
and colliding low halves before it was proved.

`SocketRoutingProofs` says what the two look-ups that a violation run refutes rely on, and
that they rely on nothing else:

- `ConnIdRoutingAlways`: `DistinctLow`, `SocketsAlone` imply `Spec => []ConnIdRouting`
- `TablesAgreeAlways`: `DistinctLow`, `SocketsAlone` imply `Spec => []TablesAgree`
- `CloseCfmAlways`: `DistinctLow`, `SocketsAlone` imply `Spec => CloseCfmCompletes`
- `OpenResAlways`: `KnownEndpoints` implies `Spec => OpenResCompletes`

The three hypotheses are about the constants, and the code checks none of them.
`DistinctLow`: no two socket ids agree in the 16 bits that a connection id keeps; TLC finds
`CloseCfmCompletes` violated by two that do, even without a GATT session. `SocketsAlone`: no GATT session
can take an instance in front of a socket's (no session, or one instance); finding 1 is what
happens otherwise. `KnownEndpoints`: the stack names registered endpoints only; finding 2 is what
happens otherwise. The constants of `socket_safety` and `socket_live` satisfy the first two, those of `socket_live` the
third as well, and with them TLC finds both properties kept; those of
`close_cfm_lost` and `unknown_endpoint` break the second and the third.

The inductive invariant of the first three is `RInv`, `CInv` with `Own` and `NoStale`
(theorem `RoutesAlways`). `Own`: an instance that has been answered has an id of its own socket,
or the invalid one is on its way to it. `NoStale`: an instance in front of a live one
either has no id of that one's socket (`Clear`), or both still wait, the one in front
asked first, and it will be answered first with an id of its own socket (`Ahead`). `Ahead` is needed
because an instance that is opened again still holds the id of its last socket until the
microstack answers: the queues being first-in first-out is what makes that id gone
by the time it could be found instead of the right one. The last theorem has `KInv`, `AInv`
with no lost endpoint or id in a queue or an instance: `Asking` of `AInv`
gives the instance that waits for an answer, and `LiveIsFound` says that the look-up finds it.

The second part of `SocketRoutingProofs` proves that nothing behind the HAL refuses a socket for want of room:

- `NoLateRefusalAlways`: `RoomForAll` implies `Spec => []NoLateRefusal`

`RoomForAll` sets the sizes of the tables against the limits that the HAL checks: the
connections of the microstack are as many as both limits together, a microapp's entries as many
as its own, and the instances as many as both and the GATT sessions. The code's
values are of this kind, and the comment at `MAX_OFFLOAD_INSTANCES`
(`B/offload_mgr/main/inc/offload_instance.h:48`) counts nine like this; no code looks at it. The
constants of `socket_safety` satisfy it, with no room to spare; those of `socket_live` do not,
and that run does not check the property. The theorem says that tables which are large enough
while nothing moves are large enough while everything does: the HAL takes its entry
back in some closes before the instance, the connection or the microapp's entry is free, and lets the next
socket pass meanwhile.

The inductive invariant is `NInv`: `AInv` and `Links`, with what follows. `HalRoom`: the HAL's
entries of a type keep to its limit. `Typed`: every instance, request and connection
has the type of the HAL's entry for its socket, so that room of one type is not used by the other.
`GattRoom`: the sessions keep to theirs. With the ledgers of `AInv`, each instance and
each connection is held for a socket that has an entry in the HAL's table now, and
no two for the same one (`Injected` compares the two counts). For a microapp's entries this is not so: the HAL
may have forgotten a socket whose close command to the microapp is still in the queue, and the next socket's open command
comes behind it. `AppRoom` says what there is instead: for every open command in the queue there was a moment,
the one at which it was queued, at which all the sockets that are asked for up to it, and all whose entry is not
given back ahead of it, had entries in the HAL's table (`Covers`). TLC found `NInv` kept on
the constants of `socket_safety` and on a larger instance of some nine million states before it was proved.

`BtStateProofs` proves for every pipe size, every bound on sessions, messages and
crashes, and either transport:

- `BtTypesKept`: `Spec => []TypeOK`
- `NoStackCrashEver`: `Spec => []NoStackCrash`
- `SessionsEndClean`: `Spec => []SessionEndsClean`
- `NoOtherModeAlways`: `Spec => []NoOtherMode`

all of them under `RestartWaits`, a parameter of the model (section 3): the code has no guard for a
crashed HAL that comes back before all is quiet, and TLC finds the properties violated
without it. It is what the code relies on, and the theorems say that it relies on nothing else:
`EarlyClose`, the transport and the moment of its activation are left free. Two properties which held only as the
model left their own case out were dropped: that only a prepared stack is stopped, and that
an enabled session is announced (section 3 says how each fails).

The inductive invariant is `BInv` (theorem `BInvAlways`), and it counts. None of
the properties can be seen from the state of the two threads alone: each depends on what
is still on its way in the pipe, in the scheduler's two message queues and in
its timers. So the parts of `BInv` say how many messages there are of a kind, `Num(q, op)`,
and which kind is ahead of which, `Before(q, a, b)`; the lemmas at the head of the module say
what an append, a take and the join of the external queue to the task's do to both. `TwoStops`: a session
has at most two stops, the one HLOS asks for and a mock off, each of which is at any
time exactly one of still possible, a request in a queue, the controller's answer, a timer or
a confirmation; so the retry counter is bounded and the fatal assertion behind it is not
reached. `OnePipe`: the second confirmation cannot outlive the session, since the pipe
hands it to the manager's thread ahead of the next `BT_ENABLE`. `OneSubscription` and
`Prepared`: the state manager registers, subscribes and asks in this order, so a message
to it finds its callback, and what the stack has handled was preceded by all that
came before it. `HostAgrees`: while HLOS has not asked to stop, the mode is the
one it asked for. `NoOtherMode` needs one more part, `Clients`, which is kept by every step from `BInv`:
the callbacks of the clients and the state sent to the app manager come of two reads of the mode on the stack's
thread, and between them the manager's thread cannot turn one mode into the other. `BInv` was checked with TLC on both transports (some 225,000 states) before it was proved.

`LpaiTransportProofs` proves for any channels, pipe size and bounds:

- `TransportTypeCorrect`: `Spec => []TypeOK`
- `NeverDeafAlways`: `Spec => []NeverDeaf`
- `LossIsToldAlways`: `Spec => LossIsTold`
- `LiveHalIsKept`: `Spec => LiveHalKept`

The inductive invariant is `TInv` (theorem `TInvInvariant`). An event is
`Pending` when it is in the pipe or in the callback that is about to post it.
`LossPending`: a channel whose remote end is gone has its own event pending, and
its state still is the loss. `OpenPending`: a closed channel of a link that is up
has either its own event pending, its state still the close, or the link's. So an
event that reads the state late reads what it was queued for whenever it
matters: between a loss and the close that answers it, and between a close and
the opening that answers that, nothing else writes the channel's state.
`NotTold` adds that before the link has ever gone down a channel with an
unconsidered loss has not been closed, since only `ChannelLost` closes. TLC finds
`TInv` kept on the `transport_reopen` instance. `HalStarted`, that a HAL which runs
has been started, types the `BT_ENABLE` it sends. `LiveHalKept` needs the order of the
pipe on top (`LInv`, theorem `LInvInvariant`): while a HAL runs and the link has not gone down, an event that still
would be read as a loss is ahead of that HAL's `BT_ENABLE` (`LossesAhead`), and none is left once
it is taken. It holds because glink's callbacks and its receive notification share one
context, so that the losses of one HAL are posted before it takes the `BT_ENABLE` of the next; because a channel that is
connected is open at both ends (`BothEnds`), so that a HAL that runs loses none; and because a start of the HAL enables
once (`EnableOnce`). TLC finds `LInv` kept on `transport_reopen` and with three starts of the HAL.

`GattOffloadProofs` proves

- `GattTypeOKAlways`: `Spec => []TypeOK`
- `SessionsOwnedAlways`: `Spec => []SessionsOwned`

under four assumptions. The sets of sessions, endpoints and connections are finite, and there is a connection.
There are no more sessions than instances: the code leaves a place taken when a registration finds no
idle instance (`B/offload_mgr/profile_mgr/gatt/src/profile_mgr_gatt.c:416`), so that without the bound
`SessionsOwned` is false. And three of the adversities of section 3 are absent, `registrations`, `clear` and `acls`, with each of
which TLC finds `SessionsOwned` violated. The other three are left free: the theorems hold
with sessions that come and go together in one service, with service changes while the peer is asked, and with filters
that cannot be set, and so say more than the run `gatt_offload`, which has none of the six.

The inductive invariant is `GattInv` (`GattInvAlways`). `Owned` is `SessionsOwned` with the registration that a place
is for, and it is not inductive. A session that registers must have no instance yet; only the HAL's table
says so, and it is the other end of two queues. `Ledger` therefore counts, for each session, all that
its entry in that table can stand for: the request in the queue, the instance, and each answer on its way (`Tokens` for an entry
of any state, `Starts` for one that is `OPENING`). A clear frees the sessions of a connection at once and answers when the stack
has: `ClearsAlone` says that nothing is worked for in between, so that the HAL loses no entry which somebody still holds.
A confirmation of the stack names its instance and moves whoever is there: `OneAsk` says that an instance which
waits has one request underway (in the queue to the stack, in the connection's own queue, or on its way back) and
that no other instance has any, and `AskSense` that the service it names is still the instance's. The GATT layer's queue
starts its next element within the answer to the last one (`RestoringNext`), and the proof
follows the elements in turn: the first one after which `Restoring` did not hold would have one before it after which it did.

Most of the proof is about chains of calls. A handler of the profile manager is an operator from the record
of the globals to the record it leaves, and `GattProfileProofs` gives each a lemma of one form: whatever
satisfies `Core`, and what the queues held when the handler was called, it leaves a record that satisfies `Core` without
the message it took. A clear does so for the sessions of its connection in turn, and each turn
is again a step from `Core` to `Core`.

Model-checked only: `SocketData`, whose invariants are sums over queues of packets and the order of
what is left of them, that is, facts by induction over data, which are out of the prover's
reach; of `GattOffload` all but the types and `SessionsOwned`. Out of
reach too, and left to TLC for good, is liveness (`LifecycleLive`, `ReadyAgain`,
`CloseIndHonoured`, the answers of `BtStateMgr` and of `GattOffload`), since `ENABLED` is not supported.
No module here declares a `RECURSIVE` operator.

## 5. Findings

1. **A close confirmation delivered to a GATT session** (`close_cfm_lost`).
   `offload_instance_find_by_pseudo_id` (`B/offload_mgr/main/src/offload_instance.c:74`)
   looks at neither state nor type, and the connection id of an idle instance is
   never cleared, not even by a GATT session whose pointer overlays only the
   socket id. Socket opened and closed in instance 1; a GATT session takes
   instance 1; the same socket is opened again, in instance 2, and gets the same
   connection id; at its close the confirmation is given to instance 1. The
   socket's instance stays in `UnOffloadReqToMicrostack` for ever, against the
   table at the head of `offload_mgr_sm.c` (line 94).
2. **An open that is never answered** (`unknown_endpoint`). For an unknown
   endpoint the app manager answers with socket id 0xFF
   (`M/lpai_bt_app_mgr/src/app_mgr_rpc.c:85`). The offload manager finds no
   instance of that id; the instance, the connection and the HAL's entry are held
   for ever, against line 98 of the same table.
3. **A mock off after a received disable** (`mock_off_after_disable`).
   `bt_state_check_and_mock_off` (`B/offload_mgr/bt_state_mgr/src/bt_state_mgr.c:372`)
   looks at the mode only, and a disable leaves the mode alone until the stack is
   gone. A HAL that closes a channel before the answer is taken for a crashed one:
   a second prepare-stop is sent, and the disable is never answered. The comment
   above the function (lines 369-371) has `BT_DISABLE` looked at.
4. **A client message that comes too late** (`late_client_message`). After the
   confirmation of the prepare-stop the microstack goes on for as long as the
   offload manager's thread needs to take it from the pipe; what it posts for a
   client in this time is read after the clients' callbacks are gone, and ends in
   the fatal assertion of `offload_mgr_client_interface.c:223`, at a place whose
   comment calls this unexpected.
5. **A crash acted on before what it should undo** (`crash_overtaken`).
   The event that `LPAI_Transport_Glink_Channel_State_Cb`
   (`B/glink/src/lpai_transport.c:477`) posts points at the channel's state. A HAL
   connects, sends `BT_ENABLE` and dies before the thread has taken the event of its
   connection; this event now reads the loss, closes the channel and finds
   Bluetooth off. `BT_ENABLE`, next in the pipe, turns it on; the event of the loss
   reads `GLINK_LOCAL_DISCONNECTED` by then and opens the channel. Bluetooth stays on
   for nobody, against the comment at line 531.
6. **A stop that does not return** (`stop_blocked`). `processStopEvt`
   (`B/microstack/frw/gsp/src/sched/csr_sched.c:436`) runs on the offload manager's thread and
   waits without a time limit for the stack's thread. That one may be in a callback that
   posts into the pipe; if the pipe is full it waits for room, which only the
   offload manager's thread makes. In the run a crashed HAL's lost channels and a client's message are
   enough for a pipe of 2. The comment above the function (lines 392-395) has
   a shutdown without a response aborted.

Met on the way, and in the models without a run of their own:

- `bt_state_on_handle` writes `bt_on_mode` (`B/offload_mgr/bt_state_mgr/src/bt_state_mgr.c:311`) after it
  has started the stack and subscribed. A `BMM_INITIALIZED_IND` that is handled before reads the default mode at
  lines 155 and 157, and neither the clients nor the app manager are told of an offload session
  that HLOS is told of at line 175. The transport with the patch download left out
  (`SKIP_PATCH_NVM_BUFFER_DOWNLOAD`) activates at once.
- `offload_instance_find_id_by_gatt_session_id` gives `MAX_OFFLOAD_INSTANCES` for "none", its
  callers take smaller ids only (`endpt_mgr.c:130` and `143`), and `offload_mgr_sm.c:215` numbers the instances up to
  `MAX_OFFLOAD_INSTANCES`: what a microapp answers for a session in the last one is dropped.
- The ADSP takes three characteristics to a session (`profile_mgr_gatt.h:80-82`), as the app manager's
  header does (`lpai_bt_gatt_proto.h:30-32`), the microapps' decoder two (`lpai_bt_gatt_common.c:163`); the registration of a session with
  three is never answered.

- The note at `B/microstack/bt/inc/bmm_lib.h:142` ("Application needs to wait for CFM
  before sending next data") is not what the RFCOMM microapp does: a loopback clears
  `pendingOperations` as it sends, before the answer (`M/lpai_bt_microapps/src/lpai_bt_rfcomm_app.c:408-442`),
  and the next operation may fill the window. The request is then discarded with
  `BMM_RESULT_FLOW_CONTROL_VIOLATED`, which the microapp takes for an answer like any other.
- A transmit throughput test of N packets sends N + 1: the first one is not counted
  (line 454; `M/lpai_bt_microapps/inc/qapi_bt_rfcomm_app.h:104` has N).
- A close drops the request that the window holds back, and does not reject it
  as `bmm_lib.h:112` says. The microapp's entry goes at the same close.
- The shell's thread may set `pendingOperations` on an entry cleared since it looked: the next
  socket there is refused every operation ("Multiple operations enabled") until it is closed. It may send with the id
  that has come into the entry meanwhile, or with 0, which matches an instance never used;
  the answer then reaches every clear entry.
- Read, not modelled: `rfcomm_frame.c:473-484` goes on with an oversize frame after it has
  reported the disconnect; `BmmRfcommRestoreRxQueue` pops a packet of a connection in
  error without taking it off `rxQueueCount`; the RFCOMM profile manager has no case for an error indication.

## 6. What is not modelled

Payloads, message coding and logging; the contents of socket parameters; the
microstack below the BMM, of which the socket modules see the arbiter's refusal and the
data modules the RFCOMM task; of the data path LE CoC sockets, the loss of the ACL link
(and with it error indications), frame sizes, and socket ids used again; receive intents and sending of the transport, and the app manager's end of
its own link (which drops events when its queue of 20 is full); what Bluetooth off does to sockets that are open (the two halves of the
project meet only in the clients' callbacks); scheduler tasks other than the
BMM's, background interrupts and memory pools; the app manager's side of on and off
beyond the status it was last sent; of GATT, writes and notifications (whose path is
that of a read), the server's side, the limit on GATT endpoints and allocations that fail, an app that deregisters or is activated twice,
and error indications; sensors, kernel and other HALs (see the components of
`PROJECT.json`, each with its reason).

## 7. Plan

1. *Socket offload core*: done, as above.
2. `BtStateMgr`: done, as above. Left: its composition with the instance table
   (what an off does to open sockets, the microapps' counters over off/on).
3. `LpaiTransport`: done for the HLOS link. Left: sending (the answer of one
   session that reaches the next), intents, the app manager's end.
4. `GattOffload`: done, as above, on a table of instances of its own. Left: sockets
   and sessions in one table (in `SocketOffload` a session is only the instance it
   holds), the server's side, notifications.
5. `SocketData`: done for RFCOMM, as above. Left: LE CoC data (the same window and
   credits without a layer that counts credits), the loss of the link, ids used again.
6. Island votes and heap, if they turn out to hold invariants worth stating.

Left to prove: of `GattOffload` `NoServiceLeak` and `ServedEndToEnd`, for which a ledger of
each service would have to stand beside that of each session (`GattInv`).
