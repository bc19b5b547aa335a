---------------------------- MODULE SocketOffload ----------------------------
(***************************************************************************)
(* Bluetooth socket offload from end to end: the HAL, the offload manager,  *)
(* the microstack manager and the microapps, joined by their channels.     *)
(***************************************************************************)
EXTENDS SocketHal, OffloadManager, MicrostackManager, MicroApps

vars == <<channels, halVars, instances, socket, appVars>>

Init ==
  /\ ChannelsInit
  /\ HalInit
  /\ InstancesInit
  /\ BmmInit
  /\ AppsInit

HalStep(A) == A /\ UNCHANGED <<om2bmm, bmm2om, om2awm, awm2om, instances, socket, appVars>>
OmStep(A) == A /\ UNCHANGED <<halVars, socket, appVars>>
BmmStep(A) == A /\ UNCHANGED <<halVars, instances, appVars>>
AwmStep(A) == A /\ UNCHANGED <<halVars, instances, socket>>

Next ==
  \/ HalStep(StackCall)
  \/ HalStep(ClosedCommit)
  \/ HalStep(RxThread)
  \/ OmStep(FromHal)
  \/ OmStep(FromMicrostack)
  \/ OmStep(FromMicroapps)
  \/ OmStep(GattSessions)
  \/ BmmStep(Microstack)
  \/ AwmStep(AppManager)
  \/ AwmStep(\E t \in Types, s \in Sockets : close_socket_qapi(t, s))

(* Every thread that has a message or a call in hand goes on with it.  The  *)
(* offload manager's pipe is first-in first-out, so none of its sources is *)
(* left waiting behind the others.  Nothing makes the stack, the user of a *)
(* microapp or a GATT session act.                                         *)
Fairness ==
  /\ WF_vars(HalStep(ClosedCommit))
  /\ WF_vars(HalStep(RxThread))
  /\ WF_vars(OmStep(FromHal))
  /\ WF_vars(OmStep(FromMicrostack))
  /\ WF_vars(OmStep(FromMicroapps))
  /\ WF_vars(BmmStep(Microstack))
  /\ WF_vars(AwmStep(AppManager))

Spec == Init /\ [][Next]_vars
FairSpec == Spec /\ Fairness

-----------------------------------------------------------------------------
(* Every variable holds a value of its declared C type. *)
TypeOK ==
  /\ ChannelsTypeOK
  /\ HalTypeOK
  /\ InstancesTypeOK
  /\ BmmTypeOK
  /\ AppsTypeOK

(* The instances that work for a socket. *)
Live == {i \in Slots : instances[i].state \notin {"Idle", "Gatt"}}

(* Where the answer that a socket waits for can be: the open request has not *)
(* been read, an instance works for the socket, the last answer of its life *)
(* is on its way, or glink_rx_thread is about to remove the entry.         *)
LastAnswer(m) == m.op = "CLOSE_RSP" \/ (m.op = "OPEN_RSP" /\ m.status = "FAILURE")

Pending(s) == {k \in DOMAIN hal2om : hal2om[k].op = "OPEN_SOCKET" /\ hal2om[k].id = s}
Serving(s) == {i \in Live : instances[i].id = s}
Answered(s) == {k \in DOMAIN om2hal : LastAnswer(om2hal[k]) /\ om2hal[k].id = s}
Removing(s) == IF rx = [op |-> "remove", id |-> s] THEN {0} ELSE {}

Owners(s) ==
  ({"pending"} \X Pending(s)) \cup ({"serving"} \X Serving(s))
    \cup ({"answered"} \X Answered(s)) \cup ({"removing"} \X Removing(s))

(* A socket with an entry in the HAL's table has exactly one of these, and a *)
(* socket without an entry none: its id can be used again at once, nothing *)
(* of its last life is left anywhere to answer the next one.               *)
OneOwner ==
  \A s \in Sockets :
     /\ \A x, y \in Owners(s) : x = y
     /\ getState(s) = "CLOSED" <=> Owners(s) = {}

(* An instance is never cleared when it becomes idle, and the look-ups take *)
(* the first id that matches, idle or not.  Still, looking up the id of a   *)
(* socket that is being served finds the instance that serves it, never a  *)
(* stale one in front of it (offload_instance_find_by_socket_id).          *)
SocketIdRouting ==
  \A i \in Live : find_by_socket_id(instances[i].id) = i

(* The same for the microstack's connection ids: for every connection the   *)
(* microstack manager has told the offload manager of, looking up its id   *)
(* finds the live instance of the socket it was made for.                  *)
ConnIdRouting ==
  \A x \in Indices :
     LET inst == socket[x]
         i == find_by_pseudo_id(inst.connId)
     IN /\ inst.inUse
        /\ ~\E m \in InFlight(bmm2om) : m.op = "OFFLOAD_CFM" /\ m.connId = inst.connId
        => i \in Live /\ instances[i].id = inst.socketId

(* The states in which the microstack holds a connection for the instance,  *)
(* once the confirmation of the offload has been read.                     *)
Connected(i) == instances[i].state \in {"OffloadToMicrostackSuccess", "OffloadToMicroappSuccess"}

CloseReqFor(i) ==
  \E m \in InFlight(om2bmm) : m.op = "CLOSE_REQ" /\ m.connId = instances[i].pseudo_id

(* The microstack manager holds a connection exactly for the instances that *)
(* have one: none is left behind by a failed microapp open or by a close,  *)
(* and none is taken from under an open socket.                            *)
NoMicrostackLeak ==
  /\ \A x \in Indices : socket[x].inUse =>
        \E i \in Live :
          /\ instances[i].id = socket[x].socketId
          /\ \/ Connected(i)
             \/ /\ instances[i].state = "OffloadReq"
                /\ \E m \in InFlight(bmm2om) :
                      /\ m.op = "OFFLOAD_CFM" /\ m.result = "SUCCESS"
                      /\ m.context = i /\ m.connId = socket[x].connId
             \/ CloseReqFor(i)
  /\ \A i \in Slots : Connected(i) => BmmIsConnIdValid(instances[i].pseudo_id)

(* A microapp serves a socket only for a live instance or until it reads    *)
(* the close command, which nobody waits for; it never serves one twice;   *)
(* and its counter, kept beside its table, says what the table says.       *)
NoMicroappLeak ==
  \A t \in Types :
     /\ socketsInUse[t] = Cardinality(Entries \ Unused(t))
     /\ \A s \in Sockets : Holding(t, s) # {} =>
          /\ Cardinality(Holding(t, s)) = 1
          /\ \/ \E i \in Live : instances[i].id = s /\ Connected(i)
             \/ \E m \in InFlight(om2awm) : m.op = "CLOSE_CMD" /\ m.id = s

(* The HAL counts its own entries, and only these; no table behind it ever  *)
(* refuses for want of room what the HAL let pass, although the instance   *)
(* of a socket, its connection and its microapp entry are released at      *)
(* different moments.                                                      *)
NoLateRefusal ==
  /\ Next1(hal2om, "OPEN_SOCKET") => find_idle_offload_instance # 0
  /\ Next1(om2bmm, "OFFLOAD_REQ") => ~RefusedByTable(Head(om2bmm).id, Head(om2bmm).type)
  /\ Next1(om2awm, "OPEN_REQ") =>
       LET m == Head(om2awm)
       IN EndpointType(m.ep) = m.type => /\ socketsInUse[m.type] < MaxSocketSupported
                                         /\ Unused(m.type) # {}

(* A socket that the HAL has reported as opened, and that no one is closing, *)
(* is open all the way: its instance, its connection with receive credits  *)
(* granted or about to be, and its microapp's entry are all there.         *)
OpenedEndToEnd ==
  \A s \in Sockets :
     /\ getState(s) = "OPENED"
     => \E i \in Live, x \in Indices :
          /\ instances[i].id = s /\ instances[i].state = "OffloadToMicroappSuccess"
          /\ socket[x].inUse /\ socket[x].connId = instances[i].pseudo_id
          /\ \/ socket[x].creditInitialised
             \/ \E m \in InFlight(om2bmm) :
                   m.op = "SET_PARAMS_REQ" /\ m.connId = socket[x].connId
          /\ Holding(instances[i].type, s) # {}

(* All of them together: GATT sessions that come, go and lose their link in   *)
(* the same table of instances, and microapps that give up their sockets,  *)
(* disturb no socket's tables.                                             *)
TablesAgree ==
  /\ OneOwner /\ SocketIdRouting /\ ConnIdRouting
  /\ NoMicrostackLeak /\ NoMicroappLeak /\ OpenedEndToEnd

(* What the table at the head of offload_mgr_sm.c says of a connection's     *)
(* close: the instance that waits for the confirmation in                  *)
(* UnOffloadReqToMicrostack goes to UnoffloadSuccess, and from there to    *)
(* Idle.  The confirmation names the instance by its microstack id only.   *)
CloseCfmCompletes ==
  [][\A i \in Slots :
       /\ Next1(bmm2om, "CLOSE_CFM") /\ bmm2om' = Tail(bmm2om)
       /\ Head(bmm2om).result = "SUCCESS"
       /\ instances[i].state = "UnOffloadReqToMicrostack"
       /\ instances[i].pseudo_id = Head(bmm2om).connId
       => instances'[i].state = "Idle"]_vars

(* What the same table says of a microapp's refusal: an answer to the open   *)
(* request takes an instance out of OffloadToMicrostackSuccess.  The answer *)
(* about an endpoint nobody registered has to, like any other.             *)
OpenResCompletes ==
  [][Next1(awm2om, "OPEN_RES") /\ awm2om' = Tail(awm2om)
     => \E i \in Slots : /\ instances[i].state = "OffloadToMicrostackSuccess"
                         /\ instances'[i].state # "OffloadToMicrostackSuccess"]_vars

-----------------------------------------------------------------------------
(* The life of each socket, as the HAL's table tells it.                   *)
Lifecycle == INSTANCE SocketLifecycle WITH life <- [s \in Sockets |-> stateTable[s].state]

(* Every step is a step of SocketLifecycle, or none: no answer reaches a     *)
(* socket that does not wait for it, whichever of the two HAL threads is   *)
(* interrupted between its check and its update.                           *)
LifecycleSafety == Lifecycle!LifeSafety

(* And every open and every close is answered. *)
LifecycleLive == Lifecycle!LifeSpec

(* A microapp has asked for the close of a socket it serves: the indication  *)
(* is in its queue, behind the answer to the open if that is still there.   *)
CloseAsked(s) ==
  \E k \in DOMAIN awm2om :
     /\ awm2om[k].op = "CLOSE_IND" /\ awm2om[k].id = s
     /\ \/ \E i \in Live : instances[i].id = s /\ instances[i].state = "OffloadToMicroappSuccess"
        \/ \E l \in 1 .. k - 1 : awm2om[l].op = "OPEN_RES" /\ awm2om[l].id = s

(* Then the socket is closed: the indication does not reach the HAL before   *)
(* the answer to the open, when closed() would ignore it, and is not lost   *)
(* between the two HAL threads.  (One that a microapp sent for an earlier   *)
(* life of the id is not meant, and may be ignored.)                       *)
CloseIndHonoured ==
  \A s \in Sockets : CloseAsked(s) ~> (getState(s) \in {"CLOSING", "CLOSED"})
=============================================================================
