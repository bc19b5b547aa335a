------------------------ MODULE SocketOffloadProofs ------------------------
(***************************************************************************)
(* Proofs about SocketOffload, for every value of its constants: type       *)
(* correctness, OneOwner and SocketIdRouting.                              *)
(*                                                                         *)
(* None of the three is inductive by itself.  A stale id in an idle slot is *)
(* harmless only because opens take the lowest idle slot and no socket is  *)
(* opened while it is still being served; and that holds because the HAL   *)
(* keeps a socket's entry until its last answer has been read, of which    *)
(* there is never more than one.  IInv says all of this at once.           *)
(***************************************************************************)
EXTENDS SocketOffload, WellFoundedInduction, TLAPS

(* A nonempty set of naturals has a least element (< is well founded on Nat). *)
LEMMA LeastExists ==
  ASSUME NEW T \in SUBSET Nat, T # {}
  PROVE  \E i \in T : \A j \in T : i <= j
<1> DEFINE R == OpToRel(<, Nat)
<1>1. \E x \in T : \A y \in T : ~ (<<y, x>> \in R)
  <2>1. IsWellFoundedOn(R, Nat)
    BY NatLessThanWellFounded
  <2> HIDE DEF R
  <2>2. QED BY <2>1, WFMin
<1>2. \A x, y \in Nat : y < x => <<y, x>> \in R
  BY DEF OpToRel
<1>3. \E x \in T : \A y \in T : ~ (y < x)
  <2> HIDE DEF R
  <2>1. PICK x \in T : \A y \in T : ~ (<<y, x>> \in R)
    BY <1>1
  <2>2. \A y \in T : y < x => <<y, x>> \in R
    BY <1>2
  <2>3. QED BY <2>1, <2>2
<1>4. QED BY <1>3

(* First, behind every look-up in the instance table: 0, or the lowest slot found. *)
LEMMA FirstIsLeast ==
  ASSUME NEW found \in SUBSET Slots
  PROVE  IF found = {} THEN First(found) = 0
         ELSE First(found) \in found /\ \A j \in found : First(found) <= j
<1>1. CASE found = {}
  BY <1>1 DEF First
<1>2. CASE found # {}
  <2>1. found \in SUBSET Nat
    BY SizesAssumption DEF Slots
  <2>2. \E i \in found : \A j \in found : i <= j
    BY <1>2, <2>1, LeastExists
  <2>3. QED BY <1>2, <2>2 DEF First
<1>3. QED BY <1>1, <1>2

(* Every look-up answers with a slot or with 0. *)
LEMMA LookUps ==
  ASSUME InstancesTypeOK
  PROVE  /\ find_idle_offload_instance \in Slots \cup {0}
         /\ \A s : find_by_socket_id(s) \in Slots \cup {0}
         /\ \A c : find_by_pseudo_id(c) \in Slots \cup {0}
<1>1. \A f \in SUBSET Slots : First(f) \in Slots \cup {0}
  BY FirstIsLeast
<1>2. {i \in Slots : instances[i].state = "Idle"} \in SUBSET Slots
  OBVIOUS
<1>3. \A s : {i \in Slots : instances[i].id = s} \in SUBSET Slots
  OBVIOUS
<1>4. \A c : {i \in Slots : instances[i].pseudo_id = c} \in SUBSET Slots
  OBVIOUS
<1>5. QED BY <1>1, <1>2, <1>3, <1>4
         DEF find_idle_offload_instance, find_by_socket_id, find_by_pseudo_id

-----------------------------------------------------------------------------
(* The events the handlers raise, the states of an instance that works for  *)
(* a socket, and those whose entry function frees the instance.            *)
Events ==
  {"OFFLOAD_TO_MICROSTACK_SUCCESS", "OFFLOAD_TO_MICROSTACK_FAILURE", "UNOFFLOAD_REQ",
   "UNOFFLOAD_FROM_MICROSTACK_SUCCESS", "OFFLOAD_TO_MICROAPP_SUCCESS",
   "OFFLOAD_TO_MICROAPP_FAILURE"}

LiveStates == SMStates \ {"Idle", "Gatt"}
FinalStates == {"OffloadFailure", "UnoffloadSuccess"}

(* The next state is that of some row for the pair, when there is one. *)
LEMMA NextStateInRows ==
  ASSUME NEW state, NEW evt, Rows(state, evt) # {}
  PROVE  \E row \in Rows(state, evt) : NextState(state, evt) = row[3]
BY DEF NextState

(* The six events the handlers raise move an instance that works for a socket, to
   a state that does; they never move an idle one or a GATT session's. *)
LEMMA EventRows ==
  ASSUME NEW state, NEW evt \in Events, Rows(state, evt) # {}
  PROVE  state \in LiveStates /\ NextState(state, evt) \in LiveStates
<1>1. PICK row \in Rows(state, evt) : NextState(state, evt) = row[3]
  BY NextStateInRows
<1>2. row \in offload_mgr_state_table /\ row[1] = state /\ row[2] = evt
  BY <1>1 DEF Rows
<1>3. QED BY <1>1, <1>2 DEF offload_mgr_state_table, Events, LiveStates, SMStates, OffloadStates

(* The next state where the pair has one row. *)
LEMMA OnlyRow ==
  ASSUME NEW state, NEW evt, NEW next, Rows(state, evt) = {<<state, evt, next>>}
  PROVE  NextState(state, evt) = next
<1>1. PICK row \in Rows(state, evt) : NextState(state, evt) = row[3]
  BY NextStateInRows
<1>2. row = <<state, evt, next>>
  BY <1>1
<1>3. QED BY <1>1, <1>2

(* The rows that entry functions use, and the one for a new request. *)
LEMMA FreeRows ==
  /\ NextState("OffloadFailure", "OFFLOAD_INSTANCE_FREE") = "Idle"
  /\ NextState("UnoffloadSuccess", "OFFLOAD_INSTANCE_FREE") = "Idle"
  /\ NextState("UnOffloadReqFromHAL", "UNOFFLOAD_FROM_MICROAPP_SUCCESS")
       = "UnOffloadReqToMicrostack"
  /\ NextState("Idle", "OFFLOAD_REQ") = "OffloadReq"
<1>1. Rows("OffloadFailure", "OFFLOAD_INSTANCE_FREE")
        = {<<"OffloadFailure", "OFFLOAD_INSTANCE_FREE", "Idle">>}
  BY DEF Rows, offload_mgr_state_table
<1>2. Rows("UnoffloadSuccess", "OFFLOAD_INSTANCE_FREE")
        = {<<"UnoffloadSuccess", "OFFLOAD_INSTANCE_FREE", "Idle">>}
  BY DEF Rows, offload_mgr_state_table
<1>3. Rows("UnOffloadReqFromHAL", "UNOFFLOAD_FROM_MICROAPP_SUCCESS")
        = {<<"UnOffloadReqFromHAL", "UNOFFLOAD_FROM_MICROAPP_SUCCESS", "UnOffloadReqToMicrostack">>}
  BY DEF Rows, offload_mgr_state_table
<1>4. Rows("Idle", "OFFLOAD_REQ") = {<<"Idle", "OFFLOAD_REQ", "OffloadReq">>}
  BY DEF Rows, offload_mgr_state_table
<1>5. NextState("OffloadFailure", "OFFLOAD_INSTANCE_FREE") = "Idle"
  BY <1>1, OnlyRow
<1>6. NextState("UnoffloadSuccess", "OFFLOAD_INSTANCE_FREE") = "Idle"
  BY <1>2, OnlyRow
<1>7. NextState("UnOffloadReqFromHAL", "UNOFFLOAD_FROM_MICROAPP_SUCCESS")
        = "UnOffloadReqToMicrostack"
  BY <1>3, OnlyRow
<1>8. NextState("Idle", "OFFLOAD_REQ") = "OffloadReq"
  BY <1>4, OnlyRow
<1>9. QED BY <1>5, <1>6, <1>7, <1>8

(* An instance comes to rest in Idle from a final state, else it goes on working. *)
LEMMA RestStates ==
  ASSUME NEW state \in LiveStates
  PROVE  IF state \in FinalStates THEN Rest(state) = "Idle" ELSE Rest(state) \in LiveStates
BY FreeRows DEF Rest, OwnEvent, LiveStates, FinalStates, SMStates, OffloadStates

-----------------------------------------------------------------------------
(* Counting without numbers: a set has at most one element; and a set that   *)
(* replaces another is empty when it was, and has at most one if it had.    *)
One(X) == \A x, y \in X : x = y
Same(X, Y) == (X = {} <=> Y = {}) /\ (One(X) => One(Y))
(* Where in a queue the messages of a set M are. *)
Where(q, M) == {k \in DOMAIN q : q[k] \in M}

(* Sending m puts one more message into M, or none. *)
LEMMA WhereAppend ==
  ASSUME NEW D, NEW q \in Seq(D), NEW m \in D, NEW M
  PROVE  /\ m \notin M => Same(Where(q, M), Where(Append(q, m), M))
         /\ m \in M /\ Where(q, M) = {} =>
              Where(Append(q, m), M) # {} /\ One(Where(Append(q, m), M))
<1>1. /\ Append(q, m) \in Seq(D) /\ Len(Append(q, m)) = Len(q) + 1
      /\ Append(q, m)[Len(q) + 1] = m
      /\ \A k \in 1 .. Len(q) : Append(q, m)[k] = q[k]
  OBVIOUS
<1>2. DOMAIN Append(q, m) = 1 .. Len(q) + 1 /\ DOMAIN q = 1 .. Len(q) /\ Len(q) \in Nat
  BY <1>1
<1>3. ASSUME m \notin M
      PROVE  Where(Append(q, m), M) = Where(q, M)
  BY <1>1, <1>2, <1>3 DEF Where
<1>4. ASSUME m \in M, Where(q, M) = {}
      PROVE  Where(Append(q, m), M) = {Len(q) + 1}
  <2>1. \A k \in 1 .. Len(q) : q[k] \notin M
    BY <1>2, <1>4 DEF Where
  <2>2. QED BY <1>1, <1>2, <1>4, <2>1 DEF Where
<1>5. QED BY <1>3, <1>4 DEF Same, One

(* Reading the head takes one message out of M, or none; the others move up. *)
LEMMA WhereTail ==
  ASSUME NEW D, NEW q \in Seq(D), q # <<>>, NEW M
  PROVE  /\ Head(q) \notin M => Same(Where(q, M), Where(Tail(q), M))
         /\ Head(q) \in M => Where(q, M) # {}
         /\ Head(q) \in M /\ One(Where(q, M)) => Where(Tail(q), M) = {}
<1>1. /\ DOMAIN q = 1 .. Len(q) /\ Len(q) \in Nat /\ Len(q) > 0 /\ Head(q) = q[1]
      /\ DOMAIN Tail(q) = 1 .. Len(q) - 1
      /\ \A k \in 1 .. Len(q) - 1 : Tail(q)[k] = q[k + 1]
  OBVIOUS
<1>2. \A k : k \in Where(Tail(q), M) <=> k \in 1 .. Len(q) - 1 /\ k + 1 \in Where(q, M)
  BY <1>1 DEF Where
<1>3. 1 \in Where(q, M) <=> Head(q) \in M
  BY <1>1 DEF Where
<1>4. Where(q, M) \subseteq 1 .. Len(q)
  BY <1>1 DEF Where
<1>5. ASSUME Head(q) \notin M
      PROVE  Same(Where(q, M), Where(Tail(q), M))
  <2>1. \A k \in Where(q, M) : k - 1 \in Where(Tail(q), M)
    BY <1>1, <1>2, <1>3, <1>4, <1>5
  <2>2. Where(q, M) = {} <=> Where(Tail(q), M) = {}
    BY <1>2, <2>1
  <2>3. ASSUME One(Where(q, M))
        PROVE  One(Where(Tail(q), M))
    <3>1. \A k, l \in Where(Tail(q), M) : k + 1 = l + 1 /\ k \in Int /\ l \in Int
      BY <1>1, <1>2, <2>3 DEF One
    <3>2. QED BY <3>1 DEF One
  <2>4. QED BY <2>2, <2>3 DEF Same
<1>6. ASSUME Head(q) \in M, One(Where(q, M))
      PROVE  Where(Tail(q), M) = {}
  <2>1. \A k \in Where(Tail(q), M) : k \in 1 .. Len(q) - 1 /\ k + 1 = 1
    BY <1>2, <1>3, <1>6 DEF One
  <2>2. QED BY <1>1, <2>1
<1>7. QED BY <1>3, <1>5, <1>6

-----------------------------------------------------------------------------
(* The fields the handlers read from a message of each channel. *)
LEMMA MessageFields ==
  /\ \A m \in HalToOmMsgs :
       m.id \in Sockets /\ (m.op = "OPEN_SOCKET" => m.type \in Types /\ m.ep \in Endpoints)
  /\ \A m \in OmToHalMsgs : m.id \in Sockets
  /\ \A m \in OmToBmmMsgs :
       IF m.op = "OFFLOAD_REQ" THEN m.id \in Sockets /\ m.type \in Types /\ m.context \in Slots
                              ELSE m.connId \in ConnIds \cup {InvalidConnId}
  /\ \A m \in BmmToOmMsgs :
       /\ m.connId \in ConnIds \cup {InvalidConnId}
       /\ m.op = "OFFLOAD_CFM" => m.context \in Slots
  /\ \A m \in OmToAwmMsgs : m.id \in Sockets
  /\ \A m \in AwmToOmMsgs : m.op = "CLOSE_IND" => m.id \in Sockets
BY DEF HalToOmMsgs, OmToHalMsgs, OmToBmmMsgs, BmmToOmMsgs, OmToAwmMsgs, AwmToOmMsgs

(* Sending to and reading from a typed queue. *)
LEMMA QueueTypes ==
  ASSUME NEW D, NEW q \in Seq(D)
  PROVE  /\ \A m \in D : Append(q, m) \in Seq(D)
         /\ q # <<>> => Tail(q) \in Seq(D) /\ Head(q) \in D
OBVIOUS

(* updateState() keeps the table well typed. *)
LEMMA UpdateStateTypes ==
  ASSUME HalTypeOK, NEW s \in Sockets, NEW new \in HalStates, updateState(s, new)
  PROVE  stateTable' \in [Sockets -> [state : HalStates, type : Types \cup {"none"}]]
BY DEF HalTypeOK, updateState

(* The steps of the two HAL threads keep every variable in its type. *)
LEMMA HalTypes ==
  ASSUME TypeOK, HalStep(StackCall) \/ HalStep(ClosedCommit) \/ HalStep(RxThread)
  PROVE  TypeOK'
<1> USE DEF TypeOK, ChannelsTypeOK, HalTypeOK, HalStates, NoEntry, Resting
<1>0. UNCHANGED <<om2bmm, bmm2om, om2awm, awm2om, instances, socket, appVars>>
  BY DEF HalStep
<1>1. hal2om' \in Seq(HalToOmMsgs) /\ om2hal' \in Seq(OmToHalMsgs) /\ HalTypeOK'
  <2>1. ASSUME NEW s \in Sockets, NEW c \in Contexts, Opened(s, c)
        PROVE  hal2om' \in Seq(HalToOmMsgs) /\ om2hal' \in Seq(OmToHalMsgs) /\ HalTypeOK'
    <3>1. c.type \in Types /\ c.ep \in Endpoints
      BY ContextsAssumption
    <3>2. [op |-> "OPEN_SOCKET", id |-> s, type |-> c.type, ep |-> c.ep] \in HalToOmMsgs
      BY <3>1 DEF HalToOmMsgs
    <3>3. QED BY <2>1, <3>1, <3>2, QueueTypes DEF Opened
  <2>2. ASSUME NEW s \in Sockets, ClosedCheck(s)
        PROVE  hal2om' \in Seq(HalToOmMsgs) /\ om2hal' \in Seq(OmToHalMsgs) /\ HalTypeOK'
    BY <2>2 DEF ClosedCheck
  <2>3. ASSUME NEW s \in Sockets, CloseSocket(s)
        PROVE  /\ hal2om' \in Seq(HalToOmMsgs)
               /\ stateTable' \in [Sockets -> [state : HalStates, type : Types \cup {"none"}]]
    <3>1. [op |-> "CLOSE_SOCKET", id |-> s] \in HalToOmMsgs
      BY DEF HalToOmMsgs
    <3>2. QED BY <2>3, <3>1, QueueTypes, UpdateStateTypes DEF CloseSocket
  <2>4. CASE ClosedCommit
    BY <2>3, <2>4 DEF ClosedCommit
  <2>5. CASE RxOpenCb
    <3>1. om2hal # <<>> /\ Head(om2hal).id \in Sockets /\ om2hal' \in Seq(OmToHalMsgs)
      BY <2>5, QueueTypes, MessageFields DEF RxOpenCb, Next1
    <3>2. CASE Head(om2hal).status = "SUCCESS"
      <4>1. updateState(Head(om2hal).id, "OPENED") /\ UNCHANGED <<binder, rx, hal2om>>
        BY <2>5, <3>2 DEF RxOpenCb
      <4>2. QED BY <3>1, <4>1, UpdateStateTypes
    <3>3. CASE Head(om2hal).status # "SUCCESS"
      BY <2>5, <3>1, <3>3 DEF RxOpenCb
    <3>4. QED BY <3>2, <3>3
  <2>6. CASE RxCloseCb
    <3>1. om2hal # <<>> /\ Head(om2hal).id \in Sockets /\ om2hal' \in Seq(OmToHalMsgs)
      BY <2>6, QueueTypes, MessageFields DEF RxCloseCb, Next1
    <3>2. QED BY <2>6, <3>1 DEF RxCloseCb
  <2>7. CASE RxCloseInd
    <3>1. om2hal # <<>> /\ Head(om2hal).id \in Sockets /\ om2hal' \in Seq(OmToHalMsgs)
      BY <2>7, QueueTypes, MessageFields DEF RxCloseInd, Next1
    <3>2. QED BY <2>7, <3>1 DEF RxCloseInd
  <2>8. CASE RxClosedCommit
    BY <2>3, <2>8 DEF RxClosedCommit
  <2>9. CASE removeEntry
    BY <2>9 DEF removeEntry
  <2>10. QED BY <2>1, <2>2, <2>4, <2>5, <2>6, <2>7, <2>8, <2>9
            DEF HalStep, StackCall, RxThread
<1>2. QED BY <1>0, <1>1 DEF InstancesTypeOK, BmmTypeOK, AppsTypeOK, appVars

-----------------------------------------------------------------------------
(* An instance that works for a socket holds its id; a GATT session's       *)
(* pointer lies over the place of the id.                                  *)
LiveIds ==
  \A i \in Slots : /\ instances[i].state \in LiveStates => instances[i].id \in Sockets
                   /\ instances[i].state = "Gatt" => instances[i].id = NoSocket

(* The three answers to the HAL, and what an event does to instance i.       *)
OpenOk(s) == [op |-> "OPEN_RSP", id |-> s, status |-> "SUCCESS"]
OpenFailed(s) == [op |-> "OPEN_RSP", id |-> s, status |-> "FAILURE"]
Closed(s) == [op |-> "CLOSE_RSP", id |-> s]

Keeps(i) ==
  /\ instances'[i].state = instances[i].state
       \/ (instances[i].state \in LiveStates /\ instances'[i].state \in LiveStates)
  /\ om2hal' = om2hal
       \/ (instances[i].state \in LiveStates /\ om2hal' = Append(om2hal, OpenOk(instances[i].id)))

Releases(i) ==
  /\ instances[i].state \in LiveStates
  /\ instances'[i].state = "Idle"
  /\ \E m \in {OpenFailed(instances[i].id), Closed(instances[i].id)} : om2hal' = Append(om2hal, m)

(* What sm_process_evt_with_cb() does to the table and tells the HAL: the instance
   keeps working, or does not move, and nothing final is said; or it becomes idle and
   exactly one last answer is sent. *)
LEMMA InstanceEffect ==
  ASSUME InstancesTypeOK, NEW i \in Slots, NEW evt \in Events,
         NEW c \in ConnIds \cup {InvalidConnId}, ProcessEvent(i, evt, c)
  PROVE  /\ InstancesTypeOK'
         /\ \A j \in Slots : instances'[j].id = instances[j].id
         /\ \A j \in Slots \ {i} : instances'[j].state = instances[j].state
         /\ Keeps(i) \/ Releases(i)
<1> DEFINE held == [instances EXCEPT ![i].pseudo_id = c]
<1>1. /\ held \in [Slots -> [state : SMStates, id : Sockets \cup {NoSocket}, type : Types,
                             ep : Endpoints, pseudo_id : ConnIds \cup {InvalidConnId}]]
      /\ \A j \in Slots : /\ held[j].id = instances[j].id
                          /\ held[j].state = instances[j].state
  BY DEF InstancesTypeOK
<1>2. CASE Rows(instances[i].state, evt) = {}
  <2>1. instances' = held /\ om2hal' = om2hal
    BY <1>2 DEF ProcessEvent
  <2>2. QED BY <1>1, <2>1 DEF InstancesTypeOK, Keeps
<1>3. CASE Rows(instances[i].state, evt) # {}
  <2> DEFINE new == NextState(instances[i].state, evt)
  <2>1. /\ instances' = [held EXCEPT ![i].state = Rest(new)]
        /\ TellHal(i, new)
    BY <1>3 DEF ProcessEvent
  <2>2. instances[i].state \in LiveStates /\ new \in LiveStates
    BY <1>3, EventRows
  <2>3. IF new \in FinalStates THEN Rest(new) = "Idle" ELSE Rest(new) \in LiveStates
    BY <2>2, RestStates
  <2> HIDE DEF held, new
  <2>4. Rest(new) \in SMStates
    BY <2>3 DEF LiveStates, SMStates, OffloadStates
  <2>5. /\ InstancesTypeOK'
        /\ \A j \in Slots : instances'[j].id = instances[j].id
        /\ \A j \in Slots \ {i} : instances'[j].state = instances[j].state
        /\ instances'[i].state = Rest(new)
    BY SMTT(30), <1>1, <2>1, <2>4 DEF InstancesTypeOK
  <2>6. CASE new \in FinalStates
    <3>1. \E m \in {OpenFailed(instances[i].id), Closed(instances[i].id)} : om2hal' = Append(om2hal, m)
      BY <2>1, <2>6 DEF TellHal, FinalStates, OpenFailed, Closed
    <3>2. QED BY <2>2, <2>3, <2>5, <2>6, <3>1 DEF Releases
  <2>7. CASE new \notin FinalStates
    <3>1. om2hal' = om2hal \/ om2hal' = Append(om2hal, OpenOk(instances[i].id))
      BY <2>1, <2>7 DEF TellHal, FinalStates, OpenOk
    <3>2. QED BY <2>2, <2>3, <2>5, <2>7, <3>1 DEF Keeps
  <2>8. QED BY <2>6, <2>7
<1>4. QED BY <1>2, <1>3

(* The same function keeps the table and the queues it writes in their types. *)
LEMMA ProcessEventTypes ==
  ASSUME TypeOK, LiveIds, NEW i \in Slots, NEW evt \in Events,
         NEW c \in ConnIds \cup {InvalidConnId}, ProcessEvent(i, evt, c)
  PROVE  /\ InstancesTypeOK'
         /\ om2hal' \in Seq(OmToHalMsgs)
         /\ om2bmm' \in Seq(OmToBmmMsgs)
         /\ om2awm' \in Seq(OmToAwmMsgs)
<1> USE DEF TypeOK, ChannelsTypeOK
<1>1. InstancesTypeOK' /\ (Keeps(i) \/ Releases(i))
  BY InstanceEffect
<1>2. om2hal' \in Seq(OmToHalMsgs)
  <2>1. instances[i].state \in LiveStates => instances[i].id \in Sockets
    BY DEF LiveIds
  <2>2. \A s \in Sockets : {OpenOk(s), OpenFailed(s), Closed(s)} \subseteq OmToHalMsgs
    BY DEF OpenOk, OpenFailed, Closed, OmToHalMsgs, Results
  <2>3. QED BY <1>1, <2>1, <2>2, QueueTypes DEF Keeps, Releases
<1>3. CASE Rows(instances[i].state, evt) = {}
  BY <1>1, <1>2, <1>3 DEF ProcessEvent
<1>4. CASE Rows(instances[i].state, evt) # {}
  <2> DEFINE new == NextState(instances[i].state, evt)
  <2>1. TellMicrostack(i, Rest(new)) /\ TellMicroapp(i, new)
    BY <1>4 DEF ProcessEvent
  <2>2. instances[i].id \in Sockets
    BY <1>4, EventRows DEF LiveIds
  <2>3. /\ instances[i].type \in Types /\ instances[i].ep \in Endpoints
        /\ instances[i].pseudo_id \in ConnIds \cup {InvalidConnId}
    BY DEF InstancesTypeOK
  <2> HIDE DEF new
  <2>4. om2bmm' \in Seq(OmToBmmMsgs)
    <3>1. /\ [op |-> "CLOSE_REQ", connId |-> instances[i].pseudo_id] \in OmToBmmMsgs
          /\ [op |-> "SET_PARAMS_REQ", connId |-> instances[i].pseudo_id] \in OmToBmmMsgs
      BY <2>3 DEF OmToBmmMsgs
    <3>2. QED BY <2>1, <3>1, QueueTypes DEF TellMicrostack
  <2>5. om2awm' \in Seq(OmToAwmMsgs)
    <3>1. /\ [op |-> "OPEN_REQ", id |-> instances[i].id, type |-> instances[i].type,
              ep |-> instances[i].ep] \in OmToAwmMsgs
          /\ [op |-> "CLOSE_CMD", id |-> instances[i].id, ep |-> instances[i].ep] \in OmToAwmMsgs
      BY <2>2, <2>3 DEF OmToAwmMsgs
    <3>2. QED BY <2>1, <3>1, QueueTypes DEF TellMicroapp
  <2>6. QED BY <1>1, <1>2, <2>4, <2>5
<1>5. QED BY <1>3, <1>4

(* So do the handlers of the offload manager. *)
LEMMA OmTypes ==
  ASSUME TypeOK, LiveIds,
         OmStep(FromHal) \/ OmStep(FromMicrostack) \/ OmStep(FromMicroapps) \/ OmStep(GattSessions)
  PROVE  TypeOK'
<1> USE DEF TypeOK, ChannelsTypeOK
<1>0. /\ UNCHANGED <<halVars, socket, appVars>>
      /\ FromHal \/ FromMicrostack \/ FromMicroapps \/ GattSessions
  BY DEF OmStep
<1>1. CASE handle_open_socket
  <2> DEFINE m == Head(hal2om)
             i == find_idle_offload_instance
  <2>1. /\ hal2om' \in Seq(HalToOmMsgs)
        /\ m.id \in Sockets /\ m.type \in Types /\ m.ep \in Endpoints
        /\ UNCHANGED <<bmm2om, om2awm, awm2om>>
    BY <1>1, QueueTypes, MessageFields DEF handle_open_socket, Next1
  <2>2. CASE i = 0
    <3>1. /\ om2hal' = Append(om2hal, OpenFailed(m.id))
          /\ UNCHANGED <<instances, om2bmm>>
      BY <1>1, <2>2 DEF handle_open_socket, OpenFailed
    <3>2. OpenFailed(m.id) \in OmToHalMsgs
      BY <2>1 DEF OpenFailed, OmToHalMsgs, Results
    <3> HIDE DEF m, i
    <3>3. QED BY <1>0, <2>1, <3>1, <3>2, QueueTypes
             DEF HalTypeOK, InstancesTypeOK, BmmTypeOK, AppsTypeOK, halVars, appVars
  <2>3. CASE i # 0
    <3> DEFINE req == [op |-> "OFFLOAD_REQ", id |-> m.id, type |-> m.type, context |-> i]
    <3>1. i \in Slots
      BY <2>3, LookUps
    <3>2. /\ instances' = [instances EXCEPT ![i] =
                             [@ EXCEPT !.state = "OffloadReq",
                                       !.id = m.id, !.type = m.type, !.ep = m.ep]]
          /\ om2bmm' = Append(om2bmm, req)
          /\ UNCHANGED om2hal
      BY <1>1, <2>3, FreeRows DEF handle_open_socket
    <3>3. req \in OmToBmmMsgs
      BY <2>1, <3>1 DEF OmToBmmMsgs
    <3> HIDE DEF m, i, req
    <3>4. InstancesTypeOK'
      BY ZenonT(60), <2>1, <3>1, <3>2 DEF InstancesTypeOK, SMStates, OffloadStates
    <3>5. QED BY <1>0, <2>1, <3>2, <3>3, <3>4, QueueTypes
             DEF HalTypeOK, BmmTypeOK, AppsTypeOK, halVars, appVars
  <2>4. QED BY <2>2, <2>3
<1>2. \A i \in Slots, evt \in Events, c \in ConnIds \cup {InvalidConnId} :
        ProcessEvent(i, evt, c) =>
          /\ InstancesTypeOK' /\ om2hal' \in Seq(OmToHalMsgs)
          /\ om2bmm' \in Seq(OmToBmmMsgs) /\ om2awm' \in Seq(OmToAwmMsgs)
  BY ProcessEventTypes
<1>3. Drop => /\ InstancesTypeOK' /\ om2hal' \in Seq(OmToHalMsgs)
              /\ om2bmm' \in Seq(OmToBmmMsgs) /\ om2awm' \in Seq(OmToAwmMsgs)
  BY DEF Drop, InstancesTypeOK
<1>4. \A i \in Slots : instances[i].pseudo_id \in ConnIds \cup {InvalidConnId}
  BY DEF InstancesTypeOK
<1>5. CASE handle_close_socket
  <2>1. hal2om' \in Seq(HalToOmMsgs) /\ UNCHANGED <<bmm2om, awm2om>>
    BY <1>5, QueueTypes DEF handle_close_socket, Next1
  <2>2. find_by_socket_id(Head(hal2om).id) \in Slots \cup {0}
    BY LookUps
  <2>3. InstancesTypeOK' /\ om2hal' \in Seq(OmToHalMsgs)
          /\ om2bmm' \in Seq(OmToBmmMsgs) /\ om2awm' \in Seq(OmToAwmMsgs)
    BY <1>2, <1>3, <1>4, <1>5, <2>2 DEF handle_close_socket, Events
  <2>4. QED BY <1>0, <2>1, <2>3 DEF HalTypeOK, BmmTypeOK, AppsTypeOK, halVars, appVars
<1>6. CASE microstack_offload_cfm
  <2>1. /\ bmm2om' \in Seq(BmmToOmMsgs) /\ UNCHANGED <<hal2om, awm2om>>
        /\ Head(bmm2om).context \in Slots
        /\ Head(bmm2om).connId \in ConnIds \cup {InvalidConnId}
    BY <1>6, QueueTypes, MessageFields DEF microstack_offload_cfm, Next1
  <2>2. InstancesTypeOK' /\ om2hal' \in Seq(OmToHalMsgs)
          /\ om2bmm' \in Seq(OmToBmmMsgs) /\ om2awm' \in Seq(OmToAwmMsgs)
    BY <1>2, <1>6, <2>1 DEF microstack_offload_cfm, Events
  <2>3. QED BY <1>0, <2>1, <2>2 DEF HalTypeOK, BmmTypeOK, AppsTypeOK, halVars, appVars
<1>7. CASE microstack_unoffload_cfm
  <2>1. bmm2om' \in Seq(BmmToOmMsgs) /\ UNCHANGED <<hal2om, awm2om>>
    BY <1>7, QueueTypes DEF microstack_unoffload_cfm, Next1
  <2>2. find_by_pseudo_id(Head(bmm2om).connId) \in Slots \cup {0}
    BY LookUps
  <2>3. InstancesTypeOK' /\ om2hal' \in Seq(OmToHalMsgs)
          /\ om2bmm' \in Seq(OmToBmmMsgs) /\ om2awm' \in Seq(OmToAwmMsgs)
    BY <1>2, <1>3, <1>4, <1>7, <2>2 DEF microstack_unoffload_cfm, Events
  <2>4. QED BY <1>0, <2>1, <2>3 DEF HalTypeOK, BmmTypeOK, AppsTypeOK, halVars, appVars
<1>8. CASE uapp_open_socket_res
  <2>1. awm2om' \in Seq(AwmToOmMsgs) /\ UNCHANGED <<hal2om, bmm2om>>
    BY <1>8, QueueTypes DEF uapp_open_socket_res, Next1
  <2>2. find_by_socket_id(Head(awm2om).id) \in Slots \cup {0}
    BY LookUps
  <2>3. InstancesTypeOK' /\ om2hal' \in Seq(OmToHalMsgs)
          /\ om2bmm' \in Seq(OmToBmmMsgs) /\ om2awm' \in Seq(OmToAwmMsgs)
    BY <1>2, <1>3, <1>4, <1>8, <2>2 DEF uapp_open_socket_res, Events
  <2>4. QED BY <1>0, <2>1, <2>3 DEF HalTypeOK, BmmTypeOK, AppsTypeOK, halVars, appVars
<1>9. CASE uapp_socket_close_ind
  <2>1. /\ awm2om' \in Seq(AwmToOmMsgs)
        /\ Head(awm2om).id \in Sockets
        /\ om2hal' = Append(om2hal, [op |-> "CLOSE_IND", id |-> Head(awm2om).id])
        /\ UNCHANGED <<instances, hal2om, om2bmm, bmm2om, om2awm>>
    BY <1>9, QueueTypes, MessageFields DEF uapp_socket_close_ind, Next1
  <2>2. [op |-> "CLOSE_IND", id |-> Head(awm2om).id] \in OmToHalMsgs
    BY <2>1 DEF OmToHalMsgs
  <2>3. QED BY <1>0, <2>1, <2>2, QueueTypes
           DEF HalTypeOK, InstancesTypeOK, BmmTypeOK, AppsTypeOK, halVars, appVars
<1>10. CASE GattSessions
  <2>1. UNCHANGED channels
    BY <1>10 DEF GattSessions, gatt_offload, gatt_clear_offload_data
  <2>2. InstancesTypeOK'
    <3>1. CASE gatt_offload
      <4>1. find_idle_offload_instance \in Slots
        BY <3>1, LookUps DEF gatt_offload
      <4>2. QED BY ZenonT(60), <3>1, <4>1 DEF gatt_offload, InstancesTypeOK, SMStates, OffloadStates
    <3>2. ASSUME NEW i \in Slots, gatt_clear_offload_data(i)
          PROVE  InstancesTypeOK'
      BY <3>2 DEF gatt_clear_offload_data, InstancesTypeOK, SMStates, OffloadStates
    <3>3. QED BY <1>10, <3>1, <3>2 DEF GattSessions
  <2>3. QED BY <1>0, <2>1, <2>2
           DEF channels, HalTypeOK, BmmTypeOK, AppsTypeOK, halVars, appVars
<1>11. QED BY <1>0, <1>1, <1>5, <1>6, <1>7, <1>8, <1>9, <1>10
          DEF FromHal, FromMicrostack, FromMicroapps

-----------------------------------------------------------------------------
(* A generated connection id is one of ConnIds. *)
LEMMA ConnIdTypes ==
  ASSUME NEW t \in Types, NEW s \in Sockets, NEW x \in Indices
  PROVE  BmmGenerateConnId(t, s, x) \in ConnIds
BY DEF ConnIds

(* BmmGetFreeConnIdIndex() answers with a free index when there is one. *)
LEMMA FreeIndex ==
  ASSUME FreeIndices # {}
  PROVE  BmmGetFreeConnIdIndex \in FreeIndices
<1>1. FreeIndices \in SUBSET Nat
  BY SizesAssumption DEF FreeIndices, Indices
<1>2. \E x \in FreeIndices : \A y \in FreeIndices : x <= y
  BY <1>1, LeastExists
<1>3. QED BY <1>2 DEF BmmGetFreeConnIdIndex

(* The type of an entry of gBmm.socket[]. *)
InstTypes == [inUse : BOOLEAN, connId : ConnIds \cup {InvalidConnId},
              socketId : Sockets \cup {NoSocket},
              protocol : Types \cup {"none"}, creditInitialised : BOOLEAN]

(* The handlers of the microstack manager keep the types, and touch neither the
   instances, nor the HAL, nor the queues between the two. *)
LEMMA BmmTypes ==
  ASSUME TypeOK, BmmStep(Microstack)
  PROVE  /\ TypeOK'
         /\ UNCHANGED <<halVars, instances, appVars, hal2om, om2hal, om2awm, awm2om>>
<1> USE DEF TypeOK, ChannelsTypeOK
<1>1. UNCHANGED <<halVars, instances, appVars>> /\ Microstack
  BY DEF BmmStep
<1>2. ASSUME om2bmm' \in Seq(OmToBmmMsgs), bmm2om' \in Seq(BmmToOmMsgs), BmmTypeOK',
             UNCHANGED <<hal2om, om2hal, om2awm, awm2om>>
      PROVE  TypeOK'
  BY <1>1, <1>2 DEF HalTypeOK, InstancesTypeOK, AppsTypeOK, halVars, appVars
<1>3. ASSUME NEW paramsOk \in BOOLEAN, NEW filterOk \in BOOLEAN,
             BmmSocketOffloadReqHandler(paramsOk, filterOk)
      PROVE  om2bmm' \in Seq(OmToBmmMsgs) /\ bmm2om' \in Seq(BmmToOmMsgs) /\ BmmTypeOK'
  <2> DEFINE m == Head(om2bmm)
             x == BmmGetFreeConnIdIndex
             c == BmmGenerateConnId(m.type, m.id, x)
  <2>1. /\ om2bmm' \in Seq(OmToBmmMsgs)
        /\ m.id \in Sockets /\ m.type \in Types /\ m.context \in Slots
    BY <1>3, QueueTypes, MessageFields DEF BmmSocketOffloadReqHandler, Next1
  <2>2. \A result \in Results, d \in ConnIds \cup {InvalidConnId} :
           OffloadCfm(m, d, result) \in BmmToOmMsgs
    BY <2>1 DEF OffloadCfm, BmmToOmMsgs
  <2>3. CASE RefusedByTable(m.id, m.type) \/ ~paramsOk
    <3>1. bmm2om' = Append(bmm2om, OffloadCfm(m, InvalidConnId, "FAILURE")) /\ UNCHANGED socket
      BY <1>3, <2>3 DEF BmmSocketOffloadReqHandler
    <3>2. QED BY <2>1, <2>2, <3>1, QueueTypes DEF Results, BmmTypeOK
  <2>4. CASE ~(RefusedByTable(m.id, m.type) \/ ~paramsOk)
    <3>1. x \in Indices
      BY <2>4, FreeIndex DEF RefusedByTable, FreeIndices
    <3>2. c \in ConnIds
      BY <2>1, <3>1, ConnIdTypes
    <3>3. \/ /\ bmm2om' = Append(bmm2om, OffloadCfm(m, c, "SUCCESS"))
             /\ socket' = [socket EXCEPT ![x] =
                             [inUse |-> TRUE, connId |-> c, socketId |-> m.id,
                              protocol |-> m.type, creditInitialised |-> FALSE]]
          \/ /\ bmm2om' = Append(bmm2om, OffloadCfm(m, c, "FAILURE"))
             /\ UNCHANGED socket
      BY <1>3, <2>4 DEF BmmSocketOffloadReqHandler
    <3>4. bmm2om' \in Seq(BmmToOmMsgs)
      <4>1. PICK result \in Results : bmm2om' = Append(bmm2om, OffloadCfm(m, c, result))
        BY <3>3 DEF Results
      <4>2. OffloadCfm(m, c, result) \in BmmToOmMsgs
        BY <2>2, <3>2
      <4> HIDE DEF m, x, c
      <4>3. QED BY <4>1, <4>2, QueueTypes
    <3>5. BmmTypeOK'
      <4> DEFINE inst == [inUse |-> TRUE, connId |-> c, socketId |-> m.id,
                          protocol |-> m.type, creditInitialised |-> FALSE]
      <4>1. inst \in InstTypes
        BY <2>1, <3>2 DEF InstTypes
      <4>2. socket' = [socket EXCEPT ![x] = inst] \/ socket' = socket
        BY <3>3
      <4> HIDE DEF m, x, c, inst
      <4>3. QED BY <3>1, <4>1, <4>2 DEF BmmTypeOK, InstTypes
    <3>6. QED BY <2>1, <3>4, <3>5
  <2>5. QED BY <2>3, <2>4
<1>4. ASSUME NEW c, BmmIsConnIdValid(c)
      PROVE  IndexOf(c) \in Indices
  BY <1>4 DEF BmmIsConnIdValid, IndexOf
<1>5. CASE BmmSocketCloseReqHandler
  <2>1. /\ om2bmm' \in Seq(OmToBmmMsgs)
        /\ Head(om2bmm).connId \in ConnIds \cup {InvalidConnId}
    BY <1>5, QueueTypes, MessageFields DEF BmmSocketCloseReqHandler, Next1
  <2>2. \A result \in Results :
          [op |-> "CLOSE_CFM", connId |-> Head(om2bmm).connId, result |-> result] \in BmmToOmMsgs
    BY <2>1 DEF BmmToOmMsgs
  <2>3. bmm2om' \in Seq(BmmToOmMsgs)
    <3>1. PICK result \in Results :
            bmm2om' = Append(bmm2om, [op |-> "CLOSE_CFM", connId |-> Head(om2bmm).connId,
                                      result |-> result])
      BY <1>5 DEF BmmSocketCloseReqHandler, Results
    <3>2. QED BY <2>2, <3>1, QueueTypes
  <2>4. FreeInst \in InstTypes
    BY DEF FreeInst, InstTypes
  <2>5. BmmTypeOK'
    <3>1. socket' = socket \/ \E x \in Indices : socket' = [socket EXCEPT ![x] = FreeInst]
      BY <1>4, <1>5 DEF BmmSocketCloseReqHandler
    <3>2. QED BY <2>4, <3>1 DEF BmmTypeOK, InstTypes
  <2>6. UNCHANGED <<hal2om, om2hal, om2awm, awm2om>>
    BY <1>5 DEF BmmSocketCloseReqHandler
  <2>7. QED BY <1>1, <1>2, <2>1, <2>3, <2>5, <2>6
<1>6. CASE BmmSocketSetParamsReqHandler
  <2>1. om2bmm' \in Seq(OmToBmmMsgs) /\ UNCHANGED <<hal2om, om2hal, bmm2om, om2awm, awm2om>>
    BY <1>6, QueueTypes DEF BmmSocketSetParamsReqHandler, Next1
  <2>2. BmmTypeOK'
    <3>1. socket' = socket
            \/ \E x \in Indices : socket' = [socket EXCEPT ![x].creditInitialised = TRUE]
      BY <1>4, <1>6 DEF BmmSocketSetParamsReqHandler
    <3>2. socket \in [Indices -> InstTypes]
      BY DEF BmmTypeOK, InstTypes
    <3>3. ASSUME NEW x \in Indices, socket' = [socket EXCEPT ![x].creditInitialised = TRUE]
          PROVE  socket' \in [Indices -> InstTypes]
      <4>1. [socket[x] EXCEPT !.creditInitialised = TRUE] \in InstTypes
        BY <3>2 DEF InstTypes
      <4>2. socket' = [socket EXCEPT ![x] = [socket[x] EXCEPT !.creditInitialised = TRUE]]
        BY <3>3
      <4>3. QED BY <3>2, <4>1, <4>2
    <3>4. socket' \in [Indices -> InstTypes]
      BY <3>1, <3>2, <3>3
    <3>5. QED BY <3>4 DEF BmmTypeOK, InstTypes
  <2>3. QED BY <1>1, <1>2, <2>1, <2>2
<1>7. \A paramsOk, filterOk \in BOOLEAN : BmmSocketOffloadReqHandler(paramsOk, filterOk) =>
        UNCHANGED <<hal2om, om2hal, om2awm, awm2om>>
  BY DEF BmmSocketOffloadReqHandler
<1>8. QED BY <1>1, <1>2, <1>3, <1>5, <1>6, <1>7 DEF Microstack

(* The same for the entries of a microapp's table. *)
LEMMA LeastEntry ==
  ASSUME NEW found \in SUBSET Entries, found # {}
  PROVE  Lowest(found) \in found
<1>1. found \in SUBSET Nat
  BY MicroAppsAssumption DEF Entries
<1>2. \E k \in found : \A l \in found : k <= l
  BY <1>1, LeastExists
<1>3. QED BY <1>2 DEF Lowest

(* Writing one entry of a table of tables. *)
LEMMA TableEntry ==
  ASSUME NEW A, NEW B, NEW C, NEW f \in [A -> [B -> C]], NEW a \in A, NEW b \in B, NEW c \in C
  PROVE  [f EXCEPT ![a][b] = c] \in [A -> [B -> C]]
OBVIOUS

(* The app manager and the microapps keep the types, and touch neither the
   instances, nor the HAL, nor the queues between the two. *)
LEMMA AwmTypes ==
  ASSUME TypeOK,
         AwmStep(AppManager) \/ AwmStep(\E t \in Types, s \in Sockets : close_socket_qapi(t, s))
  PROVE  /\ TypeOK'
         /\ UNCHANGED <<halVars, instances, hal2om, om2hal>>
<1> USE DEF TypeOK, ChannelsTypeOK
<1>1. /\ UNCHANGED <<halVars, instances, socket>>
      /\ AppManager \/ \E t \in Types, s \in Sockets : close_socket_qapi(t, s)
  BY DEF AwmStep
<1>2. ASSUME om2awm' \in Seq(OmToAwmMsgs), awm2om' \in Seq(AwmToOmMsgs), AppsTypeOK',
             UNCHANGED <<hal2om, om2hal, om2bmm, bmm2om>>
      PROVE  TypeOK' /\ UNCHANGED <<halVars, instances, hal2om, om2hal>>
  BY <1>1, <1>2 DEF HalTypeOK, InstancesTypeOK, BmmTypeOK, halVars
<1>3. \A s \in Sockets \cup {UnknownId}, status \in Results :
         OpenRes(s, status) \in Seq(AwmToOmMsgs)
  BY QueueTypes DEF OpenRes, AwmToOmMsgs
<1>4. CASE open_socket_req
  <2> DEFINE m == Head(om2awm)
  <2>1. /\ om2awm' \in Seq(OmToAwmMsgs) /\ m.id \in Sockets
        /\ UNCHANGED <<hal2om, om2hal, om2bmm, bmm2om>>
    BY <1>4, QueueTypes, MessageFields DEF open_socket_req, Next1
  <2>2. CASE EndpointType(m.ep) \in Types
    <3> DEFINE t == EndpointType(m.ep)
    <3>1. socket_opened(t, m)
      BY <1>4, <2>2 DEF open_socket_req
    <3>2. Unused(t) # {} => Lowest(Unused(t)) \in Entries
      BY LeastEntry DEF Unused
    <3>3. t \in Types
      BY <2>2
    <3> HIDE DEF m, t
    <3>4. awm2om' \in Seq(AwmToOmMsgs)
      BY <1>3, <2>1, <3>1 DEF socket_opened, Results
    <3>5. AppsTypeOK'
      <4>1. socketsInUse' = socketsInUse \/ socketsInUse' = [socketsInUse EXCEPT ![t] = @ + 1]
        BY <3>1 DEF socket_opened, appVars
      <4>2. \/ socketDetails' = socketDetails
            \/ \E k \in Entries : socketDetails' = [socketDetails EXCEPT ![t][k] = m.id]
        BY <3>1, <3>2 DEF socket_opened, appVars
      <4>3. socketDetails' \in [Types -> [Entries -> Sockets \cup {NoSocket}]]
        <5>1. socketDetails \in [Types -> [Entries -> Sockets \cup {NoSocket}]]
          BY DEF AppsTypeOK
        <5>2. CASE socketDetails' = socketDetails
          BY <5>1, <5>2
        <5>3. ASSUME NEW k \in Entries, socketDetails' = [socketDetails EXCEPT ![t][k] = m.id]
              PROVE  socketDetails' \in [Types -> [Entries -> Sockets \cup {NoSocket}]]
          BY <2>1, <3>3, <5>1, <5>3, TableEntry
        <5>4. QED BY <4>2, <5>2, <5>3
      <4>4. socketsInUse' \in [Types -> Int]
        BY <3>3, <4>1 DEF AppsTypeOK
      <4>5. QED BY <4>3, <4>4 DEF AppsTypeOK
    <3>6. QED BY <1>2, <2>1, <3>4, <3>5
  <2>3. CASE EndpointType(m.ep) \notin Types
    <3>1. awm2om' = OpenRes(UnknownId, "FAILURE") /\ UNCHANGED appVars
      BY <1>4, <2>3 DEF open_socket_req
    <3>2. QED BY <1>2, <1>3, <2>1, <3>1 DEF AppsTypeOK, appVars, Results
  <2>4. QED BY <2>2, <2>3
<1>5. CASE close_socket_cmd
  <2> DEFINE m == Head(om2awm)
  <2>1. /\ om2awm' \in Seq(OmToAwmMsgs)
        /\ UNCHANGED <<hal2om, om2hal, om2bmm, bmm2om, awm2om>>
    BY <1>5, QueueTypes DEF close_socket_cmd, Next1
  <2>2. AppsTypeOK'
    <3>1. CASE EndpointType(m.ep) \in Types
      <4> DEFINE t == EndpointType(m.ep)
      <4>1. socket_closed(t, m.id)
        BY <1>5, <3>1 DEF close_socket_cmd
      <4>2. Holding(t, m.id) # {} => Lowest(Holding(t, m.id)) \in Entries
        BY LeastEntry DEF Holding
      <4>3. t \in Types
        BY <3>1
      <4> HIDE DEF m, t
      <4>4. socketsInUse' = socketsInUse \/ socketsInUse' = [socketsInUse EXCEPT ![t] = @ - 1]
        BY <4>1 DEF socket_closed, appVars
      <4>5. \/ socketDetails' = socketDetails
            \/ \E k \in Entries : socketDetails' = [socketDetails EXCEPT ![t][k] = NoSocket]
        BY <4>1, <4>2 DEF socket_closed, appVars
      <4>6. socketDetails' \in [Types -> [Entries -> Sockets \cup {NoSocket}]]
        <5>1. socketDetails \in [Types -> [Entries -> Sockets \cup {NoSocket}]]
          BY DEF AppsTypeOK
        <5>2. CASE socketDetails' = socketDetails
          BY <5>1, <5>2
        <5>3. ASSUME NEW k \in Entries, socketDetails' = [socketDetails EXCEPT ![t][k] = NoSocket]
              PROVE  socketDetails' \in [Types -> [Entries -> Sockets \cup {NoSocket}]]
          BY <4>3, <5>1, <5>3, TableEntry
        <5>4. QED BY <4>5, <5>2, <5>3
      <4>7. socketsInUse' \in [Types -> Int]
        BY <4>3, <4>4 DEF AppsTypeOK
      <4>8. QED BY <4>6, <4>7 DEF AppsTypeOK
    <3>2. CASE EndpointType(m.ep) \notin Types
      BY <1>5, <3>2 DEF close_socket_cmd, AppsTypeOK, appVars
    <3>3. QED BY <3>1, <3>2
  <2>3. QED BY <1>2, <2>1, <2>2
<1>6. ASSUME NEW t \in Types, NEW s \in Sockets, close_socket_qapi(t, s)
      PROVE  TypeOK' /\ UNCHANGED <<halVars, instances, hal2om, om2hal>>
  <2>1. /\ awm2om' = Append(awm2om, [op |-> "CLOSE_IND", id |-> s])
        /\ UNCHANGED <<appVars, hal2om, om2hal, om2bmm, bmm2om, om2awm>>
    BY <1>6 DEF close_socket_qapi
  <2>2. [op |-> "CLOSE_IND", id |-> s] \in AwmToOmMsgs
    BY DEF AwmToOmMsgs
  <2>3. QED BY <1>2, <2>1, <2>2, QueueTypes DEF AppsTypeOK, appVars
<1>7. QED BY <1>1, <1>4, <1>5, <1>6 DEF AppManager

-----------------------------------------------------------------------------
(* The open requests and the last answers of a socket. *)
OpenReqs(s) == {m \in HalToOmMsgs : m.op = "OPEN_SOCKET" /\ m.id = s}
LastAnswers(s) == {m \in OmToHalMsgs : LastAnswer(m) /\ m.id = s}

(* OneOwner, as the proof counts it: of the pending requests P, the serving  *)
(* instances S, the last answers A and the removals R of a socket there is  *)
(* exactly one when the socket has an entry, and none when it has not.     *)
Ledger(P, S, A, R, closed) ==
  /\ One(P) /\ One(S) /\ One(A) /\ One(R)
  /\ P = {} \/ (S = {} /\ A = {} /\ R = {})
  /\ S = {} \/ (A = {} /\ R = {})
  /\ A = {} \/ R = {}
  /\ closed <=> (P = {} /\ S = {} /\ A = {} /\ R = {})

Books ==
  \A s \in Sockets :
    Ledger(Where(hal2om, OpenReqs(s)), Serving(s), Where(om2hal, LastAnswers(s)), Removing(s),
           getState(s) = "CLOSED")

(* A step that changes no count and no entry leaves the ledger right. *)
LEMMA LedgerKept ==
  ASSUME NEW P, NEW S, NEW A, NEW R, NEW closed \in BOOLEAN, Ledger(P, S, A, R, closed),
         NEW P2, NEW S2, NEW A2, NEW R2, NEW closed2 \in BOOLEAN,
         Same(P, P2), Same(S, S2), Same(A, A2), Same(R, R2), closed <=> closed2
  PROVE  Ledger(P2, S2, A2, R2, closed2)
BY DEF Ledger, Same

(* A set has as many elements as itself. *)
LEMMA SameRefl == \A X : Same(X, X)
BY DEF Same

(* Membership in the two sets of messages that count. *)
LEMMA HalMessages ==
  /\ \A s \in Sockets, m \in HalToOmMsgs : m \in OpenReqs(s) <=> m.op = "OPEN_SOCKET" /\ m.id = s
  /\ \A s \in Sockets, m \in OmToHalMsgs : m \in LastAnswers(s) <=> LastAnswer(m) /\ m.id = s
BY DEF OpenReqs, LastAnswers

(* CloseSocket sends no open request and makes or removes no entry. *)
LEMMA CloseSocketBooks ==
  ASSUME TypeOK, NEW s0 \in Sockets, NEW s \in Sockets, CloseSocket(s0)
  PROVE  /\ Same(Where(hal2om, OpenReqs(s)), Where(hal2om', OpenReqs(s)))
         /\ getState(s) = "CLOSED" <=> getState(s)' = "CLOSED"
<1>1. hal2om' = Append(hal2om, [op |-> "CLOSE_SOCKET", id |-> s0]) /\ updateState(s0, "CLOSING")
  BY DEF CloseSocket
<1>2. /\ [op |-> "CLOSE_SOCKET", id |-> s0] \in HalToOmMsgs
      /\ [op |-> "CLOSE_SOCKET", id |-> s0] \notin OpenReqs(s)
  BY DEF HalToOmMsgs, OpenReqs
<1>3. Same(Where(hal2om, OpenReqs(s)), Where(hal2om', OpenReqs(s)))
  BY <1>1, <1>2, WhereAppend DEF TypeOK, ChannelsTypeOK
<1>4. getState(s) = "CLOSED" <=> getState(s)' = "CLOSED"
  BY <1>1 DEF TypeOK, HalTypeOK, updateState, getState
<1>5. QED BY <1>3, <1>4

(* opened() adds the first owner of a socket that had none; closed() adds nothing. *)
LEMMA BinderBooks ==
  ASSUME TypeOK, Books, HalStep(StackCall) \/ HalStep(ClosedCommit)
  PROVE  Books'
<1> SUFFICES ASSUME NEW s \in Sockets
             PROVE  Ledger(Where(hal2om, OpenReqs(s)), Serving(s), Where(om2hal, LastAnswers(s)),
                           Removing(s), getState(s) = "CLOSED")'
  BY DEF Books
<1>1. /\ Ledger(Where(hal2om, OpenReqs(s)), Serving(s), Where(om2hal, LastAnswers(s)),
                Removing(s), getState(s) = "CLOSED")
      /\ Serving(s)' = Serving(s) /\ OpenReqs(s)' = OpenReqs(s) /\ LastAnswers(s)' = LastAnswers(s)
  BY DEF Books, HalStep, Serving, Live
<1>2. ASSUME NEW s0 \in Sockets, NEW c \in Contexts, Opened(s0, c)
      PROVE  Ledger(Where(hal2om, OpenReqs(s)), Serving(s), Where(om2hal, LastAnswers(s)),
                    Removing(s), getState(s) = "CLOSED")'
  <2> DEFINE m == [op |-> "OPEN_SOCKET", id |-> s0, type |-> c.type, ep |-> c.ep]
  <2>1. /\ hal2om' = Append(hal2om, m)
        /\ getState(s0) = "CLOSED"
        /\ stateTable' = [stateTable EXCEPT ![s0] = [state |-> "OPENING", type |-> c.type]]
        /\ UNCHANGED <<om2hal, rx>>
    BY <1>2 DEF Opened
  <2>2. m \in HalToOmMsgs /\ (m \in OpenReqs(s) <=> s = s0)
    BY ContextsAssumption DEF HalToOmMsgs, OpenReqs
  <2>3. /\ Where(om2hal, LastAnswers(s))' = Where(om2hal, LastAnswers(s))
        /\ Removing(s)' = Removing(s)
    BY <1>1, <2>1 DEF Where, Removing
  <2>4. hal2om \in Seq(HalToOmMsgs)
    BY DEF TypeOK, ChannelsTypeOK
  <2> HIDE DEF m
  <2>5. CASE s = s0
    <3>1. getState(s)' # "CLOSED"
      BY <2>1, <2>5 DEF getState, TypeOK, HalTypeOK
    <3>2. /\ Where(hal2om, OpenReqs(s)) = {} /\ Serving(s) = {}
          /\ Where(om2hal, LastAnswers(s)) = {} /\ Removing(s) = {}
      BY <1>1, <2>1, <2>5 DEF Ledger
    <3>3. Where(hal2om', OpenReqs(s)) # {} /\ One(Where(hal2om', OpenReqs(s)))
      BY <2>1, <2>2, <2>4, <2>5, <3>2, WhereAppend
    <3>4. QED BY <1>1, <2>3, <3>1, <3>2, <3>3 DEF Ledger, One
  <2>6. CASE s # s0
    <3>1. getState(s)' = getState(s)
      BY <2>1, <2>6 DEF getState, TypeOK, HalTypeOK
    <3>2. Same(Where(hal2om, OpenReqs(s)), Where(hal2om', OpenReqs(s)))
      BY <2>1, <2>2, <2>4, <2>6, WhereAppend
    <3>3. QED BY <1>1, <2>3, <3>1, <3>2, SameRefl, LedgerKept
  <2>7. QED BY <2>5, <2>6
<1>3. ASSUME NEW s0 \in Sockets, ClosedCheck(s0)
      PROVE  Ledger(Where(hal2om, OpenReqs(s)), Serving(s), Where(om2hal, LastAnswers(s)),
                    Removing(s), getState(s) = "CLOSED")'
  BY <1>1, <1>3 DEF ClosedCheck, Where, Removing, getState
<1>4. CASE ClosedCommit
  <2>1. binder.id \in Sockets /\ CloseSocket(binder.id) /\ UNCHANGED <<rx, om2hal>>
    BY <1>4 DEF ClosedCommit, TypeOK, HalTypeOK
  <2>2. /\ Same(Where(hal2om, OpenReqs(s)), Where(hal2om', OpenReqs(s)))
        /\ getState(s) = "CLOSED" <=> getState(s)' = "CLOSED"
    BY <2>1, CloseSocketBooks
  <2>3. /\ Where(om2hal, LastAnswers(s))' = Where(om2hal, LastAnswers(s))
        /\ Removing(s)' = Removing(s)
    BY <1>1, <2>1 DEF Where, Removing
  <2>4. QED BY <1>1, <2>2, <2>3, SameRefl, LedgerKept
<1>5. QED BY <1>2, <1>3, <1>4 DEF HalStep, StackCall

(* Removing(s), read off the state of glink_rx_thread. *)
LEMMA RxTypes ==
  ASSUME TypeOK, NEW s \in Sockets
  PROVE  /\ Removing(s) = {} <=> ~(rx.op = "remove" /\ rx.id = s)
         /\ One(Removing(s))
BY DEF TypeOK, HalTypeOK, Removing, One

(* glink_rx_thread turns a last answer into the removal of the entry, and that into
   nothing; every other message changes no count. *)
LEMMA RxBooks ==
  ASSUME TypeOK, Books, HalStep(RxThread)
  PROVE  Books'
<1> SUFFICES ASSUME NEW s \in Sockets
             PROVE  Ledger(Where(hal2om, OpenReqs(s)), Serving(s), Where(om2hal, LastAnswers(s)),
                           Removing(s), getState(s) = "CLOSED")'
  BY DEF Books
<1>1. /\ Ledger(Where(hal2om, OpenReqs(s)), Serving(s), Where(om2hal, LastAnswers(s)),
                Removing(s), getState(s) = "CLOSED")
      /\ Serving(s)' = Serving(s) /\ OpenReqs(s)' = OpenReqs(s) /\ LastAnswers(s)' = LastAnswers(s)
  BY DEF Books, HalStep, Serving, Live
<1>2. om2hal \in Seq(OmToHalMsgs)
  BY DEF TypeOK, ChannelsTypeOK
<1>3. ASSUME om2hal # <<>>, LastAnswer(Head(om2hal)), om2hal' = Tail(om2hal), rx = Resting,
             rx' = [op |-> "remove", id |-> Head(om2hal).id], UNCHANGED <<stateTable, hal2om>>
      PROVE  Ledger(Where(hal2om, OpenReqs(s)), Serving(s), Where(om2hal, LastAnswers(s)),
                    Removing(s), getState(s) = "CLOSED")'
  <2>1. Head(om2hal) \in OmToHalMsgs
    BY <1>2, <1>3, QueueTypes
  <2>2. Head(om2hal) \in LastAnswers(s) <=> s = Head(om2hal).id
    BY <1>3, <2>1, HalMessages
  <2>3. /\ Where(hal2om, OpenReqs(s))' = Where(hal2om, OpenReqs(s))
        /\ getState(s)' = getState(s)
    BY <1>1, <1>3 DEF Where, getState
  <2>4. Removing(s) = {}
    BY <1>3 DEF Removing, Resting
  <2>5. CASE s = Head(om2hal).id
    <3>1. /\ Where(om2hal, LastAnswers(s)) # {}
          /\ One(Where(om2hal, LastAnswers(s))) => Where(om2hal', LastAnswers(s)) = {}
      BY <1>2, <1>3, <2>2, <2>5, WhereTail
    <3>2. Removing(s)' = {0}
      BY <1>3, <2>5 DEF Removing
    <3>3. QED BY <1>1, <2>3, <3>1, <3>2 DEF Ledger, One
  <2>6. CASE s # Head(om2hal).id
    <3>1. Same(Where(om2hal, LastAnswers(s)), Where(om2hal', LastAnswers(s)))
      BY <1>2, <1>3, <2>2, <2>6, WhereTail
    <3>2. Removing(s)' = {}
      BY <1>3, <2>6 DEF Removing
    <3>3. QED BY ZenonT(60), <1>1, <2>3, <2>4, <3>1, <3>2, SameRefl, LedgerKept
  <2>7. QED BY <2>5, <2>6
<1>4. ASSUME om2hal # <<>>, ~LastAnswer(Head(om2hal)), om2hal' = Tail(om2hal)
      PROVE  Same(Where(om2hal, LastAnswers(s)), Where(om2hal', LastAnswers(s)))
  <2>1. Head(om2hal) \notin LastAnswers(s)
    BY <1>4 DEF LastAnswers
  <2>2. QED BY <1>2, <1>4, <2>1, WhereTail
<1>5. CASE RxOpenCb
  <2> DEFINE m == Head(om2hal)
  <2>1. /\ om2hal # <<>> /\ m.op = "OPEN_RSP" /\ om2hal' = Tail(om2hal)
        /\ rx = Resting /\ UNCHANGED hal2om
    BY <1>5 DEF RxOpenCb, Next1
  <2>2. m \in OmToHalMsgs /\ m.id \in Sockets
    BY <1>2, <2>1, QueueTypes, MessageFields
  <2>3. CASE m.status = "SUCCESS"
    <3>1. updateState(m.id, "OPENED") /\ UNCHANGED rx
      BY <1>5, <2>3 DEF RxOpenCb
    <3>2. getState(s) = "CLOSED" <=> getState(s)' = "CLOSED"
      BY <2>2, <3>1 DEF TypeOK, HalTypeOK, updateState, getState
    <3>3. Same(Where(om2hal, LastAnswers(s)), Where(om2hal', LastAnswers(s)))
      BY <1>4, <2>1, <2>3 DEF LastAnswer
    <3>4. /\ Where(hal2om, OpenReqs(s))' = Where(hal2om, OpenReqs(s))
          /\ Removing(s)' = Removing(s)
      BY <1>1, <2>1, <3>1 DEF Where, Removing
    <3>5. QED BY <1>1, <3>2, <3>3, <3>4, SameRefl, LedgerKept
  <2>4. CASE m.status # "SUCCESS"
    <3>1. m.status = "FAILURE"
      BY <2>1, <2>2, <2>4 DEF OmToHalMsgs, Results
    <3>2. rx' = [op |-> "remove", id |-> m.id] /\ UNCHANGED stateTable
      BY <1>5, <2>4 DEF RxOpenCb
    <3>3. QED BY <1>3, <2>1, <3>1, <3>2 DEF LastAnswer
  <2>5. QED BY <2>3, <2>4
<1>6. CASE RxCloseCb
  BY <1>3, <1>6 DEF RxCloseCb, Next1, LastAnswer
<1>7. CASE RxCloseInd
  <2>1. /\ om2hal # <<>> /\ Head(om2hal).op = "CLOSE_IND" /\ om2hal' = Tail(om2hal)
        /\ rx = Resting /\ rx'.op # "remove" /\ UNCHANGED <<stateTable, hal2om>>
    BY <1>7 DEF RxCloseInd, Next1, Resting
  <2>2. Same(Where(om2hal, LastAnswers(s)), Where(om2hal', LastAnswers(s)))
    BY <1>4, <2>1 DEF LastAnswer
  <2>3. /\ Where(hal2om, OpenReqs(s))' = Where(hal2om, OpenReqs(s))
        /\ getState(s)' = getState(s)
        /\ Removing(s)' = Removing(s)
    BY <1>1, <2>1 DEF Where, getState, Removing, Resting
  <2>4. QED BY <1>1, <2>2, <2>3, SameRefl, LedgerKept
<1>8. CASE RxClosedCommit
  <2>1. /\ rx.id \in Sockets /\ CloseSocket(rx.id) /\ UNCHANGED om2hal
        /\ rx.op # "remove" /\ rx'.op # "remove"
    BY <1>8 DEF RxClosedCommit, Resting, TypeOK, HalTypeOK
  <2>2. /\ Same(Where(hal2om, OpenReqs(s)), Where(hal2om', OpenReqs(s)))
        /\ getState(s) = "CLOSED" <=> getState(s)' = "CLOSED"
    BY <2>1, CloseSocketBooks
  <2>3. /\ Where(om2hal, LastAnswers(s))' = Where(om2hal, LastAnswers(s))
        /\ Removing(s)' = Removing(s)
    BY <1>1, <2>1 DEF Where, Removing
  <2>4. QED BY <1>1, <2>2, <2>3, SameRefl, LedgerKept
<1>9. CASE removeEntry
  <2>1. /\ rx.op = "remove" /\ rx.id \in Sockets /\ rx' = Resting
        /\ stateTable' = [stateTable EXCEPT ![rx.id] = NoEntry]
        /\ UNCHANGED <<hal2om, om2hal>>
    BY <1>9 DEF removeEntry, TypeOK, HalTypeOK
  <2>2. /\ Where(hal2om, OpenReqs(s))' = Where(hal2om, OpenReqs(s))
        /\ Where(om2hal, LastAnswers(s))' = Where(om2hal, LastAnswers(s))
        /\ Removing(s)' = {}
    BY <1>1, <2>1 DEF Where, Removing, Resting
  <2>3. CASE s = rx.id
    <3>1. getState(s)' = "CLOSED"
      BY <2>1, <2>3 DEF getState, NoEntry, TypeOK, HalTypeOK
    <3>2. Removing(s) # {}
      BY <2>1, <2>3, RxTypes
    <3>3. QED BY <1>1, <2>2, <3>1, <3>2 DEF Ledger, One
  <2>4. CASE s # rx.id
    <3>1. getState(s)' = getState(s)
      BY <2>1, <2>4 DEF getState, TypeOK, HalTypeOK
    <3>2. Removing(s) = {}
      BY <2>4, RxTypes
    <3>3. QED BY <1>1, <2>2, <3>1, <3>2, SameRefl, LedgerKept
  <2>5. QED BY <2>3, <2>4
<1>10. QED BY <1>5, <1>6, <1>7, <1>8, <1>9 DEF HalStep, RxThread

-----------------------------------------------------------------------------
(* No slot below that of a live instance holds the same id.  It is what a    *)
(* look-up from the start of the table needs.  It is kept because an open   *)
(* takes the lowest idle slot: all slots below it are taken, and by         *)
(* OneOwner none of them works for the same socket.                        *)
Routing == \A j \in Live : \A i \in Slots : i < j => instances[i].id # instances[j].id

(* The inductive invariant. *)
IInv == TypeOK /\ LiveIds /\ Books /\ Routing

(* Live, in terms of LiveStates. *)
LEMMA LiveIsLiveStates ==
  ASSUME InstancesTypeOK
  PROVE  Live = {i \in Slots : instances[i].state \in LiveStates}
BY DEF InstancesTypeOK, Live, LiveStates

(* An event at an instance keeps the invariant: if it frees the instance, the last
   answer takes its place in the ledger. *)
LEMMA EventInv ==
  ASSUME IInv, NEW i \in Slots, NEW evt \in Events, NEW c \in ConnIds \cup {InvalidConnId},
         ProcessEvent(i, evt, c), UNCHANGED halVars,
         \A s \in Sockets : Same(Where(hal2om, OpenReqs(s)), Where(hal2om', OpenReqs(s)))
  PROVE  LiveIds' /\ Books' /\ Routing'
<1>1. /\ InstancesTypeOK /\ om2hal \in Seq(OmToHalMsgs)
  BY DEF IInv, TypeOK, ChannelsTypeOK
<1>2. /\ InstancesTypeOK'
      /\ \A j \in Slots : instances'[j].id = instances[j].id
      /\ \A j \in Slots \ {i} : instances'[j].state = instances[j].state
      /\ Keeps(i) \/ Releases(i)
  BY <1>1, InstanceEffect
<1>3. /\ Live = {j \in Slots : instances[j].state \in LiveStates}
      /\ Live' = {j \in Slots : instances'[j].state \in LiveStates}
      /\ "Idle" \notin LiveStates /\ "Gatt" \notin LiveStates
  BY <1>1, <1>2 DEF InstancesTypeOK, Live, LiveStates
<1>4. Live' \subseteq Live
  BY <1>2, <1>3 DEF Keeps, Releases
<1>5. LiveIds'
  BY <1>2, <1>3 DEF IInv, LiveIds, Keeps, Releases
<1>6. Routing'
  BY <1>2, <1>3, <1>4 DEF IInv, Routing
<1>7. Books'
  <2> SUFFICES ASSUME NEW s \in Sockets
               PROVE  Ledger(Where(hal2om, OpenReqs(s)), Serving(s), Where(om2hal, LastAnswers(s)),
                             Removing(s), getState(s) = "CLOSED")'
    BY DEF Books
  <2>1. /\ Ledger(Where(hal2om, OpenReqs(s)), Serving(s), Where(om2hal, LastAnswers(s)),
                  Removing(s), getState(s) = "CLOSED")
        /\ OpenReqs(s)' = OpenReqs(s) /\ LastAnswers(s)' = LastAnswers(s)
        /\ Removing(s)' = Removing(s) /\ getState(s)' = getState(s)
    BY DEF IInv, Books, halVars, Removing, getState
  <2>2. Same(Where(hal2om, OpenReqs(s)), Where(hal2om', OpenReqs(s)))
    OBVIOUS
  <2>3. CASE Keeps(i)
    <3>1. Serving(s)' = Serving(s)
      BY <1>2, <1>3, <2>3 DEF Keeps, Serving
    <3>2. Same(Where(om2hal, LastAnswers(s)), Where(om2hal', LastAnswers(s)))
      <4>1. CASE om2hal' = om2hal
        BY <4>1, SameRefl
      <4>2. CASE /\ instances[i].state \in LiveStates
                 /\ om2hal' = Append(om2hal, OpenOk(instances[i].id))
        <5>1. instances[i].id \in Sockets
          BY <4>2 DEF IInv, LiveIds
        <5>2. OpenOk(instances[i].id) \in OmToHalMsgs /\ OpenOk(instances[i].id) \notin LastAnswers(s)
          BY <5>1 DEF OpenOk, OmToHalMsgs, LastAnswers, LastAnswer, Results
        <5>3. QED BY <1>1, <4>2, <5>2, WhereAppend
      <4>3. QED BY <2>3, <4>1, <4>2 DEF Keeps
    <3>3. QED BY ZenonT(60), <2>1, <2>2, <3>1, <3>2, SameRefl, LedgerKept
  <2>4. CASE Releases(i)
    <3>1. i \in Live /\ Live' = Live \ {i} /\ instances[i].id \in Sockets
      BY <1>2, <1>3, <2>4 DEF Releases, IInv, LiveIds
    <3>2. PICK m \in {OpenFailed(instances[i].id), Closed(instances[i].id)} :
                 om2hal' = Append(om2hal, m)
      BY <2>4 DEF Releases
    <3>3. m \in OmToHalMsgs /\ (m \in LastAnswers(s) <=> s = instances[i].id)
      BY <3>1 DEF OpenFailed, Closed, OmToHalMsgs, LastAnswers, LastAnswer, Results
    <3>4. Serving(s)' = Serving(s) \ {i}
      BY <1>2, <3>1 DEF Serving, Live
    <3>5. CASE s = instances[i].id
      <4>1. i \in Serving(s)
        BY <3>1, <3>5 DEF Serving
      <4>2. /\ Serving(s)' = {} /\ Where(om2hal, LastAnswers(s)) = {}
            /\ Where(hal2om, OpenReqs(s)) = {} /\ Removing(s) = {}
            /\ getState(s) # "CLOSED"
        BY <2>1, <3>4, <4>1 DEF Ledger, One
      <4>3. Where(om2hal', LastAnswers(s)) # {} /\ One(Where(om2hal', LastAnswers(s)))
        BY <1>1, <3>2, <3>3, <3>5, <4>2, WhereAppend
      <4>4. Where(hal2om', OpenReqs(s)) = {}
        BY <2>2, <4>2 DEF Same
      <4>5. QED BY <2>1, <4>2, <4>3, <4>4 DEF Ledger, One
    <3>6. CASE s # instances[i].id
      <4>1. Serving(s)' = Serving(s)
        BY <3>4, <3>6 DEF Serving
      <4>2. Same(Where(om2hal, LastAnswers(s)), Where(om2hal', LastAnswers(s)))
        BY <1>1, <3>2, <3>3, <3>6, WhereAppend
      <4>3. QED BY ZenonT(60), <2>1, <2>2, <4>1, <4>2, SameRefl, LedgerKept
    <3>7. QED BY <3>5, <3>6
  <2>5. QED BY <1>2, <2>3, <2>4
<1>8. QED BY <1>5, <1>6, <1>7

(* An open request keeps the invariant: the instance that takes it, or the refusal,
   replaces it in the ledger; the lowest idle slot is taken, so that no slot below it
   can hold the same id. *)
LEMMA OpenInv ==
  ASSUME IInv, handle_open_socket, UNCHANGED halVars
  PROVE  LiveIds' /\ Books' /\ Routing'
<1> DEFINE m == Head(hal2om)
           i == find_idle_offload_instance
<1>1. /\ InstancesTypeOK /\ om2hal \in Seq(OmToHalMsgs) /\ hal2om \in Seq(HalToOmMsgs)
  BY DEF IInv, TypeOK, ChannelsTypeOK
<1>2. /\ hal2om # <<>> /\ hal2om' = Tail(hal2om) /\ m.op = "OPEN_SOCKET"
      /\ m \in HalToOmMsgs /\ m.id \in Sockets
  BY <1>1, QueueTypes, MessageFields DEF handle_open_socket, Next1
<1>3. ASSUME NEW s \in Sockets
      PROVE  /\ Ledger(Where(hal2om, OpenReqs(s)), Serving(s), Where(om2hal, LastAnswers(s)),
                       Removing(s), getState(s) = "CLOSED")
             /\ OpenReqs(s)' = OpenReqs(s) /\ LastAnswers(s)' = LastAnswers(s)
             /\ Removing(s)' = Removing(s) /\ getState(s)' = getState(s)
  BY DEF IInv, Books, halVars, Removing, getState
<1>4. ASSUME NEW s \in Sockets, s # m.id
      PROVE  Same(Where(hal2om, OpenReqs(s)), Where(hal2om', OpenReqs(s)))
  <2>1. m \notin OpenReqs(s)
    BY <1>4 DEF OpenReqs
  <2>2. QED BY <1>1, <1>2, <2>1, WhereTail
<1>5. /\ Where(hal2om', OpenReqs(m.id)) = {}
      /\ Serving(m.id) = {} /\ Where(om2hal, LastAnswers(m.id)) = {} /\ Removing(m.id) = {}
      /\ getState(m.id) # "CLOSED"
  <2>1. m \in OpenReqs(m.id)
    BY <1>2 DEF OpenReqs
  <2>2. /\ Where(hal2om, OpenReqs(m.id)) # {}
        /\ One(Where(hal2om, OpenReqs(m.id))) => Where(hal2om', OpenReqs(m.id)) = {}
    BY <1>1, <1>2, <2>1, WhereTail
  <2>3. Ledger(Where(hal2om, OpenReqs(m.id)), Serving(m.id), Where(om2hal, LastAnswers(m.id)),
               Removing(m.id), getState(m.id) = "CLOSED")
    BY <1>2, <1>3
  <2>4. QED BY <2>2, <2>3 DEF Ledger
<1>6. CASE i = 0
  <2>1. om2hal' = Append(om2hal, OpenFailed(m.id)) /\ instances' = instances
    BY <1>6 DEF handle_open_socket, OpenFailed
  <2>2. LiveIds' /\ Routing'
    BY <2>1 DEF IInv, LiveIds, Routing, Live
  <2>3. ASSUME NEW s \in Sockets
        PROVE  Ledger(Where(hal2om, OpenReqs(s)), Serving(s), Where(om2hal, LastAnswers(s)),
                      Removing(s), getState(s) = "CLOSED")'
    <3>1. /\ OpenFailed(m.id) \in OmToHalMsgs
          /\ OpenFailed(m.id) \in LastAnswers(s) <=> s = m.id
      BY <1>2 DEF OpenFailed, OmToHalMsgs, LastAnswers, LastAnswer, Results
    <3>2. Serving(s)' = Serving(s)
      BY <2>1 DEF Serving, Live
    <3>3. CASE s = m.id
      <4>1. Where(om2hal', LastAnswers(s)) # {} /\ One(Where(om2hal', LastAnswers(s)))
        BY <1>1, <1>5, <2>1, <3>1, <3>3, WhereAppend
      <4> HIDE DEF m
      <4>2. QED BY <1>3, <1>5, <3>2, <3>3, <4>1 DEF Ledger, One
    <3>4. CASE s # m.id
      <4>1. Same(Where(om2hal, LastAnswers(s)), Where(om2hal', LastAnswers(s)))
        BY <1>1, <2>1, <3>1, <3>4, WhereAppend
      <4>2. QED BY <1>3, <1>4, <3>2, <3>4, <4>1, SameRefl, LedgerKept
    <3>5. QED BY <3>3, <3>4
  <2>4. QED BY <2>2, <2>3 DEF Books
<1>7. CASE i # 0
  <2> DEFINE Idles == {j \in Slots : instances[j].state = "Idle"}
  <2>1. i \in Slots /\ instances[i].state = "Idle"
           /\ \A j \in Slots : j < i => instances[j].state # "Idle"
    <3>1. Idles \in SUBSET Slots /\ i = First(Idles)
      BY DEF find_idle_offload_instance
    <3>2. i \in Idles /\ \A j \in Idles : i <= j
      <4> HIDE DEF i, Idles
      <4>1. QED BY <1>7, <3>1, FirstIsLeast
    <3>3. \A j \in Slots : j \in Int
      BY DEF Slots
    <3> HIDE DEF i
    <3>4. QED BY <3>2, <3>3
  <2>2. /\ instances' = [instances EXCEPT ![i] =
                           [@ EXCEPT !.state = "OffloadReq",
                                     !.id = m.id, !.type = m.type, !.ep = m.ep]]
        /\ UNCHANGED om2hal
    BY <1>7, FreeRows DEF handle_open_socket
  <2> HIDE DEF m, i
  <2>3. /\ instances'[i].state = "OffloadReq" /\ instances'[i].id = m.id
        /\ \A j \in Slots \ {i} : instances'[j] = instances[j]
    BY <1>1, <2>1, <2>2 DEF InstancesTypeOK
  <2>4. Live' = Live \cup {i} /\ i \notin Live
    BY <2>1, <2>3 DEF Live
  <2>5. LiveIds'
    BY <1>2, <2>3 DEF IInv, LiveIds
  <2>6. \A j \in Live : instances[j].id # m.id
    BY <1>5 DEF Serving
  <2>7. Routing'
    <3> SUFFICES ASSUME NEW j \in Live', NEW k \in Slots, k < j
                 PROVE  instances'[k].id # instances'[j].id
      BY DEF Routing
    <3>1. CASE j = i
      <4>1. k # i /\ instances[k].state # "Idle"
        BY <2>1, <3>1 DEF Slots
      <4>2. instances[k].id # m.id
        BY <1>2, <2>6, <4>1, SocketsAssumption DEF IInv, LiveIds, Live
      <4>3. QED BY <2>3, <3>1, <4>1, <4>2
    <3>2. CASE j # i /\ k = i
      BY <2>3, <2>4, <2>6, <3>2 DEF Live
    <3>3. CASE j # i /\ k # i
      BY <2>3, <2>4, <3>3 DEF IInv, Routing, Live
    <3>4. QED BY <3>1, <3>2, <3>3
  <2>8. ASSUME NEW s \in Sockets
        PROVE  Ledger(Where(hal2om, OpenReqs(s)), Serving(s), Where(om2hal, LastAnswers(s)),
                      Removing(s), getState(s) = "CLOSED")'
    <3>1. Where(om2hal, LastAnswers(s))' = Where(om2hal, LastAnswers(s))
      BY <1>3, <2>2 DEF Where
    <3>2. CASE s = m.id
      <4>1. Serving(s)' = {i}
        BY <2>1, <2>3, <2>4, <2>6, <3>2 DEF Serving, Live
      <4>2. QED BY <1>3, <1>5, <3>1, <3>2, <4>1 DEF Ledger, One
    <3>3. CASE s # m.id
      <4>1. Serving(s)' = Serving(s)
        BY <2>3, <2>4, <3>3 DEF Serving, Live
      <4>2. QED BY <1>3, <1>4, <3>1, <3>3, <4>1, SameRefl, LedgerKept
    <3>4. QED BY <3>2, <3>3
  <2>9. QED BY <2>5, <2>7, <2>8 DEF Books
<1>8. QED BY <1>6, <1>7

(* Every handler of the offload manager keeps the invariant. *)
LEMMA OmInv ==
  ASSUME IInv,
         OmStep(FromHal) \/ OmStep(FromMicrostack) \/ OmStep(FromMicroapps) \/ OmStep(GattSessions)
  PROVE  LiveIds' /\ Books' /\ Routing'
<1>1. /\ UNCHANGED halVars
      /\ FromHal \/ FromMicrostack \/ FromMicroapps \/ GattSessions
      /\ InstancesTypeOK /\ om2hal \in Seq(OmToHalMsgs) /\ hal2om \in Seq(HalToOmMsgs)
      /\ bmm2om \in Seq(BmmToOmMsgs) /\ awm2om \in Seq(AwmToOmMsgs)
  BY DEF OmStep, IInv, TypeOK, ChannelsTypeOK
<1>2. \A s \in Sockets : Same(Where(hal2om, OpenReqs(s)), Where(hal2om, OpenReqs(s)))
  BY SameRefl
<1>3. ASSUME UNCHANGED <<om2hal, instances>>,
             \A s \in Sockets : Same(Where(hal2om, OpenReqs(s)), Where(hal2om', OpenReqs(s)))
      PROVE  LiveIds' /\ Books' /\ Routing'
  <2>1. LiveIds' /\ Routing'
    BY <1>3 DEF IInv, LiveIds, Routing, Live
  <2>2. ASSUME NEW s \in Sockets
        PROVE  Ledger(Where(hal2om, OpenReqs(s)), Serving(s), Where(om2hal, LastAnswers(s)),
                      Removing(s), getState(s) = "CLOSED")'
    <3>1. /\ Ledger(Where(hal2om, OpenReqs(s)), Serving(s), Where(om2hal, LastAnswers(s)),
                    Removing(s), getState(s) = "CLOSED")
          /\ OpenReqs(s)' = OpenReqs(s) /\ Serving(s)' = Serving(s)
          /\ Where(om2hal, LastAnswers(s))' = Where(om2hal, LastAnswers(s))
          /\ Removing(s)' = Removing(s) /\ getState(s)' = getState(s)
      BY <1>1, <1>3 DEF IInv, Books, halVars, Removing, getState, Serving, Live, Where, LastAnswers
    <3>2. QED BY <1>3, <3>1, SameRefl, LedgerKept
  <2>3. QED BY <2>1, <2>2 DEF Books
<1>4. \A i \in Slots : instances[i].pseudo_id \in ConnIds \cup {InvalidConnId}
  BY <1>1 DEF InstancesTypeOK
<1>5. CASE handle_open_socket
  BY <1>1, <1>5, OpenInv
<1>6. CASE handle_close_socket
  <2>1. hal2om # <<>> /\ Head(hal2om).op = "CLOSE_SOCKET" /\ hal2om' = Tail(hal2om)
    BY <1>6 DEF handle_close_socket, Next1
  <2>2. ASSUME NEW s \in Sockets
        PROVE  Same(Where(hal2om, OpenReqs(s)), Where(hal2om', OpenReqs(s)))
    <3>1. Head(hal2om) \notin OpenReqs(s)
      BY <2>1 DEF OpenReqs
    <3>2. QED BY <1>1, <2>1, <3>1, WhereTail
  <2>3. \/ UNCHANGED <<om2hal, instances>>
        \/ \E i \in Slots : ProcessEvent(i, "UNOFFLOAD_REQ", instances[i].pseudo_id)
    BY <1>1, <1>6, LookUps DEF handle_close_socket, Drop
  <2>4. QED BY <1>1, <1>3, <1>4, <2>2, <2>3, EventInv DEF Events
<1>7. CASE microstack_offload_cfm
  <2>1. /\ Head(bmm2om).context \in Slots /\ Head(bmm2om).connId \in ConnIds \cup {InvalidConnId}
        /\ UNCHANGED hal2om
    BY <1>1, <1>7, QueueTypes, MessageFields DEF microstack_offload_cfm, Next1
  <2>2. \E evt \in Events : ProcessEvent(Head(bmm2om).context, evt, Head(bmm2om).connId)
    BY <1>7 DEF microstack_offload_cfm, Events
  <2>3. QED BY <1>1, <1>2, <2>1, <2>2, EventInv
<1>8. CASE microstack_unoffload_cfm
  <2>1. \/ UNCHANGED <<om2hal, instances>>
        \/ \E i \in Slots :
              ProcessEvent(i, "UNOFFLOAD_FROM_MICROSTACK_SUCCESS", instances[i].pseudo_id)
    BY <1>1, <1>8, LookUps DEF microstack_unoffload_cfm, Drop
  <2>2. UNCHANGED hal2om
    BY <1>8 DEF microstack_unoffload_cfm
  <2>3. QED BY <1>1, <1>2, <1>3, <1>4, <2>1, <2>2, EventInv DEF Events
<1>9. CASE uapp_open_socket_res
  <2>1. \/ UNCHANGED <<om2hal, instances>>
        \/ \E i \in Slots, evt \in Events : ProcessEvent(i, evt, instances[i].pseudo_id)
    BY <1>1, <1>9, LookUps DEF uapp_open_socket_res, Drop, Events
  <2>2. UNCHANGED hal2om
    BY <1>9 DEF uapp_open_socket_res
  <2>3. QED BY <1>1, <1>2, <1>3, <1>4, <2>1, <2>2, EventInv
<1>10. CASE uapp_socket_close_ind
  <2> DEFINE m == [op |-> "CLOSE_IND", id |-> Head(awm2om).id]
  <2>1. /\ om2hal' = Append(om2hal, m) /\ UNCHANGED <<instances, hal2om>>
        /\ Head(awm2om).id \in Sockets
    BY <1>1, <1>10, QueueTypes, MessageFields DEF uapp_socket_close_ind, Next1
  <2>2. LiveIds' /\ Routing'
    BY <2>1 DEF IInv, LiveIds, Routing, Live
  <2>3. ASSUME NEW s \in Sockets
        PROVE  Ledger(Where(hal2om, OpenReqs(s)), Serving(s), Where(om2hal, LastAnswers(s)),
                      Removing(s), getState(s) = "CLOSED")'
    <3>1. m \in OmToHalMsgs /\ m \notin LastAnswers(s)
      BY <2>1 DEF OmToHalMsgs, LastAnswers, LastAnswer
    <3>2. Same(Where(om2hal, LastAnswers(s)), Where(om2hal', LastAnswers(s)))
      BY <1>1, <2>1, <3>1, WhereAppend
    <3>3. /\ Ledger(Where(hal2om, OpenReqs(s)), Serving(s), Where(om2hal, LastAnswers(s)),
                    Removing(s), getState(s) = "CLOSED")
          /\ LastAnswers(s)' = LastAnswers(s) /\ Serving(s)' = Serving(s)
          /\ Where(hal2om, OpenReqs(s))' = Where(hal2om, OpenReqs(s))
          /\ Removing(s)' = Removing(s) /\ getState(s)' = getState(s)
      BY <1>1, <2>1 DEF IInv, Books, halVars, Removing, getState, Serving, Live, Where, OpenReqs
    <3>4. QED BY <3>2, <3>3, SameRefl, LedgerKept
  <2>4. QED BY <2>2, <2>3 DEF Books
<1>11. CASE GattSessions
  <2>1. UNCHANGED <<om2hal, hal2om>>
    BY <1>11 DEF GattSessions, gatt_offload, gatt_clear_offload_data, channels
  <2>2. PICK i \in Slots :
          /\ \A j \in Slots \ {i} : instances'[j] = instances[j]
          /\ \/ /\ instances[i].state = "Idle" /\ instances'[i].state = "Gatt"
                /\ instances'[i].id = NoSocket
             \/ /\ instances[i].state = "Gatt" /\ instances'[i].state = "Idle"
                /\ instances'[i].id = instances[i].id
    <3>1. CASE gatt_offload
      <4> DEFINE i == find_idle_offload_instance
                 Idles == {j \in Slots : instances[j].state = "Idle"}
      <4>1. /\ i # 0
            /\ instances' = [instances EXCEPT ![i] = [@ EXCEPT !.state = "Gatt", !.id = NoSocket]]
        BY <3>1 DEF gatt_offload
      <4>2. i \in Idles
        <5>1. Idles \in SUBSET Slots /\ i = First(Idles)
          BY DEF find_idle_offload_instance
        <5> HIDE DEF i, Idles
        <5>2. QED BY <4>1, <5>1, FirstIsLeast
      <4>3. i \in Slots /\ instances[i].state = "Idle"
        BY <4>2
      <4> HIDE DEF i
      <4>4. QED BY <1>1, <4>1, <4>3 DEF InstancesTypeOK
    <3>2. ASSUME NEW i \in Slots, gatt_clear_offload_data(i)
          PROVE  /\ \A j \in Slots \ {i} : instances'[j] = instances[j]
                 /\ instances[i].state = "Gatt" /\ instances'[i].state = "Idle"
                 /\ instances'[i].id = instances[i].id
      BY <1>1, <3>2 DEF gatt_clear_offload_data, InstancesTypeOK
    <3>3. QED BY <1>11, <3>1, <3>2 DEF GattSessions
  <2>3. Live' = Live /\ i \notin Live
    BY <2>2 DEF Live
  <2>4. LiveIds'
    BY <2>2, SocketsAssumption DEF IInv, LiveIds, LiveStates
  <2>5. Routing'
    <3>1. \A j \in Live : instances[j].id \in Sockets /\ instances'[j] = instances[j]
      BY <1>1, <2>2, <2>3, LiveIsLiveStates DEF IInv, LiveIds
    <3>2. QED BY <2>2, <2>3, <3>1, SocketsAssumption DEF IInv, Routing, Live
  <2>6. ASSUME NEW s \in Sockets
        PROVE  Ledger(Where(hal2om, OpenReqs(s)), Serving(s), Where(om2hal, LastAnswers(s)),
                      Removing(s), getState(s) = "CLOSED")'
    <3>1. Serving(s)' = Serving(s)
      BY <2>2, <2>3 DEF Serving, Live
    <3>2. QED BY <1>1, <2>1, <3>1
             DEF IInv, Books, halVars, Removing, getState, Where, OpenReqs, LastAnswers
  <2>7. QED BY <2>4, <2>5, <2>6 DEF Books
<1>12. QED BY <1>1, <1>5, <1>6, <1>7, <1>8, <1>9, <1>10, <1>11
          DEF FromHal, FromMicrostack, FromMicroapps

(* The parties that do not touch instances, HAL or their queues keep it. *)
LEMMA OthersInv ==
  ASSUME IInv, UNCHANGED <<halVars, instances, hal2om, om2hal>>
  PROVE  LiveIds' /\ Books' /\ Routing'
BY DEF IInv, LiveIds, Books, Routing, Live, Serving, halVars, Removing, getState, Where,
       OpenReqs, LastAnswers

-----------------------------------------------------------------------------
(* The invariant holds at the start. *)
LEMMA InitInv == Init => IInv
<1> SUFFICES ASSUME Init
             PROVE  IInv
  OBVIOUS
<1> USE DEF Init, ChannelsInit, HalInit, InstancesInit, BmmInit, AppsInit
<1>1. ChannelsTypeOK
  BY DEF ChannelsTypeOK
<1>2. HalTypeOK
  BY DEF HalTypeOK, HalStates, NoEntry, Resting
<1>3. InstancesTypeOK
  BY DEF InstancesTypeOK, SMStates, OffloadStates, Types, Endpoints
<1>4. BmmTypeOK /\ AppsTypeOK
  BY DEF BmmTypeOK, AppsTypeOK, FreeInst
<1>5. LiveIds /\ Live = {}
  BY DEF LiveIds, LiveStates, Live
<1>6. Routing
  BY <1>5 DEF Routing
<1>7. Books
  BY <1>5 DEF Books, Ledger, One, Where, Serving, Removing, Resting, getState, NoEntry
<1>8. QED BY <1>1, <1>2, <1>3, <1>4, <1>5, <1>6, <1>7 DEF IInv, TypeOK

(* And every step keeps it. *)
LEMMA NextInv == IInv /\ [Next]_vars => IInv'
<1> SUFFICES ASSUME IInv, [Next]_vars
             PROVE  IInv'
  OBVIOUS
<1>1. TypeOK /\ LiveIds /\ Books
  BY DEF IInv
<1>2. CASE HalStep(StackCall) \/ HalStep(ClosedCommit) \/ HalStep(RxThread)
  <2>1. TypeOK' /\ Books'
    BY <1>1, <1>2, HalTypes, BinderBooks, RxBooks
  <2>2. LiveIds' /\ Routing'
    BY <1>2 DEF HalStep, IInv, LiveIds, Routing, Live
  <2>3. QED BY <2>1, <2>2 DEF IInv
<1>3. CASE OmStep(FromHal) \/ OmStep(FromMicrostack) \/ OmStep(FromMicroapps) \/ OmStep(GattSessions)
  BY <1>1, <1>3, OmTypes, OmInv DEF IInv
<1>4. CASE BmmStep(Microstack)
  BY <1>1, <1>4, BmmTypes, OthersInv DEF IInv
<1>5. CASE AwmStep(AppManager) \/ AwmStep(\E t \in Types, s \in Sockets : close_socket_qapi(t, s))
  BY <1>1, <1>5, AwmTypes, OthersInv DEF IInv
<1>6. CASE UNCHANGED vars
  <2>1. UNCHANGED <<channels, halVars, instances, socket, appVars>>
    BY <1>6 DEF vars
  <2>2. TypeOK'
    BY <1>1, <2>1 DEF TypeOK, ChannelsTypeOK, HalTypeOK, InstancesTypeOK, BmmTypeOK, AppsTypeOK,
                      channels, halVars, appVars
  <2>3. QED BY <2>1, <2>2, OthersInv DEF IInv, channels
<1>7. QED BY <1>2, <1>3, <1>4, <1>5, <1>6 DEF Next

(* The inductive invariant holds of every behaviour, for any number of        *)
(* sockets, slots, connections and entries, and any Low16.                  *)
THEOREM IInvInvariant == Spec => []IInv
<1>1. QED BY InitInv, NextInv, PTL DEF Spec

(* Every table and every message of socket offload stays in its type.        *)
THEOREM TypeCorrect == Spec => []TypeOK
<1>1. IInv => TypeOK
  BY DEF IInv
<1>2. QED BY <1>1, IInvInvariant, PTL

(* offload_instance_find_by_socket_id() and its twin find the instance that   *)
(* serves the socket, stale ids in idle slots and GATT sessions in the same  *)
(* table notwithstanding.                                                   *)
THEOREM SocketIdsRouted == Spec => []SocketIdRouting
<1>1. IInv => SocketIdRouting
  <2> SUFFICES ASSUME IInv, NEW j \in Live
               PROVE  find_by_socket_id(instances[j].id) = j
    BY DEF SocketIdRouting
  <2> DEFINE found == {i \in Slots : instances[i].id = instances[j].id}
  <2>1. j \in found /\ found \in SUBSET Slots /\ found # {}
    BY DEF Live
  <2>2. First(found) \in found /\ First(found) <= j
    <3> HIDE DEF found
    <3>1. QED BY <2>1, FirstIsLeast
  <2>3. \A i \in found : ~(i < j)
    BY DEF IInv, Routing
  <2>4. j \in Int /\ First(found) \in Int
    BY <2>1, <2>2 DEF Slots
  <2>5. First(found) = j
    <3> HIDE DEF found
    <3>1. QED BY <2>2, <2>3, <2>4
  <2>6. QED BY <2>5 DEF find_by_socket_id
<1>2. QED BY <1>1, IInvInvariant, PTL

(* A socket with an entry in the HAL's table is answered for by exactly one   *)
(* request, instance, answer or removal, and one without an entry by none.  *)
THEOREM OneOwnerAlways == Spec => []OneOwner
<1>1. IInv => OneOwner
  <2> SUFFICES ASSUME IInv, NEW s \in Sockets
               PROVE  /\ \A x, y \in Owners(s) : x = y
                      /\ getState(s) = "CLOSED" <=> Owners(s) = {}
    BY DEF OneOwner
  <2>1. Ledger(Where(hal2om, OpenReqs(s)), Serving(s), Where(om2hal, LastAnswers(s)), Removing(s),
               getState(s) = "CLOSED")
    BY DEF IInv, Books
  <2>2. Pending(s) = Where(hal2om, OpenReqs(s)) /\ Answered(s) = Where(om2hal, LastAnswers(s))
    <3>1. /\ \A k \in DOMAIN hal2om : hal2om[k] \in HalToOmMsgs
          /\ \A k \in DOMAIN om2hal : om2hal[k] \in OmToHalMsgs
      BY DEF IInv, TypeOK, ChannelsTypeOK
    <3>2. QED BY <3>1 DEF Pending, Answered, Where, OpenReqs, LastAnswers
  <2>3. \A x : x \in Owners(s) <=>
          \/ \E k \in Pending(s) : x = <<"pending", k>>
          \/ \E k \in Serving(s) : x = <<"serving", k>>
          \/ \E k \in Answered(s) : x = <<"answered", k>>
          \/ \E k \in Removing(s) : x = <<"removing", k>>
    BY DEF Owners
  <2>4. Ledger(Pending(s), Serving(s), Answered(s), Removing(s), getState(s) = "CLOSED")
    BY <2>1, <2>2
  <2>5. getState(s) = "CLOSED" <=> Owners(s) = {}
    <3>1. Owners(s) = {} <=>
            Pending(s) = {} /\ Serving(s) = {} /\ Answered(s) = {} /\ Removing(s) = {}
      BY <2>3
    <3>2. QED BY <2>4, <3>1 DEF Ledger
  <2>6. ASSUME NEW x \in Owners(s), NEW y \in Owners(s)
        PROVE  x = y
    <3>1. CASE \E k \in Pending(s) : x = <<"pending", k>>
      BY <2>3, <2>4, <3>1 DEF Ledger, One
    <3>2. CASE \E k \in Serving(s) : x = <<"serving", k>>
      BY <2>3, <2>4, <3>2 DEF Ledger, One
    <3>3. CASE \E k \in Answered(s) : x = <<"answered", k>>
      BY <2>3, <2>4, <3>3 DEF Ledger, One
    <3>4. CASE \E k \in Removing(s) : x = <<"removing", k>>
      BY <2>3, <2>4, <3>4 DEF Ledger, One
    <3>5. QED BY <2>3, <3>1, <3>2, <3>3, <3>4
  <2>7. QED BY <2>5, <2>6
<1>2. QED BY <1>1, IInvInvariant, PTL

=============================================================================
