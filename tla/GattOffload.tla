----------------------------- MODULE GattOffload -----------------------------
(***************************************************************************)
(* GATT offload from end to end: the HAL, the profile manager, the GATT    *)
(* layer of the microstack and the microapps, joined by their channels.    *)
(***************************************************************************)
EXTENDS GattHal, GattProfile, GattMicrostack, GattUapp

vars == <<channels, reg, failed, stateTable, profileVars, stackVars, uappVars>>

Init ==
  /\ ChannelsInit
  /\ HalInit
  /\ ProfileInit
  /\ StackInit
  /\ UappInit

(* The offload ids that are in use or still on their way to somebody; the   *)
(* code's counter comes round to an id after 65535 others.                 *)
IdsIn(m) ==
  CASE m.op \in {"ENABLE_REQ", "ENABLE_CFM"} -> {m.offloadId}
    [] m.op = "DISABLE_REQ" -> m.ids
    [] OTHER -> {}
Taken ==
  (UNION {{svc_list[e][k].offloadId : k \in SvcSlots(e)} : e \in Endpoints})
    \cup (UNION {{svc.id : svc \in svcs[a]} : a \in Acls})
    \cup (UNION {IdsIn(m) : m \in InFlight(om2bs) \cup InFlight(bs2om)
                                   \cup UNION {InFlight(queue[a]) : a \in Acls}})
Fresh == {CHOOSE id \in 1 .. Cardinality(Taken) + 1 : id \notin Taken}

-----------------------------------------------------------------------------
(* What the surroundings leave each other time for.  The code has a "TBD:    *)
(* handling if state machine is busy" where it would have to; each kind of *)
(* haste is a member of Adversities, which lets it happen.                 *)
SameService(s, u) ==
  reg[s].ep = reg[u].ep /\ reg[s].acl = reg[u].acl /\ reg[s].service = reg[u].service
SameAcl(s, u) == reg[s].acl = reg[u].acl
Opening(s) == stateTable[s] = "OPENING"
InstanceOf(s) == offload_instance_find_by_gatt_session_id(Now, s)
Sharing(s) ==
  {u \in Sessions \ {s} : SameService(s, u) /\ (stateTable[u] # "CLOSED" \/ InstanceOf(u) # 0)}
Indicated(s) == [op |-> "UNREGISTERED_IND", id |-> s] \in InFlight(awm2om)

Settled(s) ==
  /\ stateTable[s] \in {"CLOSED", "OPENED"}
  /\ ~Indicated(s)
  /\ InstanceOf(s) # 0 => instances[InstanceOf(s)].state = "OffloadToMicroappSuccess"

Clearing(a) ==
  \/ [op |-> "CLEAR", acl |-> a] \in InFlight(hal2om)
  \/ [op |-> "CLEAR_RSP", acl |-> a] \in InFlight(om2hal)
  \/ \E m \in InFlight(om2bs) \cup InFlight(queue[a]) \cup InFlight(bs2om) :
        m.op \in {"DISABLE_REQ", "DISABLE_CFM"} /\ m.why = "CLEAR" /\ m.acl = a

(* No read of the connection is under way, or asked for. *)
Quiet(a) ==
  /\ reading[a] = <<>>
  /\ ~\E m \in InFlight(om2bs) : m.op = "READ_REQ" /\ m.acl = a
  /\ ~\E m \in InFlight(awm2om) : m.op = "CHAR_REQ" /\ reg[m.id].acl = a

Tolerated(adversity, calm) == calm \/ adversity \in Adversities

(* registrations: a second one for the endpoint before the first is answered *)
(* closings: another session of the service is still coming or going        *)
(* clear, acls: the connection, or any other one, is being cleared          *)
(* channel: what changes an offloaded service waits behind a read           *)
MayRegister(s) ==
  /\ Tolerated("registrations", \A u \in Sessions : reg[u].ep = reg[s].ep => ~Opening(u))
  /\ Tolerated("closings", \A u \in Sessions \ {s} : SameService(s, u) => Settled(u))
  /\ Tolerated("clear", ~Clearing(reg[s].acl))
  /\ Tolerated("acls", \A a \in Acls \ {reg[s].acl} : ~Clearing(a))
  /\ Tolerated("channel", Quiet(reg[s].acl))

MayClose(s) ==
  /\ Tolerated("closings", \A u \in Sharing(s) : Settled(u))
  /\ Tolerated("channel", Sharing(s) # {} => Quiet(reg[s].acl))

MayClear(a) ==
  /\ ~Clearing(a) /\ \E s \in Sessions : reg[s].acl = a
  /\ Tolerated("clear", \A s \in Sessions : reg[s].acl = a => ~Opening(s))
  /\ Tolerated("acls", \A s \in Sessions : stateTable[s] # "CLOSED" => reg[s].acl = a)

MayRead(s) ==
  Tolerated("channel", \A u \in Sessions : SameAcl(s, u) =>
                         ~Opening(u) /\ (Sharing(u) # {} => Settled(u)))

HalStep(A) == A /\ UNCHANGED <<reg, failed, om2bs, bs2om, om2awm, awm2om, profileVars, stackVars, uappVars>>
OmStep(A) == A /\ UNCHANGED <<reg, stateTable, stackVars, uappVars>>
StackStep(A) == A /\ UNCHANGED <<reg, hal2om, om2hal, om2awm, awm2om, stateTable, profileVars, uappVars>>
UappStep(A) == A /\ UNCHANGED <<reg, failed, hal2om, om2hal, om2bs, bs2om, stateTable, profileVars, stackVars>>

Next ==
  \/ HalStep(\E s \in Sessions : MayRegister(s) /\ registerService(s))
  \/ HalStep(\E s \in Sessions : MayClose(s) /\ unregisterService(s))
  \/ HalStep(\E a \in Acls : MayClear(a) /\ clearServices(a))
  \/ HalStep(processGattOffloadRx)
  \/ OmStep(FromHal)
  \/ OmStep(microstack_gatt_cb)
  \/ OmStep(FromMicroapps)
  \/ StackStep(Requests(Fresh))
  \/ StackStep(\E a \in Acls : PeerAnswers(a, Fresh))
  \/ UappStep(gatt_app_mgr_cb)
  \/ UappStep(\E e \in Endpoints : qapi_gatt_app_activate(e))
  \/ UappStep(\E s \in Sessions : MayClose(s) /\ qapi_gatt_unregister_service(s))
  \/ UappStep(\E s \in Sessions : MayRead(s) /\ qapi_gatt_client_read_char_req(s))

(* Whoever reads a queue goes on reading it, one message after the other,    *)
(* and a peer answers a read (the ATT layer gives up on one that does not). *)
(* Each queue has one reader, and nothing else shortens it.  Nothing makes  *)
(* the stack or an app call.                                               *)
Read(channel) == channel # <<>> /\ channel' = Tail(channel)

Fairness ==
  /\ WF_om2hal(Read(om2hal))
  /\ WF_hal2om(Read(hal2om))
  /\ WF_bs2om(Read(bs2om))
  /\ WF_awm2om(Read(awm2om))
  /\ WF_om2bs(Read(om2bs))
  /\ WF_om2awm(Read(om2awm))
  /\ \A a \in Acls : WF_vars(StackStep(PeerAnswers(a, Fresh)))

Spec == Init /\ [][Next]_vars
FairSpec == Spec /\ Fairness

-----------------------------------------------------------------------------
(* Every variable holds a value of its declared C type. *)
TypeOK ==
  /\ ChannelsTypeOK
  /\ HalTypeOK
  /\ ProfileTypeOK
  /\ StackTypeOK
  /\ UappTypeOK

(* The places of svc_list and the instances that point to them stay in step  *)
(* however registrations end: a place is taken exactly while one instance, *)
(* not idle, works for it, no session has two places, and a slot without   *)
(* sessions is a clear one.                                                *)
Pointing(e, k, x) ==
  {i \in Slots : instances[i].svc = k /\ instances[i].ep = e /\ instances[i].ses = x}

SessionsOwned ==
  /\ \A i \in Slots : instances[i].state = "Idle" <=> instances[i].svc = 0
  /\ \A e \in Endpoints : \A k \in SvcSlots(e) : \A x \in SesSlots :
        Cardinality(Pointing(e, k, x)) = IF svc_list[e][k].sess[x].id = NoSession THEN 0 ELSE 1
  /\ \A i, j \in Slots : instances[i].svc # 0 /\ instances[j].svc # 0 /\ i # j =>
        SesOf(Now, i).id # SesOf(Now, j).id
  /\ \A e \in Endpoints : \A k \in SvcSlots(e) :
        Users(svc_list[e][k]) = {} => svc_list[e][k] = FreeService

(* With nothing on its way to the microstack or back, the services it has    *)
(* enabled on a connection are those of svc_list, with the characteristics *)
(* of their sessions: none is left behind by a close or a link loss, and   *)
(* none is taken from a session that shares it.                            *)
EnabledServices(a) == {<<svc.id, svc.ep, svc.handles>> : svc \in svcs[a]}
OffloadedOn(e, a) == {k \in SvcSlots(e) : svc_list[e][k].acl = a /\ svc_list[e][k].offloadId # 0}
OffloadedServices(a) ==
  UNION {{<<svc_list[e][k].offloadId, e, Users(svc_list[e][k])>> : k \in OffloadedOn(e, a)} :
           e \in Endpoints}
NoServiceLeak ==
  om2bs = <<>> /\ bs2om = <<>> =>
    \A a \in Acls : queue[a] = <<>> => EnabledServices(a) = OffloadedServices(a)

(* A session whose instance says it is offloaded is served all the way: the  *)
(* microapp holds it (or has just said that it gave it up), the microstack *)
(* lets its characteristics through, and the HAL has it open or is about   *)
(* to hear of it.                                                          *)
ServedEndToEnd ==
  \A i \in Slots : instances[i].state = "OffloadToMicroappSuccess" =>
     LET s == SesOf(Now, i).id
     IN /\ Holds(instances[i].ep, s) \/ Indicated(s)
        /\ \E svc \in svcs[reg[s].acl] :
              svc.id = SvcOf(Now, i).offloadId /\ s \in svc.handles
        /\ \/ stateTable[s] \in {"OPENED", "CLOSING"}
           \/ [op |-> "REGISTER_RSP", id |-> s, ok |-> TRUE] \in InFlight(om2hal)

(* What the stack asks for is answered: a registration, the end of one, and   *)
(* the loss of a link, after which no session of the connection is left.   *)
StackAnswered ==
  /\ \A s \in Sessions :
       /\ stateTable[s] = "OPENING" ~> stateTable[s] # "OPENING"
       /\ stateTable[s] = "CLOSING" ~> stateTable[s] = "CLOSED"
  /\ \A a \in Acls :
       ([op |-> "CLEAR", acl |-> a] \in InFlight(hal2om))
         ~> (\A s \in Sessions : reg[s].acl = a => stateTable[s] = "CLOSED")

(* The session waits for the answer to a read. *)
Pending(s) == InstanceOf(s) # 0 /\ SesOf(Now, InstanceOf(s)).pending

(* The app that reads as often as it may is answered, by the peer, by a       *)
(* refusal or by the end of the session; and no operation stays pending,   *)
(* which would have all later ones refused.                                *)
ReadsEnd ==
  \A s \in Sessions :
     /\ (asked[s] > 0 /\ asked[s] = reg[s].reads) ~> asked[s] < reg[s].reads
     /\ Pending(s) ~> ~Pending(s)

(* A microapp that gives up an offloaded session has it ended in the HAL     *)
(* too, whatever the HAL asks for meanwhile.                               *)
MicroappCloseHonoured ==
  \A s \in Sessions :
     (/\ Indicated(s) /\ InstanceOf(s) # 0
      /\ instances[InstanceOf(s)].state = "OffloadToMicroappSuccess")
       ~> stateTable[s] = "CLOSED"
=============================================================================
