----------------------------- MODULE GattProfile -----------------------------
(***************************************************************************)
(* The GATT profile manager on the ADSP.  A session is registered for a    *)
(* service of a connection and an endpoint; the sessions of one service    *)
(* share a slot of svc_list, which is offloaded as a whole, and each has   *)
(* an offload instance of its own that runs the common state machine.      *)
(*                                                                         *)
(* A handler makes a chain of calls that all work on the same globals, so  *)
(* the operators below take these as a record t and give back the record   *)
(* the call leaves; a handler is an action that runs such a chain on Now.  *)
(***************************************************************************)
EXTENDS GattChannels, OffloadStateMachine

CONSTANTS
  MaxServices,     \* MaxServices[e]: GATT_OFFLOAD_ENDPOINT_MAX_SERVICES
  MaxSessions,     \* GATT_OFFLOAD_SERVICE_MAX_SESSIONS
  AdspMaxChars     \* GATT_OFFLOAD_SESSION_MAX_CHARS

ASSUME ProfileAssumption ==
  /\ MaxServices \in [Endpoints -> Nat \ {0}]
  /\ MaxSessions \in Nat \ {0} /\ AdspMaxChars \in Nat

VARIABLES
  instances,   \* offload_instances[]; svc and ses are its pointers, 0 is NULL
  gattId,      \* gattId[e]: the slot of e in gatt_uapp[] is empty, waits for its id, or has it
  svc_list     \* svc_list[e][k]: the services offloaded for e

profileVars == <<instances, gattId, svc_list>>

SvcSlots(e) == 1 .. MaxServices[e]
SesSlots == 1 .. MaxSessions

FreeSession == [id |-> NoSession, pending |-> FALSE]
FreeService ==
  [acl |-> NoAcl, service |-> NoService, conn |-> FALSE, offloadId |-> 0, buf |-> NoSession,
   sess |-> [k \in SesSlots |-> FreeSession]]

ProfileTypeOK ==
  /\ instances \in [Slots -> [state : OffloadStates, ep : Endpoints \cup {NoEndpoint},
                              svc : Nat, ses : {0} \cup SesSlots]]
  /\ \A i \in Slots : instances[i].svc # 0 =>
        instances[i].ep \in Endpoints /\ instances[i].svc \in SvcSlots(instances[i].ep)
  /\ gattId \in [Endpoints -> {"none", "waiting", "ready"}]
  /\ \A e \in Endpoints : svc_list[e] \in
        [SvcSlots(e) -> [acl : Acls \cup {NoAcl}, service : Services \cup {NoService},
                         conn : BOOLEAN, offloadId : Nat, buf : Sessions \cup {NoSession},
                         sess : [SesSlots -> [id : Sessions \cup {NoSession}, pending : BOOLEAN]]]]

ProfileInit ==
  /\ instances = [i \in Slots |-> [state |-> "Idle", ep |-> NoEndpoint, svc |-> 0, ses |-> 0]]
  /\ gattId = [e \in Endpoints |-> "none"]
  /\ svc_list = [e \in Endpoints |-> [k \in SvcSlots(e) |-> FreeService]]

-----------------------------------------------------------------------------
Now == [inst |-> instances, svcs |-> svc_list, hal |-> om2hal, bs |-> om2bs, awm |-> om2awm,
        failed |-> failed]

Becomes(t) ==
  /\ instances' = t.inst /\ svc_list' = t.svcs /\ failed' = t.failed
  /\ om2hal' = t.hal /\ om2bs' = t.bs /\ om2awm' = t.awm

ToHal(t, m) == [t EXCEPT !.hal = Append(@, m)]
ToBs(t, m) == [t EXCEPT !.bs = Append(@, m)]
ToAwm(t, m) == [t EXCEPT !.awm = Append(@, m)]
Fail(t) == [t EXCEPT !.failed = TRUE]

(* What the pointers of instance i lead to. *)
SvcOf(t, i) == t.svcs[t.inst[i].ep][t.inst[i].svc]
SesOf(t, i) == SvcOf(t, i).sess[t.inst[i].ses]
WithSvc(t, i, svc) == [t EXCEPT !.svcs[t.inst[i].ep][t.inst[i].svc] = svc]
WithPending(t, e, k, x, on) == [t EXCEPT !.svcs[e][k].sess[x].pending = on]

Users(svc) == {svc.sess[k].id : k \in SesSlots} \ {NoSession}
fetch_num_sessions_in_svc(svc) == Cardinality({k \in SesSlots : svc.sess[k].id # NoSession})
btConnId(svc) == IF svc.conn THEN svc.acl ELSE NoAcl

offload_instance_find_by_gatt_session_id(t, s) ==
  First({i \in Slots : t.inst[i].svc # 0 /\ SesOf(t, i).id = s})

-----------------------------------------------------------------------------
(* What an instance asks of the microstack, the microapp and the HAL. *)

(* Mutant: only the session itself is listed, not those it shares with. *)
enable_svc_own(t, i, why, exclude) ==
  LET svc == SvcOf(t, i)
  IN ToBs(t, [op |-> "ENABLE_REQ", inst |-> i, why |-> why, acl |-> btConnId(svc),
              ep |-> IF gattId[t.inst[i].ep] = "ready" THEN t.inst[i].ep ELSE NoEndpoint,
              offloadId |-> svc.offloadId, handles |-> {SesOf(t, i).id} \ exclude])

(* The service as it shall be: the characteristics of all its sessions. *)
enable_svc(t, i, why, exclude) ==
  LET svc == SvcOf(t, i)
  IN ToBs(t, [op |-> "ENABLE_REQ", inst |-> i, why |-> why, acl |-> btConnId(svc),
              ep |-> IF gattId[t.inst[i].ep] = "ready" THEN t.inst[i].ep ELSE NoEndpoint,
              offloadId |-> svc.offloadId, handles |-> Users(svc) \ exclude])

offload_to_ustack(t, i) ==
  IF SvcOf(t, i).conn THEN enable_svc(t, i, "ENABLE", {})
  ELSE ToBs(t, [op |-> "CONN_INFO_REQ", inst |-> i, acl |-> SvcOf(t, i).acl])

(* Mutant: the number of sessions is compared with 0, the count left after. *)
unoffload_to_ustack_off(t, i) ==
  LET svc == SvcOf(t, i)
  IN IF fetch_num_sessions_in_svc(svc) = 0
     THEN ToBs(t, [op |-> "DISABLE_REQ", inst |-> i, why |-> "DISABLE", acl |-> btConnId(svc),
                   ids |-> {svc.offloadId}])
     ELSE enable_svc(t, i, "DISABLE", {SesOf(t, i).id})

(* The last session takes the service away; another leaves it to the rest. *)
unoffload_to_ustack(t, i) ==
  LET svc == SvcOf(t, i)
  IN IF fetch_num_sessions_in_svc(svc) = 1
     THEN ToBs(t, [op |-> "DISABLE_REQ", inst |-> i, why |-> "DISABLE", acl |-> btConnId(svc),
                   ids |-> {svc.offloadId}])
     ELSE enable_svc(t, i, "DISABLE", {SesOf(t, i).id})

(* The microapp gets the request as the HAL sent it, from the service's     *)
(* buffer: whichever session's request is in it.                           *)
offload_to_uapp(t, i) ==
  IF SvcOf(t, i).buf = NoSession THEN t
  ELSE ToAwm(t, [op |-> "REG_REQ", id |-> SvcOf(t, i).buf, ep |-> t.inst[i].ep])

unoffload_to_uapp(t, i) ==
  LET inst == t.inst[i]
      told == ToAwm(t, [op |-> "UNREG_REQ", id |-> SesOf(t, i).id, ep |-> inst.ep])
  IN IF ~SesOf(t, i).pending THEN told
     ELSE WithPending(ToAwm(told, [op |-> "OP_RSP", id |-> SesOf(t, i).id, ep |-> inst.ep]),
                      inst.ep, inst.svc, inst.ses, FALSE)

hal_offload_rsp(t, i, ok) ==
  WithSvc(ToHal(t, [op |-> "REGISTER_RSP", id |-> SesOf(t, i).id, ok |-> ok]),
          i, [SvcOf(t, i) EXCEPT !.buf = NoSession])

hal_unoffload_rsp(t, i) == ToHal(t, [op |-> "UNREGISTER_RSP", id |-> SesOf(t, i).id])

(* Mutant: the slot is only given up with its service. *)
clear_offload_data_last(t, i) ==
  LET svc == [SvcOf(t, i) EXCEPT !.sess[t.inst[i].ses] = FreeSession]
  IN [WithSvc(t, i, IF Users(svc) = {} THEN FreeService ELSE SvcOf(t, i))
        EXCEPT !.inst[i].svc = 0, !.inst[i].ses = 0]

clear_offload_data(t, i) ==
  LET svc == [SvcOf(t, i) EXCEPT !.sess[t.inst[i].ses] = FreeSession]
  IN [WithSvc(t, i, IF fetch_num_sessions_in_svc(svc) = 0 THEN FreeService ELSE svc)
        EXCEPT !.inst[i].svc = 0, !.inst[i].ses = 0]

-----------------------------------------------------------------------------
(* The entry function of a state.  The two final states report to the HAL   *)
(* and raise OFFLOAD_INSTANCE_FREE themselves, which leads to Idle.         *)
Idled(t, i) == clear_offload_data([t EXCEPT !.inst[i].state = "Idle"], i)

Entered(t, i, state) ==
  CASE state = "OffloadReq" -> offload_to_ustack(t, i)
    [] state = "OffloadToMicrostackSuccess" -> offload_to_uapp(t, i)
    [] state = "OffloadFailure" -> Idled(hal_offload_rsp(t, i, FALSE), i)
    [] state \in {"UnOffloadReqToMicrostack", "OffloadToMicroappFailure"} ->
         unoffload_to_ustack(t, i)
    [] state = "OffloadToMicroappSuccess" -> hal_offload_rsp(t, i, TRUE)
    [] state = "UnoffloadSuccess" -> Idled(hal_unoffload_rsp(t, i), i)
    [] state = "UnOffloadReqFromHAL" -> unoffload_to_uapp(t, i)

(* sm_process_evt_with_cb(): an event without a row is logged and dropped. *)
Event(t, i, evt) ==
  IF Rows(t.inst[i].state, evt) = {} THEN t
  ELSE LET new == NextState(t.inst[i].state, evt)
       IN Entered([t EXCEPT !.inst[i].state = new], i, new)

-----------------------------------------------------------------------------
(* Requests of the HAL. *)
OfService(e, r, k) == svc_list[e][k].acl = r.acl /\ svc_list[e][k].service = r.service

(* create_offload_instance_and_session() looks for the service first, and    *)
(* then takes the first slot without an offload id for a new one.          *)
ServiceFor(e, r) ==
  LET known == {k \in SvcSlots(e) : OfService(e, r, k)}
  IN IF known # {} THEN First(known)
     ELSE First({k \in SvcSlots(e) : svc_list[e][k].offloadId = 0})

(* The slot with the session in place x; a new one is cleared first. *)
Joined(e, r, k, x, s) ==
  [(IF OfService(e, r, k) THEN svc_list[e][k]
    ELSE [FreeService EXCEPT !.acl = r.acl, !.service = r.service])
     EXCEPT !.sess[x] = [id |-> s, pending |-> FALSE]]

FreePlaces(e, r, k) ==
  {x \in SesSlots : OfService(e, r, k) => svc_list[e][k].sess[x].id = NoSession}

RegisterRefused(s, t) == ToHal(t, [op |-> "REGISTER_RSP", id |-> s, ok |-> FALSE])

(* What a registration leads to.  More characteristics than it can take are *)
(* a decoding error, which is not answered; without an idle instance the   *)
(* session keeps its place.                                                *)
AfterRegister(s) ==
  LET r == reg[s]
      e == r.ep
      k == ServiceFor(e, r)
      x == First(FreePlaces(e, r, k))
      i == First({j \in Slots : instances[j].state = "Idle"})
      joined == [Now EXCEPT !.svcs[e][k] = Joined(e, r, k, x, s)]
  IN CASE r.chars > AdspMaxChars -> Now
       [] r.chars <= AdspMaxChars /\ (gattId[e] = "none" \/ k = 0 \/ x = 0) ->
            RegisterRefused(s, Now)
       [] i = 0 /\ r.chars <= AdspMaxChars /\ gattId[e] # "none" /\ k # 0 /\ x # 0 ->
            RegisterRefused(s, joined)
       [] OTHER -> Event([joined EXCEPT !.inst[i] = [@ EXCEPT !.ep = e, !.svc = k, !.ses = x],
                                        !.svcs[e][k].buf = s], i, "OFFLOAD_REQ")

hal_offload ==
  /\ Next1(hal2om, "REGISTER")
  /\ Becomes(AfterRegister(Head(hal2om).id))
  /\ hal2om' = Tail(hal2om)
  /\ UNCHANGED <<bs2om, awm2om, gattId>>

hal_unoffload ==
  /\ Next1(hal2om, "UNREGISTER")
  /\ LET i == offload_instance_find_by_gatt_session_id(Now, Head(hal2om).id)
     IN Becomes(IF i = 0 THEN Now ELSE Event(Now, i, "UNOFFLOAD_REQ"))
  /\ hal2om' = Tail(hal2om)
  /\ UNCHANGED <<bs2om, awm2om, gattId>>

(* clear_all_sessions_on_acl_handle() visits the instances in turn and       *)
(* leaves the connection id of the last one it clears.                     *)
ClearNext(a, acc, i) ==
  IF acc.t.inst[i].svc = 0 \/ SvcOf(acc.t, i).acl # a THEN acc
  ELSE [t |-> Idled(unoffload_to_uapp(acc.t, i), i), conn |-> btConnId(SvcOf(acc.t, i))]

clear_all_sessions(a) ==
  LET cleared[n \in 0 .. NumInstances] ==
        IF n = 0 THEN [t |-> Now, conn |-> NoAcl] ELSE ClearNext(a, cleared[n - 1], n)
  IN cleared[NumInstances]

(* Mutant: the clear is answered without a word to the microstack. *)
hal_clear_service_short ==
  /\ Next1(hal2om, "CLEAR")
  /\ LET a == Head(hal2om).acl
     IN Becomes(ToHal(clear_all_sessions(a).t, [op |-> "CLEAR_RSP", acl |-> a]))
  /\ hal2om' = Tail(hal2om)
  /\ UNCHANGED <<bs2om, awm2om, gattId>>

hal_clear_service ==
  /\ Next1(hal2om, "CLEAR")
  /\ LET a == Head(hal2om).acl
         left == clear_all_sessions(a)
     IN Becomes(IF left.conn = NoAcl
                THEN ToHal(left.t, [op |-> "CLEAR_RSP", acl |-> a])
                ELSE ToBs(left.t, [op |-> "DISABLE_REQ", inst |-> 0, why |-> "CLEAR",
                                   acl |-> left.conn, ids |-> {}]))
  /\ hal2om' = Tail(hal2om)
  /\ UNCHANGED <<bs2om, awm2om, gattId>>

FromHal == hal_offload \/ hal_unoffload \/ hal_clear_service

-----------------------------------------------------------------------------
(* microstack_gatt_cb(): what the microstack answers, on the same thread. *)
FromBs(t) == Becomes(t) /\ bs2om' = Tail(bs2om) /\ UNCHANGED <<hal2om, awm2om>>

register_cfm ==
  /\ Next1(bs2om, "REGISTER_CFM")
  /\ FromBs(Now)
  /\ gattId' = [gattId EXCEPT ![Head(bs2om).ep] = "ready"]

(* The instance may have lost its service since it asked: the pointer is    *)
(* followed all the same.                                                  *)
conn_info_cfm ==
  /\ Next1(bs2om, "CONN_INFO_CFM")
  /\ LET m == Head(bs2om)
     IN FromBs(CASE ~m.ok -> Event(Now, m.inst, "OFFLOAD_TO_MICROSTACK_FAILURE")
                 [] m.ok /\ instances[m.inst].svc = 0 -> Fail(Now)
                 [] OTHER -> enable_svc(WithSvc(Now, m.inst, [SvcOf(Now, m.inst) EXCEPT !.conn = TRUE]),
                                        m.inst, "ENABLE", {}))
  /\ UNCHANGED gattId

MicrostackOffloaded(ok) ==
  IF ok THEN "OFFLOAD_TO_MICROSTACK_SUCCESS" ELSE "OFFLOAD_TO_MICROSTACK_FAILURE"

(* A service that could not be reduced is not reported: there is no event   *)
(* for it.                                                                 *)
enable_service_cfm ==
  /\ Next1(bs2om, "ENABLE_CFM")
  /\ LET m == Head(bs2om)
     IN FromBs(CASE m.why = "DISABLE" ->
                      IF m.ok THEN Event(Now, m.inst, "UNOFFLOAD_FROM_MICROSTACK_SUCCESS") ELSE Now
                 [] m.why = "ENABLE" /\ instances[m.inst].svc = 0 -> Fail(Now)
                 [] OTHER -> Event(WithSvc(Now, m.inst,
                                           [SvcOf(Now, m.inst) EXCEPT !.offloadId = m.offloadId]),
                                   m.inst, MicrostackOffloaded(m.ok)))
  /\ UNCHANGED gattId

(* Mutant: the operation of the context is not looked at. *)
disable_service_cfm_one ==
  /\ Next1(bs2om, "DISABLE_CFM")
  /\ LET m == Head(bs2om)
     IN FromBs(IF m.inst = 0 THEN Now ELSE Event(Now, m.inst, "UNOFFLOAD_FROM_MICROSTACK_SUCCESS"))
  /\ UNCHANGED gattId

disable_service_cfm ==
  /\ Next1(bs2om, "DISABLE_CFM")
  /\ LET m == Head(bs2om)
     IN FromBs(IF m.why = "CLEAR" THEN ToHal(Now, [op |-> "CLEAR_RSP", acl |-> m.acl])
               ELSE Event(Now, m.inst, "UNOFFLOAD_FROM_MICROSTACK_SUCCESS"))
  /\ UNCHANGED gattId

(* fetch_gatt_session_in_endpoint(): the slot of a service, and in it the     *)
(* place of the session, that has this handle on this connection.          *)
SlotsWith(e, conn, h) ==
  {k \in SvcSlots(e) : btConnId(svc_list[e][k]) = conn /\ h \in Users(svc_list[e][k])}

PlaceOf(e, k, h) == First({x \in SesSlots : svc_list[e][k].sess[x].id = h})

(* Mutant: the operation stays pending after its answer. *)
read_cfm_kept ==
  /\ Next1(bs2om, "READ_CFM")
  /\ LET m == Head(bs2om)
     IN FromBs(IF SlotsWith(m.ep, m.acl, m.handle) = {} THEN Now
               ELSE ToAwm(Now, [op |-> "OP_RSP", id |-> m.handle, ep |-> m.ep]))
  /\ UNCHANGED gattId

(* Mutant: the app is not told what the peer has answered. *)
read_cfm_silent ==
  /\ Next1(bs2om, "READ_CFM")
  /\ LET m == Head(bs2om)
         k == First(SlotsWith(m.ep, m.acl, m.handle))
     IN FromBs(IF k = 0 THEN Now ELSE WithPending(Now, m.ep, k, PlaceOf(m.ep, k, m.handle), FALSE))
  /\ UNCHANGED gattId

read_cfm ==
  /\ Next1(bs2om, "READ_CFM")
  /\ LET m == Head(bs2om)
         k == First(SlotsWith(m.ep, m.acl, m.handle))
     IN FromBs(IF k = 0 THEN Now
               ELSE WithPending(ToAwm(Now, [op |-> "OP_RSP", id |-> m.handle, ep |-> m.ep]),
                                m.ep, k, PlaceOf(m.ep, k, m.handle), FALSE))
  /\ UNCHANGED gattId

microstack_gatt_cb ==
  register_cfm \/ conn_info_cfm \/ enable_service_cfm \/ disable_service_cfm \/ read_cfm

-----------------------------------------------------------------------------
(* endpt_mgr_handle_offload_app_evt(): what the microapps say. *)
FromAwm(t) == Becomes(t) /\ awm2om' = Tail(awm2om) /\ UNCHANGED <<hal2om, bs2om>>

uapp_register ==
  /\ Next1(awm2om, "APP_REG_REQ")
  /\ FromAwm(ToBs(Now, [op |-> "REGISTER_REQ", ep |-> Head(awm2om).ep]))
  /\ gattId' = [gattId EXCEPT ![Head(awm2om).ep] = "waiting"]

(* The look-up gives an id, and MAX_OFFLOAD_INSTANCES when it finds none: as *)
(* ids start at 1, the last instance is taken for not found.               *)
Routed(s, evt) ==
  LET i == offload_instance_find_by_gatt_session_id(Now, s)
  IN IF i \in 1 .. NumInstances - 1 THEN Event(Now, i, evt) ELSE Now

session_registered_resp ==
  /\ Next1(awm2om, "REGISTERED_RESP")
  /\ FromAwm(Routed(Head(awm2om).id, IF Head(awm2om).ok THEN "OFFLOAD_TO_MICROAPP_SUCCESS"
                                     ELSE "OFFLOAD_TO_MICROAPP_FAILURE"))
  /\ UNCHANGED gattId

session_unregistered ==
  /\ Next1(awm2om, "UNREGISTERED_RESP") \/ Next1(awm2om, "UNREGISTERED_IND")
  /\ FromAwm(Routed(Head(awm2om).id, "UNOFFLOAD_FROM_MICROAPP_SUCCESS"))
  /\ UNCHANGED gattId

(* One operation per session at a time; a second one is refused. *)
AfterCharReq(i) ==
  LET inst == instances[i]
      s == SesOf(Now, i).id
  IN IF SesOf(Now, i).pending THEN ToAwm(Now, [op |-> "OP_RSP", id |-> s, ep |-> inst.ep])
     ELSE WithPending(ToBs(Now, [op |-> "READ_REQ", ep |-> inst.ep,
                                 acl |-> btConnId(SvcOf(Now, i)), handle |-> s]),
                      inst.ep, inst.svc, inst.ses, TRUE)

uapp_char_evt ==
  /\ Next1(awm2om, "CHAR_REQ")
  /\ LET i == offload_instance_find_by_gatt_session_id(Now, Head(awm2om).id)
     IN FromAwm(IF i = 0 THEN Now ELSE AfterCharReq(i))
  /\ UNCHANGED gattId

FromMicroapps ==
  uapp_register \/ session_registered_resp \/ session_unregistered \/ uapp_char_evt
=============================================================================
