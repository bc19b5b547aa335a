--------------------------- MODULE GattMicrostack ----------------------------
(***************************************************************************)
(* The GATT layer of the microstack: its table of applications, the        *)
(* services offloaded on each connection, and the queue that keeps the     *)
(* requests of a connection in order while an ATT procedure runs on its    *)
(* one bearer.                                                             *)
(***************************************************************************)
EXTENDS GattChannels

VARIABLES
  apps,      \* appInst: the endpoints that have a gattId
  conns,     \* connInst: the connections GattOffloadPopulateContext() has made
  svcs,      \* svcs[a]: offloadSvcList; handles are those its filter lets through
  reading,   \* reading[a]: the read in progress, <<>> if none
  queue      \* queue[a]: the requests behind it

stackVars == <<apps, conns, svcs, reading, queue>>

OffloadIds == Nat \ {0}

StackTypeOK ==
  /\ apps \subseteq Endpoints
  /\ conns \subseteq Acls
  /\ \A a \in Acls :
        \A svc \in svcs[a] : svc \in [id : OffloadIds, ep : Endpoints, handles : SUBSET Sessions]
  /\ \A a \in Acls : reading[a] \in Seq(ReadReqs) /\ Len(reading[a]) <= 1
  /\ \A a \in Acls : queue[a] \in Seq(EnableReqs \cup DisableReqs \cup ReadReqs)

StackInit ==
  /\ apps = {} /\ conns = {}
  /\ svcs = [a \in Acls |-> {}]
  /\ reading = [a \in Acls |-> <<>>]
  /\ queue = [a \in Acls |-> <<>>]

-----------------------------------------------------------------------------
(* The requests work on a record u of what they change for one connection:  *)
(* its services, its read in progress, its queue and the answers.          *)
At(a) == [svcs |-> svcs[a], reading |-> reading[a], queue |-> queue[a], bs |-> bs2om,
          failed |-> failed]

AtBecomes(a, u) ==
  /\ svcs' = [svcs EXCEPT ![a] = u.svcs]
  /\ reading' = [reading EXCEPT ![a] = u.reading]
  /\ queue' = [queue EXCEPT ![a] = u.queue]
  /\ bs2om' = u.bs /\ failed' = u.failed

Answer(u, m) == [u EXCEPT !.bs = Append(@, m)]
EnableCfm(u, m, ok, id) ==
  Answer(u, [op |-> "ENABLE_CFM", inst |-> m.inst, why |-> m.why, ok |-> ok, offloadId |-> id])

Known(u, id) == {svc \in u.svcs : svc.id = id}

(* GattOffloadValidateServiceReq() on the request itself. *)
Valid(u, m) ==
  /\ m.handles # {} /\ m.ep \in apps /\ m.acl \in conns
  /\ m.offloadId # 0 => Known(u, m.offloadId) # {}

(* Mutant: a new service gets no id of its own. *)
Enabled1_zero(u, m, ids) ==
  {[EnableCfm(u, m, TRUE, id) EXCEPT
      !.svcs = (@ \ Known(u, id)) \cup {[id |-> id, ep |-> m.ep, handles |-> m.handles]}] :
   id \in {m.offloadId}}

(* GattOffloadEnableServiceRestoreHandler().  The filter of a service that   *)
(* is enabled already is disabled before the new one is asked for, which   *)
(* can fail; a new service gets an id nobody uses.                         *)
Enabled1(u, m, ids) ==
  {[EnableCfm(u, m, TRUE, id) EXCEPT
      !.svcs = (@ \ Known(u, id)) \cup {[id |-> id, ep |-> m.ep, handles |-> m.handles]}] :
   id \in IF m.offloadId = 0 THEN ids ELSE {m.offloadId}}

FilterFailed(u, m) ==
  [EnableCfm(u, m, FALSE, m.offloadId) EXCEPT
     !.svcs = {IF svc.id = m.offloadId THEN [svc EXCEPT !.handles = {}] ELSE svc : svc \in @}]

FilterMayFail(m) == m.offloadId = 0 \/ "filters" \in Adversities

Enable(u, m, ids) ==
  IF ~Valid(u, m) THEN {EnableCfm(u, m, FALSE, m.offloadId)}
  ELSE Enabled1(u, m, ids) \cup (IF FilterMayFail(m) THEN {FilterFailed(u, m)} ELSE {})

(* GattOffloadDisableServiceRestoreHandler(): no ids means all of them.  A   *)
(* connection it does not know is confirmed like any other.                *)
Disable(u, m) ==
  Answer([u EXCEPT !.svcs = IF m.ids = {} THEN {} ELSE {svc \in @ : svc.id \notin m.ids}],
         [op |-> "DISABLE_CFM", inst |-> m.inst, why |-> m.why, acl |-> m.acl])

(* CsrBtGattNewReqHandler() with the channel free. *)
Perform(u, m, ids) ==
  CASE m.op = "ENABLE_REQ" -> Enable(u, m, ids)
    [] m.op = "DISABLE_REQ" -> {Disable(u, m)}
    [] m.op = "READ_REQ" -> {[u EXCEPT !.reading = <<m>>]}

(* CsrBtGattQueueRestoreHandler() performs what waits, as far as the next    *)
(* read.  An enable request that has waited is validated, and its filter   *)
(* set up, from inst->msg, which by now is another message.                *)
RestoreOne(u, m, ids) ==
  CASE u.reading # <<>> -> {[u EXCEPT !.queue = Append(@, m)]}
    [] u.reading = <<>> /\ m.op = "ENABLE_REQ" ->
         Perform(u, m, ids) \cup {EnableCfm(u, m, FALSE, m.offloadId), [u EXCEPT !.failed = TRUE]}
    [] OTHER -> Perform(u, m, ids)

Restore(u, ids) ==
  LET restored[n \in 0 .. Len(u.queue)] ==
        IF n = 0 THEN {[u EXCEPT !.queue = <<>>]}
        ELSE UNION {RestoreOne(v, u.queue[n], ids) : v \in restored[n - 1]}
  IN restored[Len(u.queue)]

-----------------------------------------------------------------------------
Took == om2bs' = Tail(om2bs)

RegisterReq ==
  /\ Next1(om2bs, "REGISTER_REQ")
  /\ apps' = apps \cup {Head(om2bs).ep}
  /\ bs2om' = Append(bs2om, [op |-> "REGISTER_CFM", ep |-> Head(om2bs).ep])
  /\ Took
  /\ UNCHANGED <<conns, svcs, reading, queue, failed>>

(* Refused when the arbiter or the MTU does not agree. *)
ConnInfoReq ==
  /\ Next1(om2bs, "CONN_INFO_REQ")
  /\ \E ok \in BOOLEAN :
        /\ conns' = IF ok THEN conns \cup {Head(om2bs).acl} ELSE conns
        /\ bs2om' = Append(bs2om, [op |-> "CONN_INFO_CFM", inst |-> Head(om2bs).inst, ok |-> ok])
  /\ Took
  /\ UNCHANGED <<apps, svcs, reading, queue, failed>>

ChannelOps == {"ENABLE_REQ", "DISABLE_REQ", "READ_REQ"}

(* The answer to a request on a connection that is not there. *)
NoConnection(m) ==
  CASE m.op = "ENABLE_REQ" ->
         [op |-> "ENABLE_CFM", inst |-> m.inst, why |-> m.why, ok |-> FALSE,
          offloadId |-> m.offloadId]
    [] m.op = "DISABLE_REQ" ->
         [op |-> "DISABLE_CFM", inst |-> m.inst, why |-> m.why, acl |-> m.acl]
    [] m.op = "READ_REQ" -> [op |-> "READ_CFM", ep |-> m.ep, acl |-> m.acl, handle |-> m.handle]

(* fresh: the offload ids that nobody has or may still be told of. *)
ChannelReq(fresh) ==
  /\ om2bs # <<>> /\ Head(om2bs).op \in ChannelOps
  /\ LET m == Head(om2bs)
         a == m.acl
     IN IF a \notin conns
        THEN /\ bs2om' = Append(bs2om, NoConnection(m))
             /\ UNCHANGED <<svcs, reading, queue, failed>>
        ELSE \E u \in IF reading[a] # <<>> THEN {[At(a) EXCEPT !.queue = Append(@, m)]}
                      ELSE Perform(At(a), m, fresh) : AtBecomes(a, u)
  /\ Took
  /\ UNCHANGED <<apps, conns>>

Requests(fresh) == RegisterReq \/ ConnInfoReq \/ ChannelReq(fresh)

(* CsrBtGattAttReadCfmHandler(): the peer has answered the read. *)
PeerAnswers(a, fresh) ==
  /\ reading[a] # <<>>
  /\ LET m == reading[a][1]
         cfm == [op |-> "READ_CFM", ep |-> m.ep, acl |-> m.acl, handle |-> m.handle]
     IN \E done \in {Answer([At(a) EXCEPT !.reading = <<>>], cfm)} :
          \E u \in Restore(done, fresh) : AtBecomes(a, u)
  /\ UNCHANGED <<apps, conns, om2bs>>
=============================================================================
