------------------------ MODULE SocketTablesProofs -------------------------
(***************************************************************************)
(* The tables of socket offload agree.                                     *)
(*                                                                         *)
(* First the microapps: what one holds for a socket is held for the         *)
(* instance that serves it, or until a close command that is already in    *)
(* the app manager's queue is read.  The argument follows one socket        *)
(* through that queue: an open request never stands in front of a close    *)
(* command of the same id, so whatever an earlier life of the id left in a *)
(* microapp is gone when the next one is let in.                           *)
(*                                                                         *)
(* Then the connections: the microstack manager holds one for an instance  *)
(* from the moment it grants the offload until it reads the close, however *)
(* the answers on the way back are routed.  The argument follows one entry *)
(* of gBmm.socket[].  Its grant is on the way to the instance, or the       *)
(* instance uses it, or the instance has asked for its close; and no        *)
(* confirmation of an earlier close with the same id can arrive in the      *)
(* second and third phase, since it is in front of the grant in the same   *)
(* queue.                                                                  *)
(***************************************************************************)
EXTENDS SocketLifecycleProofs, FiniteSetTheorems

AppOpens(s)       == {m \in OmToAwmMsgs : m.op = "OPEN_REQ" /\ m.id = s}
AppCloses(s)      == {m \in OmToAwmMsgs : m.op = "CLOSE_CMD" /\ m.id = s}
AppClosesAt(s, t) == {m \in AppCloses(s) : EndpointType(m.ep) = t}
AppAnswer(s, status) == [op |-> "OPEN_RES", id |-> s, status |-> status]

Asked(s)        == Where(om2awm, AppOpens(s))
Ordered(s)      == Where(om2awm, AppCloses(s))
OrderedAt(s, t) == Where(om2awm, AppClosesAt(s, t))
Answers(queue, s, status) == Where(queue, {AppAnswer(s, status)})
Accepted(s)     == Answers(awm2om, s, "SUCCESS")
Rejected(s)     == Answers(awm2om, s, "FAILURE")

(* Instance i knows, or is about to be told, that its microapp serves s. *)
Granted(s, i) ==
  \/ instances[i].state = "OffloadToMicroappSuccess"
  \/ instances[i].state = "OffloadToMicrostackSuccess" /\ Accepted(s) # {}

(* One request to the microapp is under way at a time, and for the instance   *)
(* that waits for its answer.                                              *)
Asking(s) ==
  /\ Asked(s) # {} \/ Accepted(s) # {} \/ Rejected(s) # {} =>
       \E i \in Serving(s) : /\ instances[i].state = "OffloadToMicrostackSuccess"
                             /\ \A k \in Asked(s) : om2awm[k] = AppOpen(i)
  /\ One(Asked(s)) /\ One(Accepted(s)) /\ One(Rejected(s))
  /\ Asked(s) # {} => Accepted(s) = {} /\ Rejected(s) = {}
  /\ Accepted(s) # {} => Rejected(s) = {}

(* What the microapps hold for s, and for whom. *)
Held(s) ==
  /\ Behind(om2awm, AppOpens(s), AppCloses(s))
  /\ \A i \in Serving(s) : Granted(s, i) =>
       /\ Ordered(s) = {} /\ EndpointType(instances[i].ep) = instances[i].type
       /\ Holding(instances[i].type, s) # {}
  /\ \A t, u \in Types : \A k \in Holding(t, s), l \in Holding(u, s) : t = u /\ k = l
  /\ \A t \in Types : Holding(t, s) # {} =>
       \/ \E i \in Serving(s) : Granted(s, i) /\ instances[i].type = t
       \/ OrderedAt(s, t) # {}

App(s) == Asking(s) /\ Held(s)

Counters == \A t \in Types : socketsInUse[t] = Cardinality(Entries \ Unused(t))

AInv == PInv /\ Counters /\ \A s \in Sockets : App(s)

-----------------------------------------------------------------------------
(* The open requests for s in the queue to the app manager, after any other    *)
(* command is sent or read.                                                *)
LEMMA OpensKept ==
  ASSUME NEW s \in Sockets, om2awm \in Seq(OmToAwmMsgs),
         \/ om2awm' = om2awm
         \/ om2awm # <<>> /\ om2awm' = Tail(om2awm) /\ Head(om2awm) \notin AppOpens(s)
         \/ \E m \in OmToAwmMsgs : m \notin AppOpens(s) /\ om2awm' = Append(om2awm, m)
  PROVE  /\ Same(Asked(s), Where(om2awm', AppOpens(s)))
         /\ \A k \in Where(om2awm', AppOpens(s)) : \E l \in Asked(s) : om2awm'[k] = om2awm[l]
<1>1. CASE om2awm' = om2awm
  BY <1>1, SameRefl DEF Asked
<1>2. CASE om2awm # <<>> /\ om2awm' = Tail(om2awm) /\ Head(om2awm) \notin AppOpens(s)
  <2>1. \A k \in Where(Tail(om2awm), AppOpens(s)) :
           k \in 1 .. Len(om2awm) - 1 /\ k + 1 \in Asked(s)
    BY <1>2, WhereTailed DEF Asked
  <2>2. \A k \in 1 .. Len(om2awm) - 1 : Tail(om2awm)[k] = om2awm[k + 1]
    BY <1>2
  <2>3. QED BY <1>2, <2>1, <2>2, WhereTail DEF Asked
<1>3. CASE \E m \in OmToAwmMsgs : m \notin AppOpens(s) /\ om2awm' = Append(om2awm, m)
  <2>1. PICK m \in OmToAwmMsgs : m \notin AppOpens(s) /\ om2awm' = Append(om2awm, m)
    BY <1>3
  <2>2. Where(om2awm', AppOpens(s)) = Asked(s) /\ Asked(s) \subseteq 1 .. Len(om2awm)
    BY <2>1, WhereAppended DEF Asked
  <2>3. \A k \in 1 .. Len(om2awm) : om2awm'[k] = om2awm[k]
    BY <2>1
  <2>4. QED BY <2>2, <2>3, SameRefl
<1>4. QED BY <1>1, <1>2, <1>3

(* All commands about s, after one about another socket. *)
LEMMA CommandsKept ==
  ASSUME NEW s \in Sockets, om2awm \in Seq(OmToAwmMsgs),
         \/ om2awm' = om2awm
         \/ om2awm # <<>> /\ om2awm' = Tail(om2awm) /\ Head(om2awm).id # s
         \/ \E m \in OmToAwmMsgs : m.id # s /\ om2awm' = Append(om2awm, m)
  PROVE  /\ Same(Asked(s), Where(om2awm', AppOpens(s)))
         /\ Same(Ordered(s), Where(om2awm', AppCloses(s)))
         /\ \A t : Same(OrderedAt(s, t), Where(om2awm', AppClosesAt(s, t)))
         /\ \A k \in Where(om2awm', AppOpens(s)) : \E l \in Asked(s) : om2awm'[k] = om2awm[l]
         /\ Behind(om2awm, AppOpens(s), AppCloses(s))
              => Behind(om2awm', AppOpens(s), AppCloses(s))
<1>1. \A m : m.id # s => /\ m \notin AppOpens(s) /\ m \notin AppCloses(s)
                         /\ \A t : m \notin AppClosesAt(s, t)
  BY DEF AppOpens, AppCloses, AppClosesAt
<1>2. /\ Same(Asked(s), Where(om2awm', AppOpens(s)))
      /\ \A k \in Where(om2awm', AppOpens(s)) : \E l \in Asked(s) : om2awm'[k] = om2awm[l]
  BY <1>1, OpensKept
<1>3. CASE om2awm' = om2awm
  BY <1>2, <1>3, SameRefl DEF Ordered, OrderedAt
<1>4. CASE om2awm # <<>> /\ om2awm' = Tail(om2awm) /\ Head(om2awm).id # s
  BY <1>1, <1>2, <1>4, WhereTail, BehindTailed DEF Ordered, OrderedAt
<1>5. CASE \E m \in OmToAwmMsgs : m.id # s /\ om2awm' = Append(om2awm, m)
  BY <1>1, <1>2, <1>5, WhereAppend, BehindAppended DEF Ordered, OrderedAt
<1>6. QED BY <1>3, <1>4, <1>5

(* The answers about s on their way back, after one about something else. *)
LEMMA AppAnswersKept ==
  ASSUME NEW s \in Sockets, awm2om \in Seq(AwmToOmMsgs),
         \/ awm2om' = awm2om
         \/ awm2om # <<>> /\ awm2om' = Tail(awm2om)
              /\ (Head(awm2om).id # s \/ Head(awm2om).op = "CLOSE_IND")
         \/ \E m \in AwmToOmMsgs : (m.id # s \/ m.op = "CLOSE_IND") /\ awm2om' = Append(awm2om, m)
  PROVE  \A status \in Results :
           Same(Answers(awm2om, s, status), Answers(awm2om', s, status))
<1>1. \A m, status : m.id # s \/ m.op = "CLOSE_IND" => m \notin {AppAnswer(s, status)}
  BY DEF AppAnswer
<1>2. CASE awm2om' = awm2om
  BY <1>2, SameRefl DEF Answers
<1>3. CASE awm2om # <<>> /\ awm2om' = Tail(awm2om)
             /\ (Head(awm2om).id # s \/ Head(awm2om).op = "CLOSE_IND")
  BY <1>1, <1>3, WhereTail DEF Answers
<1>4. CASE \E m \in AwmToOmMsgs :
              (m.id # s \/ m.op = "CLOSE_IND") /\ awm2om' = Append(awm2om, m)
  BY <1>1, <1>4, WhereAppend DEF Answers
<1>5. QED BY <1>2, <1>3, <1>4

(* What a step has to leave alone of the instances that serve s. *)
SameServers(s) ==
  /\ Serving(s)' = Serving(s)
  /\ \A i \in Serving(s) : /\ instances'[i].state = instances[i].state
                            /\ instances'[i].id = instances[i].id
                            /\ instances'[i].type = instances[i].type
                            /\ instances'[i].ep = instances[i].ep

(* A step that leaves them, and the requests and answers of s, keeps Asking(s). *)
LEMMA AskingKept ==
  ASSUME NEW s \in Sockets, Asking(s), SameServers(s),
         Same(Asked(s), Where(om2awm', AppOpens(s))),
         \A k \in Where(om2awm', AppOpens(s)) : \E l \in Asked(s) : om2awm'[k] = om2awm[l],
         \A st \in Results : Same(Answers(awm2om, s, st), Answers(awm2om', s, st))
  PROVE  Asking(s)' /\ \A i \in Serving(s) : Granted(s, i)' <=> Granted(s, i)
<1>1. /\ Asked(s)' = Where(om2awm', AppOpens(s))
      /\ Accepted(s)' = Answers(awm2om', s, "SUCCESS")
      /\ Rejected(s)' = Answers(awm2om', s, "FAILURE")
  BY DEF Asked, Accepted, Rejected, Answers, Where, AppOpens, AppAnswer
<1>2. /\ Same(Asked(s), Asked(s)')
      /\ Same(Accepted(s), Accepted(s)') /\ Same(Rejected(s), Rejected(s)')
  BY <1>1 DEF Accepted, Rejected, Results
<1>3. \A i \in Serving(s) : (Granted(s, i)' <=> Granted(s, i)) /\ AppOpen(i)' = AppOpen(i)
  BY <1>2 DEF Granted, Same, AppOpen, SameServers
<1>4. ASSUME Asked(s)' # {} \/ Accepted(s)' # {} \/ Rejected(s)' # {}
      PROVE  \E i \in Serving(s)' : /\ instances'[i].state = "OffloadToMicrostackSuccess"
                                    /\ \A k \in Asked(s)' : om2awm'[k] = AppOpen(i)'
  <2>1. PICK i \in Serving(s) : /\ instances[i].state = "OffloadToMicrostackSuccess"
                                /\ \A k \in Asked(s) : om2awm[k] = AppOpen(i)
    BY <1>2, <1>4 DEF Same, Asking
  <2>2. QED BY <1>1, <1>3, <2>1 DEF SameServers
<1>5. QED BY <1>2, <1>3, <1>4 DEF Same, Asking

(* A step that is about another socket keeps App(s). *)
LEMMA AppKept ==
  ASSUME InstancesTypeOK, NEW s \in Sockets, App(s), SameServers(s),
         Same(Asked(s), Where(om2awm', AppOpens(s))),
         Same(Ordered(s), Where(om2awm', AppCloses(s))),
         \A t : Same(OrderedAt(s, t), Where(om2awm', AppClosesAt(s, t))),
         \A k \in Where(om2awm', AppOpens(s)) : \E l \in Asked(s) : om2awm'[k] = om2awm[l],
         Behind(om2awm, AppOpens(s), AppCloses(s)) => Behind(om2awm', AppOpens(s), AppCloses(s)),
         \A st \in Results : Same(Answers(awm2om, s, st), Answers(awm2om', s, st)),
         \A t \in Types : Holding(t, s)' = Holding(t, s)
  PROVE  App(s)'
<1>1. /\ Ordered(s)' = Where(om2awm', AppCloses(s))
      /\ \A t \in Types : OrderedAt(s, t)' = Where(om2awm', AppClosesAt(s, t))
      /\ Behind(om2awm, AppOpens(s), AppCloses(s))' = Behind(om2awm', AppOpens(s), AppCloses(s))
  BY DEF Ordered, OrderedAt, Where, AppOpens, AppCloses, AppClosesAt, Behind
<1>2. /\ Same(Ordered(s), Ordered(s)')
      /\ \A t \in Types : Same(OrderedAt(s, t), OrderedAt(s, t)')
  BY <1>1
<1>3. Asking(s)' /\ \A i \in Serving(s) : Granted(s, i)' <=> Granted(s, i)
  BY AskingKept DEF App
<1>4. ASSUME NEW i \in Serving(s)', Granted(s, i)'
      PROVE  /\ Ordered(s)' = {} /\ EndpointType(instances'[i].ep) = instances'[i].type
             /\ Holding(instances[i].type, s)' # {}
  <2>1. /\ i \in Serving(s) /\ Ordered(s) = {} /\ Holding(instances[i].type, s) # {}
        /\ EndpointType(instances[i].ep) = instances[i].type
    BY <1>3, <1>4 DEF App, Held, SameServers
  <2>2. PICK t \in Types : t = instances[i].type /\ t = instances'[i].type
    BY <2>1 DEF InstancesTypeOK, SameServers, Serving, Live
  <2>3. Holding(instances[i].type, s)' # {}
    BY <2>1, <2>2 DEF Holding
  <2>4. QED BY <1>2, <2>1, <2>3 DEF Same, SameServers
<1>5. \A t, u \in Types : \A k \in Holding(t, s)', l \in Holding(u, s)' : t = u /\ k = l
  BY DEF App, Held
<1>6. \A t \in Types : Holding(t, s)' # {} =>
        \/ \E i \in Serving(s)' : Granted(s, i)' /\ instances'[i].type = t
        \/ OrderedAt(s, t)' # {}
  BY <1>2, <1>3 DEF App, Held, Same, SameServers
<1>7. Held(s)'
  BY <1>1, <1>4, <1>5, <1>6 DEF App, Held
<1>8. QED BY <1>3, <1>7 DEF App

-----------------------------------------------------------------------------
(* The entries of a table can be counted. *)
LEMMA EntriesFinite ==
  /\ Cardinality(Entries) = MaxSocketSupported
  /\ \A X : IsFiniteSet(Entries \ X)
<1>1. MaxSocketSupported \in Nat /\ MaxSocketSupported > 0
  BY MicroAppsAssumption
<1>2. IsFiniteSet(Entries) /\ Cardinality(Entries) = MaxSocketSupported
  BY <1>1, FS_Interval DEF Entries
<1>3. ASSUME NEW X
      PROVE  IsFiniteSet(Entries \ X)
  BY <1>2, FS_Subset
<1>4. QED BY <1>2, <1>3

(* Filling a free entry of a microapp's table, counter and all. *)
LEMMA FillEntry ==
  ASSUME AppsTypeOK, Counters, NEW t \in Types, NEW s \in Sockets, NEW k \in Unused(t),
         socketDetails' = [socketDetails EXCEPT ![t][k] = s],
         socketsInUse' = [socketsInUse EXCEPT ![t] = @ + 1]
  PROVE  /\ Counters'
         /\ Holding(t, s)' = Holding(t, s) \cup {k}
         /\ \A u \in Types, r \in Sockets : u # t \/ r # s => Holding(u, r)' = Holding(u, r)
<1>1. /\ k \in Entries /\ s # NoSocket /\ socketDetails[t][k] = NoSocket
      /\ socketDetails \in [Types -> [Entries -> Sockets \cup {NoSocket}]]
      /\ NoSocket \notin Sockets
  BY SocketsAssumption DEF Unused, AppsTypeOK
<1>2. \A u \in Types, l \in Entries :
        socketDetails'[u][l] = IF u = t /\ l = k THEN s ELSE socketDetails[u][l]
  BY <1>1
<1>3. /\ Unused(t)' = Unused(t) \ {k}
      /\ \A u \in Types \ {t} : Unused(u)' = Unused(u)
  BY <1>1, <1>2 DEF Unused
<1>4. /\ Holding(t, s)' = Holding(t, s) \cup {k}
      /\ \A u \in Types, r \in Sockets : u # t \/ r # s => Holding(u, r)' = Holding(u, r)
  BY <1>1, <1>2 DEF Holding
<1>5. Cardinality(Entries \ Unused(t)') = Cardinality(Entries \ Unused(t)) + 1
  <2>1. Entries \ Unused(t)' = (Entries \ Unused(t)) \cup {k} /\ k \notin Entries \ Unused(t)
    BY <1>1, <1>3
  <2>2. IsFiniteSet(Entries \ Unused(t))
    BY EntriesFinite
  <2>3. QED BY <2>1, <2>2, FS_AddElement
<1>6. Counters'
  <2>1. socketsInUse'[t] = socketsInUse[t] + 1
        /\ \A u \in Types \ {t} : socketsInUse'[u] = socketsInUse[u]
    BY DEF AppsTypeOK
  <2>2. \A u \in Types : socketsInUse[u] = Cardinality(Entries \ Unused(u))
    BY DEF Counters
  <2>3. ASSUME NEW u \in Types
        PROVE  socketsInUse'[u] = Cardinality(Entries \ Unused(u)')
    BY <1>3, <1>5, <2>1, <2>2
  <2>4. QED BY <2>3 DEF Counters
<1>7. QED BY <1>4, <1>6

(* And clearing one. *)
LEMMA ClearEntry ==
  ASSUME AppsTypeOK, Counters, NEW t \in Types, NEW s \in Sockets, NEW k \in Holding(t, s),
         socketDetails' = [socketDetails EXCEPT ![t][k] = NoSocket],
         socketsInUse' = [socketsInUse EXCEPT ![t] = @ - 1]
  PROVE  /\ Counters'
         /\ \A l \in Holding(t, s)' : l \in Holding(t, s) /\ l # k
         /\ \A u \in Types, r \in Sockets : u # t \/ r # s => Holding(u, r)' = Holding(u, r)
<1>1. /\ k \in Entries /\ s # NoSocket /\ socketDetails[t][k] = s
      /\ socketDetails \in [Types -> [Entries -> Sockets \cup {NoSocket}]]
      /\ NoSocket \notin Sockets
  BY SocketsAssumption DEF Holding, AppsTypeOK
<1>2. \A u \in Types, l \in Entries :
        socketDetails'[u][l] = IF u = t /\ l = k THEN NoSocket ELSE socketDetails[u][l]
  BY <1>1
<1>3. /\ Unused(t)' = Unused(t) \cup {k} /\ k \notin Unused(t)
      /\ \A u \in Types \ {t} : Unused(u)' = Unused(u)
  BY <1>1, <1>2 DEF Unused
<1>4. /\ \A l \in Holding(t, s)' : l \in Holding(t, s) /\ l # k
      /\ \A u \in Types, r \in Sockets : u # t \/ r # s => Holding(u, r)' = Holding(u, r)
  BY <1>1, <1>2 DEF Holding
<1>5. Cardinality(Entries \ Unused(t)') = Cardinality(Entries \ Unused(t)) - 1
  <2>1. Entries \ Unused(t)' = (Entries \ Unused(t)) \ {k} /\ k \in Entries \ Unused(t)
    BY <1>1, <1>3
  <2>2. IsFiniteSet(Entries \ Unused(t))
    BY EntriesFinite
  <2>3. QED BY <2>1, <2>2, FS_RemoveElement
<1>6. Counters'
  <2>1. socketsInUse'[t] = socketsInUse[t] - 1
        /\ \A u \in Types \ {t} : socketsInUse'[u] = socketsInUse[u]
    BY DEF AppsTypeOK
  <2>2. \A u \in Types : socketsInUse[u] = Cardinality(Entries \ Unused(u))
    BY DEF Counters
  <2>3. ASSUME NEW u \in Types
        PROVE  socketsInUse'[u] = Cardinality(Entries \ Unused(u)')
    BY <1>3, <1>5, <2>1, <2>2
  <2>4. QED BY <2>3 DEF Counters
<1>7. QED BY <1>4, <1>6

(* A microapp whose counter is below its limit has a free entry. *)
LEMMA FreeEntry ==
  ASSUME Counters, NEW t \in Types, Unused(t) = {}
  PROVE  socketsInUse[t] >= MaxSocketSupported
<1>1. Entries \ Unused(t) = Entries
  OBVIOUS
<1>2. Cardinality(Entries) = MaxSocketSupported
  BY EntriesFinite
<1>3. socketsInUse[t] = MaxSocketSupported
  BY <1>1, <1>2 DEF Counters
<1>4. QED BY <1>3, MicroAppsAssumption

-----------------------------------------------------------------------------
(* What App(s) depends on. *)
LEMMA AppsQuiet ==
  ASSUME UNCHANGED <<instances, om2awm, awm2om, appVars>>
  PROVE  /\ \A s \in Sockets : App(s)' = App(s)
         /\ Counters' = Counters
BY DEF App, Asking, Held, Granted, Asked, Ordered, OrderedAt, Accepted, Rejected, Answers, Where, Behind,
       Serving, Live, AppOpen, Holding, Unused, Counters, appVars

(* An answer of a microapp is added to its queue, for a socket or for UnknownId. *)
LEMMA AppAnswerSent ==
  ASSUME awm2om \in Seq(AwmToOmMsgs), NEW r \in Sockets \cup {UnknownId},
         NEW status \in Results, awm2om' = OpenRes(r, status)
  PROVE  /\ \A s \in Sockets \ {r}, st \in Results :
              Same(Answers(awm2om, s, st), Answers(awm2om', s, st))
         /\ \A s \in Sockets, st \in Results :
              Answers(awm2om, s, st) = {} => One(Answers(awm2om', s, st))
         /\ \A s \in Sockets, st \in Results :
              Answers(awm2om, s, st) = {} =>
                (Answers(awm2om', s, st) # {} <=> s = r /\ st = status)
<1>1. AppAnswer(r, status) \in AwmToOmMsgs /\ awm2om' = Append(awm2om, AppAnswer(r, status))
  BY DEF AppAnswer, AwmToOmMsgs, OpenRes
<1>2. ASSUME NEW s, NEW st
      PROVE  AppAnswer(r, status) \in {AppAnswer(s, st)} <=> s = r /\ st = status
  BY DEF AppAnswer
<1>3. \A s, st : ~(s = r /\ st = status) =>
        Same(Answers(awm2om, s, st), Answers(awm2om', s, st))
  BY <1>1, <1>2, WhereAppend DEF Answers
<1>4. Answers(awm2om, r, status) = {} =>
         /\ Answers(awm2om', r, status) # {}
         /\ One(Answers(awm2om', r, status))
  BY <1>1, WhereAppend DEF Answers
<1>5. QED BY <1>3, <1>4 DEF Same, One

(* The microapp reads an open request: nothing of an earlier life of the id   *)
(* is left, so it holds one entry for the socket, or none.                 *)
LEMMA OpenReqApps ==
  ASSUME AInv, open_socket_req, UNCHANGED instances
  PROVE  Counters' /\ \A s \in Sockets : App(s)'
<1>1. /\ om2awm # <<>> /\ om2awm' = Tail(om2awm) /\ Head(om2awm) \in OmToAwmMsgs
      /\ Head(om2awm).op = "OPEN_REQ" /\ Head(om2awm).id \in Sockets
      /\ om2awm \in Seq(OmToAwmMsgs) /\ awm2om \in Seq(AwmToOmMsgs) /\ InstancesTypeOK
      /\ AppsTypeOK /\ Counters
  BY QueueTypes, MessageFields
     DEF AInv, PInv, IInv, TypeOK, ChannelsTypeOK, open_socket_req, Next1
<1>2. PICK s0 \in Sockets, m \in OmToAwmMsgs :
         m = Head(om2awm) /\ m.id = s0 /\ m \in AppOpens(s0) /\ App(s0)
  BY <1>1 DEF AppOpens, AInv
<1>3. Where(om2awm', AppOpens(s0)) = {} /\ 1 \in Asked(s0) /\ Ordered(s0) = {}
  <2>1. 1 \in Asked(s0)
    BY <1>1, <1>2, WhereTailed DEF Asked
  <2>2. Where(om2awm', AppOpens(s0)) = {}
    BY <1>1, <1>2, WhereTail DEF App, Asking, Asked
  <2>3. Ordered(s0) = {}
    BY <1>1, <1>2, BehindTailed DEF App, Held, Ordered
  <2>4. QED BY <2>1, <2>2, <2>3
<1>4. PICK i \in Serving(s0) :
         instances[i].state = "OffloadToMicrostackSuccess" /\ m = AppOpen(i)
  <2>1. PICK i \in Serving(s0) : /\ instances[i].state = "OffloadToMicrostackSuccess"
                                 /\ \A k \in Asked(s0) : om2awm[k] = AppOpen(i)
    BY <1>2, <1>3 DEF App, Asking
  <2>2. m = om2awm[1]
    BY <1>1, <1>2
  <2>3. QED BY <1>3, <2>1, <2>2
<1>5. /\ Accepted(s0) = {} /\ Rejected(s0) = {} /\ Serving(s0) = {i}
      /\ \A t \in Types : Holding(t, s0) = {}
      /\ m.type = instances[i].type /\ m.ep = instances[i].ep
  <2>1. Accepted(s0) = {} /\ Rejected(s0) = {}
    BY <1>2, <1>3 DEF App, Asking
  <2>2. Serving(s0) = {i}
    BY <1>1, <1>4, OneAnswers DEF AInv, PInv, One
  <2>3. ~Granted(s0, i)
    BY <1>4, <2>1 DEF Granted
  <2>4. \A t : OrderedAt(s0, t) = {}
    BY <1>3 DEF Ordered, OrderedAt, AppClosesAt, Where
  <2>5. \A t \in Types : Holding(t, s0) = {}
    BY <1>2, <2>2, <2>3, <2>4 DEF App, Held
  <2>6. QED BY <1>4, <2>1, <2>2, <2>5 DEF AppOpen
<1>6. ASSUME NEW s \in Sockets, s # s0,
             \A t \in Types : Holding(t, s)' = Holding(t, s),
             NEW r \in {s0, UnknownId}, NEW status \in Results, awm2om' = OpenRes(r, status)
      PROVE  App(s)'
  <2>1. \A st \in Results :
           Same(Answers(awm2om, s, st), Answers(awm2om', s, st))
    BY <1>1, <1>6, AppAnswerSent, SocketsAssumption
  <2>2. App(s) /\ SameServers(s)
    BY DEF AInv, Serving, Live, SameServers
  <2>3. /\ Same(Asked(s), Where(om2awm', AppOpens(s)))
        /\ Same(Ordered(s), Where(om2awm', AppCloses(s)))
        /\ \A t : Same(OrderedAt(s, t), Where(om2awm', AppClosesAt(s, t)))
        /\ \A k \in Where(om2awm', AppOpens(s)) : \E l \in Asked(s) : om2awm'[k] = om2awm[l]
        /\ Behind(om2awm, AppOpens(s), AppCloses(s)) => Behind(om2awm', AppOpens(s), AppCloses(s))
    BY <1>1, <1>2, <1>6, CommandsKept
  <2>4. QED BY <1>1, <1>6, <2>1, <2>2, <2>3, AppKept
<1>7. /\ Asked(s0)' = {} /\ Ordered(s0)' = {} /\ Serving(s0)' = {i}
      /\ instances'[i].state = "OffloadToMicrostackSuccess"
      /\ Granted(s0, i)' <=> Accepted(s0)' # {}
      /\ Behind(om2awm, AppOpens(s0), AppCloses(s0))'
  <2>1. Asked(s0)' = Where(om2awm', AppOpens(s0)) /\ Ordered(s0)' = Where(om2awm', AppCloses(s0))
    BY DEF Asked, Ordered, Where, AppOpens, AppCloses
  <2>2. Where(om2awm', AppCloses(s0)) = {}
    BY <1>1, <1>3, WhereTailed DEF Ordered
  <2>3. Serving(s0)' = {i}
    BY <1>5 DEF Serving, Live
  <2>4. Behind(om2awm, AppOpens(s0), AppCloses(s0))'
    BY <1>3 DEF Behind, Where, AppOpens, AppCloses
  <2>5. QED BY <1>3, <1>4, <2>1, <2>2, <2>3, <2>4 DEF Granted
<1>8. /\ Accepted(s0)' = Answers(awm2om', s0, "SUCCESS")
      /\ Rejected(s0)' = Answers(awm2om', s0, "FAILURE")
      /\ Answers(awm2om, s0, "SUCCESS") = {}
      /\ Answers(awm2om, s0, "FAILURE") = {}
      /\ "SUCCESS" \in Results /\ "FAILURE" \in Results
  BY <1>5 DEF Accepted, Rejected, Answers, Where, AppAnswer, Results
<1>9. ASSUME NEW r \in {s0, UnknownId}, awm2om' = OpenRes(r, "FAILURE"), UNCHANGED appVars
      PROVE  Counters' /\ \A s \in Sockets : App(s)'
  <2>1. Counters' /\ \A s \in Sockets, t \in Types : Holding(t, s)' = Holding(t, s)
    BY <1>1, <1>9 DEF Counters, Unused, Holding, appVars
  <2>2. /\ Accepted(s0)' = {} /\ One(Rejected(s0)')
    <3>1. /\ \A st \in Results : One(Answers(awm2om', s0, st))
          /\ \A st \in Results :
               Answers(awm2om', s0, st) # {} <=> s0 = r /\ st = "FAILURE"
      <4>1. r \in Sockets \cup {UnknownId} /\ "FAILURE" \in Results /\ s0 \in Sockets
        BY <1>2, <1>8
      <4>2. awm2om \in Seq(AwmToOmMsgs) /\ awm2om' = OpenRes(r, "FAILURE")
        BY <1>1, <1>9
      <4>3. \A st \in Results : Answers(awm2om, s0, st) = {}
        BY <1>8 DEF Results
      <4>4. \A st \in Results : One(Answers(awm2om', s0, st))
        BY <4>1, <4>2, <4>3, AppAnswerSent
      <4>5. \A s \in Sockets, st \in Results :
               Answers(awm2om, s, st) = {} =>
                 (Answers(awm2om', s, st) # {} <=> s = r /\ st = "FAILURE")
        BY SMTT(30), <4>1, <4>2, AppAnswerSent
      <4>6. QED BY <4>1, <4>3, <4>4, <4>5
    <3>2. QED BY <1>8, <3>1
  <2>3. Asking(s0)'
    BY <1>7, <2>2 DEF Asking, One
  <2>4. Held(s0)'
    BY <1>5, <1>7, <2>1, <2>2 DEF Held
  <2>5. QED BY <1>6, <1>8, <1>9, <2>1, <2>3, <2>4 DEF App
<1>10. ASSUME NEW t \in Types, t = instances[i].type, t = EndpointType(instances[i].ep),
              socketsInUse[t] < MaxSocketSupported,
              socketsInUse' = [socketsInUse EXCEPT ![t] = @ + 1],
              IF Unused(t) = {} THEN UNCHANGED <<awm2om, socketDetails>>
              ELSE /\ socketDetails' = [socketDetails EXCEPT ![t][Lowest(Unused(t))] = m.id]
                   /\ awm2om' = OpenRes(m.id, "SUCCESS")
       PROVE  Counters' /\ \A s \in Sockets : App(s)'
  <2>1. Unused(t) # {}
    <3>1. socketsInUse[t] \in Int /\ MaxSocketSupported \in Int
      BY <1>1, MicroAppsAssumption DEF AppsTypeOK
    <3>2. QED BY <1>1, <1>10, <3>1, FreeEntry
  <2>2. PICK n \in Unused(t) : n = Lowest(Unused(t))
    BY <2>1, LeastEntry DEF Unused
  <2>3. socketDetails' = [socketDetails EXCEPT ![t][n] = s0] /\ awm2om' = OpenRes(s0, "SUCCESS")
    BY <1>2, <1>10, <2>1, <2>2
  <2>4. /\ Counters'
        /\ Holding(t, s0)' = Holding(t, s0) \cup {n}
        /\ \A u \in Types, r \in Sockets : u # t \/ r # s0 => Holding(u, r)' = Holding(u, r)
    <3>1. n \in Unused(t) /\ socketsInUse' = [socketsInUse EXCEPT ![t] = @ + 1]
      BY <1>10
    <3>3. AppsTypeOK /\ Counters /\ t \in Types /\ s0 \in Sockets
      BY <1>1, <1>2
    <3>4. socketDetails' = [socketDetails EXCEPT ![t][n] = s0]
      BY <2>3
    <3>5. Counters'
      BY <3>1, <3>3, <3>4, FillEntry
    <3>6. QED BY <3>1, <3>3, <3>4, <3>5, FillEntry
  <2>5. \A u \in Types : Holding(u, s0)' = IF u = t THEN {n} ELSE {}
    BY <1>5, <2>4
  <2>6. Accepted(s0)' # {} /\ One(Accepted(s0)') /\ Rejected(s0)' = {}
    <3>1. /\ \A st \in Results : One(Answers(awm2om', s0, st))
          /\ \A st \in Results :
               Answers(awm2om', s0, st) # {} <=> s0 = s0 /\ st = "SUCCESS"
      <4>1. s0 \in Sockets \cup {UnknownId} /\ "SUCCESS" \in Results /\ s0 \in Sockets
        BY <1>2, <1>8
      <4>2. awm2om \in Seq(AwmToOmMsgs) /\ awm2om' = OpenRes(s0, "SUCCESS")
        BY <1>1, <2>3
      <4>3. \A st \in Results : Answers(awm2om, s0, st) = {}
        BY <1>8 DEF Results
      <4>4. QED BY <4>1, <4>2, <4>3, AppAnswerSent
    <3>2. QED BY <1>8, <3>1
  <2>7. Asking(s0)'
    BY <1>7, <2>6 DEF Asking, One
  <2>8. Held(s0)'
    <3>1. Granted(s0, i)'
      BY <1>7, <2>6
    <3>2. Holding(instances[i].type, s0)' # {}
      <4>1. Holding(t, s0)' # {} /\ instances'[i].type = t
        BY <1>10, <2>5
      <4>2. Holding(instances[i].type, s0)' = Holding(t, s0)'
        BY <4>1 DEF Holding
      <4>3. QED BY <4>1, <4>2
    <3>3. EndpointType(instances'[i].ep) = instances'[i].type /\ instances'[i].type = t
      BY <1>10
    <3>4. \A u, v \in Types : \A k \in Holding(u, s0)', l \in Holding(v, s0)' : u = v /\ k = l
      BY <2>5
    <3>5. \A u \in Types : Holding(u, s0)' # {} => u = t
      BY <2>5
    <3>6. QED BY <1>7, <3>1, <3>2, <3>3, <3>4, <3>5 DEF Held
  <2>9. QED BY <1>6, <1>8, <2>3, <2>4, <2>7, <2>8 DEF App
<1>11. CASE EndpointType(m.ep) \in Types
  <2>1. PICK t \in Types : t = EndpointType(m.ep)
    BY <1>11
  <2>2. socket_opened(t, m)
    BY <1>2, <1>11, <2>1 DEF open_socket_req
  <2>3. socketsInUse[t] \in Int /\ MaxSocketSupported \in Int
    BY <1>1, MicroAppsAssumption DEF AppsTypeOK
  <2>4. CASE m.type # t \/ socketsInUse[t] >= MaxSocketSupported
    <3>1. awm2om' = OpenRes(s0, "FAILURE") /\ UNCHANGED appVars
      BY <1>2, <2>2, <2>4 DEF socket_opened
    <3>2. QED BY <1>9, <3>1
  <2>5. CASE m.type = t /\ socketsInUse[t] < MaxSocketSupported
    <3>1. /\ socketsInUse' = [socketsInUse EXCEPT ![t] = @ + 1]
          /\ IF Unused(t) = {} THEN UNCHANGED <<awm2om, socketDetails>>
             ELSE /\ socketDetails' = [socketDetails EXCEPT ![t][Lowest(Unused(t))] = m.id]
                  /\ awm2om' = OpenRes(m.id, "SUCCESS")
      BY <2>2, <2>3, <2>5 DEF socket_opened
    <3>2. t = instances[i].type /\ t = EndpointType(instances[i].ep)
      BY <1>5, <2>1, <2>5
    <3>3. QED BY <1>10, <2>5, <3>1, <3>2
  <2>6. QED BY <2>3, <2>4, <2>5
<1>12. CASE EndpointType(m.ep) \notin Types
  BY <1>2, <1>9, <1>12 DEF open_socket_req
<1>13. QED BY <1>11, <1>12

(* The microapp reads a close command: the entry it names is cleared, and for  *)
(* an entry at the other microapp there is a command of its own.           *)
LEMMA CloseCmdApps ==
  ASSUME AInv, close_socket_cmd, UNCHANGED instances
  PROVE  Counters' /\ \A s \in Sockets : App(s)'
<1>1. /\ om2awm # <<>> /\ om2awm' = Tail(om2awm) /\ Head(om2awm) \in OmToAwmMsgs
      /\ Head(om2awm).op = "CLOSE_CMD" /\ Head(om2awm).id \in Sockets
      /\ om2awm \in Seq(OmToAwmMsgs) /\ awm2om \in Seq(AwmToOmMsgs) /\ InstancesTypeOK
      /\ AppsTypeOK /\ Counters /\ awm2om' = awm2om
  BY QueueTypes, MessageFields
     DEF AInv, PInv, IInv, TypeOK, ChannelsTypeOK, close_socket_cmd, Next1
<1>2. PICK s0 \in Sockets, m \in OmToAwmMsgs :
         /\ m = Head(om2awm) /\ m.id = s0 /\ m \in AppCloses(s0) /\ App(s0)
         /\ m \notin AppOpens(s0)
  BY <1>1 DEF AppOpens, AppCloses, AInv
<1>3. \A s \in Sockets, st \in Results : Same(Answers(awm2om, s, st), Answers(awm2om', s, st))
  BY <1>1, SameRefl
<1>4. \A s \in Sockets : App(s) /\ SameServers(s)
  BY DEF AInv, SameServers, Serving, Live
<1>5. ASSUME NEW s \in Sockets, s # s0, \A t \in Types : Holding(t, s)' = Holding(t, s)
      PROVE  App(s)'
  <2>1. /\ Same(Asked(s), Where(om2awm', AppOpens(s)))
        /\ Same(Ordered(s), Where(om2awm', AppCloses(s)))
        /\ \A t : Same(OrderedAt(s, t), Where(om2awm', AppClosesAt(s, t)))
        /\ \A k \in Where(om2awm', AppOpens(s)) : \E l \in Asked(s) : om2awm'[k] = om2awm[l]
        /\ Behind(om2awm, AppOpens(s), AppCloses(s)) => Behind(om2awm', AppOpens(s), AppCloses(s))
    BY <1>1, <1>2, <1>5, CommandsKept
  <2>2. QED BY <1>1, <1>3, <1>4, <1>5, <2>1, AppKept
<1>6. Asking(s0)' /\ \A i \in Serving(s0)' : ~Granted(s0, i)'
  <2>1. /\ Same(Asked(s0), Where(om2awm', AppOpens(s0)))
        /\ \A k \in Where(om2awm', AppOpens(s0)) : \E l \in Asked(s0) : om2awm'[k] = om2awm[l]
    BY <1>1, <1>2, OpensKept
  <2>2. Asking(s0)' /\ \A i \in Serving(s0) : Granted(s0, i)' <=> Granted(s0, i)
    BY <1>2, <1>3, <1>4, <2>1, AskingKept DEF App
  <2>3. Ordered(s0) # {}
    BY <1>1, <1>2, WhereTail DEF Ordered
  <2>4. QED BY <1>2, <1>4, <2>2, <2>3 DEF App, Held, SameServers
<1>7. Behind(om2awm, AppOpens(s0), AppCloses(s0))'
  <2>1. Behind(om2awm', AppOpens(s0), AppCloses(s0))
    BY <1>1, <1>2, BehindTailed DEF App, Held
  <2>2. QED BY <2>1 DEF Behind, Where, AppOpens, AppCloses
<1>8. ASSUME NEW t \in Types, t # EndpointType(m.ep), Holding(t, s0) # {}
      PROVE  OrderedAt(s0, t)' # {}
  <2>1. OrderedAt(s0, t) # {}
    <3>1. \A i \in Serving(s0) : ~Granted(s0, i)
      <4>1. Ordered(s0) # {}
        BY <1>1, <1>2, WhereTail DEF Ordered
      <4>2. QED BY <1>2, <4>1 DEF App, Held
    <3>2. QED BY <1>2, <1>8, <3>1 DEF App, Held
  <2>2. m \notin AppClosesAt(s0, t)
    BY <1>8 DEF AppClosesAt
  <2>3. Where(om2awm', AppClosesAt(s0, t)) # {}
    BY <1>1, <1>2, <2>1, <2>2, WhereTail DEF OrderedAt, Same
  <2>4. QED BY <2>3 DEF OrderedAt, Where, AppClosesAt, AppCloses
<1>9. CASE EndpointType(m.ep) \in Types /\ Holding(EndpointType(m.ep), s0) # {}
  <2>1. PICK t \in Types : t = EndpointType(m.ep)
    BY <1>9
  <2>2. /\ socketsInUse' = [socketsInUse EXCEPT ![t] = @ - 1]
        /\ socketDetails' = [socketDetails EXCEPT ![t][Lowest(Holding(t, s0))] = NoSocket]
    BY <1>2, <1>9, <2>1 DEF close_socket_cmd, socket_closed
  <2>3. PICK n \in Holding(t, s0) : n = Lowest(Holding(t, s0))
    BY <1>9, <2>1, LeastEntry DEF Holding
  <2>4. socketDetails' = [socketDetails EXCEPT ![t][n] = NoSocket]
    BY <2>2, <2>3
  <2>5. /\ Counters' /\ \A l \in Holding(t, s0)' : l \in Holding(t, s0) /\ l # n
        /\ \A u \in Types, r \in Sockets : u # t \/ r # s0 => Holding(u, r)' = Holding(u, r)
    <3>1. n \in Holding(t, s0) /\ socketsInUse' = [socketsInUse EXCEPT ![t] = @ - 1]
      BY <2>2, <2>3
    <3>2. AppsTypeOK /\ Counters /\ t \in Types /\ s0 \in Sockets
      BY <1>1, <1>2, <2>1
    <3>3. Counters'
      BY <2>4, <3>1, <3>2, ClearEntry
    <3>4. \A l \in Holding(t, s0)' : l \in Holding(t, s0) /\ l # n
      BY <2>4, <3>1, <3>2, ClearEntry
    <3>5. \A u \in Types, r \in Sockets : u # t \/ r # s0 => Holding(u, r)' = Holding(u, r)
      BY <2>4, <3>1, <3>2, ClearEntry
    <3>6. QED BY <3>3, <3>4, <3>5
  <2>6. \A u \in Types : Holding(u, s0)' = {}
    <3>1. \A u, v \in Types : \A k \in Holding(u, s0), l \in Holding(v, s0) : u = v /\ k = l
      BY <1>2 DEF App, Held
    <3>2. \A l \in Holding(t, s0) : l = n
      BY <2>3, <3>1
    <3>3. \A u \in Types : u # t => Holding(u, s0) = {}
      BY <2>3, <3>1
    <3>4. QED BY <1>2, <2>5, <3>2, <3>3
  <2>7. Held(s0)'
    BY <1>6, <1>7, <2>6 DEF Held
  <2>8. QED BY <1>5, <1>6, <2>5, <2>7 DEF App
<1>10. CASE EndpointType(m.ep) \notin Types \/ Holding(EndpointType(m.ep), s0) = {}
  <2>1. UNCHANGED appVars
    BY <1>2, <1>10 DEF close_socket_cmd, socket_closed
  <2>2. Counters' /\ \A s \in Sockets, t \in Types : Holding(t, s)' = Holding(t, s)
    BY <1>1, <2>1 DEF Counters, Unused, Holding, appVars
  <2>3. \A t, u \in Types : \A k \in Holding(t, s0)', l \in Holding(u, s0)' : t = u /\ k = l
    BY <1>2, <2>2 DEF App, Held
  <2>4. ASSUME NEW t \in Types, Holding(t, s0)' # {}
        PROVE  OrderedAt(s0, t)' # {}
    <3>1. Holding(t, s0) # {}
      BY <1>2, <2>2, <2>4
    <3>2. t # EndpointType(m.ep)
      BY <1>10, <3>1
    <3>3. QED BY <1>8, <3>1, <3>2
  <2>5. Held(s0)'
    BY <1>6, <1>7, <2>3, <2>4 DEF Held
  <2>6. QED BY <1>5, <1>6, <2>2, <2>5 DEF App
<1>11. QED BY <1>9, <1>10

(* A step that changes no server, no table of a microapp and no command, and    *)
(* reads or adds at most an answer that is nobody's, keeps all of it.      *)
LEMMA StillApps ==
  ASSUME AInv, UNCHANGED <<om2awm, appVars>>, \A s \in Sockets : SameServers(s),
         \/ awm2om' = awm2om
         \/ awm2om # <<>> /\ awm2om' = Tail(awm2om)
              /\ (Head(awm2om).id \notin Sockets \/ Head(awm2om).op = "CLOSE_IND")
         \/ \E m \in AwmToOmMsgs : m.op = "CLOSE_IND" /\ awm2om' = Append(awm2om, m)
  PROVE  Counters' /\ \A s \in Sockets : App(s)'
<1>1. om2awm \in Seq(OmToAwmMsgs) /\ awm2om \in Seq(AwmToOmMsgs) /\ InstancesTypeOK
  BY DEF AInv, PInv, IInv, TypeOK, ChannelsTypeOK
<1>2. Counters' /\ \A s \in Sockets, u \in Types : Holding(u, s)' = Holding(u, s)
  BY <1>1 DEF AInv, Counters, Unused, Holding, appVars
<1>3. ASSUME NEW s \in Sockets
      PROVE  App(s)'
  <2>1. App(s) /\ SameServers(s)
    BY DEF AInv
  <2>2. \A st \in Results : Same(Answers(awm2om, s, st), Answers(awm2om', s, st))
    BY <1>1, AppAnswersKept
  <2>3. /\ Same(Asked(s), Where(om2awm', AppOpens(s)))
        /\ Same(Ordered(s), Where(om2awm', AppCloses(s)))
        /\ \A u : Same(OrderedAt(s, u), Where(om2awm', AppClosesAt(s, u)))
        /\ \A k \in Where(om2awm', AppOpens(s)) : \E l \in Asked(s) : om2awm'[k] = om2awm[l]
        /\ Behind(om2awm, AppOpens(s), AppCloses(s)) => Behind(om2awm', AppOpens(s), AppCloses(s))
    BY <1>1, CommandsKept
  <2>4. QED BY <1>1, <1>2, <2>1, <2>2, <2>3, AppKept
<1>4. QED BY <1>2, <1>3

(* A microapp that gives up a socket only sends a close indication. *)
LEMMA QapiApps ==
  ASSUME AInv, NEW t \in Types, NEW s0 \in Sockets, close_socket_qapi(t, s0), UNCHANGED instances
  PROVE  Counters' /\ \A s \in Sockets : App(s)'
<1> DEFINE m == [op |-> "CLOSE_IND", id |-> s0]
<1>1. /\ m \in AwmToOmMsgs /\ m.op = "CLOSE_IND" /\ awm2om' = Append(awm2om, m)
      /\ UNCHANGED appVars /\ om2awm' = om2awm
  BY DEF close_socket_qapi, AwmToOmMsgs
<1> HIDE DEF m
<1>2. \A s \in Sockets : SameServers(s)
  BY DEF SameServers, Serving, Live
<1>3. QED BY <1>1, <1>2, StillApps

-----------------------------------------------------------------------------
(* What an event about the socket of instance i says to the app manager is      *)
(* about that socket; so is the answer that raised it.                     *)
LEMMA OtherApps ==
  ASSUME AInv, NEW i \in Slots, NEW s \in Sockets, s # instances[i].id, UNCHANGED appVars,
         \A j \in Slots \ {i} : instances'[j] = instances[j],
         instances'[i].id = instances[i].id,
         \/ om2awm' = om2awm
         \/ \E m \in OmToAwmMsgs : m.id = instances[i].id /\ om2awm' = Append(om2awm, m),
         \/ awm2om' = awm2om
         \/ awm2om # <<>> /\ awm2om' = Tail(awm2om) /\ Head(awm2om).id = instances[i].id
  PROVE  App(s)'
<1>1. /\ om2awm \in Seq(OmToAwmMsgs) /\ awm2om \in Seq(AwmToOmMsgs) /\ InstancesTypeOK
      /\ App(s)
  BY DEF AInv, PInv, IInv, TypeOK, ChannelsTypeOK
<1>2. SameServers(s)
  <2>1. Serving(s)' = Serving(s) /\ i \notin Serving(s) /\ Serving(s) \subseteq Slots
    BY DEF Serving, Live
  <2>2. QED BY <2>1 DEF SameServers
<1>3. \A t \in Types : Holding(t, s)' = Holding(t, s)
  BY DEF Holding, appVars
<1>4. \A st \in Results : Same(Answers(awm2om, s, st), Answers(awm2om', s, st))
  BY <1>1, AppAnswersKept
<1>5. /\ Same(Asked(s), Where(om2awm', AppOpens(s)))
      /\ Same(Ordered(s), Where(om2awm', AppCloses(s)))
      /\ \A u : Same(OrderedAt(s, u), Where(om2awm', AppClosesAt(s, u)))
      /\ \A k \in Where(om2awm', AppOpens(s)) : \E l \in Asked(s) : om2awm'[k] = om2awm[l]
      /\ Behind(om2awm, AppOpens(s), AppCloses(s)) => Behind(om2awm', AppOpens(s), AppCloses(s))
  BY <1>1, CommandsKept
<1>6. QED BY <1>1, <1>2, <1>3, <1>4, <1>5, AppKept

(* The commands an instance sends are messages about its socket. *)
LEMMA CommandTypes ==
  ASSUME InstancesTypeOK, NEW i \in Slots, instances[i].id \in Sockets
  PROVE  /\ AppOpen(i) \in AppOpens(instances[i].id) /\ AppOpen(i) \in OmToAwmMsgs
         /\ AppOpen(i) \notin AppCloses(instances[i].id)
         /\ AppClose(i) \in AppClosesAt(instances[i].id, EndpointType(instances[i].ep))
         /\ AppClose(i) \in AppCloses(instances[i].id) /\ AppClose(i) \in OmToAwmMsgs
         /\ AppClose(i) \notin AppOpens(instances[i].id)
<1>1. instances[i].type \in Types /\ instances[i].ep \in Endpoints
  BY DEF InstancesTypeOK
<1>2. AppOpen(i) \in OmToAwmMsgs /\ AppClose(i) \in OmToAwmMsgs
  BY <1>1 DEF AppOpen, AppClose, OmToAwmMsgs
<1>3. /\ AppOpen(i).op = "OPEN_REQ" /\ AppOpen(i).id = instances[i].id
      /\ AppClose(i).op = "CLOSE_CMD" /\ AppClose(i).id = instances[i].id
      /\ AppClose(i).ep = instances[i].ep
  BY DEF AppOpen, AppClose
<1>4. QED BY <1>2, <1>3 DEF AppOpens, AppCloses, AppClosesAt

(* An expected event at the instance that serves s0 keeps App(s0): its open    *)
(* request goes behind every close command; what the microapp granted is    *)
(* known to the instance, or is taken back by a command.                   *)
LEMMA EventApp ==
  ASSUME AInv, NEW i \in Slots, NEW s0 \in Sockets, s0 = instances[i].id, i \in Live,
         NEW evt \in Events, Moves(i, evt), UNCHANGED appVars,
         \A j \in Slots \ {i} : instances'[j] = instances[j],
         /\ instances'[i].id = s0 /\ instances'[i].type = instances[i].type
         /\ instances'[i].ep = instances[i].ep,
         evt = "UNOFFLOAD_REQ" => Closes(s0) # {},
         IF evt \in {"OFFLOAD_TO_MICROAPP_SUCCESS", "OFFLOAD_TO_MICROAPP_FAILURE"}
         THEN /\ awm2om # <<>> /\ awm2om' = Tail(awm2om)
              /\ Head(awm2om) = AppAnswer(s0, IF evt = "OFFLOAD_TO_MICROAPP_SUCCESS"
                                              THEN "SUCCESS" ELSE "FAILURE")
         ELSE awm2om' = awm2om
  PROVE  App(s0)'
<1>1. /\ om2awm \in Seq(OmToAwmMsgs) /\ awm2om \in Seq(AwmToOmMsgs) /\ InstancesTypeOK
      /\ App(s0) /\ Phase(s0)
  BY DEF AInv, PInv, IInv, TypeOK, ChannelsTypeOK
<1>2. Serving(s0) = {i} /\ Serving(s0)' = IF instances'[i].state \in {"Idle", "Gatt"} THEN {} ELSE {i}
  <2>1. i \in Serving(s0) /\ One(Serving(s0))
    BY OneAnswers DEF AInv, PInv, Serving
  <2>2. Serving(s0) = {i}
    BY <2>1 DEF One
  <2>3. \A j \in Slots : j # i => (j \in Serving(s0)' <=> j \in Serving(s0))
    BY DEF Serving, Live
  <2>4. i \in Serving(s0)' <=> instances'[i].state \notin {"Idle", "Gatt"}
    BY DEF Serving, Live
  <2>5. Serving(s0)' \subseteq Slots
    BY DEF Serving, Live
  <2>6. QED BY <2>2, <2>3, <2>4, <2>5
<1>3. /\ Asked(s0)' = Where(om2awm', AppOpens(s0)) /\ Ordered(s0)' = Where(om2awm', AppCloses(s0))
      /\ \A t : OrderedAt(s0, t)' = Where(om2awm', AppClosesAt(s0, t))
      /\ Accepted(s0)' = Answers(awm2om', s0, "SUCCESS")
      /\ Rejected(s0)' = Answers(awm2om', s0, "FAILURE")
      /\ Behind(om2awm, AppOpens(s0), AppCloses(s0))' = Behind(om2awm', AppOpens(s0), AppCloses(s0))
      /\ \A t \in Types : Holding(t, s0)' = Holding(t, s0)
  BY DEF Asked, Ordered, OrderedAt, Accepted, Rejected, Answers, Where, AppOpens, AppCloses,
         AppClosesAt, AppAnswer, Behind, Holding, appVars
<1>4. /\ Behind(om2awm, AppOpens(s0), AppCloses(s0))
      /\ \A t, u \in Types : \A k \in Holding(t, s0), l \in Holding(u, s0) : t = u /\ k = l
  BY <1>1 DEF App, Held
<1>5. instances[i].state # "OffloadToMicrostackSuccess" =>
         Asked(s0) = {} /\ Accepted(s0) = {} /\ Rejected(s0) = {}
  BY <1>1, <1>2 DEF App, Asking
<1>6. ~Granted(s0, i) => \A t \in Types : Holding(t, s0) # {} => OrderedAt(s0, t) # {}
  BY <1>1, <1>2 DEF App, Held
<1>7. Granted(s0, i) => /\ Ordered(s0) = {}
                       /\ EndpointType(instances[i].ep) = instances[i].type
                       /\ Holding(instances[i].type, s0) # {}
                       /\ \A t \in Types : Holding(t, s0) # {} => t = instances[i].type
  <2>1. instances[i].type \in Types
    BY <1>1 DEF InstancesTypeOK
  <2>2. QED BY <1>1, <1>2, <1>4, <2>1 DEF App, Held
<1>8. CASE Refuses(i) \/ GivesUp(i) \/ Finishes(i)
  <2>1. /\ om2awm' = om2awm /\ instances'[i].state = "Idle"
        /\ instances[i].state \in {"OffloadReq", "OffloadToMicroappFailure", "UnOffloadReqToMicrostack"}
    BY <1>8 DEF Refuses, GivesUp, Finishes, Passes
  <2>2. awm2om' = awm2om
    <3>1. evt \notin {"OFFLOAD_TO_MICROAPP_SUCCESS", "OFFLOAD_TO_MICROAPP_FAILURE"}
      BY <2>1 DEF Moves, AsksMicroapp, Refuses, Reports, TakesBack, Passes
    <3>2. QED BY <3>1
  <2>3. Asked(s0)' = {} /\ Accepted(s0)' = {} /\ Rejected(s0)' = {}
    BY <1>3, <1>5, <2>1, <2>2 DEF Asked, Accepted, Rejected
  <2>4. Serving(s0)' = {} /\ ~Granted(s0, i)
    BY <1>2, <2>1 DEF Granted
  <2>5. \A t \in Types : OrderedAt(s0, t)' = OrderedAt(s0, t)
    BY <1>3, <2>1 DEF OrderedAt
  <2>6. Asking(s0)'
    BY <2>3 DEF Asking, One
  <2>7. Held(s0)'
    BY <1>3, <1>4, <1>6, <2>1, <2>4, <2>5 DEF Held
  <2>8. QED BY <2>6, <2>7 DEF App
<1>9. CASE AsksMicroapp(i)
  <2>1. /\ om2awm' = Append(om2awm, AppOpen(i)) /\ instances[i].state = "OffloadReq"
        /\ instances'[i].state = "OffloadToMicrostackSuccess"
    BY <1>9 DEF AsksMicroapp, Passes
  <2>2. awm2om' = awm2om
    <3>1. evt \notin {"OFFLOAD_TO_MICROAPP_SUCCESS", "OFFLOAD_TO_MICROAPP_FAILURE"}
      BY <2>1 DEF Moves, AsksMicroapp, Refuses, Reports, TakesBack, Passes
    <3>2. QED BY <3>1
  <2>3. PICK m \in OmToAwmMsgs : /\ m = AppOpen(i) /\ m \in AppOpens(s0)
                                 /\ m \notin AppCloses(s0)
    BY <1>1, CommandTypes
  <2>4. om2awm' = Append(om2awm, m)
    BY <2>1, <2>3
  <2>5. Asked(s0) = {} /\ Accepted(s0)' = {} /\ Rejected(s0)' = {}
    BY <1>3, <1>5, <2>1, <2>2 DEF Accepted, Rejected
  <2>6. Asked(s0)' = {Len(om2awm) + 1} /\ om2awm'[Len(om2awm) + 1] = m
    BY <1>1, <1>3, <2>3, <2>4, <2>5, WhereAppended DEF Asked
  <2>7. AppOpen(i)' = m
    BY <2>3 DEF AppOpen
  <2>8. Asking(s0)'
    <3>1. /\ i \in Serving(s0)' /\ instances'[i].state = "OffloadToMicrostackSuccess"
          /\ \A k \in Asked(s0)' : om2awm'[k] = AppOpen(i)'
      BY <1>2, <2>1, <2>6, <2>7
    <3>2. QED BY <2>5, <2>6, <3>1 DEF Asking, One
  <2>9. Held(s0)'
    <3>1. Behind(om2awm', AppOpens(s0), AppCloses(s0))
      BY <1>1, <1>4, <2>3, <2>4, BehindAppended
    <3>2. \A j \in Serving(s0)' : ~Granted(s0, j)'
      BY <1>2, <2>1, <2>5 DEF Granted
    <3>3. ~Granted(s0, i)
      BY <2>1 DEF Granted
    <3>4. \A t \in Types : OrderedAt(s0, t) # {} => OrderedAt(s0, t)' # {}
      BY <1>1, <1>3, <2>3, <2>4, WhereAppended DEF OrderedAt
    <3>5. QED BY <1>3, <1>4, <1>6, <3>1, <3>2, <3>3, <3>4 DEF Held
  <2>10. QED BY <2>8, <2>9 DEF App
<1>10. CASE Reports(i) \/ TakesBack(i)
  <2>1. /\ om2awm' = om2awm /\ instances[i].state = "OffloadToMicrostackSuccess"
        /\ awm2om # <<>> /\ awm2om' = Tail(awm2om)
        /\ \/ /\ Head(awm2om) = AppAnswer(s0, "SUCCESS")
              /\ instances'[i].state = "OffloadToMicroappSuccess"
           \/ /\ Head(awm2om) = AppAnswer(s0, "FAILURE")
              /\ instances'[i].state = "OffloadToMicroappFailure"
    BY <1>10 DEF Moves, AsksMicroapp, Refuses, Reports, TakesBack, Passes, Unoffloads,
                 UnoffloadsEarly, GivesUp, Finishes
  <2>2. ASSUME NEW st \in Results, Head(awm2om) = AppAnswer(s0, st)
        PROVE  Answers(awm2om, s0, st) # {} /\ (One(Answers(awm2om, s0, st)) => Answers(awm2om', s0, st) = {})
    <3>1. PICK M : M = {AppAnswer(s0, st)} /\ Head(awm2om) \in M
      BY <2>2
    <3>2. Where(awm2om, M) # {} /\ (One(Where(awm2om, M)) => Where(awm2om', M) = {})
      <4>1. awm2om \in Seq(AwmToOmMsgs) /\ awm2om # <<>> /\ awm2om' = Tail(awm2om)
        BY <1>1, <2>1
      <4>2. /\ Head(awm2om) \in M => Where(awm2om, M) # {}
            /\ Head(awm2om) \in M /\ One(Where(awm2om, M)) => Where(Tail(awm2om), M) = {}
        BY <4>1, WhereTail
      <4>3. QED BY <3>1, <4>1, <4>2
    <3>3. QED BY <3>1, <3>2 DEF Answers
  <2>3. ASSUME NEW st, Answers(awm2om, s0, st) = {}
        PROVE  Answers(awm2om', s0, st) = {}
    BY <1>1, <2>1, <2>3, WhereTailed DEF Answers
  <2>4. "SUCCESS" \in Results /\ "FAILURE" \in Results
    BY DEF Results
  <2>5. Asking(s0)
    BY <1>1 DEF App
  <2>6. Asked(s0)' = {} /\ Accepted(s0)' = {} /\ Rejected(s0)' = {}
    <3>1. Asked(s0)' = Asked(s0)
      BY <1>3, <2>1 DEF Asked
    <3>2. CASE Head(awm2om) = AppAnswer(s0, "SUCCESS")
      BY <1>3, <2>2, <2>3, <2>4, <2>5, <3>1, <3>2 DEF Asking, Accepted, Rejected
    <3>3. CASE Head(awm2om) = AppAnswer(s0, "FAILURE")
      BY <1>3, <2>2, <2>3, <2>4, <2>5, <3>1, <3>3 DEF Asking, Accepted, Rejected
    <3>4. QED BY <2>1, <3>2, <3>3
  <2>7. Granted(s0, i)' <=> Granted(s0, i)
    <3>1. CASE Head(awm2om) = AppAnswer(s0, "SUCCESS")
      <4>1. Accepted(s0) # {} /\ instances'[i].state = "OffloadToMicroappSuccess"
        BY <2>1, <2>2, <2>4, <3>1 DEF Accepted, AppAnswer
      <4>2. QED BY <2>1, <4>1 DEF Granted
    <3>2. CASE Head(awm2om) = AppAnswer(s0, "FAILURE")
      <4>1. Rejected(s0) # {} /\ instances'[i].state = "OffloadToMicroappFailure"
        BY <2>1, <2>2, <2>4, <3>2 DEF Rejected, AppAnswer
      <4>2. Accepted(s0) = {}
        BY <2>5, <4>1 DEF Asking
      <4>3. QED BY <2>1, <4>1, <4>2 DEF Granted
    <3>3. QED BY <2>1, <3>1, <3>2
  <2>8. Asking(s0)'
    BY <2>6 DEF Asking, One
  <2>9. Serving(s0)' = {i}
    BY <1>2, <2>1
  <2>10. Ordered(s0)' = Ordered(s0) /\ \A t \in Types : OrderedAt(s0, t)' = OrderedAt(s0, t)
    BY <1>3, <2>1 DEF Ordered, OrderedAt
  <2>11. instances[i].type \in Types /\ Holding(instances[i].type, s0)' = Holding(instances[i].type, s0)
    BY <1>1 DEF InstancesTypeOK, Holding, appVars
  <2>12. Held(s0)'
    BY <1>3, <1>4, <1>6, <1>7, <2>1, <2>7, <2>9, <2>10, <2>11 DEF Held
  <2>13. QED BY <2>8, <2>12 DEF App
<1>11. CASE Unoffloads(i)
  <2>1. /\ om2awm' = Append(om2awm, AppClose(i)) /\ instances[i].state = "OffloadToMicroappSuccess"
        /\ instances'[i].state = "UnOffloadReqToMicrostack"
    BY <1>11 DEF Unoffloads, Passes
  <2>2. awm2om' = awm2om
    <3>1. evt \notin {"OFFLOAD_TO_MICROAPP_SUCCESS", "OFFLOAD_TO_MICROAPP_FAILURE"}
      BY <2>1 DEF Moves, AsksMicroapp, Refuses, Reports, TakesBack, Passes
    <3>2. QED BY <3>1
  <2>3. PICK m \in OmToAwmMsgs : /\ m = AppClose(i) /\ m \notin AppOpens(s0)
                                 /\ m \in AppClosesAt(s0, EndpointType(instances[i].ep))
    BY <1>1, CommandTypes
  <2>4. om2awm' = Append(om2awm, m)
    BY <2>1, <2>3
  <2>5. Asked(s0)' = {} /\ Accepted(s0)' = {} /\ Rejected(s0)' = {}
    <3>1. Asked(s0) = {} /\ Accepted(s0)' = {} /\ Rejected(s0)' = {}
      BY <1>3, <1>5, <2>1, <2>2 DEF Accepted, Rejected
    <3>2. QED BY <1>1, <1>3, <2>3, <2>4, <3>1, WhereAppended DEF Asked
  <2>6. Asking(s0)'
    BY <2>5 DEF Asking, One
  <2>7. Held(s0)'
    <3>1. Behind(om2awm, AppOpens(s0), AppCloses(s0))'
      BY <1>3, <2>5 DEF Behind, Asked
    <3>2. \A j \in Serving(s0)' : ~Granted(s0, j)'
      BY <1>2, <2>1 DEF Granted
    <3>3. \A t \in Types : Holding(t, s0) # {} => t = EndpointType(instances[i].ep)
      BY <1>7, <2>1 DEF Granted
    <3>4. OrderedAt(s0, EndpointType(instances[i].ep))' # {}
      <4>1. PICK t : t = EndpointType(instances[i].ep)
        OBVIOUS
      <4>2. Where(om2awm', AppClosesAt(s0, t)) # {}
        BY <1>1, <2>3, <2>4, <4>1, WhereAppended
      <4>3. EndpointType(instances'[i].ep) = t
        BY <4>1
      <4>4. QED BY <1>3, <4>2, <4>3 DEF OrderedAt, AppClosesAt, AppCloses, Where
    <3>5. QED BY <1>3, <1>4, <3>1, <3>2, <3>3, <3>4 DEF Held
  <2>8. QED BY <2>6, <2>7 DEF App
<1>12. ~UnoffloadsEarly(i)
  <2>1. ASSUME UnoffloadsEarly(i)
        PROVE  FALSE
    <3>1. instances[i].state \in Early /\ instances'[i].state = "UnOffloadReqToMicrostack"
      BY <2>1 DEF UnoffloadsEarly, Early
    <3>2. evt = "UNOFFLOAD_REQ"
      BY <3>1 DEF Moves, AsksMicroapp, Refuses, Reports, TakesBack, GivesUp, Finishes, Passes
    <3>3. QED BY <1>1, <1>2, <3>1, <3>2 DEF Phase
  <2>2. QED BY <2>1
<1>13. QED BY <1>8, <1>9, <1>10, <1>11, <1>12 DEF Moves

(* The look-up by socket id answers with an instance of that id, and with the   *)
(* live one if there is one.                                               *)
LEMMA FoundHasId ==
  ASSUME NEW s, NEW i \in Slots, i = find_by_socket_id(s)
  PROVE  instances[i].id = s
<1> DEFINE found == {j \in Slots : instances[j].id = s}
<1>1. found \in SUBSET Slots /\ i = First(found) /\ 0 \notin Slots
  BY DEF find_by_socket_id, Slots
<1>2. i \in found
  <2> HIDE DEF found
  <2>1. QED BY <1>1, FirstIsLeast
<1>3. QED BY <1>2

(* The look-up by socket id finds a live instance, as no stale id is in front. *)
LEMMA LiveIsFound ==
  ASSUME IInv, NEW j \in Live
  PROVE  find_by_socket_id(instances[j].id) = j
<1> DEFINE found == {i \in Slots : instances[i].id = instances[j].id}
<1>1. j \in Slots /\ j \in found /\ found \in SUBSET Slots
  BY DEF Live
<1>2. \A i \in found : ~(i < j)
  BY DEF IInv, Routing
<1>3. find_by_socket_id(instances[j].id) = First(found)
  BY DEF find_by_socket_id
<1> HIDE DEF found
<1>4. First(found) \in found /\ First(found) <= j /\ First(found) \in Slots
  BY <1>1, FirstIsLeast
<1>5. QED BY <1>1, <1>2, <1>3, <1>4, SizesAssumption DEF Slots

(* An event changes nothing for the microapps unless the instance expects it;   *)
(* a microapp's answer always is expected.                                 *)
LEMMA EventApps ==
  ASSUME AInv, NEW i \in Slots, NEW evt \in Events, NEW c \in ConnIds \cup {InvalidConnId},
         ProcessEvent(i, evt, c), UNCHANGED appVars,
         evt = "UNOFFLOAD_REQ" /\ i \in Live => Closes(instances[i].id) # {},
         IF evt \in {"OFFLOAD_TO_MICROAPP_SUCCESS", "OFFLOAD_TO_MICROAPP_FAILURE"}
         THEN /\ instances[i].state = "OffloadToMicrostackSuccess"
              /\ awm2om # <<>> /\ awm2om' = Tail(awm2om)
              /\ Head(awm2om) = AppAnswer(instances[i].id,
                                  IF evt = "OFFLOAD_TO_MICROAPP_SUCCESS" THEN "SUCCESS" ELSE "FAILURE")
         ELSE awm2om' = awm2om
  PROVE  Counters' /\ \A s \in Sockets : App(s)'
<1>1. InstancesTypeOK /\ Rests /\ LiveIds
  BY DEF AInv, PInv, IInv, TypeOK
<1>2. /\ \A j \in Slots \ {i} : instances'[j] = instances[j]
      /\ instances'[i].id = instances[i].id /\ instances'[i].type = instances[i].type
      /\ instances'[i].ep = instances[i].ep
      /\ IF <<instances[i].state, evt>> \in Expected THEN Moves(i, evt) ELSE Ignores(i)
  BY <1>1, EventMoves
<1>3. CASE <<instances[i].state, evt>> \notin Expected
  <2>1. Ignores(i)
    BY <1>2, <1>3
  <2>2. evt \notin {"OFFLOAD_TO_MICROAPP_SUCCESS", "OFFLOAD_TO_MICROAPP_FAILURE"}
    BY <1>3 DEF Expected
  <2>3. \A s \in Sockets : SameServers(s)
    <3>1. \A j \in Slots : /\ instances'[j].state = instances[j].state
                            /\ instances'[j].id = instances[j].id
                            /\ instances'[j].type = instances[j].type
                            /\ instances'[j].ep = instances[j].ep
      BY <1>2, <2>1 DEF Ignores
    <3>2. QED BY <3>1 DEF SameServers, Serving, Live
  <2>4. om2awm' = om2awm /\ awm2om' = awm2om
    BY <2>1, <2>2 DEF Ignores, Silent
  <2>5. QED BY <2>3, <2>4, StillApps
<1>4. CASE <<instances[i].state, evt>> \in Expected
  <2>1. /\ Moves(i, evt) /\ i \in Live
        /\ instances[i].state \in Early \cup {"OffloadToMicroappSuccess", "UnOffloadReqToMicrostack"}
    BY <1>2, <1>4, ExpectedIsLive DEF Live, Early
  <2>2. PICK s0 \in Sockets : s0 = instances[i].id
    BY <1>1, <2>1, LiveIsLiveStates DEF LiveIds
  <2>3. App(s0)'
    BY <1>2, <2>1, <2>2, EventApp
  <2>4. \/ om2awm' = om2awm
        \/ \E m \in OmToAwmMsgs : m.id = s0 /\ om2awm' = Append(om2awm, m)
    <3>1. /\ AppOpen(i) \in OmToAwmMsgs /\ AppOpen(i).id = s0
          /\ AppClose(i) \in OmToAwmMsgs /\ AppClose(i).id = s0
      BY <1>1, <2>2, CommandTypes DEF AppOpens, AppCloses
    <3>2. om2awm' \in {om2awm, Append(om2awm, AppOpen(i)), Append(om2awm, AppClose(i))}
      BY <2>1 DEF Moves, AsksMicroapp, Refuses, Reports, TakesBack, Unoffloads, UnoffloadsEarly,
                  GivesUp, Finishes
    <3>3. QED BY <3>1, <3>2
  <2>5. awm2om' = awm2om \/ (awm2om # <<>> /\ awm2om' = Tail(awm2om) /\ Head(awm2om).id = s0)
    BY <2>2 DEF AppAnswer
  <2>6. \A s \in Sockets : s # s0 => App(s)'
    BY <1>2, <2>2, <2>4, <2>5, OtherApps
  <2>7. Counters'
    BY DEF AInv, Counters, Unused, appVars
  <2>8. QED BY <2>3, <2>6, <2>7
<1>5. QED BY <1>3, <1>4

(* Every handler of the offload manager keeps what the microapps hold. *)
LEMMA OmApps ==
  ASSUME AInv,
         OmStep(FromHal) \/ OmStep(FromMicrostack) \/ OmStep(FromMicroapps) \/ OmStep(GattSessions)
  PROVE  Counters' /\ \A s \in Sockets : App(s)'
<1>1. /\ UNCHANGED appVars
      /\ FromHal \/ FromMicrostack \/ FromMicroapps \/ GattSessions
      /\ InstancesTypeOK /\ hal2om \in Seq(HalToOmMsgs) /\ bmm2om \in Seq(BmmToOmMsgs)
      /\ awm2om \in Seq(AwmToOmMsgs) /\ Rests /\ LiveIds
  BY DEF OmStep, AInv, PInv, IInv, TypeOK, ChannelsTypeOK
<1>2. \A i \in Slots : instances[i].pseudo_id \in ConnIds \cup {InvalidConnId}
  BY <1>1 DEF InstancesTypeOK
<1>3. UNCHANGED instances => \A s \in Sockets : SameServers(s)
  BY DEF SameServers, Serving, Live
<1>4. CASE handle_open_socket
  <2>1. /\ hal2om # <<>> /\ Head(hal2om).op = "OPEN_SOCKET" /\ Head(hal2om) \in HalToOmMsgs
        /\ Head(hal2om).id \in Sockets /\ om2awm' = om2awm /\ awm2om' = awm2om
    BY <1>1, <1>4, QueueTypes, MessageFields DEF handle_open_socket, Next1
  <2>2. CASE find_idle_offload_instance = 0
    <3>1. UNCHANGED instances
      BY <1>4, <2>2 DEF handle_open_socket
    <3>2. QED BY <1>1, <1>3, <2>1, <3>1, StillApps
  <2>3. CASE find_idle_offload_instance # 0
    <3>1. PICK i \in Slots, s0 \in Sockets :
             /\ i = find_idle_offload_instance /\ instances[i].state = "Idle"
             /\ s0 = Head(hal2om).id
      BY <1>1, <2>1, <2>3, IdleSlot
    <3>2. instances' = [instances EXCEPT ![i] =
                          [@ EXCEPT !.state = "OffloadReq", !.id = s0,
                                    !.type = Head(hal2om).type, !.ep = Head(hal2om).ep]]
      BY <1>4, <2>3, <3>1, FreeRows DEF handle_open_socket
    <3>3. /\ instances'[i].state = "OffloadReq" /\ instances'[i].id = s0
          /\ \A j \in Slots \ {i} : instances'[j] = instances[j]
      BY <1>1, <3>2 DEF InstancesTypeOK
    <3>4. Serving(s0) = {}
      <4>1. Head(hal2om) \in OpenReqs(s0)
        BY <2>1, <3>1 DEF OpenReqs
      <4>2. Opens(s0) # {}
        BY <1>1, <2>1, <4>1, WhereTail DEF Opens
      <4>3. QED BY <4>2, OneAnswers DEF AInv, PInv
    <3>5. ASSUME NEW s \in Sockets, s # s0
          PROVE  SameServers(s)
      <4>1. Serving(s)' = Serving(s) /\ i \notin Serving(s) /\ Serving(s) \subseteq Slots
        BY <3>1, <3>3, <3>5 DEF Serving, Live
      <4>2. QED BY <3>3, <4>1 DEF SameServers
    <3>6. /\ Counters' /\ \A s \in Sockets, u \in Types : Holding(u, s)' = Holding(u, s)
      BY <1>1 DEF AInv, Counters, Unused, Holding, appVars
    <3>7. ASSUME NEW s \in Sockets
          PROVE  /\ Same(Asked(s), Where(om2awm', AppOpens(s)))
                 /\ Same(Ordered(s), Where(om2awm', AppCloses(s)))
                 /\ \A t : Same(OrderedAt(s, t), Where(om2awm', AppClosesAt(s, t)))
                 /\ \A k \in Where(om2awm', AppOpens(s)) : \E l \in Asked(s) : om2awm'[k] = om2awm[l]
                 /\ Behind(om2awm, AppOpens(s), AppCloses(s))
                      => Behind(om2awm', AppOpens(s), AppCloses(s))
                 /\ \A st \in Results : Same(Answers(awm2om, s, st), Answers(awm2om', s, st))
                 /\ App(s)
      BY <2>1, SameRefl DEF Asked, Ordered, OrderedAt, AInv
    <3>8. \A s \in Sockets : s # s0 => App(s)'
      BY <1>1, <3>5, <3>6, <3>7, AppKept
    <3>9. App(s0)'
      <4>1. /\ Asked(s0)' = Asked(s0) /\ Accepted(s0)' = Accepted(s0) /\ Rejected(s0)' = Rejected(s0)
            /\ \A t : OrderedAt(s0, t)' = OrderedAt(s0, t)
            /\ Behind(om2awm, AppOpens(s0), AppCloses(s0))' = Behind(om2awm, AppOpens(s0), AppCloses(s0))
        BY <2>1 DEF Asked, Accepted, Rejected, Answers, OrderedAt, Where, Behind, AppOpens, AppCloses,
                    AppClosesAt, AppAnswer
      <4>2. Asked(s0) = {} /\ Accepted(s0) = {} /\ Rejected(s0) = {}
        BY <3>4, <3>7 DEF App, Asking
      <4>3. Serving(s0)' \subseteq {i}
        BY <3>3, <3>4 DEF Serving, Live
      <4>4. \A j \in Serving(s0)' : ~Granted(s0, j)'
        BY <3>3, <4>3 DEF Granted
      <4>5. Asking(s0)'
        BY <4>1, <4>2 DEF Asking, One
      <4>6. Held(s0)'
        <5>1. /\ Behind(om2awm, AppOpens(s0), AppCloses(s0))
              /\ \A t, u \in Types : \A k \in Holding(t, s0), l \in Holding(u, s0) : t = u /\ k = l
              /\ \A t \in Types : Holding(t, s0) # {} => OrderedAt(s0, t) # {}
          BY <3>4, <3>7 DEF App, Held
        <5>2. QED BY <3>6, <4>1, <4>4, <5>1 DEF Held
      <4>7. QED BY <4>5, <4>6 DEF App
    <3>10. QED BY <3>6, <3>8, <3>9
  <2>4. QED BY <2>2, <2>3
<1>5. CASE handle_close_socket
  <2>1. /\ hal2om # <<>> /\ Head(hal2om).op = "CLOSE_SOCKET" /\ hal2om' = Tail(hal2om)
        /\ Head(hal2om) \in HalToOmMsgs /\ Head(hal2om).id \in Sockets /\ awm2om' = awm2om
    BY <1>1, <1>5, QueueTypes, MessageFields DEF handle_close_socket, Next1
  <2>2. CASE Drop
    BY <1>1, <1>3, <2>1, <2>2, StillApps DEF Drop
  <2>3. CASE \E i \in Slots : /\ i = find_by_socket_id(Head(hal2om).id)
                              /\ ProcessEvent(i, "UNOFFLOAD_REQ", instances[i].pseudo_id)
    <3>1. PICK i \in Slots : /\ i = find_by_socket_id(Head(hal2om).id)
                             /\ ProcessEvent(i, "UNOFFLOAD_REQ", instances[i].pseudo_id)
      BY <2>3
    <3>2. instances[i].id = Head(hal2om).id
      BY <3>1, FoundHasId
    <3>3. Closes(instances[i].id) # {}
      <4>1. Head(hal2om) \in CloseReqs(instances[i].id)
        BY <2>1, <3>2 DEF CloseReqs
      <4>2. QED BY <1>1, <2>1, <4>1, WhereTail DEF Closes
    <3>4. QED BY <1>1, <1>2, <2>1, <3>1, <3>3, EventApps DEF Events
  <2>4. QED BY <1>1, <1>5, <2>2, <2>3, LookUps DEF handle_close_socket
<1>6. CASE microstack_offload_cfm
  <2>1. /\ Head(bmm2om).context \in Slots /\ Head(bmm2om).connId \in ConnIds \cup {InvalidConnId}
        /\ awm2om' = awm2om
    BY <1>1, <1>6, QueueTypes, MessageFields DEF microstack_offload_cfm, Next1
  <2>2. \E evt \in {"OFFLOAD_TO_MICROSTACK_SUCCESS", "OFFLOAD_TO_MICROSTACK_FAILURE"} :
           ProcessEvent(Head(bmm2om).context, evt, Head(bmm2om).connId)
    BY <1>6 DEF microstack_offload_cfm
  <2>3. PICK i \in Slots, c \in ConnIds \cup {InvalidConnId},
             evt \in {"OFFLOAD_TO_MICROSTACK_SUCCESS", "OFFLOAD_TO_MICROSTACK_FAILURE"} :
           ProcessEvent(i, evt, c)
    BY <2>1, <2>2
  <2>4. evt \in Events
    BY DEF Events
  <2>5. QED BY <1>1, <2>1, <2>3, <2>4, EventApps
<1>7. CASE microstack_unoffload_cfm
  <2>1. \/ Drop
        \/ \E i \in Slots :
              ProcessEvent(i, "UNOFFLOAD_FROM_MICROSTACK_SUCCESS", instances[i].pseudo_id)
    BY <1>1, <1>7, LookUps DEF microstack_unoffload_cfm
  <2>2. awm2om' = awm2om
    BY <1>7 DEF microstack_unoffload_cfm
  <2>3. CASE Drop
    BY <1>1, <1>3, <2>2, <2>3, StillApps DEF Drop
  <2>4. ASSUME NEW i \in Slots,
               ProcessEvent(i, "UNOFFLOAD_FROM_MICROSTACK_SUCCESS", instances[i].pseudo_id)
        PROVE  Counters' /\ \A s \in Sockets : App(s)'
    BY <1>1, <1>2, <2>2, <2>4, EventApps DEF Events
  <2>5. QED BY <2>1, <2>3, <2>4
<1>8. CASE uapp_open_socket_res
  <2>1. /\ awm2om # <<>> /\ awm2om' = Tail(awm2om) /\ Head(awm2om) \in AwmToOmMsgs
        /\ Head(awm2om).op = "OPEN_RES"
    BY <1>1, <1>8, QueueTypes DEF uapp_open_socket_res, Next1
  <2>2. PICK r \in Sockets \cup {UnknownId}, status \in Results : Head(awm2om) = AppAnswer(r, status)
    BY <2>1 DEF AwmToOmMsgs, AppAnswer
  <2>3. Head(awm2om).id = r /\ Head(awm2om).status = status
    BY <2>2 DEF AppAnswer
  <2>4. CASE r \notin Sockets
    <3>1. find_by_socket_id(r) = 0
      <4>1. \A i \in Slots : instances[i].id # r
        BY <1>1, <2>4, SocketsAssumption DEF InstancesTypeOK
      <4>2. QED BY <1>1, <4>1, LookUps, FoundHasId
    <3>2. Drop
      BY <1>8, <2>3, <3>1 DEF uapp_open_socket_res
    <3>3. QED BY <1>1, <1>3, <2>1, <2>3, <2>4, <3>2, StillApps DEF Drop
  <2>5. CASE r \in Sockets
    <3>1. Accepted(r) # {} \/ Rejected(r) # {}
      <4>1. Answers(awm2om, r, status) # {}
        <5>1. PICK M : M = {AppAnswer(r, status)} /\ Head(awm2om) \in M
          BY <2>2
        <5>2. Where(awm2om, M) # {}
          BY <1>1, <2>1, <5>1, WhereTail
        <5>3. QED BY <5>1, <5>2 DEF Answers
      <4>2. QED BY <4>1 DEF Accepted, Rejected, Results
    <3>2. PICK i \in Serving(r) : instances[i].state = "OffloadToMicrostackSuccess"
      BY <2>5, <3>1 DEF AInv, App, Asking
    <3>3. i \in Slots /\ i \in Live /\ instances[i].id = r
      BY <3>2 DEF Serving, Live
    <3>4. find_by_socket_id(r) = i
      BY <3>3, LiveIsFound DEF AInv, PInv
    <3>5. PICK evt \in Events :
            /\ evt = IF status = "SUCCESS" THEN "OFFLOAD_TO_MICROAPP_SUCCESS"
                                           ELSE "OFFLOAD_TO_MICROAPP_FAILURE"
            /\ ProcessEvent(i, evt, instances[i].pseudo_id)
      <4>1. i # 0
        BY <3>3, SizesAssumption DEF Slots
      <4>2. QED BY <1>8, <2>3, <3>4, <4>1 DEF uapp_open_socket_res, Events
    <3>6. /\ evt \in {"OFFLOAD_TO_MICROAPP_SUCCESS", "OFFLOAD_TO_MICROAPP_FAILURE"}
          /\ evt # "UNOFFLOAD_REQ"
          /\ status = IF evt = "OFFLOAD_TO_MICROAPP_SUCCESS" THEN "SUCCESS" ELSE "FAILURE"
      BY <2>2, <3>5 DEF Results
    <3>7. Head(awm2om) = AppAnswer(instances[i].id,
                           IF evt = "OFFLOAD_TO_MICROAPP_SUCCESS" THEN "SUCCESS" ELSE "FAILURE")
      BY <2>2, <3>3, <3>6
    <3>8. QED BY <1>1, <1>2, <2>1, <3>2, <3>3, <3>5, <3>6, <3>7, EventApps
  <2>6. QED BY <2>4, <2>5
<1>9. CASE uapp_socket_close_ind
  <2>1. /\ awm2om # <<>> /\ awm2om' = Tail(awm2om) /\ Head(awm2om).op = "CLOSE_IND"
        /\ UNCHANGED <<instances, om2awm>>
    BY <1>9 DEF uapp_socket_close_ind, Next1
  <2>2. QED BY <1>1, <1>3, <2>1, StillApps
<1>10. CASE GattSessions
  <2>1. UNCHANGED <<om2awm, awm2om>>
    BY <1>10 DEF GattSessions, gatt_offload, gatt_clear_offload_data, channels
  <2>2. PICK i \in Slots :
          /\ \A j \in Slots \ {i} : instances'[j] = instances[j]
          /\ {instances[i].state, instances'[i].state} = {"Idle", "Gatt"}
    <3>1. CASE gatt_offload
      <4>1. PICK i \in Slots : i = find_idle_offload_instance /\ instances[i].state = "Idle"
        BY <1>1, <3>1, IdleSlot DEF gatt_offload
      <4>2. instances' = [instances EXCEPT ![i] = [@ EXCEPT !.state = "Gatt", !.id = NoSocket]]
        BY <3>1, <4>1 DEF gatt_offload
      <4>3. QED BY <1>1, <4>1, <4>2 DEF InstancesTypeOK
    <3>2. ASSUME NEW i \in Slots, gatt_clear_offload_data(i)
          PROVE  /\ \A j \in Slots \ {i} : instances'[j] = instances[j]
                 /\ {instances[i].state, instances'[i].state} = {"Idle", "Gatt"}
      BY <1>1, <3>2 DEF gatt_clear_offload_data, InstancesTypeOK
    <3>3. QED BY <1>10, <3>1, <3>2 DEF GattSessions
  <2>3. ASSUME NEW s \in Sockets
        PROVE  SameServers(s)
    <3>1. Serving(s)' = Serving(s) /\ i \notin Serving(s) /\ Serving(s) \subseteq Slots
      BY <2>2 DEF Serving, Live
    <3>2. QED BY <2>2, <3>1 DEF SameServers
  <2>4. QED BY <1>1, <2>1, <2>3, StillApps
<1>11. QED BY <1>1, <1>4, <1>5, <1>6, <1>7, <1>8, <1>9, <1>10
          DEF FromHal, FromMicrostack, FromMicroapps

-----------------------------------------------------------------------------
(* The invariant holds at the start, and every step keeps it. *)
LEMMA AppsStart == Init => AInv
<1> SUFFICES ASSUME Init
             PROVE  AInv
  OBVIOUS
<1>1. PInv
  BY PhasesInit
<1>2. om2awm = <<>> /\ awm2om = <<>> /\ \A i \in Slots : instances[i].state = "Idle"
  BY DEF Init, ChannelsInit, InstancesInit
<1>3. \A t \in Types : Unused(t) = Entries /\ \A s \in Sockets : Holding(t, s) = {}
  BY SocketsAssumption DEF Init, AppsInit, Unused, Holding
<1>4. Counters
  <2>1. \A t \in Types : Entries \ Unused(t) = {} /\ socketsInUse[t] = 0
    BY <1>3 DEF Init, AppsInit
  <2>2. QED BY <2>1, FS_EmptySet DEF Counters
<1>5. ASSUME NEW s \in Sockets
      PROVE  App(s)
  <2>1. \A M : Where(om2awm, M) = {} /\ Where(awm2om, M) = {}
    BY <1>2 DEF Where
  <2>2. Serving(s) = {}
    BY <1>2 DEF Serving, Live
  <2>3. Asking(s)
    BY <2>1 DEF Asking, Asked, Accepted, Rejected, Answers, One
  <2>4. Held(s)
    BY <1>3, <2>1, <2>2 DEF Held, Behind
  <2>5. QED BY <2>3, <2>4 DEF App
<1>6. QED BY <1>1, <1>4, <1>5 DEF AInv

(* Every step of the system keeps the invariant. *)
LEMMA AppsNext == AInv /\ [Next]_vars => AInv'
<1> SUFFICES ASSUME AInv, [Next]_vars
             PROVE  AInv'
  OBVIOUS
<1>1. PInv' /\ TypeOK
  BY PhasesNext DEF AInv, PInv, IInv
<1>2. Counters' /\ \A s \in Sockets : App(s)'
  <2>1. UNCHANGED <<instances, om2awm, awm2om, appVars>> => Counters' /\ \A s \in Sockets : App(s)'
    BY AppsQuiet DEF AInv
  <2>2. CASE HalStep(StackCall) \/ HalStep(ClosedCommit) \/ HalStep(RxThread)
    BY <2>1, <2>2 DEF HalStep
  <2>3. CASE \/ OmStep(FromHal) \/ OmStep(FromMicrostack) \/ OmStep(FromMicroapps)
             \/ OmStep(GattSessions)
    BY <2>3, OmApps
  <2>4. CASE BmmStep(Microstack)
    BY <1>1, <2>1, <2>4, BmmTypes
  <2>5. CASE AwmStep(AppManager)
    BY <2>5, OpenReqApps, CloseCmdApps DEF AwmStep, AppManager
  <2>6. CASE AwmStep(\E t \in Types, s \in Sockets : close_socket_qapi(t, s))
    BY <2>6, QapiApps DEF AwmStep
  <2>7. CASE UNCHANGED vars
    BY <2>1, <2>7 DEF vars, channels
  <2>8. QED BY <2>2, <2>3, <2>4, <2>5, <2>6, <2>7 DEF Next
<1>3. QED BY <1>1, <1>2 DEF AInv

(* What the microapps hold, and for whom, in every behaviour. *)
THEOREM AppsAlways == Spec => []AInv
<1>1. QED BY AppsStart, AppsNext, PTL DEF Spec

(* No microapp serves a socket for nobody, or twice, and its counter says what   *)
(* its table says: for any number of sockets, instances and table entries,  *)
(* with GATT sessions in the same table and microapps that give up their   *)
(* sockets at any moment.                                                  *)
THEOREM NoMicroappLeakAlways == Spec => []NoMicroappLeak
<1>1. ASSUME AInv
      PROVE  NoMicroappLeak
  <2>1. ASSUME NEW t \in Types, NEW s \in Sockets, Holding(t, s) # {}
        PROVE  /\ Cardinality(Holding(t, s)) = 1
               /\ \/ \E i \in Live : instances[i].id = s /\ Connected(i)
                  \/ \E m \in InFlight(om2awm) : m.op = "CLOSE_CMD" /\ m.id = s
    <3>1. App(s)
      BY <1>1 DEF AInv
    <3>2. PICK k : Holding(t, s) = {k}
      BY <2>1, <3>1 DEF App, Held
    <3>3. Cardinality(Holding(t, s)) = 1
      BY <3>2, FS_Singleton
    <3>4. (\E i \in Serving(s) : Granted(s, i)) => \E i \in Live : instances[i].id = s /\ Connected(i)
      BY DEF Granted, Serving, Connected
    <3>5. OrderedAt(s, t) # {} => \E m \in InFlight(om2awm) : m.op = "CLOSE_CMD" /\ m.id = s
      BY DEF OrderedAt, Where, AppClosesAt, AppCloses, InFlight
    <3>6. QED BY <2>1, <3>1, <3>3, <3>4, <3>5 DEF App, Held
  <2>2. QED BY <1>1, <2>1 DEF NoMicroappLeak, AInv, Counters
<1>2. QED BY <1>1, AppsAlways, PTL

-----------------------------------------------------------------------------
(* The connections of the microstack manager. *)

(* The requests and confirmations of instance i, and what is said of the     *)
(* connection id c.                                                        *)
ReqsFor(i)     == {m \in OmToBmmMsgs : m.op = "OFFLOAD_REQ" /\ m.context = i}
CfmsFor(i)     == {m \in BmmToOmMsgs : m.op = "OFFLOAD_CFM" /\ m.context = i}
Grant(i, c)    == {m \in CfmsFor(i) : m.result = "SUCCESS" /\ m.connId = c}
CloseOrder(c)  == {m \in OmToBmmMsgs : m.op = "CLOSE_REQ" /\ m.connId = c}
CreditOrder(c) == {m \in OmToBmmMsgs : m.op = "SET_PARAMS_REQ" /\ m.connId = c}
CloseDone(c)   == {m \in BmmToOmMsgs : m.op = "CLOSE_CFM" /\ m.connId = c /\ m.result = "SUCCESS"}

Requested(i) == Where(om2bmm, ReqsFor(i))
Confirmed(i) == Where(bmm2om, CfmsFor(i))

(* Entry x is that of a connection with id c, made for instance i; it has    *)
(* credits, or will have.                                                  *)
Holds(x, i, c) == socket[x].inUse /\ socket[x].socketId = instances[i].id /\ socket[x].connId = c
Ready(x) == socket[x].creditInitialised \/ Where(om2bmm, CreditOrder(socket[x].connId)) # {}

Waiting(i) == instances[i].state = "OffloadReq"

(* An instance that waits for the microstack waits for one message, and a    *)
(* grant is one of a connection that is there.                             *)
Instance(i) ==
  /\ Waiting(i) <=> Requested(i) # {} \/ Confirmed(i) # {}
  /\ One(Requested(i)) /\ One(Confirmed(i))
  /\ Requested(i) # {} => Confirmed(i) = {}
  /\ \A k \in Requested(i) : om2bmm[k].id = instances[i].id
  /\ \A k \in Confirmed(i) : bmm2om[k].result = "SUCCESS" =>
       \E x \in Indices : Holds(x, i, bmm2om[k].connId)
  /\ Connected(i) => \E x \in Indices :
       /\ Holds(x, i, instances[i].pseudo_id)
       /\ instances[i].state = "OffloadToMicroappSuccess" => Ready(x)

(* The three phases of a connection with id c. *)
Arriving(i, c) ==
  /\ Waiting(i) /\ Where(om2bmm, CloseOrder(c)) = {}
  /\ Where(bmm2om, Grant(i, c)) # {} /\ Behind(bmm2om, Grant(i, c), CloseDone(c))

Used(i, c) ==
  /\ Connected(i) /\ instances[i].pseudo_id = c
  /\ Where(om2bmm, CloseOrder(c)) = {} /\ Where(bmm2om, CloseDone(c)) = {}

Leaving(i, c) ==
  /\ instances[i].state \in {"OffloadToMicroappFailure", "UnOffloadReqToMicrostack"}
  /\ instances[i].pseudo_id = c
  /\ Where(om2bmm, CloseOrder(c)) # {} /\ Where(bmm2om, CloseDone(c)) = {}

Conn(x) ==
  socket[x].inUse =>
    /\ socket[x].socketId \in Sockets /\ socket[x].protocol \in Types
    /\ socket[x].connId = BmmGenerateConnId(socket[x].protocol, socket[x].socketId, x)
    /\ One(Where(om2bmm, CloseOrder(socket[x].connId)))
    /\ \E i \in Serving(socket[x].socketId) :
         \/ Arriving(i, socket[x].connId) \/ Used(i, socket[x].connId)
         \/ Leaving(i, socket[x].connId)

(* No close request is sent for a connection that is not there. *)
CloseOrdered ==
  \A c \in ConnIds \cup {InvalidConnId} :
     Where(om2bmm, CloseOrder(c)) # {} => \E x \in Indices : socket[x].inUse /\ socket[x].connId = c

Links == /\ \A i \in Slots : Instance(i)
         /\ \A x \in Indices : Conn(x)
         /\ CloseOrdered

CInv == PInv /\ Links

-----------------------------------------------------------------------------
(* The queue q2 is q after a step that sends and reads nothing of M. *)
Spares(q, q2, D, M) ==
  \/ q2 = q
  \/ q # <<>> /\ q2 = Tail(q) /\ Head(q) \notin M
  \/ \E m \in D : m \notin M /\ q2 = Append(q, m)

(* Then the messages of M are the same ones. *)
LEMMA SparedWhere ==
  ASSUME NEW D, NEW q \in Seq(D), NEW q2, NEW M, Spares(q, q2, D, M)
  PROVE  /\ Where(q2, M) = {} <=> Where(q, M) = {}
         /\ One(Where(q, M)) => One(Where(q2, M))
         /\ \A k \in Where(q2, M) : \E l \in Where(q, M) : q2[k] = q[l]
<1>1. CASE q2 = q
  BY <1>1
<1>2. CASE q # <<>> /\ q2 = Tail(q) /\ Head(q) \notin M
  <2>1. Same(Where(q, M), Where(Tail(q), M))
    BY <1>2, WhereTail
  <2>2. \A k \in Where(Tail(q), M) : k \in 1 .. Len(q) - 1 /\ k + 1 \in Where(q, M)
    BY <1>2, WhereTailed
  <2>3. \A k \in 1 .. Len(q) - 1 : Tail(q)[k] = q[k + 1]
    BY <1>2
  <2>4. QED BY <1>2, <2>1, <2>2, <2>3 DEF Same
<1>3. CASE \E m \in D : m \notin M /\ q2 = Append(q, m)
  <2>1. PICK m \in D : m \notin M /\ q2 = Append(q, m)
    BY <1>3
  <2>2. Where(q2, M) = Where(q, M) /\ Where(q, M) \subseteq 1 .. Len(q)
    BY <2>1, WhereAppended
  <2>3. \A k \in 1 .. Len(q) : q2[k] = q[k]
    BY <2>1
  <2>4. QED BY <2>2, <2>3
<1>4. QED BY <1>1, <1>2, <1>3 DEF Spares

(* And those of N stay in front of those of M, if none of N is sent. *)
LEMMA SparedBehind ==
  ASSUME NEW D, NEW q \in Seq(D), NEW q2, NEW M, NEW N, Behind(q, M, N),
         \/ q2 = q
         \/ q # <<>> /\ q2 = Tail(q)
         \/ \E m \in D : m \notin N /\ q2 = Append(q, m)
  PROVE  Behind(q2, M, N)
<1>1. CASE q2 = q
  BY <1>1
<1>2. CASE q # <<>> /\ q2 = Tail(q)
  BY <1>2, BehindTailed
<1>3. CASE \E m \in D : m \notin N /\ q2 = Append(q, m)
  BY <1>3, BehindAppended
<1>4. QED BY <1>1, <1>2, <1>3

(* The first of M that is sent stands behind all others. *)
LEMMA SentBehind ==
  ASSUME NEW D, NEW q \in Seq(D), NEW m \in D, NEW M, NEW N,
         Where(q, M) = {}, m \in M, m \notin N
  PROVE  Where(Append(q, m), M) # {} /\ Behind(Append(q, m), M, N)
<1>1. /\ Where(Append(q, m), M) = {Len(q) + 1} /\ Where(Append(q, m), N) = Where(q, N)
      /\ Where(q, N) \subseteq 1 .. Len(q) /\ Len(q) \in Nat
  BY WhereAppended
<1>2. QED BY <1>1 DEF Behind

(* The one of M that is read was in front, and no N is left before it. *)
LEMMA ReadBehind ==
  ASSUME NEW D, NEW q \in Seq(D), q # <<>>, NEW M, Head(q) \in M
  PROVE  /\ 1 \in Where(q, M) /\ q[1] = Head(q) /\ Where(q, M) # {}
         /\ One(Where(q, M)) => Where(Tail(q), M) = {}
         /\ \A N : Behind(q, M, N) => Where(q, N) = {} /\ Where(Tail(q), N) = {}
<1>1. 1 \in Where(q, M) /\ q[1] = Head(q)
  BY WhereTailed
<1>2. One(Where(q, M)) => Where(Tail(q), M) = {}
  BY WhereTail
<1>3. ASSUME NEW N, Behind(q, M, N)
      PROVE  Where(q, N) = {} /\ Where(Tail(q), N) = {}
  <2>1. Where(q, N) = {}
    BY <1>3, BehindTailed
  <2>2. \A k \in Where(Tail(q), N) : k + 1 \in Where(q, N)
    BY WhereTailed
  <2>3. QED BY <2>1, <2>2
<1>4. QED BY <1>1, <1>2, <1>3

(* The ids of two connections differ, as they name their entries. *)
LEMMA ConnsApart ==
  ASSUME NEW x \in Indices, NEW y \in Indices, Conn(x), Conn(y),
         socket[x].inUse, socket[y].inUse, socket[x].connId = socket[y].connId
  PROVE  x = y
BY DEF Conn, BmmGenerateConnId

(* An entry stays what it is, with its credits if it has them. *)
SameEntry(x) ==
  /\ socket'[x].inUse = socket[x].inUse /\ socket'[x].socketId = socket[x].socketId
  /\ socket'[x].protocol = socket[x].protocol /\ socket'[x].connId = socket[x].connId
  /\ Ready(x) => Ready(x)'

SameInstance(i) ==
  /\ instances'[i].state = instances[i].state /\ instances'[i].id = instances[i].id
  /\ instances'[i].pseudo_id = instances[i].pseudo_id

(* A step keeps what is said of an instance that it does not touch, nor its   *)
(* messages, nor the connection it has.                                    *)
LEMMA InstanceKept ==
  ASSUME NEW i \in Slots, Instance(i), SameInstance(i),
         om2bmm \in Seq(OmToBmmMsgs), Spares(om2bmm, om2bmm', OmToBmmMsgs, ReqsFor(i)),
         bmm2om \in Seq(BmmToOmMsgs), Spares(bmm2om, bmm2om', BmmToOmMsgs, CfmsFor(i)),
         Waiting(i) \/ Connected(i) =>
           \A x \in Indices : socket[x].inUse /\ socket[x].socketId = instances[i].id => SameEntry(x)
  PROVE  Instance(i)'
<1>1. /\ Requested(i)' = {} <=> Requested(i) = {}
      /\ One(Requested(i)) => One(Requested(i)')
      /\ \A k \in Requested(i)' : \E l \in Requested(i) : om2bmm'[k] = om2bmm[l]
  BY SparedWhere DEF Requested, ReqsFor
<1>2. /\ Confirmed(i)' = {} <=> Confirmed(i) = {}
      /\ One(Confirmed(i)) => One(Confirmed(i)')
      /\ \A k \in Confirmed(i)' : \E l \in Confirmed(i) : bmm2om'[k] = bmm2om[l]
  BY SparedWhere DEF Confirmed, CfmsFor
<1>3. (Waiting(i)' <=> Waiting(i)) /\ (Connected(i)' <=> Connected(i))
  BY DEF Waiting, Connected, SameInstance
<1>4. \A k \in Requested(i)' : om2bmm'[k].id = instances'[i].id
  BY <1>1 DEF Instance, SameInstance
<1>5. ASSUME NEW k \in Confirmed(i)', bmm2om'[k].result = "SUCCESS"
      PROVE  \E x \in Indices : Holds(x, i, bmm2om[k].connId)'
  <2>1. PICK l \in Confirmed(i) : bmm2om'[k] = bmm2om[l]
    BY <1>2, <1>5
  <2>2. PICK x \in Indices : Holds(x, i, bmm2om[l].connId)
    BY <1>5, <2>1 DEF Instance
  <2>3. Waiting(i)
    BY <2>1 DEF Instance
  <2>4. SameEntry(x)
    BY <2>2, <2>3 DEF Holds
  <2>5. Holds(x, i, bmm2om[k].connId)'
    BY <2>1, <2>2, <2>4 DEF Holds, SameEntry, SameInstance
  <2>6. QED BY <2>5
<1>6. ASSUME Connected(i)'
      PROVE  \E x \in Indices : /\ Holds(x, i, instances[i].pseudo_id)'
                                /\ instances'[i].state = "OffloadToMicroappSuccess" => Ready(x)'
  <2>1. PICK x \in Indices : /\ Holds(x, i, instances[i].pseudo_id)
                             /\ instances[i].state = "OffloadToMicroappSuccess" => Ready(x)
    BY <1>3, <1>6 DEF Instance
  <2>2. SameEntry(x)
    BY <1>3, <1>6, <2>1 DEF Holds
  <2>3. Holds(x, i, instances[i].pseudo_id)'
    BY <2>1, <2>2 DEF Holds, SameEntry, SameInstance
  <2>4. instances'[i].state = "OffloadToMicroappSuccess" => Ready(x)'
    BY <2>1, <2>2 DEF SameEntry, SameInstance
  <2>5. QED BY <2>3, <2>4
<1>7. (Waiting(i) <=> Requested(i) # {} \/ Confirmed(i) # {})'
  BY <1>1, <1>2, <1>3 DEF Instance
<1>8. One(Requested(i)') /\ One(Confirmed(i)') /\ (Requested(i)' # {} => Confirmed(i)' = {})
  BY <1>1, <1>2 DEF Instance
<1>9. QED BY <1>4, <1>5, <1>6, <1>7, <1>8 DEF Instance

(* An instance that neither waits nor has a connection. *)
LEMMA InstanceRests ==
  ASSUME NEW i \in Slots, ~Waiting(i)', ~Connected(i)', Requested(i)' = {}, Confirmed(i)' = {}
  PROVE  Instance(i)'
BY DEF Instance, One

(* What is not in a queue, and is not sent, is still not there. *)
LEMMA NotSent ==
  ASSUME NEW D, NEW q \in Seq(D), NEW q2, NEW N, Where(q, N) = {},
         \/ q2 = q
         \/ q # <<>> /\ q2 = Tail(q)
         \/ \E m \in D : m \notin N /\ q2 = Append(q, m)
  PROVE  Where(q2, N) = {}
<1>1. q # <<>> => Head(q) \notin N
  BY WhereTail
<1>2. Spares(q, q2, D, N)
  BY <1>1 DEF Spares
<1>3. QED BY <1>2, SparedWhere

(* What a step has to leave alone for a connection with id c to keep its phase. *)
LeavesConn(c) ==
  /\ Spares(om2bmm, om2bmm', OmToBmmMsgs, CloseOrder(c))
  /\ \/ bmm2om' = bmm2om
     \/ bmm2om # <<>> /\ bmm2om' = Tail(bmm2om) /\ \A i \in Slots : Head(bmm2om) \notin Grant(i, c)
     \/ \E m \in BmmToOmMsgs : /\ m \notin CloseDone(c) /\ \A i \in Slots : m \notin Grant(i, c)
                               /\ bmm2om' = Append(bmm2om, m)

(* A step keeps the phase of a connection when it touches neither the entry,  *)
(* nor the instance, nor what is said of the two.                          *)
LEMMA ConnKept ==
  ASSUME NEW x \in Indices, Conn(x), SameEntry(x),
         socket[x].inUse => LeavesConn(socket[x].connId),
         om2bmm \in Seq(OmToBmmMsgs), bmm2om \in Seq(BmmToOmMsgs),
         \A i \in Slots : socket[x].inUse /\ i \in Serving(socket[x].socketId) =>
            SameInstance(i)
  PROVE  Conn(x)'
<1> SUFFICES ASSUME socket[x].inUse
             PROVE  Conn(x)'
  BY DEF Conn, SameEntry
<1>1. PICK c : c = socket[x].connId
  OBVIOUS
<1>2. PICK i \in Serving(socket[x].socketId) : Arriving(i, c) \/ Used(i, c) \/ Leaving(i, c)
  BY <1>1 DEF Conn
<1>3. i \in Slots /\ SameInstance(i)
  BY <1>2 DEF Serving, Live
<1>4. i \in Serving(socket[x].socketId)' /\ socket'[x].connId = c
  BY <1>1, <1>2, <1>3 DEF Serving, Live, SameInstance, SameEntry
<1>5. /\ Where(om2bmm', CloseOrder(c)) = {} <=> Where(om2bmm, CloseOrder(c)) = {}
      /\ One(Where(om2bmm, CloseOrder(c))) => One(Where(om2bmm', CloseOrder(c)))
  BY <1>1, SparedWhere DEF LeavesConn
<1>6. Where(bmm2om, CloseDone(c)) = {} => Where(bmm2om', CloseDone(c)) = {}
  BY <1>1, NotSent DEF LeavesConn
<1>7. CASE Arriving(i, c)
  <2>1. Spares(bmm2om, bmm2om', BmmToOmMsgs, Grant(i, c))
    BY <1>1, <1>3 DEF LeavesConn, Spares
  <2>2. Where(bmm2om', Grant(i, c)) # {}
    BY <1>7, <2>1, SparedWhere DEF Arriving
  <2>3. Behind(bmm2om', Grant(i, c), CloseDone(c))
    BY <1>1, <1>7, SparedBehind DEF Arriving, LeavesConn
  <2>4. Waiting(i)'
    BY <1>3, <1>7 DEF Arriving, Waiting, SameInstance
  <2>5. Arriving(i, c)'
    BY <1>5, <1>7, <2>2, <2>3, <2>4 DEF Arriving, Grant, CfmsFor, CloseDone, CloseOrder
  <2>6. QED BY <1>1, <1>4, <1>5, <2>5 DEF Conn, SameEntry, CloseOrder
<1>8. CASE Used(i, c)
  <2>1. Used(i, c)'
    BY <1>3, <1>5, <1>6, <1>8 DEF Used, Connected, SameInstance, CloseOrder, CloseDone
  <2>2. QED BY <1>1, <1>4, <1>5, <2>1 DEF Conn, SameEntry, CloseOrder
<1>9. CASE Leaving(i, c)
  <2>1. Leaving(i, c)'
    BY <1>3, <1>5, <1>6, <1>9 DEF Leaving, SameInstance, CloseOrder, CloseDone
  <2>2. QED BY <1>1, <1>4, <1>5, <2>1 DEF Conn, SameEntry, CloseOrder
<1>10. QED BY <1>2, <1>7, <1>8, <1>9

-----------------------------------------------------------------------------
(* The entries made for the socket of an instance are in a phase of that      *)
(* instance, which alone serves the socket.                                *)
LEMMA PhaseOf ==
  ASSUME CInv, NEW i \in Live, NEW x \in Indices, socket[x].inUse,
         socket[x].socketId = instances[i].id
  PROVE  Arriving(i, socket[x].connId) \/ Used(i, socket[x].connId) \/ Leaving(i, socket[x].connId)
<1>1. Conn(x) /\ IInv
  BY DEF CInv, PInv, Links
<1>2. /\ socket[x].socketId \in Sockets /\ i \in Serving(socket[x].socketId)
      /\ One(Serving(socket[x].socketId))
  BY <1>1, OneAnswers DEF Conn, Serving
<1>3. QED BY <1>1, <1>2 DEF Conn, One

(* The typed queues and tables of the offload manager and the microstack. *)
LEMMA LinkTypes ==
  ASSUME CInv
  PROVE  /\ om2bmm \in Seq(OmToBmmMsgs) /\ bmm2om \in Seq(BmmToOmMsgs)
         /\ InstancesTypeOK /\ Rests /\ LiveIds /\ CloseOrdered
         /\ \A i \in Slots : Instance(i)
         /\ \A x \in Indices : Conn(x)
         /\ \A i \in Slots : instances[i].pseudo_id \in ConnIds \cup {InvalidConnId}
         /\ \A x \in Indices : socket[x].inUse \in BOOLEAN
                               /\ socket[x].creditInitialised \in BOOLEAN
BY DEF CInv, PInv, IInv, TypeOK, ChannelsTypeOK, InstancesTypeOK, BmmTypeOK, Links

(* No close is ordered by a step that sends no close request, nor is one lost. *)
LEMMA OrdersKept ==
  ASSUME CInv, \A x \in Indices : SameEntry(x),
         \A c \in ConnIds \cup {InvalidConnId} :
            Spares(om2bmm, om2bmm', OmToBmmMsgs, CloseOrder(c))
  PROVE  CloseOrdered'
<1> SUFFICES ASSUME NEW c \in ConnIds \cup {InvalidConnId}, Where(om2bmm', CloseOrder(c)) # {}
             PROVE  \E x \in Indices : socket'[x].inUse /\ socket'[x].connId = c
  BY DEF CloseOrdered, CloseOrder
<1>1. Where(om2bmm, CloseOrder(c)) # {}
  BY LinkTypes, SparedWhere
<1>2. PICK x \in Indices : socket[x].inUse /\ socket[x].connId = c
  BY <1>1, LinkTypes DEF CloseOrdered
<1>3. QED BY <1>2 DEF SameEntry

-----------------------------------------------------------------------------
(* An instance that is left alone, or works for no socket before and after.  *)
Still(i) == SameInstance(i) \/ (i \notin Live /\ instances'[i].state \in {"Idle", "Gatt"})

(* The steps of the whole system, by what they do to the connections: to an   *)
(* instance, to an entry of gBmm.socket[], and to the two queues between.   *)
QuietStep ==
  /\ \A i \in Slots : SameInstance(i)
  /\ UNCHANGED <<socket, om2bmm>>
  /\ \/ bmm2om' = bmm2om
     \/ bmm2om # <<>> /\ bmm2om' = Tail(bmm2om) /\ Head(bmm2om).op = "CLOSE_CFM"

GattStep == GattSessions /\ UNCHANGED <<socket, om2bmm, bmm2om>> /\ \A i \in Slots : Still(i)

(* The offload manager asks the microstack for a connection, ...             *)
OpenStep(i, s, m) ==
  /\ instances[i].state = "Idle" /\ Serving(s) = {} /\ UNCHANGED <<socket, bmm2om>>
  /\ \A j \in Slots : j < i => instances[j].state # "Idle"
  /\ instances'[i].state = "OffloadReq" /\ instances'[i].id = s
  /\ instances'[i].pseudo_id = instances[i].pseudo_id
  /\ \A j \in Slots \ {i} : instances'[j] = instances[j]
  /\ om2bmm' = Append(om2bmm, m) /\ m \in ReqsFor(i) /\ m.id = s

(* ... orders credits for it, or its close, ...                             *)
OrderStep(i) ==
  /\ Connected(i) /\ UNCHANGED <<socket, bmm2om>>
  /\ \A j \in Slots \ {i} : instances'[j] = instances[j]
  /\ instances'[i].id = instances[i].id /\ instances'[i].pseudo_id = instances[i].pseudo_id
  /\ \/ /\ om2bmm' = Append(om2bmm, CloseReq(i))
        /\ instances'[i].state \in {"OffloadToMicroappFailure", "UnOffloadReqToMicrostack"}
     \/ /\ om2bmm' = Append(om2bmm, SetParams(i))
        /\ instances'[i].state = "OffloadToMicroappSuccess"

(* ... and takes the answers to the request and to the close.                *)
CfmStep(i, c) ==
  /\ UNCHANGED <<socket, om2bmm>> /\ bmm2om # <<>> /\ bmm2om' = Tail(bmm2om)
  /\ Head(bmm2om) \in CfmsFor(i) /\ Head(bmm2om).connId = c
  /\ \A j \in Slots \ {i} : instances'[j] = instances[j]
  /\ instances'[i].id = instances[i].id /\ instances'[i].pseudo_id = c
  /\ IF Head(bmm2om).result = "SUCCESS"
     THEN instances'[i].state = "OffloadToMicrostackSuccess"
     ELSE instances'[i].state = "Idle"

DoneStep(i, c) ==
  /\ UNCHANGED <<socket, om2bmm>> /\ bmm2om # <<>> /\ bmm2om' = Tail(bmm2om)
  /\ Head(bmm2om) \in CloseDone(c) /\ instances[i].pseudo_id = c
  /\ instances[i].state \in {"OffloadToMicroappFailure", "UnOffloadReqToMicrostack"}
  /\ \A j \in Slots \ {i} : instances'[j] = instances[j]
  /\ instances'[i].id = instances[i].id /\ instances'[i].pseudo_id = c
  /\ instances'[i].state = "Idle"

(* The microstack refuses a connection, or makes it, ...                     *)
RefuseStep(i, m) ==
  /\ UNCHANGED <<instances, socket>> /\ om2bmm # <<>> /\ om2bmm' = Tail(om2bmm)
  /\ Head(om2bmm) \in ReqsFor(i)
  /\ bmm2om' = Append(bmm2om, m) /\ m \in CfmsFor(i) /\ m.result = "FAILURE"
  /\ \/ m.connId = InvalidConnId
     \/ \E x \in Indices : m.connId = BmmGenerateConnId(Head(om2bmm).type, Head(om2bmm).id, x)

GrantStep(i, x, c, m) ==
  /\ UNCHANGED instances /\ om2bmm # <<>> /\ om2bmm' = Tail(om2bmm) /\ Head(om2bmm) \in ReqsFor(i)
  /\ bmm2om' = Append(bmm2om, m) /\ m \in Grant(i, c)
  /\ c = BmmGenerateConnId(Head(om2bmm).type, Head(om2bmm).id, x) /\ ~socket[x].inUse
  /\ \A y \in Indices \ {x} : socket'[y] = socket[y]
  /\ socket'[x].inUse /\ socket'[x].connId = c /\ socket'[x].socketId = Head(om2bmm).id
  /\ socket'[x].protocol = Head(om2bmm).type

(* ... closes it, and gives it credits.                                     *)
CloseStep(x, c, m) ==
  /\ UNCHANGED instances /\ om2bmm # <<>> /\ om2bmm' = Tail(om2bmm) /\ Head(om2bmm) \in CloseOrder(c)
  /\ bmm2om' = Append(bmm2om, m) /\ m \in CloseDone(c)
  /\ socket[x].inUse /\ socket[x].connId = c /\ ~socket'[x].inUse
  /\ \A y \in Indices \ {x} : socket'[y] = socket[y]

CreditStep(c) ==
  /\ UNCHANGED <<instances, bmm2om>> /\ om2bmm # <<>> /\ om2bmm' = Tail(om2bmm)
  /\ Head(om2bmm) \in CreditOrder(c)
  /\ \A x \in Indices :
       /\ socket'[x].inUse = socket[x].inUse /\ socket'[x].socketId = socket[x].socketId
       /\ socket'[x].protocol = socket[x].protocol /\ socket'[x].connId = socket[x].connId
       /\ socket[x].creditInitialised => socket'[x].creditInitialised
       /\ socket[x].inUse /\ socket[x].connId = c => socket'[x].creditInitialised

OmConnStep ==
  \/ QuietStep
  \/ GattStep
  \/ \E i \in Slots : OrderStep(i)
  \/ \E i \in Slots, s \in Sockets, m \in OmToBmmMsgs : OpenStep(i, s, m)
  \/ \E i \in Slots, c \in ConnIds \cup {InvalidConnId} : CfmStep(i, c) \/ DoneStep(i, c)

BmmConnStep ==
  \/ \E i \in Slots, m \in BmmToOmMsgs :
        RefuseStep(i, m) \/ \E x \in Indices, c \in ConnIds : GrantStep(i, x, c, m)
  \/ \E x \in Indices, c \in ConnIds \cup {InvalidConnId}, m \in BmmToOmMsgs : CloseStep(x, c, m)
  \/ \E c \in ConnIds \cup {InvalidConnId} : CreditStep(c)

-----------------------------------------------------------------------------
(* A step that touches no connection; it may read the confirmation of a close. *)
LEMMA LinksQuiet ==
  ASSUME CInv, QuietStep \/ GattStep
  PROVE  Links'
<1>0. /\ \A i \in Slots : Still(i)
      /\ UNCHANGED <<socket, om2bmm>>
      /\ \/ bmm2om' = bmm2om
         \/ bmm2om # <<>> /\ bmm2om' = Tail(bmm2om) /\ Head(bmm2om).op = "CLOSE_CFM"
  BY DEF QuietStep, GattStep, Still
<1>1. \A M : Spares(om2bmm, om2bmm', OmToBmmMsgs, M)
  BY <1>0 DEF Spares
<1>2. \A x \in Indices : SameEntry(x)
  BY <1>0 DEF SameEntry, Ready, Where, CreditOrder
<1>3. \A i \in Slots : Spares(bmm2om, bmm2om', BmmToOmMsgs, CfmsFor(i))
  BY <1>0 DEF Spares, CfmsFor
<1>4. \A c : LeavesConn(c)
  BY <1>0, <1>1 DEF LeavesConn, Grant, CfmsFor
<1>5. ASSUME NEW i \in Slots
      PROVE  Instance(i)'
  <2>1. CASE SameInstance(i)
    BY <1>1, <1>2, <1>3, <2>1, InstanceKept, LinkTypes
  <2>2. CASE i \notin Live /\ instances'[i].state \in {"Idle", "Gatt"}
    <3>1. ~Waiting(i)
      BY <2>2 DEF Live, Waiting
    <3>2. Requested(i) = {} /\ Confirmed(i) = {}
      BY <3>1, LinkTypes DEF Instance
    <3>3. Requested(i)' = {} /\ Confirmed(i)' = {}
      BY <1>1, <1>3, <3>2, LinkTypes, SparedWhere DEF Requested, Confirmed, ReqsFor, CfmsFor
    <3>4. ~Waiting(i)' /\ ~Connected(i)'
      BY <2>2 DEF Waiting, Connected
    <3>5. QED BY <3>3, <3>4, InstanceRests
  <2>3. QED BY <1>0, <2>1, <2>2 DEF Still
<1>6. ASSUME NEW x \in Indices
      PROVE  Conn(x)'
  <2>1. \A i \in Slots : socket[x].inUse /\ i \in Serving(socket[x].socketId) => SameInstance(i)
    BY <1>0 DEF Serving, Still
  <2>2. QED BY <1>2, <1>4, <2>1, ConnKept, LinkTypes
<1>7. CloseOrdered'
  BY <1>1, <1>2, OrdersKept
<1>8. QED BY <1>5, <1>6, <1>7 DEF Links

(* A connected instance orders credits for its connection, or its close.     *)
LEMMA OrderLinks ==
  ASSUME CInv, NEW i \in Slots, OrderStep(i)
  PROVE  Links'
<1> USE DEF OrderStep
<1>1. PICK c \in ConnIds \cup {InvalidConnId}, s0 \in Sockets :
         c = instances[i].pseudo_id /\ s0 = instances[i].id
  BY LinkTypes, LiveIsLiveStates DEF LiveIds, Connected, LiveStates, SMStates, OffloadStates
<1>2. i \in Live
  BY DEF Live, Connected
<1>3. PICK x0 \in Indices : Holds(x0, i, c) /\ (instances[i].state = "OffloadToMicroappSuccess" => Ready(x0))
  BY <1>1, LinkTypes DEF Instance
<1>4. ASSUME NEW x \in Indices, socket[x].inUse, socket[x].connId = c \/ socket[x].socketId = s0
      PROVE  x = x0
  <2>1. socket[x].connId = c
    BY <1>1, <1>2, <1>4, PhaseOf DEF Arriving, Used, Leaving, Connected, Waiting
  <2>2. QED BY <1>3, <1>4, <2>1, ConnsApart, LinkTypes DEF Holds
<1>5. Used(i, c) /\ One(Where(om2bmm, CloseOrder(c)))
  <2>1. Used(i, c)
    BY <1>1, <1>2, <1>3, PhaseOf DEF Holds, Arriving, Leaving, Connected, Waiting
  <2>2. QED BY <2>1 DEF Used, One
<1>6. PICK m \in OmToBmmMsgs :
         /\ om2bmm' = Append(om2bmm, m) /\ m.connId = c
         /\ m.op = IF instances'[i].state = "OffloadToMicroappSuccess" THEN "SET_PARAMS_REQ"
                                                                        ELSE "CLOSE_REQ"
  <2>1. CloseReq(i) \in OmToBmmMsgs /\ SetParams(i) \in OmToBmmMsgs
    BY <1>1 DEF CloseReq, SetParams, OmToBmmMsgs
  <2>2. QED BY <1>1, <2>1 DEF CloseReq, SetParams
<1>7. /\ \A j \in Slots : Spares(om2bmm, om2bmm', OmToBmmMsgs, ReqsFor(j))
      /\ \A d : d # c => /\ Spares(om2bmm, om2bmm', OmToBmmMsgs, CloseOrder(d))
                         /\ Spares(om2bmm, om2bmm', OmToBmmMsgs, CreditOrder(d))
      /\ m.op = "SET_PARAMS_REQ" => Spares(om2bmm, om2bmm', OmToBmmMsgs, CloseOrder(c))
      /\ m.op = "CLOSE_REQ" => Spares(om2bmm, om2bmm', OmToBmmMsgs, CreditOrder(c))
  BY <1>6 DEF Spares, ReqsFor, CloseOrder, CreditOrder
<1>8. /\ m.op = "SET_PARAMS_REQ" => Where(om2bmm', CreditOrder(c)) # {}
      /\ m.op = "CLOSE_REQ" => /\ Where(om2bmm', CloseOrder(c)) # {}
                               /\ One(Where(om2bmm', CloseOrder(c)))
  <2>1. m.op = "CLOSE_REQ" => m \in CloseOrder(c) /\ Where(om2bmm, CloseOrder(c)) = {}
    BY <1>5, <1>6 DEF CloseOrder, Used
  <2>2. m.op = "SET_PARAMS_REQ" => m \in CreditOrder(c)
    BY <1>6 DEF CreditOrder
  <2>3. m \in CreditOrder(c) => Where(om2bmm', CreditOrder(c)) # {}
    BY <1>6, WhereAppended, LinkTypes
  <2>4. QED BY <1>6, <2>1, <2>2, <2>3, WhereAppend, LinkTypes
<1>9. ASSUME NEW x \in Indices
      PROVE  SameEntry(x)
  <2>1. Where(om2bmm, CreditOrder(socket[x].connId)) # {}
          => Where(om2bmm', CreditOrder(socket[x].connId)) # {}
    <3>1. Spares(om2bmm, om2bmm', OmToBmmMsgs, CreditOrder(socket[x].connId))
            \/ Where(om2bmm', CreditOrder(socket[x].connId)) # {}
      BY <1>6, <1>7, <1>8
    <3>2. QED BY <3>1, SparedWhere, LinkTypes
  <2>2. QED BY <2>1 DEF SameEntry, Ready, CreditOrder
<1>10. ASSUME NEW j \in Slots \ {i}
       PROVE  Instance(j)'
  <2>1. SameInstance(j) /\ Spares(bmm2om, bmm2om', BmmToOmMsgs, CfmsFor(j))
    BY DEF SameInstance, Spares
  <2>2. QED BY <1>7, <1>9, <2>1, InstanceKept, LinkTypes
<1>11. Instance(i)'
  <2>1. ~Waiting(i)' /\ ~Waiting(i)
    BY DEF Waiting, Connected
  <2>2. Requested(i)' = {} /\ Confirmed(i)' = {}
    <3>1. Requested(i) = {} /\ Confirmed(i) = {}
      BY <2>1, LinkTypes DEF Instance
    <3>2. Requested(i)' = {}
      BY <1>7, <3>1, SparedWhere, LinkTypes DEF Requested, ReqsFor
    <3>3. QED BY <3>1, <3>2 DEF Confirmed, CfmsFor, Where
  <2>3. CASE instances'[i].state = "OffloadToMicroappSuccess"
    <3>1. Holds(x0, i, instances[i].pseudo_id)'
      BY <1>1, <1>3 DEF Holds
    <3>2. Ready(x0)'
      BY <1>3, <1>6, <1>8, <2>3 DEF Ready, Holds, CreditOrder
    <3>3. QED BY <2>1, <2>2, <3>1, <3>2 DEF Instance, One
  <2>4. CASE instances'[i].state # "OffloadToMicroappSuccess"
    BY <2>2, <2>1, <2>4, InstanceRests DEF Connected
  <2>5. QED BY <2>3, <2>4
<1>12. ASSUME NEW x \in Indices, x # x0
       PROVE  Conn(x)'
  <2>1. socket[x].inUse => LeavesConn(socket[x].connId)
    BY <1>4, <1>7, <1>12 DEF LeavesConn
  <2>2. \A j \in Slots : socket[x].inUse /\ j \in Serving(socket[x].socketId) => SameInstance(j)
    BY <1>1, <1>4, <1>12 DEF Serving, SameInstance
  <2>3. QED BY <1>9, <2>1, <2>2, ConnKept, LinkTypes
<1>13. Conn(x0)'
  <2>1. /\ socket'[x0] = socket[x0] /\ socket[x0].inUse /\ socket[x0].connId = c
        /\ socket[x0].socketId = s0 /\ Conn(x0)
    BY <1>1, <1>3, LinkTypes DEF Holds
  <2>2. i \in Serving(s0)'
    BY <1>1, <1>6 DEF Serving, Live
  <2>3. Where(bmm2om', CloseDone(c)) = {}
    BY <1>5 DEF Used
  <2>4. CASE m.op = "CLOSE_REQ"
    <3>1. Leaving(i, c)'
      BY <1>1, <1>6, <1>8, <2>3, <2>4 DEF Leaving, CloseOrder, CloseDone
    <3>2. QED BY <1>8, <2>1, <2>2, <2>4, <3>1 DEF Conn, CloseOrder
  <2>5. CASE m.op = "SET_PARAMS_REQ"
    <3>1. Where(om2bmm', CloseOrder(c)) = {}
      BY <1>5, <1>7, <2>5, SparedWhere, LinkTypes DEF Used
    <3>2. Used(i, c)'
      BY <1>1, <1>6, <2>3, <2>5, <3>1 DEF Used, CloseOrder, CloseDone, Connected
    <3>3. QED BY <2>1, <2>2, <3>1, <3>2 DEF Conn, CloseOrder, One
  <2>6. QED BY <1>6, <2>4, <2>5
<1>14. CloseOrdered'
  <2> SUFFICES ASSUME NEW d \in ConnIds \cup {InvalidConnId}, Where(om2bmm', CloseOrder(d)) # {}
               PROVE  \E x \in Indices : socket[x].inUse /\ socket[x].connId = d
    BY DEF CloseOrdered, CloseOrder
  <2>1. CASE d = c
    BY <1>3, <2>1 DEF Holds
  <2>2. CASE d # c
    BY <1>7, <2>2, SparedWhere, LinkTypes DEF CloseOrdered
  <2>3. QED BY <2>1, <2>2
<1>15. QED BY <1>10, <1>11, <1>12, <1>13, <1>14 DEF Links

(* The messages that a step of one queue leaves alone. *)
LEMMA Unread ==
  ASSUME NEW D, NEW q \in Seq(D), q # <<>>, NEW q2, q2 = Tail(q), NEW M, Head(q) \notin M
  PROVE  Spares(q, q2, D, M)
BY DEF Spares

(* The answer to an offload request reaches the instance that waits for it: it  *)
(* has the connection that was granted, or, refused, none.                 *)
LEMMA CfmLinks ==
  ASSUME CInv, NEW i \in Slots, NEW c \in ConnIds \cup {InvalidConnId}, CfmStep(i, c)
  PROVE  Links'
<1> USE DEF CfmStep
<1>1. /\ Where(bmm2om, CfmsFor(i)) # {} /\ 1 \in Where(bmm2om, CfmsFor(i))
      /\ bmm2om[1] = Head(bmm2om)
      /\ One(Where(bmm2om, CfmsFor(i))) => Where(bmm2om', CfmsFor(i)) = {}
  BY ReadBehind, LinkTypes
<1>2. /\ Waiting(i) /\ Requested(i) = {} /\ One(Confirmed(i)) /\ Confirmed(i)' = {} /\ 1 \in Confirmed(i)
  BY <1>1, LinkTypes DEF Instance, Confirmed, CfmsFor
<1>3. PICK s0 \in Sockets : s0 = instances[i].id
  BY <1>2, LinkTypes DEF LiveIds, Waiting, LiveStates, SMStates, OffloadStates
<1>4. i \in Live
  BY <1>2 DEF Live, Waiting
<1>5. ASSUME NEW x \in Indices, socket[x].inUse, socket[x].socketId = s0
      PROVE  /\ socket[x].connId = c /\ Head(bmm2om).result = "SUCCESS"
             /\ Where(om2bmm, CloseOrder(c)) = {} /\ Where(bmm2om', CloseDone(c)) = {}
  <2>1. PICK d : d = socket[x].connId
    OBVIOUS
  <2>2. Arriving(i, d)
    BY <1>2, <1>3, <1>4, <1>5, <2>1, PhaseOf DEF Used, Leaving, Connected, Waiting
  <2>3. PICK k : k \in Where(bmm2om, Grant(i, d))
    BY <2>2 DEF Arriving
  <2>4. k = 1 /\ Head(bmm2om) \in Grant(i, d)
    <3>1. k \in Confirmed(i) /\ bmm2om[k] \in Grant(i, d)
      BY <2>3 DEF Where, Grant, Confirmed
    <3>2. k = 1
      BY <1>2, <3>1 DEF One
    <3>3. QED BY <1>1, <3>1, <3>2
  <2>5. d = c /\ Head(bmm2om).result = "SUCCESS"
    BY <2>4 DEF Grant
  <2>6. Where(Tail(bmm2om), CloseDone(d)) = {}
    BY <2>2, <2>4, ReadBehind, LinkTypes DEF Arriving
  <2>7. QED BY <2>1, <2>2, <2>5, <2>6 DEF Arriving
<1>6. \A x \in Indices : SameEntry(x)
  BY DEF SameEntry, Ready, Where, CreditOrder
<1>7. \A M : Spares(om2bmm, om2bmm', OmToBmmMsgs, M)
  BY DEF Spares
<1>8. ASSUME NEW j \in Slots \ {i}
      PROVE  Instance(j)'
  <2>1. Head(bmm2om) \notin CfmsFor(j)
    BY DEF CfmsFor
  <2>2. SameInstance(j) /\ Spares(bmm2om, bmm2om', BmmToOmMsgs, CfmsFor(j))
    BY <2>1, Unread, LinkTypes DEF SameInstance
  <2>3. QED BY <1>6, <1>7, <2>2, InstanceKept, LinkTypes
<1>9. Instance(i)'
  <2>1. Requested(i)' = {} /\ ~Waiting(i)'
    BY <1>2 DEF Requested, ReqsFor, Where, Waiting
  <2>2. CASE Head(bmm2om).result = "SUCCESS"
    <3>1. PICK x \in Indices : Holds(x, i, c)
      BY <1>1, <1>2, <2>2, LinkTypes DEF Instance
    <3>2. Holds(x, i, instances[i].pseudo_id)'
      BY <3>1 DEF Holds
    <3>3. QED BY <1>2, <2>1, <2>2, <3>2 DEF Instance, One
  <2>3. CASE Head(bmm2om).result # "SUCCESS"
    BY <1>2, <2>1, <2>3, InstanceRests DEF Connected
  <2>4. QED BY <2>2, <2>3
<1>10. ASSUME NEW x \in Indices
       PROVE  Conn(x)'
  <2>1. CASE ~socket[x].inUse
    BY <2>1 DEF Conn
  <2>2. CASE socket[x].inUse /\ socket[x].socketId # s0
    <3>1. \A j \in Slots : Head(bmm2om) \in Grant(j, socket[x].connId) => j = i
      BY DEF Grant, CfmsFor
    <3>2. Head(bmm2om) \notin Grant(i, socket[x].connId)
      <4>1. ASSUME Head(bmm2om) \in Grant(i, socket[x].connId)
            PROVE  FALSE
        <5>1. PICK y \in Indices : Holds(y, i, c)
          BY <1>1, <1>2, <4>1, LinkTypes DEF Instance, Grant
        <5>2. socket[x].connId = c
          BY <4>1 DEF Grant
        <5>3. x = y
          BY <2>2, <5>1, <5>2, ConnsApart, LinkTypes DEF Holds
        <5>4. QED BY <1>3, <2>2, <5>1, <5>3 DEF Holds
      <4>2. QED BY <4>1
    <3>3. LeavesConn(socket[x].connId)
      BY <1>7, <3>1, <3>2 DEF LeavesConn
    <3>4. \A j \in Slots : j \in Serving(socket[x].socketId) => SameInstance(j)
      BY <1>3, <2>2 DEF Serving, SameInstance
    <3>5. QED BY <1>6, <3>3, <3>4, ConnKept, LinkTypes
  <2>3. CASE socket[x].inUse /\ socket[x].socketId = s0
    <3>1. /\ socket[x].connId = c /\ Head(bmm2om).result = "SUCCESS"
          /\ Where(om2bmm, CloseOrder(c)) = {} /\ Where(bmm2om', CloseDone(c)) = {}
      BY <1>5, <2>3
    <3>2. i \in Serving(s0)'
      BY <1>3, <3>1 DEF Serving, Live
    <3>3. Used(i, c)'
      BY <3>1 DEF Used, Connected, CloseDone, CloseOrder, Where
    <3>4. One(Where(om2bmm', CloseOrder(c)))
      BY <3>1 DEF One
    <3>5. QED BY <2>3, <3>1, <3>2, <3>3, <3>4, LinkTypes DEF Conn, CloseOrder
  <2>4. QED BY <2>1, <2>2, <2>3
<1>11. CloseOrdered'
  BY <1>6, <1>7, OrdersKept
<1>12. QED BY <1>8, <1>9, <1>10, <1>11 DEF Links

(* The confirmation of a close reaches an instance that waits for one of the  *)
(* same id, which becomes idle: its connection is no longer there.         *)
LEMMA DoneLinks ==
  ASSUME CInv, NEW i \in Slots, NEW c \in ConnIds \cup {InvalidConnId}, DoneStep(i, c)
  PROVE  Links'
<1> USE DEF DoneStep
<1>1. i \in Live /\ ~Waiting(i) /\ ~Connected(i)
  BY DEF Live, Waiting, Connected
<1>2. \A x \in Indices : SameEntry(x)
  BY DEF SameEntry, Ready, Where, CreditOrder
<1>3. \A M : Spares(om2bmm, om2bmm', OmToBmmMsgs, M)
  BY DEF Spares
<1>4. \A j \in Slots : Spares(bmm2om, bmm2om', BmmToOmMsgs, CfmsFor(j))
  BY DEF Spares, CfmsFor, CloseDone
<1>5. \A d : LeavesConn(d)
  BY <1>3 DEF LeavesConn, Grant, CfmsFor, CloseDone
<1>6. ASSUME NEW x \in Indices, socket[x].inUse
      PROVE  socket[x].socketId # instances[i].id
  <2>1. Where(bmm2om, CloseDone(c)) # {}
    BY ReadBehind, LinkTypes
  <2>2. ~Arriving(i, socket[x].connId) /\ ~Used(i, socket[x].connId)
    BY <1>1 DEF Arriving, Used
  <2>3. ~Leaving(i, socket[x].connId)
    BY <2>1 DEF Leaving
  <2>4. QED BY <1>1, <1>6, <2>2, <2>3, PhaseOf
<1>7. ASSUME NEW j \in Slots \ {i}
      PROVE  Instance(j)'
  <2>1. SameInstance(j)
    BY DEF SameInstance
  <2>2. QED BY <1>2, <1>3, <1>4, <2>1, InstanceKept, LinkTypes
<1>8. Instance(i)'
  <2>1. Requested(i) = {} /\ Confirmed(i) = {}
    BY <1>1, LinkTypes DEF Instance
  <2>2. Requested(i)' = {} /\ Confirmed(i)' = {}
    BY <1>3, <1>4, <2>1, SparedWhere, LinkTypes DEF Requested, Confirmed, ReqsFor, CfmsFor
  <2>3. QED BY <2>2, InstanceRests DEF Waiting, Connected
<1>9. ASSUME NEW x \in Indices
      PROVE  Conn(x)'
  <2>1. \A j \in Slots : socket[x].inUse /\ j \in Serving(socket[x].socketId) => SameInstance(j)
    BY <1>6 DEF Serving, SameInstance
  <2>2. QED BY <1>2, <1>5, <2>1, ConnKept, LinkTypes
<1>10. CloseOrdered'
  BY <1>2, <1>3, OrdersKept
<1>11. QED BY <1>7, <1>8, <1>9, <1>10 DEF Links

(* A new socket gets an idle instance, and its offload is asked for. *)
LEMMA OpenLinks ==
  ASSUME CInv, NEW i \in Slots, NEW s0 \in Sockets, NEW m \in OmToBmmMsgs, OpenStep(i, s0, m)
  PROVE  Links'
<1> USE DEF OpenStep
<1>1. m.op = "OFFLOAD_REQ" /\ m.context = i
  BY DEF ReqsFor
<1>2. \A d : /\ Spares(om2bmm, om2bmm', OmToBmmMsgs, CloseOrder(d))
             /\ Spares(om2bmm, om2bmm', OmToBmmMsgs, CreditOrder(d))
  BY <1>1 DEF Spares, CloseOrder, CreditOrder
<1>3. \A j \in Slots \ {i} : Spares(om2bmm, om2bmm', OmToBmmMsgs, ReqsFor(j))
  BY <1>1 DEF Spares, ReqsFor
<1>4. \A M : Spares(bmm2om, bmm2om', BmmToOmMsgs, M)
  BY DEF Spares
<1>5. ASSUME NEW x \in Indices
      PROVE  SameEntry(x)
  <2>1. Where(om2bmm, CreditOrder(socket[x].connId)) # {}
          => Where(om2bmm', CreditOrder(socket[x].connId)) # {}
    BY <1>2, SparedWhere, LinkTypes
  <2>2. QED BY <2>1 DEF SameEntry, Ready, CreditOrder
<1>6. ASSUME NEW j \in Slots \ {i}
      PROVE  Instance(j)'
  <2>1. SameInstance(j)
    BY DEF SameInstance
  <2>2. QED BY <1>3, <1>4, <1>5, <2>1, InstanceKept, LinkTypes
<1>7. Instance(i)'
  <2>1. Requested(i) = {} /\ Confirmed(i) = {}
    BY LinkTypes DEF Instance, Waiting
  <2>2. Where(om2bmm', ReqsFor(i)) = {Len(om2bmm) + 1} /\ om2bmm'[Len(om2bmm) + 1] = m
    <3>1. Where(om2bmm', ReqsFor(i)) = Where(om2bmm, ReqsFor(i)) \cup {Len(om2bmm) + 1}
      BY WhereAppended, LinkTypes
    <3>2. om2bmm'[Len(om2bmm) + 1] = m
      BY LinkTypes
    <3>3. QED BY <2>1, <3>1, <3>2 DEF Requested
  <2>3. Requested(i)' = {Len(om2bmm) + 1} /\ Confirmed(i)' = {}
    BY <2>1, <2>2 DEF Requested, Confirmed, ReqsFor, CfmsFor, Where
  <2>4. Waiting(i)' /\ ~Connected(i)'
    BY DEF Waiting, Connected
  <2>5. QED BY <2>2, <2>3, <2>4 DEF Instance, One
<1>8. ASSUME NEW x \in Indices
      PROVE  Conn(x)'
  <2>1. socket[x].inUse => LeavesConn(socket[x].connId)
    BY <1>2 DEF LeavesConn
  <2>2. \A j \in Slots : socket[x].inUse /\ j \in Serving(socket[x].socketId) => SameInstance(j)
    BY DEF Serving, Live, SameInstance
  <2>3. QED BY <1>5, <2>1, <2>2, ConnKept, LinkTypes
<1>9. CloseOrdered'
  BY <1>2, <1>5, OrdersKept
<1>10. QED BY <1>6, <1>7, <1>8, <1>9 DEF Links

-----------------------------------------------------------------------------
(* The microstack refuses an offload, and says so to the instance that asked. *)
LEMMA RefuseLinks ==
  ASSUME CInv, NEW i \in Slots, NEW m \in BmmToOmMsgs, RefuseStep(i, m)
  PROVE  Links'
<1> USE DEF RefuseStep
<1>1. /\ Head(om2bmm).op = "OFFLOAD_REQ" /\ Head(om2bmm).context = i
      /\ m.op = "OFFLOAD_CFM" /\ m.context = i
  BY DEF ReqsFor, CfmsFor
<1>2. /\ \A d : /\ Spares(om2bmm, om2bmm', OmToBmmMsgs, CloseOrder(d))
                /\ Spares(om2bmm, om2bmm', OmToBmmMsgs, CreditOrder(d))
      /\ \A j \in Slots \ {i} : /\ Spares(om2bmm, om2bmm', OmToBmmMsgs, ReqsFor(j))
                                /\ Spares(bmm2om, bmm2om', BmmToOmMsgs, CfmsFor(j))
  BY <1>1 DEF Spares, CloseOrder, CreditOrder, ReqsFor, CfmsFor
<1>3. \A d : LeavesConn(d)
  <2>1. \A d : m \notin CloseDone(d) /\ \A j \in Slots : m \notin Grant(j, d)
    BY <1>1 DEF CloseDone, Grant
  <2>2. QED BY <1>2, <2>1 DEF LeavesConn
<1>4. ASSUME NEW x \in Indices
      PROVE  SameEntry(x)
  <2>1. Where(om2bmm, CreditOrder(socket[x].connId)) # {}
          => Where(om2bmm', CreditOrder(socket[x].connId)) # {}
    BY <1>2, SparedWhere, LinkTypes
  <2>2. QED BY <2>1 DEF SameEntry, Ready, CreditOrder
<1>5. ASSUME NEW j \in Slots \ {i}
      PROVE  Instance(j)'
  <2>1. SameInstance(j)
    BY DEF SameInstance
  <2>2. QED BY <1>2, <1>4, <2>1, InstanceKept, LinkTypes
<1>6. /\ Waiting(i) /\ Requested(i)' = {}
      /\ Confirmed(i)' = {Len(bmm2om) + 1} /\ bmm2om'[Len(bmm2om) + 1] = m
  <2>1. /\ Where(om2bmm, ReqsFor(i)) # {}
        /\ One(Where(om2bmm, ReqsFor(i))) => Where(om2bmm', ReqsFor(i)) = {}
    BY ReadBehind, LinkTypes
  <2>2. Waiting(i) /\ Confirmed(i) = {} /\ Requested(i)' = {}
    BY <2>1, LinkTypes DEF Instance, Requested, ReqsFor
  <2>3. Where(bmm2om', CfmsFor(i)) = Where(bmm2om, CfmsFor(i)) \cup {Len(bmm2om) + 1}
    BY WhereAppended, LinkTypes
  <2>4. bmm2om'[Len(bmm2om) + 1] = m
    BY LinkTypes
  <2>5. QED BY <2>2, <2>3, <2>4 DEF Confirmed, CfmsFor
<1>7. Instance(i)'
  <2>1. Waiting(i)' /\ ~Connected(i)'
    BY <1>6 DEF Waiting, Connected
  <2>2. QED BY <1>6, <2>1 DEF Instance, One
<1>8. ASSUME NEW x \in Indices
      PROVE  Conn(x)'
  BY <1>3, <1>4, ConnKept, LinkTypes DEF SameInstance
<1>9. CloseOrdered'
  BY <1>2, <1>4, OrdersKept
<1>10. QED BY <1>5, <1>7, <1>8, <1>9 DEF Links

(* The microstack makes a connection in a free entry: its id is in no message  *)
(* yet but the confirmations of closes, and those are in front.            *)
LEMMA GrantLinks ==
  ASSUME CInv, NEW i \in Slots, NEW x0 \in Indices, NEW c \in ConnIds, NEW m \in BmmToOmMsgs, GrantStep(i, x0, c, m)
  PROVE  Links'
<1> USE DEF GrantStep
<1>1. /\ Head(om2bmm).op = "OFFLOAD_REQ" /\ Head(om2bmm).context = i
      /\ m.op = "OFFLOAD_CFM" /\ m.context = i /\ m.connId = c /\ m.result = "SUCCESS"
      /\ m \in CfmsFor(i)
  BY DEF ReqsFor, CfmsFor, Grant
<1>2. /\ \A d : /\ Spares(om2bmm, om2bmm', OmToBmmMsgs, CloseOrder(d))
                /\ Spares(om2bmm, om2bmm', OmToBmmMsgs, CreditOrder(d))
      /\ \A j \in Slots \ {i} : /\ Spares(om2bmm, om2bmm', OmToBmmMsgs, ReqsFor(j))
                                /\ Spares(bmm2om, bmm2om', BmmToOmMsgs, CfmsFor(j))
  BY <1>1 DEF Spares, CloseOrder, CreditOrder, ReqsFor, CfmsFor
<1>3. /\ Waiting(i) /\ Requested(i)' = {} /\ Confirmed(i) = {} /\ Head(om2bmm).id = instances[i].id
      /\ Confirmed(i)' = {Len(bmm2om) + 1} /\ bmm2om'[Len(bmm2om) + 1] = m
  <2>1. /\ 1 \in Where(om2bmm, ReqsFor(i)) /\ om2bmm[1] = Head(om2bmm)
        /\ One(Where(om2bmm, ReqsFor(i))) => Where(om2bmm', ReqsFor(i)) = {}
    BY ReadBehind, LinkTypes
  <2>2. Waiting(i) /\ Confirmed(i) = {} /\ Requested(i)' = {} /\ Head(om2bmm).id = instances[i].id
    <3>1. Instance(i) /\ 1 \in Requested(i)
      BY <2>1, LinkTypes DEF Requested
    <3>2. Waiting(i) /\ Confirmed(i) = {} /\ One(Requested(i)) /\ om2bmm[1].id = instances[i].id
      BY <3>1 DEF Instance
    <3>3. Requested(i)' = {}
      BY <2>1, <3>2 DEF Requested, ReqsFor
    <3>4. QED BY <2>1, <3>2, <3>3
  <2>3. Where(bmm2om', CfmsFor(i)) = Where(bmm2om, CfmsFor(i)) \cup {Len(bmm2om) + 1}
    BY <1>1, WhereAppended, LinkTypes
  <2>4. bmm2om'[Len(bmm2om) + 1] = m
    BY LinkTypes
  <2>5. QED BY <2>2, <2>3, <2>4 DEF Confirmed, CfmsFor
<1>4. PICK s0 \in Sockets : s0 = instances[i].id
  BY <1>3, LinkTypes DEF LiveIds, Waiting, LiveStates, SMStates, OffloadStates
<1>5. /\ i \in Live /\ i \in Serving(s0) /\ Serving(s0)' = Serving(s0)
      /\ Head(om2bmm).type \in Types
  <2>1. Head(om2bmm) \in OmToBmmMsgs
    BY QueueTypes, LinkTypes
  <2>2. Head(om2bmm).type \in Types
    BY <1>1, <2>1, MessageFields
  <2>3. i \in Live /\ i \in Serving(s0)
    BY <1>3, <1>4 DEF Live, Serving, Waiting
  <2>4. Serving(s0)' = Serving(s0)
    BY DEF Live, Serving
  <2>5. QED BY <2>2, <2>3, <2>4
<1>6. ASSUME NEW x \in Indices, socket[x].inUse
      PROVE  socket[x].connId # c
  <2>1. socket[x].connId = BmmGenerateConnId(socket[x].protocol, socket[x].socketId, x) /\ x # x0
    BY <1>6, LinkTypes DEF Conn
  <2>2. QED BY <2>1 DEF BmmGenerateConnId
<1>7. ASSUME NEW x \in Indices, socket[x].inUse
      PROVE  SameEntry(x)
  <2>1. Where(om2bmm, CreditOrder(socket[x].connId)) # {}
          => Where(om2bmm', CreditOrder(socket[x].connId)) # {}
    BY <1>2, SparedWhere, LinkTypes
  <2>2. socket'[x] = socket[x]
    BY <1>7
  <2>3. QED BY <2>1, <2>2 DEF SameEntry, Ready, CreditOrder
<1>8. ASSUME NEW j \in Slots \ {i}
      PROVE  Instance(j)'
  <2>1. SameInstance(j)
    BY DEF SameInstance
  <2>2. QED BY <1>2, <1>7, <2>1, InstanceKept, LinkTypes
<1>9. Instance(i)'
  <2>1. Waiting(i)' /\ ~Connected(i)'
    BY <1>3 DEF Waiting, Connected
  <2>2. Holds(x0, i, c)'
    BY <1>3 DEF Holds
  <2>3. \A k \in Confirmed(i)' : Holds(x0, i, bmm2om[k].connId)'
    BY <1>1, <1>3, <2>2 DEF Holds
  <2>4. QED BY <1>3, <2>1, <2>3 DEF Instance, One
<1>10. ASSUME NEW x \in Indices, x # x0
       PROVE  Conn(x)'
  <2>1. CASE ~socket[x].inUse
    BY <1>10, <2>1 DEF Conn
  <2>2. CASE socket[x].inUse
    <3>1. m \notin CloseDone(socket[x].connId) /\ \A j \in Slots : m \notin Grant(j, socket[x].connId)
      BY <1>1, <1>6, <2>2 DEF CloseDone, Grant
    <3>2. LeavesConn(socket[x].connId)
      BY <1>2, <3>1 DEF LeavesConn
    <3>3. QED BY <1>7, <2>2, <3>2, ConnKept, LinkTypes DEF SameInstance
  <2>3. QED BY <2>1, <2>2
<1>11. Conn(x0)'
  <2>1. Where(om2bmm', CloseOrder(c)) = {}
    <3>1. Where(om2bmm, CloseOrder(c)) = {}
      BY <1>6, LinkTypes DEF CloseOrdered
    <3>2. QED BY <1>2, <3>1, SparedWhere, LinkTypes
  <2>2. Where(bmm2om', Grant(i, c)) # {} /\ Behind(bmm2om', Grant(i, c), CloseDone(c))
    <3>1. Where(bmm2om, Grant(i, c)) = {}
      BY <1>3 DEF Confirmed, Where, Grant
    <3>2. m \notin CloseDone(c)
      BY <1>1 DEF CloseDone
    <3>3. bmm2om \in Seq(BmmToOmMsgs) /\ m \in Grant(i, c)
      BY LinkTypes
    <3>4. PICK M, N : M = Grant(i, c) /\ N = CloseDone(c)
      OBVIOUS
    <3>5. Where(Append(bmm2om, m), M) # {} /\ Behind(Append(bmm2om, m), M, N)
      BY <3>1, <3>2, <3>3, <3>4, SentBehind
    <3>6. QED BY <3>4, <3>5
  <2>3. Arriving(i, c)'
    BY <1>3, <2>1, <2>2 DEF Arriving, Waiting, CloseOrder, CloseDone, Grant, CfmsFor
  <2>4. QED BY <1>3, <1>4, <1>5, <2>1, <2>3 DEF Conn, One, CloseOrder
<1>12. CloseOrdered'
  <2> SUFFICES ASSUME NEW d \in ConnIds \cup {InvalidConnId}, Where(om2bmm', CloseOrder(d)) # {}
               PROVE  \E x \in Indices : socket'[x].inUse /\ socket'[x].connId = d
    BY DEF CloseOrdered, CloseOrder
  <2>1. Where(om2bmm, CloseOrder(d)) # {}
    BY <1>2, SparedWhere, LinkTypes
  <2>2. PICK x \in Indices : socket[x].inUse /\ socket[x].connId = d
    BY <2>1, LinkTypes DEF CloseOrdered
  <2>3. socket'[x] = socket[x]
    BY <2>2
  <2>4. QED BY <2>2, <2>3
<1>13. QED BY <1>8, <1>9, <1>10, <1>11, <1>12 DEF Links

(* The microstack reads a close: the entry is free, and no second close for its *)
(* id is on the way.                                                       *)
LEMMA CloseLinks ==
  ASSUME CInv, NEW x0 \in Indices, NEW c \in ConnIds \cup {InvalidConnId}, NEW m \in BmmToOmMsgs, CloseStep(x0, c, m)
  PROVE  Links'
<1> USE DEF CloseStep
<1>1. Head(om2bmm).op = "CLOSE_REQ" /\ Head(om2bmm).connId = c /\ m.op = "CLOSE_CFM" /\ m.connId = c
  BY DEF CloseOrder, CloseDone
<1>2. /\ \A d : d # c => Spares(om2bmm, om2bmm', OmToBmmMsgs, CloseOrder(d))
      /\ \A d : Spares(om2bmm, om2bmm', OmToBmmMsgs, CreditOrder(d))
      /\ \A j \in Slots : /\ Spares(om2bmm, om2bmm', OmToBmmMsgs, ReqsFor(j))
                          /\ Spares(bmm2om, bmm2om', BmmToOmMsgs, CfmsFor(j))
  BY <1>1 DEF Spares, CloseOrder, CreditOrder, ReqsFor, CfmsFor
<1>3. Where(om2bmm, CloseOrder(c)) # {} /\ Where(om2bmm', CloseOrder(c)) = {}
  <2>1. One(Where(om2bmm, CloseOrder(c)))
    BY LinkTypes DEF Conn
  <2>2. QED BY <2>1, ReadBehind, LinkTypes
<1>4. \A x \in Indices \ {x0} : socket[x].inUse => socket[x].connId # c
  BY ConnsApart, LinkTypes
<1>5. ASSUME NEW x \in Indices, x # x0
      PROVE  SameEntry(x)
  <2>1. Where(om2bmm, CreditOrder(socket[x].connId)) # {}
          => Where(om2bmm', CreditOrder(socket[x].connId)) # {}
    BY <1>2, SparedWhere, LinkTypes
  <2>2. socket'[x] = socket[x]
    BY <1>5
  <2>3. QED BY <2>1, <2>2 DEF SameEntry, Ready, CreditOrder
<1>6. ASSUME NEW j \in Slots
      PROVE  Instance(j)'
  <2>1. SameInstance(j)
    BY DEF SameInstance
  <2>2. Waiting(j) \/ Connected(j) => socket[x0].socketId # instances[j].id
    <3>1. ASSUME Waiting(j) \/ Connected(j), socket[x0].socketId = instances[j].id
          PROVE  FALSE
      <4>1. j \in Live
        BY <3>1 DEF Waiting, Connected, Live
      <4>2. QED BY <1>3, <3>1, <4>1, PhaseOf DEF Arriving, Used, Leaving, Waiting, Connected
    <3>2. QED BY <3>1
  <2>3. QED BY <1>2, <1>5, <2>1, <2>2, InstanceKept, LinkTypes
<1>7. ASSUME NEW x \in Indices
      PROVE  Conn(x)'
  <2>1. CASE x = x0
    BY <2>1 DEF Conn
  <2>2. CASE x # x0
    <3>1. socket[x].inUse =>
            /\ m \notin CloseDone(socket[x].connId)
            /\ \A j \in Slots : m \notin Grant(j, socket[x].connId)
      BY <1>1, <1>4, <2>2 DEF CloseDone, Grant, CfmsFor
    <3>2. socket[x].inUse => LeavesConn(socket[x].connId)
      BY <1>2, <1>4, <2>2, <3>1 DEF LeavesConn
    <3>3. QED BY <1>5, <2>2, <3>2, ConnKept, LinkTypes DEF SameInstance
  <2>3. QED BY <2>1, <2>2
<1>8. CloseOrdered'
  <2> SUFFICES ASSUME NEW d \in ConnIds \cup {InvalidConnId}, Where(om2bmm', CloseOrder(d)) # {}
               PROVE  \E x \in Indices : socket'[x].inUse /\ socket'[x].connId = d
    BY DEF CloseOrdered, CloseOrder
  <2>1. d # c /\ Where(om2bmm, CloseOrder(d)) # {}
    BY <1>2, <1>3, SparedWhere, LinkTypes
  <2>2. PICK x \in Indices : socket[x].inUse /\ socket[x].connId = d
    BY <2>1, LinkTypes DEF CloseOrdered
  <2>3. socket'[x] = socket[x]
    BY <2>1, <2>2
  <2>4. QED BY <2>2, <2>3
<1>9. QED BY <1>6, <1>7, <1>8 DEF Links

(* The microstack reads what credits to give, and gives them if the connection *)
(* is there.                                                               *)
LEMMA CreditLinks ==
  ASSUME CInv, NEW c \in ConnIds \cup {InvalidConnId}, CreditStep(c)
  PROVE  Links'
<1> USE DEF CreditStep
<1>1. Head(om2bmm).op = "SET_PARAMS_REQ" /\ Head(om2bmm).connId = c
  BY DEF CreditOrder
<1>2. /\ \A d : Spares(om2bmm, om2bmm', OmToBmmMsgs, CloseOrder(d))
      /\ \A d : d # c => Spares(om2bmm, om2bmm', OmToBmmMsgs, CreditOrder(d))
      /\ \A j \in Slots : Spares(om2bmm, om2bmm', OmToBmmMsgs, ReqsFor(j))
      /\ \A M : Spares(bmm2om, bmm2om', BmmToOmMsgs, M)
  BY <1>1 DEF Spares, CloseOrder, CreditOrder, ReqsFor
<1>3. \A d : LeavesConn(d)
  BY <1>2 DEF LeavesConn
<1>4. ASSUME NEW x \in Indices, socket[x].inUse
      PROVE  SameEntry(x)
  <2>1. CASE socket[x].connId = c
    BY <1>4, <2>1 DEF SameEntry, Ready
  <2>2. CASE socket[x].connId # c
    <3>1. Where(om2bmm, CreditOrder(socket[x].connId)) # {}
            => Where(om2bmm', CreditOrder(socket[x].connId)) # {}
      BY <1>2, <2>2, SparedWhere, LinkTypes
    <3>2. QED BY <3>1 DEF SameEntry, Ready, CreditOrder
  <2>3. QED BY <2>1, <2>2
<1>5. ASSUME NEW j \in Slots
      PROVE  Instance(j)'
  BY <1>2, <1>4, InstanceKept, LinkTypes DEF SameInstance
<1>6. ASSUME NEW x \in Indices
      PROVE  Conn(x)'
  <2>1. CASE ~socket[x].inUse
    BY <2>1 DEF Conn
  <2>2. CASE socket[x].inUse
    BY <1>3, <1>4, <2>2, ConnKept, LinkTypes DEF SameInstance
  <2>3. QED BY <2>1, <2>2
<1>7. CloseOrdered'
  <2> SUFFICES ASSUME NEW d \in ConnIds \cup {InvalidConnId}, Where(om2bmm', CloseOrder(d)) # {}
               PROVE  \E x \in Indices : socket'[x].inUse /\ socket'[x].connId = d
    BY DEF CloseOrdered, CloseOrder
  <2>1. Where(om2bmm, CloseOrder(d)) # {}
    BY <1>2, SparedWhere, LinkTypes
  <2>2. QED BY <2>1, LinkTypes DEF CloseOrdered
<1>8. QED BY <1>5, <1>6, <1>7 DEF Links

(* An event at an instance: an answer of the microstack that was waited for, or *)
(* one of the other events, with the microstack id that the instance has.   *)
FromBmm == {"OFFLOAD_TO_MICROSTACK_SUCCESS", "OFFLOAD_TO_MICROSTACK_FAILURE",
            "UNOFFLOAD_FROM_MICROSTACK_SUCCESS"}

Brings(i, evt, c) ==
  IF evt \in FromBmm
  THEN /\ bmm2om # <<>> /\ bmm2om' = Tail(bmm2om)
       /\ IF evt = "UNOFFLOAD_FROM_MICROSTACK_SUCCESS"
          THEN Head(bmm2om) \in CloseDone(c) /\ instances[i].pseudo_id = c
          ELSE /\ Head(bmm2om) \in CfmsFor(i) /\ Head(bmm2om).connId = c
               /\ (Head(bmm2om).result = "SUCCESS") <=> (evt = "OFFLOAD_TO_MICROSTACK_SUCCESS")
  ELSE bmm2om' = bmm2om /\ instances[i].pseudo_id = c

(* Each event is a step of the connections, or of none. *)
LEMMA EventSteps ==
  ASSUME CInv, NEW i \in Slots, NEW evt \in Events, NEW c \in ConnIds \cup {InvalidConnId},
         ProcessEvent(i, evt, c), UNCHANGED socket, Brings(i, evt, c),
         evt = "UNOFFLOAD_REQ" /\ i \in Live => Closes(instances[i].id) # {}
  PROVE  OmConnStep
<1>1. InstancesTypeOK /\ Rests /\ LiveIds
  BY LinkTypes
<1>2. /\ \A j \in Slots \ {i} : instances'[j] = instances[j]
      /\ instances'[i].id = instances[i].id /\ instances'[i].pseudo_id = c
      /\ IF <<instances[i].state, evt>> \in Expected THEN Moves(i, evt) ELSE Ignores(i)
  BY <1>1, EventMoves
<1>3. CASE evt \in {"OFFLOAD_TO_MICROSTACK_SUCCESS", "OFFLOAD_TO_MICROSTACK_FAILURE"}
  <2>1. /\ bmm2om # <<>> /\ bmm2om' = Tail(bmm2om) /\ Head(bmm2om) \in CfmsFor(i)
        /\ Head(bmm2om).connId = c
        /\ (Head(bmm2om).result = "SUCCESS") <=> (evt = "OFFLOAD_TO_MICROSTACK_SUCCESS")
    BY <1>3 DEF Brings, FromBmm
  <2>2. Confirmed(i) # {}
    BY <2>1, ReadBehind, LinkTypes DEF Confirmed
  <2>3. instances[i].state = "OffloadReq"
    BY <2>2, LinkTypes DEF Instance, Waiting
  <2>4. Moves(i, evt)
    BY <1>2, <1>3, <2>3 DEF Expected
  <2>5. /\ om2bmm' = om2bmm
        /\ IF evt = "OFFLOAD_TO_MICROSTACK_SUCCESS"
           THEN instances'[i].state = "OffloadToMicrostackSuccess"
           ELSE instances'[i].state = "Idle"
    BY <1>3, <2>4 DEF Moves, AsksMicroapp, Refuses, Passes
  <2>6. IF Head(bmm2om).result = "SUCCESS"
        THEN instances'[i].state = "OffloadToMicrostackSuccess"
        ELSE instances'[i].state = "Idle"
    BY <1>3, <2>1, <2>5
  <2>7. CfmStep(i, c)
    BY <1>2, <2>1, <2>5, <2>6 DEF CfmStep
  <2>8. QED BY <2>7 DEF OmConnStep
<1>4. CASE evt \notin {"OFFLOAD_TO_MICROSTACK_SUCCESS", "OFFLOAD_TO_MICROSTACK_FAILURE"}
  <2>1. /\ instances[i].pseudo_id = c
        /\ IF evt = "UNOFFLOAD_FROM_MICROSTACK_SUCCESS"
           THEN bmm2om # <<>> /\ bmm2om' = Tail(bmm2om) /\ Head(bmm2om) \in CloseDone(c)
           ELSE bmm2om' = bmm2om
    BY <1>4 DEF Brings, FromBmm
  <2>2. CASE <<instances[i].state, evt>> \notin Expected
    <3>1. /\ \A j \in Slots : SameInstance(j)
          /\ om2bmm' = om2bmm
      BY <1>2, <2>1, <2>2 DEF Ignores, Silent, SameInstance
    <3>2. bmm2om' = bmm2om \/ (bmm2om # <<>> /\ bmm2om' = Tail(bmm2om) /\ Head(bmm2om).op = "CLOSE_CFM")
      BY <2>1 DEF CloseDone
    <3>3. QED BY <3>1, <3>2 DEF QuietStep, OmConnStep
  <2>3. CASE <<instances[i].state, evt>> \in Expected /\ evt = "UNOFFLOAD_FROM_MICROSTACK_SUCCESS"
    <3>1. /\ instances[i].state \in {"OffloadToMicroappFailure", "UnOffloadReqToMicrostack"}
          /\ instances'[i].state = "Idle" /\ om2bmm' = om2bmm
      BY <1>2, <2>3 DEF Moves, GivesUp, Finishes, Passes
    <3>2. DoneStep(i, c)
      BY <1>2, <2>1, <2>3, <3>1 DEF DoneStep
    <3>3. QED BY <3>2 DEF OmConnStep
  <2>4. CASE <<instances[i].state, evt>> \in Expected /\ evt # "UNOFFLOAD_FROM_MICROSTACK_SUCCESS"
    <3>1. Moves(i, evt) /\ i \in Live
      BY <1>2, <2>4, ExpectedIsLive DEF Live, Early
    <3>2. ~UnoffloadsEarly(i) \/ evt # "UNOFFLOAD_REQ"
      <4>1. ASSUME UnoffloadsEarly(i), evt = "UNOFFLOAD_REQ"
            PROVE  FALSE
        <5>1. instances[i].state \in Early
          BY <4>1 DEF UnoffloadsEarly, Early
        <5>2. PICK s0 \in Sockets : s0 = instances[i].id
          BY <1>1, <3>1, LiveIsLiveStates DEF LiveIds
        <5>3. Closes(s0) = {}
          BY <3>1, <5>1, <5>2 DEF CInv, PInv, Phase, Serving
        <5>4. QED BY <3>1, <4>1, <5>2, <5>3
      <4>2. QED BY <4>1
    <3>3. \/ Reports(i) \/ TakesBack(i) \/ Unoffloads(i)
      BY <1>4, <2>4, <3>1, <3>2 DEF Moves
    <3>4. /\ Connected(i)
          /\ \/ /\ om2bmm' = Append(om2bmm, CloseReq(i))
                /\ instances'[i].state \in {"OffloadToMicroappFailure", "UnOffloadReqToMicrostack"}
             \/ /\ om2bmm' = Append(om2bmm, SetParams(i))
                /\ instances'[i].state = "OffloadToMicroappSuccess"
      BY <3>3 DEF Reports, TakesBack, Unoffloads, Passes, Connected
    <3>5. OrderStep(i)
      BY <1>2, <2>1, <2>4, <3>4 DEF OrderStep
    <3>6. QED BY <3>5 DEF OmConnStep
  <2>5. QED BY <2>2, <2>3, <2>4
<1>5. QED BY <1>3, <1>4

(* The look-up by microstack id finds an instance that has it. *)
LEMMA FoundHasConn ==
  ASSUME NEW c, NEW i \in Slots, i = find_by_pseudo_id(c)
  PROVE  instances[i].pseudo_id = c
<1> DEFINE found == {j \in Slots : instances[j].pseudo_id = c}
<1>1. found \in SUBSET Slots /\ i = First(found) /\ 0 \notin Slots
  BY DEF find_by_pseudo_id, Slots
<1>2. i \in found
  <2> HIDE DEF found
  <2>1. QED BY <1>1, FirstIsLeast
<1>3. QED BY <1>2

(* The idle instance that is found is the first. *)
LEMMA IdleIsFirst ==
  ASSUME NEW i \in Slots, i = find_idle_offload_instance
  PROVE  \A j \in Slots : j < i => instances[j].state # "Idle"
<1> DEFINE Idles == {j \in Slots : instances[j].state = "Idle"}
<1>1. Idles \in SUBSET Slots /\ i = First(Idles) /\ 0 \notin Slots
  BY DEF find_idle_offload_instance, Slots
<1>2. \A j \in Idles : i <= j
  <2> HIDE DEF Idles
  <2>1. QED BY <1>1, FirstIsLeast
<1>3. QED BY <1>2, SizesAssumption DEF Slots

(* Every handler of the offload manager takes one of its steps. *)
LEMMA OmSteps ==
  ASSUME CInv,
         OmStep(FromHal) \/ OmStep(FromMicrostack) \/ OmStep(FromMicroapps) \/ OmStep(GattSessions)
  PROVE  OmConnStep
<1>1. /\ UNCHANGED socket
      /\ FromHal \/ FromMicrostack \/ FromMicroapps \/ GattSessions
      /\ InstancesTypeOK /\ hal2om \in Seq(HalToOmMsgs) /\ bmm2om \in Seq(BmmToOmMsgs)
  BY DEF OmStep, CInv, PInv, IInv, TypeOK, ChannelsTypeOK
<1>2. \A i \in Slots : instances[i].pseudo_id \in ConnIds \cup {InvalidConnId}
  BY LinkTypes
<1>3. UNCHANGED instances => \A i \in Slots : SameInstance(i)
  BY DEF SameInstance
<1>4. CASE handle_open_socket
  <2>1. /\ hal2om # <<>> /\ Head(hal2om).op = "OPEN_SOCKET" /\ Head(hal2om) \in HalToOmMsgs
        /\ Head(hal2om).id \in Sockets /\ Head(hal2om).type \in Types /\ bmm2om' = bmm2om
    BY <1>1, <1>4, QueueTypes, MessageFields DEF handle_open_socket, Next1
  <2>2. CASE find_idle_offload_instance = 0
    <3>1. UNCHANGED <<instances, om2bmm>>
      BY <1>4, <2>2 DEF handle_open_socket
    <3>2. QED BY <1>1, <1>3, <2>1, <3>1 DEF QuietStep, OmConnStep
  <2>3. CASE find_idle_offload_instance # 0
    <3>1. PICK i \in Slots, s0 \in Sockets, t0 \in Types :
             /\ i = find_idle_offload_instance /\ instances[i].state = "Idle"
             /\ s0 = Head(hal2om).id /\ t0 = Head(hal2om).type
      BY <1>1, <2>1, <2>3, IdleSlot
    <3>2. /\ instances' = [instances EXCEPT ![i] =
                            [@ EXCEPT !.state = "OffloadReq", !.id = s0,
                                      !.type = Head(hal2om).type, !.ep = Head(hal2om).ep]]
          /\ om2bmm' = Append(om2bmm, [op |-> "OFFLOAD_REQ", id |-> s0, type |-> t0, context |-> i])
      BY <1>4, <2>3, <3>1, FreeRows DEF handle_open_socket
    <3>3. /\ instances'[i].state = "OffloadReq" /\ instances'[i].id = s0
          /\ instances'[i].pseudo_id = instances[i].pseudo_id
          /\ \A j \in Slots \ {i} : instances'[j] = instances[j]
      BY <1>1, <3>2 DEF InstancesTypeOK
    <3>4. Serving(s0) = {}
      <4>1. Head(hal2om) \in OpenReqs(s0)
        BY <2>1, <3>1 DEF OpenReqs
      <4>2. Opens(s0) # {}
        BY <1>1, <2>1, <4>1, WhereTail DEF Opens
      <4>3. QED BY <4>2, OneAnswers DEF CInv, PInv
    <3>5. PICK m \in ReqsFor(i) : m.id = s0 /\ om2bmm' = Append(om2bmm, m)
      BY <3>2 DEF ReqsFor, OmToBmmMsgs
    <3>6. m \in OmToBmmMsgs
      BY DEF ReqsFor
    <3>7. \A j \in Slots : j < i => instances[j].state # "Idle"
      BY <3>1, IdleIsFirst
    <3>8. OpenStep(i, s0, m)
      BY <1>1, <2>1, <3>1, <3>3, <3>4, <3>5, <3>6, <3>7 DEF OpenStep
    <3>9. QED BY <3>6, <3>8 DEF OmConnStep
  <2>4. QED BY <2>2, <2>3
<1>5. CASE handle_close_socket
  <2>1. /\ hal2om # <<>> /\ Head(hal2om).op = "CLOSE_SOCKET"
        /\ Head(hal2om) \in HalToOmMsgs /\ Head(hal2om).id \in Sockets /\ bmm2om' = bmm2om
    BY <1>1, <1>5, QueueTypes, MessageFields DEF handle_close_socket, Next1
  <2>2. CASE Drop
    BY <1>1, <1>3, <2>1, <2>2 DEF Drop, QuietStep, OmConnStep
  <2>3. CASE \E i \in Slots : /\ i = find_by_socket_id(Head(hal2om).id)
                              /\ ProcessEvent(i, "UNOFFLOAD_REQ", instances[i].pseudo_id)
    <3>1. PICK i \in Slots : /\ i = find_by_socket_id(Head(hal2om).id)
                             /\ ProcessEvent(i, "UNOFFLOAD_REQ", instances[i].pseudo_id)
      BY <2>3
    <3>2. instances[i].id = Head(hal2om).id
      BY <3>1, FoundHasId
    <3>3. Closes(instances[i].id) # {}
      <4>1. Head(hal2om) \in CloseReqs(instances[i].id)
        BY <2>1, <3>2 DEF CloseReqs
      <4>2. QED BY <1>1, <2>1, <4>1, WhereTail DEF Closes
    <3>4. Brings(i, "UNOFFLOAD_REQ", instances[i].pseudo_id)
      BY <2>1 DEF Brings, FromBmm
    <3>5. QED BY <1>1, <1>2, <3>1, <3>3, <3>4, EventSteps DEF Events
  <2>4. QED BY <1>1, <1>5, <2>2, <2>3, LookUps DEF handle_close_socket
<1>6. CASE microstack_offload_cfm
  <2>1. /\ bmm2om # <<>> /\ bmm2om' = Tail(bmm2om) /\ Head(bmm2om) \in BmmToOmMsgs
        /\ Head(bmm2om).op = "OFFLOAD_CFM"
    BY <1>1, <1>6, QueueTypes DEF microstack_offload_cfm, Next1
  <2>2. PICK i \in Slots, c \in ConnIds \cup {InvalidConnId} :
           i = Head(bmm2om).context /\ c = Head(bmm2om).connId
    BY <2>1, MessageFields
  <2>3. PICK evt \in {"OFFLOAD_TO_MICROSTACK_SUCCESS", "OFFLOAD_TO_MICROSTACK_FAILURE"} :
          /\ ProcessEvent(i, evt, c)
          /\ (Head(bmm2om).result = "SUCCESS") <=> (evt = "OFFLOAD_TO_MICROSTACK_SUCCESS")
    BY <1>6, <2>2 DEF microstack_offload_cfm
  <2>4. Brings(i, evt, c)
    <3>1. Head(bmm2om) \in CfmsFor(i) /\ Head(bmm2om).connId = c
      BY <2>1, <2>2 DEF CfmsFor
    <3>2. evt \in FromBmm /\ evt # "UNOFFLOAD_FROM_MICROSTACK_SUCCESS" /\ evt # "UNOFFLOAD_REQ"
      BY DEF FromBmm
    <3>3. QED BY <2>1, <2>3, <3>1, <3>2 DEF Brings
  <2>5. evt \in Events /\ evt # "UNOFFLOAD_REQ"
    BY DEF Events
  <2>6. QED BY <1>1, <2>3, <2>4, <2>5, EventSteps
<1>7. CASE microstack_unoffload_cfm
  <2>1. /\ bmm2om # <<>> /\ bmm2om' = Tail(bmm2om) /\ Head(bmm2om) \in BmmToOmMsgs
        /\ Head(bmm2om).op = "CLOSE_CFM"
    BY <1>1, <1>7, QueueTypes DEF microstack_unoffload_cfm, Next1
  <2>2. \/ Drop
        \/ \E i \in Slots :
              /\ i = find_by_pseudo_id(Head(bmm2om).connId) /\ Head(bmm2om).result # "FAILURE"
              /\ ProcessEvent(i, "UNOFFLOAD_FROM_MICROSTACK_SUCCESS", instances[i].pseudo_id)
    BY <1>1, <1>7, LookUps DEF microstack_unoffload_cfm
  <2>3. CASE Drop
    BY <1>1, <1>3, <2>1, <2>3 DEF Drop, QuietStep, OmConnStep
  <2>4. ASSUME NEW i \in Slots, i = find_by_pseudo_id(Head(bmm2om).connId),
               Head(bmm2om).result # "FAILURE",
               ProcessEvent(i, "UNOFFLOAD_FROM_MICROSTACK_SUCCESS", instances[i].pseudo_id)
        PROVE  OmConnStep
    <3>1. PICK c \in ConnIds \cup {InvalidConnId} : c = instances[i].pseudo_id
      BY <1>2
    <3>2. Head(bmm2om).connId = c
      <4>1. PICK d : d = Head(bmm2om).connId
        OBVIOUS
      <4>2. QED BY <2>4, <3>1, <4>1, FoundHasConn
    <3>3. Head(bmm2om).result \in Results
      BY <2>1 DEF BmmToOmMsgs
    <3>4. Head(bmm2om) \in CloseDone(c)
      BY <2>1, <2>4, <3>2, <3>3 DEF CloseDone, Results
    <3>5. Brings(i, "UNOFFLOAD_FROM_MICROSTACK_SUCCESS", c)
      BY <2>1, <3>1, <3>4 DEF Brings, FromBmm
    <3>6. QED BY <1>1, <2>4, <3>1, <3>5, EventSteps DEF Events
  <2>5. QED BY <2>2, <2>3, <2>4
<1>8. CASE uapp_open_socket_res
  <2>1. bmm2om' = bmm2om
    BY <1>8 DEF uapp_open_socket_res
  <2>2. \/ Drop
        \/ \E i \in Slots, evt \in {"OFFLOAD_TO_MICROAPP_SUCCESS", "OFFLOAD_TO_MICROAPP_FAILURE"} :
              ProcessEvent(i, evt, instances[i].pseudo_id)
    BY <1>1, <1>8, LookUps DEF uapp_open_socket_res
  <2>3. CASE Drop
    BY <1>1, <1>3, <2>1, <2>3 DEF Drop, QuietStep, OmConnStep
  <2>4. ASSUME NEW i \in Slots,
               NEW evt \in {"OFFLOAD_TO_MICROAPP_SUCCESS", "OFFLOAD_TO_MICROAPP_FAILURE"},
               ProcessEvent(i, evt, instances[i].pseudo_id)
        PROVE  OmConnStep
    <3>1. Brings(i, evt, instances[i].pseudo_id) /\ evt \in Events /\ evt # "UNOFFLOAD_REQ"
      BY <2>1 DEF Brings, FromBmm, Events
    <3>2. QED BY <1>1, <1>2, <2>4, <3>1, EventSteps
  <2>5. QED BY <2>2, <2>3, <2>4
<1>9. CASE uapp_socket_close_ind
  <2>1. UNCHANGED <<instances, om2bmm, bmm2om>>
    BY <1>9 DEF uapp_socket_close_ind
  <2>2. QED BY <1>1, <1>3, <2>1 DEF QuietStep, OmConnStep
<1>10. CASE GattSessions
  <2>1. UNCHANGED <<om2bmm, bmm2om>>
    BY <1>10 DEF GattSessions, gatt_offload, gatt_clear_offload_data, channels
  <2>2. PICK i \in Slots :
          /\ \A j \in Slots \ {i} : instances'[j] = instances[j]
          /\ {instances[i].state, instances'[i].state} = {"Idle", "Gatt"}
    <3>1. CASE gatt_offload
      <4>1. PICK i \in Slots : i = find_idle_offload_instance /\ instances[i].state = "Idle"
        BY <1>1, <3>1, IdleSlot DEF gatt_offload
      <4>2. instances' = [instances EXCEPT ![i] = [@ EXCEPT !.state = "Gatt", !.id = NoSocket]]
        BY <3>1, <4>1 DEF gatt_offload
      <4>3. QED BY <1>1, <4>1, <4>2 DEF InstancesTypeOK
    <3>2. ASSUME NEW i \in Slots, gatt_clear_offload_data(i)
          PROVE  /\ \A j \in Slots \ {i} : instances'[j] = instances[j]
                 /\ {instances[i].state, instances'[i].state} = {"Idle", "Gatt"}
      BY <1>1, <3>2 DEF gatt_clear_offload_data, InstancesTypeOK
    <3>3. QED BY <1>10, <3>1, <3>2 DEF GattSessions
  <2>3. \A j \in Slots : Still(j)
    BY <2>2 DEF Still, SameInstance, Live
  <2>4. QED BY <1>1, <1>10, <2>1, <2>3 DEF GattStep, OmConnStep
<1>11. QED BY <1>1, <1>4, <1>5, <1>6, <1>7, <1>8, <1>9, <1>10
          DEF FromHal, FromMicrostack, FromMicroapps

-----------------------------------------------------------------------------
(* The handler of an offload request refuses it, or makes the connection.    *)
LEMMA OffloadReqSteps ==
  ASSUME CInv, NEW paramsOk \in BOOLEAN, NEW filterOk \in BOOLEAN, UNCHANGED instances,
         BmmSocketOffloadReqHandler(paramsOk, filterOk)
  PROVE  BmmConnStep
<1>1. /\ om2bmm # <<>> /\ om2bmm' = Tail(om2bmm) /\ Head(om2bmm) \in OmToBmmMsgs
      /\ Head(om2bmm).op = "OFFLOAD_REQ"
  BY QueueTypes, LinkTypes DEF BmmSocketOffloadReqHandler, Next1
<1>2. PICK i \in Slots, s0 \in Sockets, t0 \in Types :
         i = Head(om2bmm).context /\ s0 = Head(om2bmm).id /\ t0 = Head(om2bmm).type
  BY <1>1, MessageFields
<1>3. Head(om2bmm) \in ReqsFor(i)
  BY <1>1, <1>2 DEF ReqsFor
<1>4. ASSUME NEW c \in ConnIds \cup {InvalidConnId}, UNCHANGED socket,
             c = InvalidConnId \/ \E x \in Indices : c = BmmGenerateConnId(t0, s0, x),
             bmm2om' = Append(bmm2om, OffloadCfm(Head(om2bmm), c, "FAILURE"))
      PROVE  BmmConnStep
  <2>1. PICK m \in BmmToOmMsgs : /\ m \in CfmsFor(i) /\ m.result = "FAILURE" /\ m.connId = c
                                /\ bmm2om' = Append(bmm2om, m)
    BY <1>2, <1>4 DEF OffloadCfm, CfmsFor, BmmToOmMsgs, Results
  <2>2. RefuseStep(i, m)
    BY <1>1, <1>2, <1>3, <1>4, <2>1 DEF RefuseStep
  <2>3. QED BY <2>2 DEF BmmConnStep
<1>5. CASE RefusedByTable(Head(om2bmm).id, Head(om2bmm).type) \/ ~paramsOk
  BY <1>4, <1>5 DEF BmmSocketOffloadReqHandler
<1>6. CASE ~(RefusedByTable(Head(om2bmm).id, Head(om2bmm).type) \/ ~paramsOk)
  <2>1. PICK x0 \in Indices : x0 = BmmGetFreeConnIdIndex /\ ~socket[x0].inUse
    BY <1>6, FreeIndex DEF RefusedByTable, FreeIndices
  <2>2. PICK c \in ConnIds : c = BmmGenerateConnId(t0, s0, x0)
    BY ConnIdTypes
  <2>3. CASE ~filterOk
    <3>1. UNCHANGED socket /\ bmm2om' = Append(bmm2om, OffloadCfm(Head(om2bmm), c, "FAILURE"))
      BY <1>2, <1>6, <2>1, <2>2, <2>3 DEF BmmSocketOffloadReqHandler
    <3>2. QED BY <1>4, <2>2, <3>1
  <2>4. CASE filterOk
    <3>1. /\ bmm2om' = Append(bmm2om, OffloadCfm(Head(om2bmm), c, "SUCCESS"))
          /\ socket' = [socket EXCEPT ![x0] = [inUse |-> TRUE, connId |-> c, socketId |-> s0,
                                               protocol |-> t0, creditInitialised |-> FALSE]]
      BY <1>2, <1>6, <2>1, <2>2, <2>4 DEF BmmSocketOffloadReqHandler
    <3>2. PICK m \in BmmToOmMsgs : m \in Grant(i, c) /\ bmm2om' = Append(bmm2om, m)
      BY <1>2, <3>1 DEF OffloadCfm, Grant, CfmsFor, BmmToOmMsgs, Results
    <3>3. DOMAIN socket = Indices
      BY DEF CInv, PInv, IInv, TypeOK, BmmTypeOK
    <3>4. /\ \A x \in Indices \ {x0} : socket'[x] = socket[x]
          /\ socket'[x0].inUse /\ socket'[x0].connId = c /\ socket'[x0].socketId = s0
          /\ socket'[x0].protocol = t0
      BY <3>1, <3>3
    <3>5. /\ c = BmmGenerateConnId(Head(om2bmm).type, Head(om2bmm).id, x0) /\ ~socket[x0].inUse
          /\ socket'[x0].socketId = Head(om2bmm).id /\ socket'[x0].protocol = Head(om2bmm).type
      BY <1>2, <2>1, <2>2, <3>4
    <3>6. GrantStep(i, x0, c, m)
      BY <1>1, <1>3, <3>2, <3>4, <3>5 DEF GrantStep
    <3>7. QED BY <3>6 DEF BmmConnStep
  <2>5. QED BY <2>3, <2>4
<1>7. QED BY <1>5, <1>6

(* The entry of a valid connection id, where a handler writes. *)
LEMMA IndexFound ==
  ASSUME NEW c, BmmIsConnIdValid(c)
  PROVE  IndexOf(c) \in Indices /\ socket[IndexOf(c)].inUse /\ socket[IndexOf(c)].connId = c
BY DEF BmmIsConnIdValid, IndexOf

(* The handler of a close finds the connection. *)
LEMMA CloseReqSteps ==
  ASSUME CInv, UNCHANGED instances, BmmSocketCloseReqHandler
  PROVE  BmmConnStep
<1>1. /\ om2bmm # <<>> /\ om2bmm' = Tail(om2bmm) /\ Head(om2bmm) \in OmToBmmMsgs
      /\ Head(om2bmm).op = "CLOSE_REQ"
  BY QueueTypes, LinkTypes DEF BmmSocketCloseReqHandler, Next1
<1>2. PICK c \in ConnIds \cup {InvalidConnId} : c = Head(om2bmm).connId
  BY <1>1, MessageFields
<1>3. Head(om2bmm) \in CloseOrder(c)
  BY <1>1, <1>2 DEF CloseOrder
<1>4. BmmIsConnIdValid(c)
  <2>1. Where(om2bmm, CloseOrder(c)) # {}
    BY <1>1, <1>3, ReadBehind, LinkTypes
  <2>2. QED BY <2>1, LinkTypes DEF CloseOrdered, BmmIsConnIdValid
<1>5. PICK x0 \in Indices : x0 = IndexOf(c) /\ socket[x0].inUse /\ socket[x0].connId = c
  BY <1>4, IndexFound
<1>6. /\ socket' = [socket EXCEPT ![x0] = FreeInst]
      /\ bmm2om' = Append(bmm2om, [op |-> "CLOSE_CFM", connId |-> c, result |-> "SUCCESS"])
  BY <1>2, <1>4, <1>5 DEF BmmSocketCloseReqHandler
<1>7. PICK m \in BmmToOmMsgs : m \in CloseDone(c) /\ bmm2om' = Append(bmm2om, m)
  BY <1>6 DEF CloseDone, BmmToOmMsgs, Results
<1>8. DOMAIN socket = Indices
  BY DEF CInv, PInv, IInv, TypeOK, BmmTypeOK
<1>9. ~socket'[x0].inUse /\ \A x \in Indices \ {x0} : socket'[x] = socket[x]
  BY <1>6, <1>8 DEF FreeInst
<1>10. CloseStep(x0, c, m)
  BY <1>1, <1>3, <1>5, <1>7, <1>9 DEF CloseStep
<1>11. QED BY <1>10 DEF BmmConnStep

(* The handler of the credits. *)
LEMMA SetParamsSteps ==
  ASSUME CInv, UNCHANGED instances, BmmSocketSetParamsReqHandler
  PROVE  BmmConnStep
<1>1. /\ om2bmm # <<>> /\ om2bmm' = Tail(om2bmm) /\ Head(om2bmm) \in OmToBmmMsgs
      /\ Head(om2bmm).op = "SET_PARAMS_REQ" /\ bmm2om' = bmm2om
  BY QueueTypes, LinkTypes DEF BmmSocketSetParamsReqHandler, Next1
<1>2. PICK c \in ConnIds \cup {InvalidConnId} : c = Head(om2bmm).connId
  BY <1>1, MessageFields
<1>3. Head(om2bmm) \in CreditOrder(c)
  BY <1>1, <1>2 DEF CreditOrder
<1>4. socket \in [Indices -> InstTypes]
  BY DEF CInv, PInv, IInv, TypeOK, BmmTypeOK, InstTypes
<1>5. \A x \in Indices :
         /\ socket'[x].inUse = socket[x].inUse /\ socket'[x].socketId = socket[x].socketId
         /\ socket'[x].protocol = socket[x].protocol /\ socket'[x].connId = socket[x].connId
         /\ socket[x].creditInitialised => socket'[x].creditInitialised
         /\ socket[x].inUse /\ socket[x].connId = c => socket'[x].creditInitialised
  <2>1. CASE BmmIsConnIdValid(c)
    <3>1. PICK x0 \in Indices : x0 = IndexOf(c) /\ socket[x0].inUse /\ socket[x0].connId = c
      BY <2>1, IndexFound
    <3>2. socket' = [socket EXCEPT ![x0].creditInitialised = TRUE]
      BY <1>2, <2>1, <3>1 DEF BmmSocketSetParamsReqHandler
    <3>3. \A x \in Indices : socket[x].inUse /\ socket[x].connId = c => x = x0
      BY <3>1, ConnsApart, LinkTypes
    <3>4. QED BY <1>4, <3>2, <3>3 DEF InstTypes
  <2>2. CASE ~BmmIsConnIdValid(c)
    BY <1>2, <2>2 DEF BmmSocketSetParamsReqHandler, BmmIsConnIdValid
  <2>3. QED BY <2>1, <2>2
<1>6. CreditStep(c)
  BY <1>1, <1>3, <1>5 DEF CreditStep
<1>7. QED BY <1>6 DEF BmmConnStep


(* Every step of the system is one of the two. *)
LEMMA ConnSteps ==
  ASSUME CInv, [Next]_vars
  PROVE  OmConnStep \/ BmmConnStep
<1>1. UNCHANGED <<instances, socket, om2bmm, bmm2om>> => OmConnStep
  BY DEF OmConnStep, QuietStep, SameInstance
<1>2. CASE HalStep(StackCall) \/ HalStep(ClosedCommit) \/ HalStep(RxThread)
  BY <1>1, <1>2 DEF HalStep
<1>3. CASE \/ OmStep(FromHal) \/ OmStep(FromMicrostack) \/ OmStep(FromMicroapps)
           \/ OmStep(GattSessions)
  BY <1>3, OmSteps
<1>4. CASE BmmStep(Microstack)
  BY <1>4, OffloadReqSteps, CloseReqSteps, SetParamsSteps DEF BmmStep, Microstack
<1>5. CASE AwmStep(AppManager)
  BY <1>1, <1>5 DEF AwmStep, AppManager, open_socket_req, close_socket_cmd
<1>6. CASE AwmStep(\E t \in Types, s \in Sockets : close_socket_qapi(t, s))
  BY <1>1, <1>6 DEF AwmStep, close_socket_qapi
<1>7. CASE UNCHANGED vars
  BY <1>1, <1>7 DEF vars, channels
<1>8. QED BY <1>2, <1>3, <1>4, <1>5, <1>6, <1>7 DEF Next

-----------------------------------------------------------------------------
(* The invariant holds at the start, and every step keeps it. *)
LEMMA LinksStart == Init => CInv
<1> SUFFICES ASSUME Init
             PROVE  CInv
  OBVIOUS
<1>1. PInv
  BY PhasesInit
<1>2. /\ om2bmm = <<>> /\ bmm2om = <<>> /\ \A i \in Slots : instances[i].state = "Idle"
      /\ \A x \in Indices : ~socket[x].inUse
  BY DEF Init, ChannelsInit, InstancesInit, BmmInit, FreeInst
<1>3. \A M : Where(om2bmm, M) = {} /\ Where(bmm2om, M) = {}
  BY <1>2 DEF Where
<1>4. \A i \in Slots : Instance(i)
  BY <1>2, <1>3 DEF Instance, Waiting, Connected, Requested, Confirmed, One
<1>5. (\A x \in Indices : Conn(x)) /\ CloseOrdered
  BY <1>2, <1>3 DEF Conn, CloseOrdered
<1>6. QED BY <1>1, <1>4, <1>5 DEF CInv, Links

(* Every step of the system keeps the invariant. *)
LEMMA LinksNext == CInv /\ [Next]_vars => CInv'
<1> SUFFICES ASSUME CInv, [Next]_vars
             PROVE  CInv'
  OBVIOUS
<1>1. PInv' /\ TypeOK
  BY PhasesNext DEF CInv, PInv, IInv
<1>2. Links'
  <2>1. OmConnStep => Links'
    BY LinksQuiet, OrderLinks, OpenLinks, CfmLinks, DoneLinks DEF OmConnStep
  <2>2. BmmConnStep => Links'
    BY RefuseLinks, GrantLinks, CloseLinks, CreditLinks DEF BmmConnStep
  <2>3. QED BY <2>1, <2>2, ConnSteps
<1>3. QED BY <1>1, <1>2 DEF CInv

(* The connections of the microstack, and for whom they are, in every behaviour. *)
THEOREM LinksAlways == Spec => []CInv
<1>1. QED BY LinksStart, LinksNext, PTL DEF Spec

(* Every connection of the microstack belongs to an instance that has it, that   *)
(* its grant is on the way to, or that has asked for its close; and every      *)
(* instance that has a connection has one that is there.  For any number of     *)
(* sockets, instances and entries, with GATT sessions in the same table of      *)
(* instances, and even if all socket ids have the same low half: the close of   *)
(* one connection may be answered to the instance of another, but none is lost. *)
THEOREM NoMicrostackLeakAlways == Spec => []NoMicrostackLeak
<1>1. ASSUME CInv
      PROVE  NoMicrostackLeak
  <2>1. ASSUME NEW x \in Indices, socket[x].inUse
        PROVE  \E i \in Live :
                 /\ instances[i].id = socket[x].socketId
                 /\ \/ Connected(i)
                    \/ /\ instances[i].state = "OffloadReq"
                       /\ \E m \in InFlight(bmm2om) :
                             /\ m.op = "OFFLOAD_CFM" /\ m.result = "SUCCESS"
                             /\ m.context = i /\ m.connId = socket[x].connId
                    \/ CloseReqFor(i)
    <3>1. PICK i \in Serving(socket[x].socketId) :
            \/ Arriving(i, socket[x].connId) \/ Used(i, socket[x].connId)
            \/ Leaving(i, socket[x].connId)
      BY <1>1, <2>1, LinkTypes DEF Conn
    <3>2. i \in Live /\ instances[i].id = socket[x].socketId
      BY DEF Serving
    <3>3. CASE Arriving(i, socket[x].connId)
      <4>1. PICK k : k \in Where(bmm2om, Grant(i, socket[x].connId))
        BY <3>3 DEF Arriving
      <4>2. bmm2om[k] \in InFlight(bmm2om) /\ bmm2om[k] \in Grant(i, socket[x].connId)
        BY <4>1 DEF Where, InFlight
      <4>3. QED BY <3>2, <3>3, <4>2 DEF Arriving, Waiting, Grant, CfmsFor
    <3>4. CASE Used(i, socket[x].connId)
      BY <3>2, <3>4 DEF Used
    <3>5. CASE Leaving(i, socket[x].connId)
      <4>1. PICK k : k \in Where(om2bmm, CloseOrder(socket[x].connId))
        BY <3>5 DEF Leaving
      <4>2. om2bmm[k] \in InFlight(om2bmm) /\ om2bmm[k] \in CloseOrder(socket[x].connId)
        BY <4>1 DEF Where, InFlight
      <4>3. QED BY <3>2, <3>5, <4>2 DEF Leaving, CloseOrder, CloseReqFor
    <3>6. QED BY <3>1, <3>3, <3>4, <3>5
  <2>2. ASSUME NEW i \in Slots, Connected(i)
        PROVE  BmmIsConnIdValid(instances[i].pseudo_id)
    BY <1>1, <2>2, LinkTypes DEF Instance, Holds, BmmIsConnIdValid
  <2>3. QED BY <2>1, <2>2 DEF NoMicrostackLeak
<1>2. QED BY <1>1, LinksAlways, PTL

(* A socket that the Bluetooth stack was told is open is open end to end: one   *)
(* instance serves it, its connection is there and has its credits or will, and *)
(* a microapp holds it, from the moment the HAL has read the answer.           *)
THEOREM OpenedEndToEndAlways == Spec => []OpenedEndToEnd
<1>1. ASSUME CInv, AInv
      PROVE  OpenedEndToEnd
  <2> SUFFICES ASSUME NEW s \in Sockets, getState(s) = "OPENED"
               PROVE  \E i \in Live, x \in Indices :
                        /\ instances[i].id = s /\ instances[i].state = "OffloadToMicroappSuccess"
                        /\ socket[x].inUse /\ socket[x].connId = instances[i].pseudo_id
                        /\ \/ socket[x].creditInitialised
                           \/ \E m \in InFlight(om2bmm) :
                                 m.op = "SET_PARAMS_REQ" /\ m.connId = socket[x].connId
                        /\ Holding(instances[i].type, s) # {}
    BY DEF OpenedEndToEnd
  <2>1. PInv /\ IInv /\ InstancesTypeOK
    BY <1>1 DEF CInv, PInv, IInv, TypeOK
  <2>2. Phase(s) /\ Rests
    BY <2>1 DEF PInv
  <2>3. Opens(s) = {} /\ Failures(s) = {} /\ Closures(s) = {} /\ Removing(s) = {}
    BY <2>2 DEF Phase
  <2>4. Serving(s) # {}
    BY <2>1, <2>3, OneAnswers
  <2>5. PICK i \in Serving(s) : TRUE
    BY <2>4
  <2>6. i \in Live /\ i \in Slots /\ instances[i].id = s
    BY DEF Serving, Live
  <2>7. instances[i].state = "OffloadToMicroappSuccess"
    <3>1. instances[i].state \in AtRest /\ instances[i].state \notin {"Idle", "Gatt"}
      BY <2>2, <2>6 DEF Rests, Live
    <3>2. instances[i].state \notin Early /\ instances[i].state # "UnOffloadReqToMicrostack"
      BY <2>2 DEF Phase
    <3>3. QED BY <3>1, <3>2 DEF AtRest
  <2>8. PICK x \in Indices : Holds(x, i, instances[i].pseudo_id) /\ Ready(x)
    BY <1>1, <2>6, <2>7, LinkTypes DEF Instance, Connected
  <2>9. socket[x].creditInitialised
          \/ \E m \in InFlight(om2bmm) : m.op = "SET_PARAMS_REQ" /\ m.connId = socket[x].connId
    <3>1. ASSUME NEW k \in Where(om2bmm, CreditOrder(socket[x].connId))
          PROVE  \E m \in InFlight(om2bmm) : m.op = "SET_PARAMS_REQ" /\ m.connId = socket[x].connId
      <4>1. om2bmm[k] \in InFlight(om2bmm) /\ om2bmm[k] \in CreditOrder(socket[x].connId)
        BY DEF Where, InFlight
      <4>2. QED BY <4>1 DEF CreditOrder
    <3>2. QED BY <2>8, <3>1 DEF Ready
  <2>10. Holding(instances[i].type, s) # {}
    BY <1>1, <2>7 DEF AInv, App, Held, Granted
  <2>11. QED BY <2>6, <2>7, <2>8, <2>9, <2>10 DEF Holds
<1>2. QED BY <1>1, LinksAlways, AppsAlways, PTL
=============================================================================
