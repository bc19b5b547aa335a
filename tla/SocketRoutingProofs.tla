------------------------ MODULE SocketRoutingProofs -------------------------
(***************************************************************************)
(* What socket offload relies on and does not check.                       *)
(*                                                                         *)
(* First, that every answer reaches the instance that waits for it.  The   *)
(* confirmation of a close names its instance by the microstack's           *)
(* connection id only, the answer of a microapp by the socket id, and the  *)
(* look-ups take the first instance that matches in any state.  This        *)
(* relies, for the first, on no two socket ids agreeing in the half of     *)
(* them that the connection id keeps (DistinctLow) and on no GATT session  *)
(* taking an instance in front of a socket's (SocketsAlone); for the        *)
(* second, on the stack naming registered endpoints only (KnownEndpoints). *)
(* The runs close_cfm_lost and unknown_endpoint are without SocketsAlone    *)
(* and without KnownEndpoints, and both properties fail there.             *)
(*                                                                         *)
(* Then, that no table behind the HAL ever refuses for want of room what    *)
(* the HAL let pass, which relies on the sizes of the tables (RoomForAll). *)
(* Only the HAL counts what is open; an instance, a connection and a        *)
(* microapp's entry are taken later than the HAL's entry, and the last of  *)
(* them is released after it.  The argument: whatever a table holds is      *)
(* held for sockets that had an entry of that type in the HAL's table at   *)
(* one and the same moment, the one that asks included.  For the instances *)
(* and the connections this moment is now; for a microapp's entries it is  *)
(* the moment at which the open request was put into the queue to the app  *)
(* manager.                                                                *)
(***************************************************************************)
EXTENDS SocketTablesProofs

(* Where a confirmation is found by its connection id alone.  The id is made  *)
(* of the low half of the socket's id, and an idle instance keeps the last  *)
(* one that it had, as does one that a GATT session holds.                 *)
DistinctLow == \A s, t \in Sockets : Low16[s] = Low16[t] => s = t
SocketsAlone == MaxGattSessions = 0 \/ NumInstances = 1

(* The ids that the connections of a socket can get. *)
IdsOf(s) == {BmmGenerateConnId(t, s, x) : t \in Types, x \in Indices}

(* An instance that has been answered has an id of its own socket. *)
Settled(i) == i \in Live /\ ~Waiting(i)

Own(i) ==
  /\ Settled(i) => instances[i].pseudo_id \in IdsOf(instances[i].id)
  /\ \A k \in Confirmed(i) : bmm2om[k].connId \in IdsOf(instances[i].id) \cup {InvalidConnId}

(* An instance j in front of i has no id of the socket of i; or else both still *)
(* wait, and j, whose request went first, is answered first and gets an id   *)
(* of its own socket.                                                      *)
Clear(j, i) == instances[j].pseudo_id \notin IdsOf(instances[i].id)

Ahead(j, i) ==
  /\ Waiting(i) /\ Waiting(j)
  /\ Behind(om2bmm, ReqsFor(i), ReqsFor(j)) /\ Behind(bmm2om, CfmsFor(i), CfmsFor(j))
  /\ Confirmed(i) # {} => Requested(j) = {}

NoGatt == MaxGattSessions = 0 => \A i \in Slots : instances[i].state # "Gatt"
NoStale == \A i \in Live, j \in Slots : j < i => Clear(j, i) \/ Ahead(j, i)

RInv == CInv /\ NoGatt /\ (\A i \in Slots : Own(i)) /\ NoStale

(* The ids of different sockets differ, and none is the invalid one. *)
LEMMA IdsApart ==
  ASSUME DistinctLow, NEW s \in Sockets, NEW c \in IdsOf(s)
  PROVE  c # InvalidConnId /\ \A t \in Sockets : t # s => c \notin IdsOf(t)
<1>1. PICK u \in Types, x \in Indices : c = BmmGenerateConnId(u, s, x)
  BY DEF IdsOf
<1>2. c # InvalidConnId
  BY <1>1, ConnIdAssumption
<1>3. ASSUME NEW t \in Sockets, t # s, c \in IdsOf(t)
      PROVE  FALSE
  <2>1. PICK v \in Types, y \in Indices : c = BmmGenerateConnId(v, t, y)
    BY <1>3 DEF IdsOf
  <2>2. Low16[s] = Low16[t]
    BY <1>1, <2>1 DEF BmmGenerateConnId
  <2>3. QED BY <1>3, <2>2 DEF DistinctLow
<1>4. QED BY <1>2, <1>3

(* A queue that is read, or in which something else is sent, has no new       *)
(* messages of M.                                                          *)
Fewer(q, q2, D, M) ==
  \/ q2 = q
  \/ q # <<>> /\ q2 = Tail(q)
  \/ \E m \in D : m \notin M /\ q2 = Append(q, m)

(* So each of them was there before, and what stood behind them still does. *)
LEMMA FewerWhere ==
  ASSUME NEW D, NEW q \in Seq(D), NEW q2, NEW M, Fewer(q, q2, D, M)
  PROVE  /\ \A k \in Where(q2, M) : \E l \in Where(q, M) : q2[k] = q[l]
         /\ \A N : Behind(q, N, M) => Behind(q2, N, M)
<1>1. ASSUME NEW k \in Where(q2, M)
      PROVE  \E l \in Where(q, M) : q2[k] = q[l]
  <2>1. CASE q2 = q
    BY <2>1
  <2>2. CASE q # <<>> /\ q2 = Tail(q)
    <3>1. k \in 1 .. Len(q) - 1 /\ k + 1 \in Where(q, M)
      BY <2>2, WhereTailed
    <3>2. Tail(q)[k] = q[k + 1]
      BY <2>2, <3>1
    <3>3. QED BY <2>2, <3>1, <3>2
  <2>3. CASE \E m \in D : m \notin M /\ q2 = Append(q, m)
    <3>1. Spares(q, q2, D, M)
      BY <2>3 DEF Spares
    <3>2. QED BY <3>1, SparedWhere
  <2>4. QED BY <2>1, <2>2, <2>3 DEF Fewer
<1>2. \A N : Behind(q, N, M) => Behind(q2, N, M)
  BY SparedBehind DEF Fewer
<1>3. QED BY <1>1, <1>2

(* What makes up the id of an instance after a step. *)
LEMMA OwnNext ==
  ASSUME NEW i \in Slots, NEW s, s = instances'[i].id,
         Settled(i)' => instances'[i].pseudo_id \in IdsOf(s),
         \A k \in Confirmed(i)' : bmm2om'[k].connId \in IdsOf(s) \cup {InvalidConnId}
  PROVE  Own(i)'
BY DEF Own, IdsOf

(* What a step leaves of an instance that is not answered by it. *)
SameConn(i) ==
  /\ instances'[i].id = instances[i].id /\ instances'[i].pseudo_id = instances[i].pseudo_id
  /\ Waiting(i)' <=> Waiting(i)
  /\ i \in Live' => i \in Live

(* Then the instance has its own id as before, ... *)
LEMMA OwnKept ==
  ASSUME NEW i \in Slots, Own(i), SameConn(i), bmm2om \in Seq(BmmToOmMsgs),
         Fewer(bmm2om, bmm2om', BmmToOmMsgs, CfmsFor(i))
  PROVE  Own(i)'
<1>1. Settled(i)' => instances'[i].pseudo_id \in IdsOf(instances'[i].id)
  BY DEF Own, SameConn, Settled
<1>2. \A k \in Confirmed(i)' : \E l \in Confirmed(i) : bmm2om'[k] = bmm2om[l]
  <2>1. \A k \in Where(bmm2om', CfmsFor(i)) :
           \E l \in Where(bmm2om, CfmsFor(i)) : bmm2om'[k] = bmm2om[l]
    BY FewerWhere
  <2>2. QED BY <2>1 DEF Confirmed, CfmsFor
<1>3. \A k \in Confirmed(i)' : bmm2om'[k].connId \in IdsOf(instances'[i].id) \cup {InvalidConnId}
  BY <1>2 DEF Own, SameConn
<1>4. QED BY <1>1, <1>3 DEF Own, IdsOf

(* ... and two that are left alone stay apart. *)
LEMMA ApartKept ==
  ASSUME NEW i \in Slots, NEW j \in Slots, Clear(j, i) \/ Ahead(j, i), SameConn(i), SameConn(j),
         om2bmm \in Seq(OmToBmmMsgs), bmm2om \in Seq(BmmToOmMsgs),
         Fewer(om2bmm, om2bmm', OmToBmmMsgs, ReqsFor(j)),
         Fewer(bmm2om, bmm2om', BmmToOmMsgs, CfmsFor(j)),
         Fewer(bmm2om, bmm2om', BmmToOmMsgs, CfmsFor(i))
  PROVE  Clear(j, i)' \/ Ahead(j, i)'
<1>1. CASE Clear(j, i)
  BY <1>1 DEF Clear, SameConn, IdsOf
<1>2. CASE Ahead(j, i)
  <2>1. Behind(om2bmm', ReqsFor(i), ReqsFor(j)) /\ Behind(bmm2om', CfmsFor(i), CfmsFor(j))
    BY <1>2, FewerWhere DEF Ahead
  <2>2. /\ Requested(j) = {} => Requested(j)' = {}
        /\ Confirmed(i) = {} => Confirmed(i)' = {}
    BY FewerWhere DEF Requested, ReqsFor, Confirmed, CfmsFor
  <2>3. Ahead(j, i)'
    BY <1>2, <2>1, <2>2 DEF Ahead, SameConn, ReqsFor, CfmsFor
  <2>4. QED BY <2>3
<1>3. QED BY <1>1, <1>2

(* What the steps have to keep. *)
Routes == (\A i \in Slots : Own(i)) /\ NoStale

(* A step that answers nobody and asks for no connection. *)
LEMMA RoutesKept ==
  ASSUME RInv, \A i \in Slots : SameConn(i),
         \A i \in Slots : Fewer(om2bmm, om2bmm', OmToBmmMsgs, ReqsFor(i)),
         \A i \in Slots : Fewer(bmm2om, bmm2om', BmmToOmMsgs, CfmsFor(i))
  PROVE  Routes'
<1>1. \A i \in Slots : Own(i)'
  BY OwnKept, LinkTypes DEF RInv
<1>2. ASSUME NEW i \in Live', NEW j \in Slots, j < i
      PROVE  Clear(j, i)' \/ Ahead(j, i)'
  <2>1. i \in Slots /\ i \in Live
    BY DEF SameConn, Live
  <2>2. Clear(j, i) \/ Ahead(j, i)
    BY <1>2, <2>1 DEF RInv, NoStale
  <2>3. QED BY <2>1, <2>2, ApartKept, LinkTypes DEF RInv
<1>3. QED BY <1>1, <1>2 DEF Routes, NoStale

(* Two instances that work for sockets work for different ones. *)
LEMMA LiveApart ==
  ASSUME CInv, NEW i \in Live, NEW j \in Live, i # j
  PROVE  instances[i].id \in Sockets /\ instances[j].id \in Sockets
         /\ instances[i].id # instances[j].id
<1>1. IInv /\ Live = {k \in Slots : instances[k].state \in LiveStates} /\ LiveIds
  BY LinkTypes, LiveIsLiveStates DEF CInv, PInv
<1>2. instances[i].id \in Sockets /\ instances[j].id \in Sockets
  BY <1>1 DEF LiveIds
<1>3. One(Serving(instances[i].id))
  BY <1>1, <1>2, OneAnswers
<1>4. QED BY <1>2, <1>3 DEF Serving, One

(* The connection of an instance that was granted one has an id of its socket. *)
LEMMA HeldIsOwn ==
  ASSUME CInv, NEW i \in Slots, NEW x \in Indices, NEW c, Holds(x, i, c)
  PROVE  c \in IdsOf(instances[i].id)
BY LinkTypes DEF Holds, Conn, IdsOf

(* A new instance asks after all those that wait, and each of the others in    *)
(* front of it has an id of another socket.                                 *)
LEMMA OpenRoutes ==
  ASSUME RInv, DistinctLow, SocketsAlone, NEW i0 \in Slots, NEW s \in Sockets,
         NEW m \in OmToBmmMsgs, OpenStep(i0, s, m)
  PROVE  Routes'
<1> USE DEF OpenStep
<1>1. CInv /\ LiveIds
  BY LinkTypes DEF RInv
<1>2. ~Waiting(i0) /\ i0 \notin Live /\ Waiting(i0)' /\ Requested(i0) = {} /\ Confirmed(i0) = {}
  BY <1>1, LinkTypes DEF Waiting, Live, Instance
<1>3. \A i \in Slots \ {i0} : SameConn(i)
  BY DEF SameConn, Waiting, Live
<1>4. /\ \A i \in Slots : Fewer(bmm2om, bmm2om', BmmToOmMsgs, CfmsFor(i))
      /\ \A i \in Slots \ {i0} : Fewer(om2bmm, om2bmm', OmToBmmMsgs, ReqsFor(i))
  BY DEF Fewer, ReqsFor
<1>5. Confirmed(i0)' = {}
  BY <1>2 DEF Confirmed, CfmsFor
<1>6. \A i \in Slots : Own(i)'
  <2>1. Own(i0)'
    BY <1>2, <1>5 DEF Own, Settled
  <2>2. ASSUME NEW i \in Slots \ {i0}
        PROVE  Own(i)'
    BY <1>1, <1>3, <1>4, OwnKept, LinkTypes DEF RInv
  <2>3. QED BY <2>1, <2>2
<1>7. ASSUME NEW i \in Live', NEW j \in Slots, j < i
      PROVE  Clear(j, i)' \/ Ahead(j, i)'
  <2>1. i \in Slots
    BY DEF Live
  <2>2. CASE i # i0 /\ j # i0
    <3>1. i \in Live
      BY <1>3, <2>1, <2>2 DEF SameConn
    <3>2. Clear(j, i) \/ Ahead(j, i)
      BY <1>7, <3>1 DEF RInv, NoStale
    <3>3. QED BY <1>1, <1>3, <1>4, <2>1, <2>2, <3>2, ApartKept, LinkTypes
  <2>3. CASE i # i0 /\ j = i0
    <3>1. i \in Live
      BY <1>3, <2>1, <2>3 DEF SameConn
    <3>2. Clear(j, i)
      BY <1>2, <1>7, <2>3, <3>1 DEF RInv, NoStale, Ahead
    <3>3. Clear(j, i)'
      BY <1>3, <2>1, <2>3, <3>2 DEF Clear, SameConn, IdsOf
    <3>4. QED BY <3>3
  <2>4. CASE i = i0
    <3>1. instances[j].state # "Idle" /\ j # i0
      BY <1>7, <2>4, SizesAssumption DEF Slots
    <3>2. MaxGattSessions = 0
      BY <1>7, <2>1 DEF SocketsAlone, Slots
    <3>3. j \in Live
      BY <3>1, <3>2 DEF RInv, NoGatt, Live
    <3>4. instances[j].id \in Sockets /\ instances[j].id # s
      BY <1>1, <3>3, LinkTypes, LiveIsLiveStates DEF LiveIds, Serving
    <3>5. CASE ~Waiting(j)
      <4>1. instances[j].pseudo_id \in IdsOf(instances[j].id)
        BY <3>3, <3>5 DEF RInv, Own, Settled
      <4>2. instances[j].pseudo_id \notin IdsOf(s)
        BY <3>4, <4>1, IdsApart
      <4>3. Clear(j, i0)'
        BY <3>1, <4>2 DEF Clear, IdsOf
      <4>4. QED BY <2>4, <4>3
    <3>6. CASE Waiting(j)
      <4>1. m \notin ReqsFor(j) /\ Where(om2bmm, ReqsFor(i0)) = {}
        BY <1>2, <3>1 DEF ReqsFor, Requested
      <4>2. Behind(om2bmm', ReqsFor(i0), ReqsFor(j))
        BY <1>1, <4>1, SentBehind, LinkTypes
      <4>3. Behind(bmm2om', CfmsFor(i0), CfmsFor(j))
        BY <1>2 DEF Behind, Confirmed
      <4>4. Waiting(j)'
        BY <3>1, <3>6 DEF Waiting
      <4>5. Ahead(j, i0)'
        BY <1>2, <1>5, <4>2, <4>3, <4>4 DEF Ahead, ReqsFor, CfmsFor
      <4>6. QED BY <2>4, <4>5
    <3>7. QED BY <3>5, <3>6
  <2>5. QED BY <2>2, <2>3, <2>4
<1>8. QED BY <1>6, <1>7 DEF Routes, NoStale

(* The answer stores an id of its own socket, or the invalid one; and when it  *)
(* is read, no instance in front waits any more.                           *)
LEMMA CfmRoutes ==
  ASSUME RInv, DistinctLow, NEW i0 \in Slots, NEW c \in ConnIds \cup {InvalidConnId},
         CfmStep(i0, c)
  PROVE  Routes'
<1> USE DEF CfmStep
<1>1. CInv
  BY DEF RInv
<1>2. /\ 1 \in Confirmed(i0) /\ bmm2om[1] = Head(bmm2om)
      /\ Where(bmm2om, CfmsFor(i0)) # {}
      /\ One(Confirmed(i0)) => Where(bmm2om', CfmsFor(i0)) = {}
      /\ \A N : Behind(bmm2om, CfmsFor(i0), N) => Where(bmm2om, N) = {}
  BY <1>1, ReadBehind, LinkTypes DEF Confirmed
<1>3. Waiting(i0) /\ Confirmed(i0)' = {} /\ ~Waiting(i0)' /\ i0 \in Live
  <2>1. Waiting(i0) /\ One(Confirmed(i0))
    BY <1>1, <1>2, LinkTypes DEF Instance
  <2>2. Confirmed(i0)' = {}
    BY <1>2, <2>1 DEF Confirmed, CfmsFor
  <2>3. QED BY <2>1, <2>2 DEF Waiting, Live
<1>4. \A i \in Slots \ {i0} : SameConn(i)
  BY DEF SameConn, Waiting, Live
<1>5. /\ \A i \in Slots : Fewer(bmm2om, bmm2om', BmmToOmMsgs, CfmsFor(i))
      /\ \A i \in Slots : Fewer(om2bmm, om2bmm', OmToBmmMsgs, ReqsFor(i))
  BY DEF Fewer
<1>6. c \in IdsOf(instances[i0].id) \cup {InvalidConnId}
  BY <1>2 DEF RInv, Own
<1>7. ASSUME i0 \in Live'
      PROVE  c \in IdsOf(instances[i0].id)
  <2>1. Head(bmm2om).result = "SUCCESS"
    BY <1>7 DEF Live
  <2>2. PICK x \in Indices : Holds(x, i0, c)
    BY <1>1, <1>2, <2>1, LinkTypes DEF Instance
  <2>3. QED BY <1>1, <2>2, HeldIsOwn
<1>8. \A i \in Slots : Own(i)'
  <2>1. Own(i0)'
    BY <1>3, <1>7 DEF Own, Settled, IdsOf
  <2>2. ASSUME NEW i \in Slots \ {i0}
        PROVE  Own(i)'
    BY <1>1, <1>4, <1>5, OwnKept, LinkTypes DEF RInv
  <2>3. QED BY <2>1, <2>2
<1>9. ASSUME NEW i \in Live', NEW j \in Slots, j < i
      PROVE  Clear(j, i)' \/ Ahead(j, i)'
  <2>1. i \in Slots /\ j # i
    BY <1>9, SizesAssumption DEF Live, Slots
  <2>2. i \in Live
    BY <1>3, <1>4, <2>1 DEF SameConn
  <2>3. Clear(j, i) \/ Ahead(j, i)
    BY <1>9, <2>2 DEF RInv, NoStale
  <2>4. CASE i # i0 /\ j # i0
    BY <1>1, <1>4, <1>5, <2>1, <2>3, <2>4, ApartKept, LinkTypes
  <2>5. CASE i = i0
    <3>1. ~Ahead(j, i0)
      <4>1. ASSUME Ahead(j, i0)
            PROVE  FALSE
        <5>1. Confirmed(j) = {} /\ Requested(j) = {}
          BY <1>2, <4>1 DEF Ahead, Confirmed
        <5>2. QED BY <1>1, <4>1, <5>1, LinkTypes DEF Ahead, Instance
      <4>2. QED BY <4>1
    <3>2. Clear(j, i0)'
      BY <2>1, <2>3, <2>5, <3>1 DEF Clear, IdsOf
    <3>3. QED BY <2>5, <3>2
  <2>6. CASE j = i0
    <3>1. /\ instances[i].id \in Sockets /\ instances[i0].id \in Sockets
          /\ instances[i0].id # instances[i].id
      BY <1>1, <1>3, <2>1, <2>2, <2>6, LiveApart
    <3>2. c \notin IdsOf(instances[i].id)
      BY <1>6, <3>1, IdsApart
    <3>3. Clear(i0, i)'
      BY <2>1, <2>6, <3>2 DEF Clear, IdsOf
    <3>4. QED BY <2>6, <3>3
  <2>7. QED BY <2>4, <2>5, <2>6
<1>10. QED BY <1>8, <1>9 DEF Routes, NoStale

(* The microstack answers the requests in the order in which they were made,   *)
(* with an id of the socket that the request names.                        *)
AnswerStep(i, m) ==
  /\ UNCHANGED instances /\ om2bmm # <<>> /\ om2bmm' = Tail(om2bmm) /\ Head(om2bmm) \in ReqsFor(i)
  /\ bmm2om' = Append(bmm2om, m) /\ m \in CfmsFor(i)
  /\ \/ m.connId = InvalidConnId
     \/ \E x \in Indices : m.connId = BmmGenerateConnId(Head(om2bmm).type, Head(om2bmm).id, x)

(* Such an answer keeps the instances of different sockets apart. *)
LEMMA AnswerRoutes ==
  ASSUME RInv, NEW i0 \in Slots, NEW m \in BmmToOmMsgs, AnswerStep(i0, m)
  PROVE  Routes'
<1> USE DEF AnswerStep
<1>1. CInv /\ om2bmm \in Seq(OmToBmmMsgs) /\ bmm2om \in Seq(BmmToOmMsgs)
  BY LinkTypes DEF RInv
<1>2. /\ 1 \in Requested(i0) /\ om2bmm[1] = Head(om2bmm)
      /\ \A N : Behind(om2bmm, ReqsFor(i0), N) => Where(om2bmm, N) = {} /\ Where(om2bmm', N) = {}
  BY <1>1, ReadBehind DEF Requested
<1>3. Confirmed(i0) = {} /\ Head(om2bmm).id = instances[i0].id /\ Head(om2bmm).type \in Types
  <2>1. Head(om2bmm) \in OmToBmmMsgs /\ Head(om2bmm).op = "OFFLOAD_REQ"
    BY DEF ReqsFor
  <2>2. Head(om2bmm).type \in Types
    BY <2>1, MessageFields
  <2>3. QED BY <1>1, <1>2, <2>2, LinkTypes DEF Instance
<1>4. \A i \in Slots : SameConn(i)
  BY DEF SameConn, Waiting, Live
<1>5. \A i \in Slots : i # i0 => m \notin CfmsFor(i)
  BY DEF CfmsFor
<1>6. /\ \A i \in Slots : Fewer(om2bmm, om2bmm', OmToBmmMsgs, ReqsFor(i))
      /\ \A i \in Slots \ {i0} : Fewer(bmm2om, bmm2om', BmmToOmMsgs, CfmsFor(i))
  BY <1>5 DEF Fewer
<1>7. m.connId \in IdsOf(instances[i0].id) \cup {InvalidConnId}
  BY <1>3 DEF IdsOf
<1>8. \A i \in Slots : Own(i)'
  <2>1. Own(i0)'
    <3>1. /\ Where(bmm2om', CfmsFor(i0)) = Where(bmm2om, CfmsFor(i0)) \cup {Len(bmm2om) + 1}
          /\ bmm2om'[Len(bmm2om) + 1] = m
      BY <1>1, WhereAppended
    <3>2. \A k \in Where(bmm2om', CfmsFor(i0)) : bmm2om'[k] = m
      BY <1>3, <3>1 DEF Confirmed
    <3>3. \A k \in Confirmed(i0)' : bmm2om'[k].connId \in IdsOf(instances[i0].id) \cup {InvalidConnId}
      BY <1>7, <3>2 DEF Confirmed, CfmsFor
    <3>4. Settled(i0)' => instances[i0].pseudo_id \in IdsOf(instances[i0].id)
      BY DEF RInv, Own, Settled, Live, Waiting
    <3>5. PICK s : s = instances[i0].id
      OBVIOUS
    <3>6. QED BY <3>3, <3>4, <3>5, OwnNext
  <2>2. ASSUME NEW i \in Slots \ {i0}
        PROVE  Own(i)'
    BY <1>1, <1>4, <1>6, OwnKept DEF RInv
  <2>3. QED BY <2>1, <2>2
<1>9. ASSUME NEW i \in Live', NEW j \in Slots, j < i
      PROVE  Clear(j, i)' \/ Ahead(j, i)'
  <2>1. i \in Slots /\ i \in Live /\ j # i
    BY <1>9, SizesAssumption DEF Live, Slots
  <2>2. CASE Clear(j, i)
    BY <2>2 DEF Clear, IdsOf
  <2>3. CASE Ahead(j, i)
    <3>1. Behind(om2bmm', ReqsFor(i), ReqsFor(j))
      BY <1>1, <2>3, BehindTailed DEF Ahead
    <3>2. CASE j = i0
      <4>1. Confirmed(i) = {}
        BY <1>2, <2>3, <3>2 DEF Ahead
      <4>2. Confirmed(i)' = {}
        <5>1. Where(bmm2om', CfmsFor(i)) = {}
          BY <1>1, <1>5, <2>1, <3>2, <4>1, WhereAppended DEF Confirmed
        <5>2. QED BY <5>1 DEF Confirmed, CfmsFor
      <4>3. Behind(bmm2om', CfmsFor(i), CfmsFor(j))
        BY <4>2 DEF Behind, Confirmed, CfmsFor
      <4>4. Ahead(j, i)'
        BY <2>3, <3>1, <4>2, <4>3 DEF Ahead, Waiting, ReqsFor, CfmsFor
      <4>5. QED BY <4>4
    <3>3. CASE j # i0
      <4>1. Behind(bmm2om', CfmsFor(i), CfmsFor(j))
        BY <1>1, <1>5, <2>3, <3>3, BehindAppended DEF Ahead
      <4>2. Confirmed(i)' # {} => Requested(j)' = {}
        <5>1. CASE i = i0
          <6>1. Where(om2bmm', ReqsFor(j)) = {}
            BY <1>2, <2>3, <5>1 DEF Ahead
          <6>2. QED BY <6>1 DEF Requested, ReqsFor
        <5>2. CASE i # i0
          <6>1. /\ Where(om2bmm, ReqsFor(j)) = {} => Where(om2bmm', ReqsFor(j)) = {}
                /\ Where(bmm2om, CfmsFor(i)) = {} => Where(bmm2om', CfmsFor(i)) = {}
            BY <1>1, <1>6, <2>1, <5>2, FewerWhere
          <6>2. QED BY <2>3, <6>1 DEF Ahead, Requested, ReqsFor, Confirmed, CfmsFor
        <5>3. QED BY <5>1, <5>2
      <4>3. Ahead(j, i)'
        BY <2>3, <3>1, <4>1, <4>2 DEF Ahead, Waiting, ReqsFor, CfmsFor
      <4>4. QED BY <4>3
    <3>4. QED BY <3>2, <3>3
  <2>4. QED BY <1>9, <2>1, <2>2, <2>3 DEF RInv, NoStale
<1>10. QED BY <1>8, <1>9 DEF Routes, NoStale

(* Where none is let in, and none is there, no session acts. *)
LEMMA NoSessions ==
  ASSUME MaxGattSessions = 0, \A i \in Slots : instances[i].state # "Gatt"
  PROVE  ~GattSessions
<1> DEFINE held == {i \in Slots : instances[i].state = "Gatt"}
<1>1. held = {}
  OBVIOUS
<1>2. Cardinality(held) = 0
  <2> HIDE DEF held
  <2>1. QED BY <1>1, FS_EmptySet
<1>3. ~gatt_offload
  <2>1. gatt_offload => Cardinality(held) < 0
    BY DEF gatt_offload
  <2> HIDE DEF held
  <2>2. QED BY <1>2, <2>1
<1>4. QED BY <1>3 DEF GattSessions, gatt_clear_offload_data

(* Without GATT sessions no instance is held by one. *)
LEMMA NoGattKept ==
  ASSUME RInv, OmConnStep \/ BmmConnStep
  PROVE  NoGatt'
<1> SUFFICES ASSUME MaxGattSessions = 0, NEW i \in Slots
             PROVE  instances'[i].state # "Gatt"
  BY DEF NoGatt
<1>1. \A j \in Slots : instances[j].state # "Gatt"
  BY DEF RInv, NoGatt
<1>2. ~GattStep
  <2>1. ~GattSessions
    BY <1>1, NoSessions
  <2>2. QED BY <2>1 DEF GattStep
<1>3. CASE QuietStep
  BY <1>1, <1>3 DEF QuietStep, SameInstance
<1>4. ASSUME NEW j \in Slots, OrderStep(j)
      PROVE  instances'[i].state # "Gatt"
  BY <1>1, <1>4 DEF OrderStep
<1>5. ASSUME NEW j \in Slots, NEW s \in Sockets, NEW m \in OmToBmmMsgs, OpenStep(j, s, m)
      PROVE  instances'[i].state # "Gatt"
  BY <1>1, <1>5 DEF OpenStep
<1>6. ASSUME NEW j \in Slots, NEW c \in ConnIds \cup {InvalidConnId}, CfmStep(j, c) \/ DoneStep(j, c)
      PROVE  instances'[i].state # "Gatt"
  BY <1>1, <1>6 DEF CfmStep, DoneStep
<1>7. CASE BmmConnStep
  BY <1>1, <1>7 DEF BmmConnStep, RefuseStep, GrantStep, CloseStep, CreditStep
<1>8. QED BY <1>2, <1>3, <1>4, <1>5, <1>6, <1>7 DEF OmConnStep

(* A GATT session touches no instance of a socket; with one instance there is   *)
(* none in front.                                                          *)
LEMMA GattRoutes ==
  ASSUME RInv, SocketsAlone, GattStep
  PROVE  Routes'
<1>1. CInv /\ UNCHANGED <<om2bmm, bmm2om>> /\ \A i \in Slots : Still(i)
  BY DEF RInv, GattStep
<1>2. NumInstances = 1
  <2>1. MaxGattSessions # 0
    <3>1. ASSUME MaxGattSessions = 0
          PROVE  FALSE
      <4>1. ~GattSessions
        BY <3>1, NoSessions DEF RInv, NoGatt
      <4>2. QED BY <4>1 DEF GattStep
    <3>2. QED BY <3>1
  <2>2. QED BY <2>1 DEF SocketsAlone
<1>3. ASSUME NEW i \in Slots
      PROVE  Own(i)'
  <2>1. CASE SameInstance(i)
    <3>1. SameConn(i) /\ Fewer(bmm2om, bmm2om', BmmToOmMsgs, CfmsFor(i))
      BY <1>1, <2>1 DEF SameInstance, SameConn, Waiting, Live, Fewer
    <3>2. QED BY <1>1, <3>1, OwnKept, LinkTypes DEF RInv
  <2>2. CASE i \notin Live /\ instances'[i].state \in {"Idle", "Gatt"}
    <3>1. ~Waiting(i)
      BY <2>2 DEF Live, Waiting
    <3>2. Confirmed(i) = {}
      BY <1>1, <3>1, LinkTypes DEF Instance
    <3>3. Confirmed(i)' = {} /\ ~Settled(i)'
      BY <1>1, <2>2, <3>2 DEF Confirmed, CfmsFor, Settled, Live
    <3>4. QED BY <3>3 DEF Own
  <2>3. QED BY <1>1, <2>1, <2>2 DEF Still
<1>4. \A i \in Live', j \in Slots : ~(j < i)
  BY <1>2 DEF Live, Slots
<1>5. QED BY <1>3, <1>4 DEF Routes, NoStale

(* Every step keeps the instances of different sockets apart. *)
LEMMA RoutesNext ==
  ASSUME DistinctLow, SocketsAlone, RInv, [Next]_vars
  PROVE  RInv'
<1>1. CInv /\ CInv' /\ (OmConnStep \/ BmmConnStep)
  BY LinksNext, ConnSteps DEF RInv
<1>2. NoGatt'
  BY <1>1, NoGattKept
<1>3. ASSUME QuietStep
      PROVE  Routes'
  <2>1. \A i \in Slots : SameConn(i)
    BY <1>3 DEF QuietStep, SameInstance, SameConn, Waiting, Live
  <2>2. /\ \A i \in Slots : Fewer(om2bmm, om2bmm', OmToBmmMsgs, ReqsFor(i))
        /\ \A i \in Slots : Fewer(bmm2om, bmm2om', BmmToOmMsgs, CfmsFor(i))
    BY <1>3 DEF QuietStep, Fewer
  <2>3. QED BY <2>1, <2>2, RoutesKept
<1>4. ASSUME NEW j \in Slots, OrderStep(j)
      PROVE  Routes'
  <2>1. \A i \in Slots : SameConn(i)
    <3>1. ~Waiting(j) /\ ~Waiting(j)' /\ j \in Live
      BY <1>4 DEF OrderStep, Waiting, Live, Connected
    <3>2. SameConn(j)
      BY <1>4, <3>1 DEF OrderStep, SameConn
    <3>3. \A i \in Slots \ {j} : SameConn(i)
      BY <1>4 DEF OrderStep, SameConn, Waiting, Live
    <3>4. QED BY <3>2, <3>3
  <2>2. om2bmm' = Append(om2bmm, CloseReq(j)) \/ om2bmm' = Append(om2bmm, SetParams(j))
    BY <1>4 DEF OrderStep
  <2>3. instances[j].pseudo_id \in ConnIds \cup {InvalidConnId}
    BY <1>1, LinkTypes
  <2>4. /\ CloseReq(j) \in OmToBmmMsgs /\ SetParams(j) \in OmToBmmMsgs
        /\ \A i \in Slots : CloseReq(j) \notin ReqsFor(i) /\ SetParams(j) \notin ReqsFor(i)
    BY <2>3 DEF CloseReq, SetParams, OmToBmmMsgs, ReqsFor
  <2>5. /\ \A i \in Slots : Fewer(om2bmm, om2bmm', OmToBmmMsgs, ReqsFor(i))
        /\ \A i \in Slots : Fewer(bmm2om, bmm2om', BmmToOmMsgs, CfmsFor(i))
    BY <1>4, <2>2, <2>4 DEF OrderStep, Fewer
  <2>6. QED BY <2>1, <2>5, RoutesKept
<1>5. ASSUME NEW j \in Slots, NEW c \in ConnIds \cup {InvalidConnId}, DoneStep(j, c)
      PROVE  Routes'
  <2>1. \A i \in Slots : SameConn(i)
    BY <1>5 DEF DoneStep, SameConn, Waiting, Live
  <2>2. /\ \A i \in Slots : Fewer(om2bmm, om2bmm', OmToBmmMsgs, ReqsFor(i))
        /\ \A i \in Slots : Fewer(bmm2om, bmm2om', BmmToOmMsgs, CfmsFor(i))
    BY <1>5 DEF DoneStep, Fewer
  <2>3. QED BY <2>1, <2>2, RoutesKept
<1>6. ASSUME NEW i \in Slots, NEW m \in BmmToOmMsgs,
             RefuseStep(i, m) \/ \E x \in Indices, c \in ConnIds : GrantStep(i, x, c, m)
      PROVE  Routes'
  <2>1. AnswerStep(i, m)
    BY <1>6 DEF RefuseStep, GrantStep, AnswerStep, Grant
  <2>2. QED BY <2>1, AnswerRoutes
<1>7. ASSUME NEW x \in Indices, NEW c \in ConnIds \cup {InvalidConnId}, NEW m \in BmmToOmMsgs,
             CloseStep(x, c, m)
      PROVE  Routes'
  <2>1. \A i \in Slots : SameConn(i)
    BY <1>7 DEF CloseStep, SameConn, Waiting, Live
  <2>2. /\ \A i \in Slots : Fewer(om2bmm, om2bmm', OmToBmmMsgs, ReqsFor(i))
        /\ \A i \in Slots : Fewer(bmm2om, bmm2om', BmmToOmMsgs, CfmsFor(i))
    BY <1>7 DEF CloseStep, Fewer, CloseDone, CfmsFor
  <2>3. QED BY <2>1, <2>2, RoutesKept
<1>8. ASSUME NEW c \in ConnIds \cup {InvalidConnId}, CreditStep(c)
      PROVE  Routes'
  <2>1. \A i \in Slots : SameConn(i)
    BY <1>8 DEF CreditStep, SameConn, Waiting, Live
  <2>2. /\ \A i \in Slots : Fewer(om2bmm, om2bmm', OmToBmmMsgs, ReqsFor(i))
        /\ \A i \in Slots : Fewer(bmm2om, bmm2om', BmmToOmMsgs, CfmsFor(i))
    BY <1>8 DEF CreditStep, Fewer
  <2>3. QED BY <2>1, <2>2, RoutesKept
<1>9. Routes'
  <2>1. GattStep => Routes'
    BY GattRoutes
  <2>2. ASSUME NEW j \in Slots, NEW s \in Sockets, NEW m \in OmToBmmMsgs, OpenStep(j, s, m)
        PROVE  Routes'
    BY <2>2, OpenRoutes
  <2>3. ASSUME NEW j \in Slots, NEW c \in ConnIds \cup {InvalidConnId}, CfmStep(j, c)
        PROVE  Routes'
    BY <2>3, CfmRoutes
  <2>4. OmConnStep => Routes'
    BY <1>3, <1>4, <1>5, <2>1, <2>2, <2>3 DEF OmConnStep
  <2>5. BmmConnStep => Routes'
    BY <1>6, <1>7, <1>8 DEF BmmConnStep
  <2>6. QED BY <1>1, <2>4, <2>5
<1>10. QED BY <1>1, <1>2, <1>9 DEF RInv, Routes

(* The invariant holds at the start. *)
LEMMA RoutesStart == Init => RInv
<1> SUFFICES ASSUME Init
             PROVE  RInv
  OBVIOUS
<1>1. CInv
  BY LinksStart
<1>2. bmm2om = <<>> /\ \A i \in Slots : instances[i].state = "Idle"
  BY DEF Init, ChannelsInit, InstancesInit
<1>3. Live = {} /\ \A i \in Slots : Confirmed(i) = {}
  BY <1>2 DEF Live, Confirmed, Where
<1>4. QED BY <1>1, <1>2, <1>3 DEF RInv, NoGatt, Own, Settled, NoStale

(* A connection id leads to one instance only, that of its socket, in every    *)
(* behaviour without GATT sessions (or with one instance), if no two socket ids *)
(* share their low half.  Each of the two hypotheses is needed: without them  *)
(* the code does hand a confirmation to the wrong instance.                *)
THEOREM RoutesAlways ==
  ASSUME DistinctLow, SocketsAlone
  PROVE  Spec => []RInv
<1>1. Init => RInv
  BY RoutesStart
<1>2. RInv /\ [Next]_vars => RInv'
  BY RoutesNext
<1>3. QED BY <1>1, <1>2, PTL DEF Spec

(* An instance that has been answered is found by its connection id. *)
LEMMA FoundByConnId ==
  ASSUME RInv, DistinctLow, NEW i \in Slots, Settled(i)
  PROVE  find_by_pseudo_id(instances[i].pseudo_id) = i
<1> DEFINE found == {j \in Slots : instances[j].pseudo_id = instances[i].pseudo_id}
<1>1. /\ found \in SUBSET Slots /\ i \in found
      /\ find_by_pseudo_id(instances[i].pseudo_id) = First(found)
  BY DEF find_by_pseudo_id
<1>2. \A j \in found : ~(j < i)
  <2>1. ASSUME NEW j \in found, j < i
        PROVE  FALSE
    <3>1. Clear(j, i)
      BY <2>1 DEF RInv, NoStale, Settled, Ahead
    <3>2. QED BY <2>1, <3>1 DEF Clear, RInv, Own
  <2>2. QED BY <2>1
<1>3. First(found) \in found /\ First(found) <= i
  <2> HIDE DEF found
  <2>1. QED BY <1>1, FirstIsLeast
<1>4. First(found) \in Slots /\ First(found) \in Nat /\ i \in Nat
  BY <1>3, SizesAssumption DEF Slots
<1>5. First(found) = i
  BY <1>2, <1>3, <1>4
<1>6. QED BY <1>1, <1>5

(* The connection ids lead from the microstack's table to the live instances. *)
LEMMA RoutesFound ==
  ASSUME RInv, DistinctLow
  PROVE  ConnIdRouting
<1> SUFFICES ASSUME NEW x \in Indices, socket[x].inUse,
                    ~\E m \in InFlight(bmm2om) : m.op = "OFFLOAD_CFM" /\ m.connId = socket[x].connId
             PROVE  /\ find_by_pseudo_id(socket[x].connId) \in Live
                    /\ instances[find_by_pseudo_id(socket[x].connId)].id = socket[x].socketId
  BY DEF ConnIdRouting
<1>1. PICK i \in Serving(socket[x].socketId) :
        \/ Arriving(i, socket[x].connId) \/ Used(i, socket[x].connId)
        \/ Leaving(i, socket[x].connId)
  BY LinkTypes DEF Conn, RInv
<1>2. i \in Live /\ i \in Slots /\ instances[i].id = socket[x].socketId
  BY DEF Serving, Live
<1>3. ~Arriving(i, socket[x].connId)
  <2>1. ASSUME NEW k \in Where(bmm2om, Grant(i, socket[x].connId))
        PROVE  FALSE
    <3>1. bmm2om[k] \in InFlight(bmm2om) /\ bmm2om[k] \in Grant(i, socket[x].connId)
      BY DEF Where, InFlight
    <3>2. QED BY <3>1 DEF Grant, CfmsFor
  <2>2. QED BY <2>1 DEF Arriving
<1>4. Settled(i) /\ instances[i].pseudo_id = socket[x].connId
  BY <1>1, <1>2, <1>3 DEF Used, Leaving, Settled, Waiting, Connected
<1>5. find_by_pseudo_id(socket[x].connId) = i
  BY <1>2, <1>4, FoundByConnId
<1>6. QED BY <1>2, <1>5

(* Looking up the id of a connection that the offload manager has been told of *)
(* finds the live instance of its socket.                                  *)
THEOREM ConnIdRoutingAlways ==
  ASSUME DistinctLow, SocketsAlone
  PROVE  Spec => []ConnIdRouting
<1>1. Spec => []RInv
  BY RoutesAlways
<1>2. RInv => ConnIdRouting
  BY RoutesFound
<1>3. QED BY <1>1, <1>2, PTL

(* All the tables of the four parties agree. *)
THEOREM TablesAgreeAlways ==
  ASSUME DistinctLow, SocketsAlone
  PROVE  Spec => []TablesAgree
<1>1. Spec => []ConnIdRouting
  BY ConnIdRoutingAlways
<1>2. (OneOwner /\ SocketIdRouting /\ ConnIdRouting /\ NoMicrostackLeak /\ NoMicroappLeak
         /\ OpenedEndToEnd) => TablesAgree
  BY DEF TablesAgree
<1>3. QED BY <1>1, <1>2, OneOwnerAlways, SocketIdsRouted, NoMicrostackLeakAlways,
             NoMicroappLeakAlways, OpenedEndToEndAlways, PTL

(* The confirmation of a close is read by one handler only. *)
LEMMA CloseCfmRead ==
  ASSUME CInv, [Next]_vars, Next1(bmm2om, "CLOSE_CFM"), bmm2om' = Tail(bmm2om)
  PROVE  microstack_unoffload_cfm
<1>1. /\ bmm2om' # bmm2om /\ \A m : bmm2om' # Append(bmm2om, m)
      /\ bmm2om # <<>> /\ Head(bmm2om).op = "CLOSE_CFM"
  <2>1. bmm2om \in Seq(BmmToOmMsgs) /\ bmm2om # <<>>
    BY LinkTypes DEF Next1
  <2>2. Len(bmm2om) \in Nat /\ Len(Tail(bmm2om)) = Len(bmm2om) - 1
    BY <2>1
  <2>3. \A m : Len(Append(bmm2om, m)) = Len(bmm2om) + 1
    BY <2>1
  <2>4. ASSUME NEW m, bmm2om' = Append(bmm2om, m)
        PROVE  FALSE
    BY <2>2, <2>3, <2>4
  <2>5. bmm2om' # bmm2om
    BY <2>2
  <2>6. QED BY <2>4, <2>5 DEF Next1
<1>2. CASE HalStep(StackCall) \/ HalStep(ClosedCommit) \/ HalStep(RxThread)
  BY <1>1, <1>2 DEF HalStep
<1>3. CASE OmStep(FromHal) \/ OmStep(FromMicroapps) \/ OmStep(GattSessions)
  BY <1>1, <1>3 DEF OmStep, FromHal, FromMicroapps, GattSessions, handle_open_socket,
                    handle_close_socket, uapp_open_socket_res, uapp_socket_close_ind,
                    gatt_offload, gatt_clear_offload_data, channels
<1>4. CASE OmStep(FromMicrostack)
  BY <1>1, <1>4 DEF OmStep, FromMicrostack, microstack_offload_cfm, Next1
<1>5. CASE BmmStep(Microstack)
  <2>1. ASSUME BmmSocketSetParamsReqHandler
        PROVE  FALSE
    <3>1. bmm2om' = bmm2om
      BY <2>1 DEF BmmSocketSetParamsReqHandler
    <3>2. QED BY <1>1, <3>1
  <2>2. ASSUME BmmSocketCloseReqHandler
        PROVE  FALSE
    <3>1. PICK m : bmm2om' = Append(bmm2om, m)
      BY <2>2 DEF BmmSocketCloseReqHandler
    <3>2. QED BY <1>1, <3>1
  <2>3. ASSUME NEW paramsOk \in BOOLEAN, NEW filterOk \in BOOLEAN,
               BmmSocketOffloadReqHandler(paramsOk, filterOk)
        PROVE  FALSE
    <3>1. PICK m : bmm2om' = Append(bmm2om, m)
      BY <2>3 DEF BmmSocketOffloadReqHandler
    <3>2. QED BY <1>1, <3>1
  <2>4. QED BY <1>5, <2>1, <2>2, <2>3 DEF BmmStep, Microstack
<1>6. CASE AwmStep(AppManager)
  <2>1. UNCHANGED bmm2om
    BY <1>6 DEF AwmStep, AppManager, open_socket_req, close_socket_cmd
  <2>2. QED BY <1>1, <2>1
<1>7. CASE AwmStep(\E t \in Types, s \in Sockets : close_socket_qapi(t, s))
  <2>1. UNCHANGED bmm2om
    BY <1>7 DEF AwmStep, close_socket_qapi
  <2>2. QED BY <1>1, <2>1
<1>8. CASE UNCHANGED vars
  <2>1. UNCHANGED bmm2om
    BY <1>8 DEF vars, channels
  <2>2. QED BY <1>1, <2>1
<1>9. QED BY <1>2, <1>3, <1>4, <1>5, <1>6, <1>7, <1>8 DEF Next

(* The confirmation of a close takes the instance that waits for it to Idle, as  *)
(* the table at the head of offload_mgr_sm.c says, as long as the ids differ   *)
(* and GATT sessions keep away; the run close_cfm_lost is without the latter. *)
THEOREM CloseCfmAlways ==
  ASSUME DistinctLow, SocketsAlone
  PROVE  Spec => CloseCfmCompletes
<1>1. Spec => []RInv
  BY RoutesAlways
<1>2. ASSUME RInv, [Next]_vars, NEW i \in Slots,
             Next1(bmm2om, "CLOSE_CFM"), bmm2om' = Tail(bmm2om), Head(bmm2om).result = "SUCCESS",
             instances[i].state = "UnOffloadReqToMicrostack",
             instances[i].pseudo_id = Head(bmm2om).connId
      PROVE  instances'[i].state = "Idle"
  <2>1. CInv /\ InstancesTypeOK /\ Rests
    BY <1>2, LinkTypes DEF RInv
  <2>2. microstack_unoffload_cfm
    BY <1>2, <2>1, CloseCfmRead
  <2>3. Settled(i)
    BY <1>2 DEF Settled, Live, Waiting
  <2>4. find_by_pseudo_id(Head(bmm2om).connId) = i /\ i # 0
    <3>1. find_by_pseudo_id(instances[i].pseudo_id) = i
      BY <1>2, <2>3, FoundByConnId
    <3>2. QED BY <1>2, <3>1, SizesAssumption DEF Slots
  <2>5. PICK c \in ConnIds \cup {InvalidConnId} : c = instances[i].pseudo_id
    BY <2>1, LinkTypes
  <2>6. ProcessEvent(i, "UNOFFLOAD_FROM_MICROSTACK_SUCCESS", c)
    BY <1>2, <2>2, <2>4, <2>5 DEF microstack_unoffload_cfm
  <2>7. IF <<instances[i].state, "UNOFFLOAD_FROM_MICROSTACK_SUCCESS">> \in Expected
        THEN Moves(i, "UNOFFLOAD_FROM_MICROSTACK_SUCCESS") ELSE Ignores(i)
    BY <2>1, <2>6, EventMoves DEF Events
  <2>8. Moves(i, "UNOFFLOAD_FROM_MICROSTACK_SUCCESS")
    BY <1>2, <2>7 DEF Expected
  <2>9. QED BY <1>2, <2>8 DEF Moves, GivesUp, Finishes, Passes
<1>3. RInv /\ [Next]_vars
        => [\A i \in Slots :
              /\ Next1(bmm2om, "CLOSE_CFM") /\ bmm2om' = Tail(bmm2om)
              /\ Head(bmm2om).result = "SUCCESS"
              /\ instances[i].state = "UnOffloadReqToMicrostack"
              /\ instances[i].pseudo_id = Head(bmm2om).connId
              => instances'[i].state = "Idle"]_vars
  BY <1>2
<1>4. QED BY <1>1, <1>3, PTL DEF Spec, CloseCfmCompletes

-----------------------------------------------------------------------------
(* No message and no live instance names an endpoint that nobody registered.  *)
KnownEndpoints == \A c \in Contexts : c.ep # "unknownEp"

LostOpens == {m \in HalToOmMsgs : m.op = "OPEN_SOCKET" /\ m.ep = "unknownEp"}
LostReqs  == {m \in OmToAwmMsgs : m.op = "OPEN_REQ" /\ m.ep = "unknownEp"}
LostRes   == {m \in AwmToOmMsgs : m.op = "OPEN_RES" /\ m.id = UnknownId}

Known ==
  /\ Where(hal2om, LostOpens) = {} /\ Where(om2awm, LostReqs) = {}
  /\ Where(awm2om, LostRes) = {}
  /\ \A i \in Live : instances[i].ep # "unknownEp"

KInv == AInv /\ Known

(* What the next message of each queue is. *)
LEMMA NextKnown ==
  ASSUME KInv
  PROVE  /\ hal2om # <<>> => Head(hal2om) \in HalToOmMsgs \ LostOpens
         /\ om2awm # <<>> => Head(om2awm) \in OmToAwmMsgs \ LostReqs
         /\ awm2om # <<>> => Head(awm2om) \in AwmToOmMsgs \ LostRes
<1>1. /\ hal2om \in Seq(HalToOmMsgs) /\ om2awm \in Seq(OmToAwmMsgs) /\ awm2om \in Seq(AwmToOmMsgs)
      /\ InstancesTypeOK
  BY DEF KInv, AInv, PInv, IInv, TypeOK, ChannelsTypeOK
<1>2. /\ hal2om # <<>> => Head(hal2om) \in HalToOmMsgs
      /\ om2awm # <<>> => Head(om2awm) \in OmToAwmMsgs
      /\ awm2om # <<>> => Head(awm2om) \in AwmToOmMsgs
  BY <1>1
<1>3. hal2om # <<>> => Head(hal2om) \notin LostOpens
  BY <1>1, WhereTail DEF KInv, Known
<1>4. om2awm # <<>> => Head(om2awm) \notin LostReqs
  BY <1>1, WhereTail DEF KInv, Known
<1>5. awm2om # <<>> => Head(awm2om) \notin LostRes
  BY <1>1, WhereTail DEF KInv, Known
<1>6. QED BY <1>2, <1>3, <1>4, <1>5

(* A queue in which nothing lost is sent has nothing lost. *)
LEMMA KnownKept ==
  ASSUME KInv,
         Fewer(hal2om, hal2om', HalToOmMsgs, LostOpens),
         Fewer(om2awm, om2awm', OmToAwmMsgs, LostReqs),
         Fewer(awm2om, awm2om', AwmToOmMsgs, LostRes),
         \A i \in Live' : instances'[i].ep # "unknownEp"
  PROVE  Known'
<1>1. hal2om \in Seq(HalToOmMsgs) /\ om2awm \in Seq(OmToAwmMsgs) /\ awm2om \in Seq(AwmToOmMsgs)
  BY DEF KInv, AInv, PInv, IInv, TypeOK, ChannelsTypeOK
<1>2. Where(hal2om', LostOpens) = {}
  BY <1>1, FewerWhere DEF KInv, Known
<1>3. Where(om2awm', LostReqs) = {}
  BY <1>1, FewerWhere DEF KInv, Known
<1>4. Where(awm2om', LostRes) = {}
  BY <1>1, FewerWhere DEF KInv, Known
<1>5. QED BY <1>2, <1>3, <1>4 DEF Known, LostOpens, LostReqs, LostRes

(* An event tells the microapp only of its instance. *)
LEMMA EventKnown ==
  ASSUME KInv, NEW i \in Slots, NEW evt \in Events, NEW c \in ConnIds \cup {InvalidConnId},
         ProcessEvent(i, evt, c)
  PROVE  /\ Fewer(om2awm, om2awm', OmToAwmMsgs, LostReqs)
         /\ \A j \in Live' : instances'[j].ep # "unknownEp"
<1>1. InstancesTypeOK /\ Rests /\ LiveIds /\ \A j \in Live : instances[j].ep # "unknownEp"
  BY DEF KInv, AInv, PInv, IInv, TypeOK, Known
<1>2. /\ \A j \in Slots \ {i} : instances'[j] = instances[j]
      /\ \A j \in Slots : instances'[j].ep = instances[j].ep
      /\ IF <<instances[i].state, evt>> \in Expected THEN Moves(i, evt) ELSE Ignores(i)
  BY <1>1, EventMoves
<1>3. CASE <<instances[i].state, evt>> \notin Expected
  <2>1. om2awm' = om2awm /\ Live' = Live
    BY <1>2, <1>3 DEF Ignores, Silent, Live
  <2>2. QED BY <1>1, <1>2, <2>1 DEF Fewer, Live
<1>4. CASE <<instances[i].state, evt>> \in Expected
  <2>1. Moves(i, evt) /\ i \in Live
    BY <1>2, <1>4, ExpectedIsLive DEF Live, Early
  <2>2. \A j \in Live' : j \in Live /\ j \in Slots
    BY <1>2, <2>1 DEF Live
  <2>3. \A j \in Live' : instances'[j].ep # "unknownEp"
    BY <1>1, <1>2, <2>2
  <2>4. instances[i].id \in Sockets /\ instances[i].ep # "unknownEp"
    BY <1>1, <2>1, LiveIsLiveStates DEF LiveIds, Live
  <2>5. /\ AppOpen(i) \in OmToAwmMsgs /\ AppClose(i) \in OmToAwmMsgs
        /\ AppOpen(i).ep = instances[i].ep /\ AppClose(i).op = "CLOSE_CMD"
    <3>1. AppOpen(i) \in OmToAwmMsgs
      BY <1>1, <2>4, CommandTypes
    <3>2. AppClose(i) \in AppClosesAt(instances[i].id, EndpointType(instances[i].ep))
      BY <1>1, <2>4, CommandTypes
    <3>3. QED BY <3>1, <3>2 DEF AppOpen, AppClose, AppClosesAt, AppCloses
  <2>6. AppOpen(i) \notin LostReqs /\ AppClose(i) \notin LostReqs
    BY <2>4, <2>5 DEF LostReqs
  <2>7. \/ om2awm' = om2awm \/ om2awm' = Append(om2awm, AppOpen(i))
        \/ om2awm' = Append(om2awm, AppClose(i))
    BY <2>1 DEF Moves, AsksMicroapp, Refuses, Reports, TakesBack, Unoffloads, UnoffloadsEarly,
                GivesUp, Finishes
  <2>8. QED BY <2>3, <2>5, <2>6, <2>7 DEF Fewer
<1>5. QED BY <1>3, <1>4

(* The HAL passes on the endpoints of the stack. *)
LEMMA HalKnown ==
  ASSUME KnownEndpoints, KInv,
         HalStep(StackCall) \/ HalStep(ClosedCommit) \/ HalStep(RxThread)
  PROVE  Known'
<1>1. UNCHANGED <<om2awm, awm2om, instances>>
  BY DEF HalStep
<1>2. HalTypeOK
  BY DEF KInv, AInv, PInv, IInv, TypeOK
<1>3. Fewer(hal2om, hal2om', HalToOmMsgs, LostOpens)
  <2>1. ASSUME NEW s \in Sockets, hal2om' = Append(hal2om, [op |-> "CLOSE_SOCKET", id |-> s])
        PROVE  Fewer(hal2om, hal2om', HalToOmMsgs, LostOpens)
    <3>1. PICK m \in HalToOmMsgs : m = [op |-> "CLOSE_SOCKET", id |-> s]
      BY DEF HalToOmMsgs
    <3>2. m \notin LostOpens
      BY <3>1 DEF LostOpens
    <3>3. QED BY <2>1, <3>1, <3>2 DEF Fewer
  <2>2. ASSUME NEW s \in Sockets, NEW c \in Contexts, Opened(s, c)
        PROVE  Fewer(hal2om, hal2om', HalToOmMsgs, LostOpens)
    <3>1. c.type \in Types /\ c.ep \in Endpoints /\ c.ep # "unknownEp"
      BY ContextsAssumption DEF KnownEndpoints
    <3>2. PICK m \in HalToOmMsgs : m = [op |-> "OPEN_SOCKET", id |-> s, type |-> c.type, ep |-> c.ep]
      BY <3>1 DEF HalToOmMsgs
    <3>3. m \notin LostOpens
      BY <3>1, <3>2 DEF LostOpens
    <3>4. QED BY <2>2, <3>2, <3>3 DEF Opened, Fewer
  <2>3. CASE HalStep(StackCall)
    BY <2>2, <2>3 DEF HalStep, StackCall, ClosedCheck, Fewer
  <2>4. CASE HalStep(ClosedCommit)
    BY <1>2, <2>1, <2>4 DEF HalStep, ClosedCommit, CloseSocket, HalTypeOK
  <2>5. CASE HalStep(RxThread)
    <3>1. hal2om' = hal2om \/ RxClosedCommit
      BY <2>5 DEF HalStep, RxThread, RxOpenCb, RxCloseCb, RxCloseInd, removeEntry
    <3>2. QED BY <1>2, <2>1, <3>1 DEF RxClosedCommit, CloseSocket, HalTypeOK, Fewer
  <2>6. QED BY <2>3, <2>4, <2>5
<1>4. Fewer(om2awm, om2awm', OmToAwmMsgs, LostReqs) /\ Fewer(awm2om, awm2om', AwmToOmMsgs, LostRes)
  BY <1>1 DEF Fewer
<1>5. \A i \in Live' : instances'[i].ep # "unknownEp"
  BY <1>1 DEF KInv, Known, Live
<1>6. QED BY <1>3, <1>4, <1>5, KnownKept

(* The offload manager takes the endpoint of a request into an instance. *)
LEMMA OmKnown ==
  ASSUME KInv,
         OmStep(FromHal) \/ OmStep(FromMicrostack) \/ OmStep(FromMicroapps) \/ OmStep(GattSessions)
  PROVE  Known'
<1>1. /\ FromHal \/ FromMicrostack \/ FromMicroapps \/ GattSessions
      /\ InstancesTypeOK /\ hal2om \in Seq(HalToOmMsgs) /\ bmm2om \in Seq(BmmToOmMsgs)
      /\ awm2om \in Seq(AwmToOmMsgs) /\ \A j \in Live : instances[j].ep # "unknownEp"
  BY DEF OmStep, KInv, AInv, PInv, IInv, TypeOK, ChannelsTypeOK, Known
<1>2. \A i \in Slots : instances[i].pseudo_id \in ConnIds \cup {InvalidConnId}
  BY <1>1 DEF InstancesTypeOK
<1>3. Fewer(hal2om, hal2om', HalToOmMsgs, LostOpens) /\ Fewer(awm2om, awm2om', AwmToOmMsgs, LostRes)
  <2>1. hal2om' = hal2om \/ (hal2om # <<>> /\ hal2om' = Tail(hal2om))
    <3>1. CASE handle_open_socket \/ handle_close_socket
      BY <3>1 DEF handle_open_socket, handle_close_socket, Next1
    <3>2. CASE FromMicrostack \/ FromMicroapps
      BY <3>2 DEF FromMicrostack, FromMicroapps, microstack_offload_cfm, microstack_unoffload_cfm,
                  uapp_open_socket_res, uapp_socket_close_ind
    <3>3. CASE GattSessions
      BY <3>3 DEF GattSessions, gatt_offload, gatt_clear_offload_data, channels
    <3>4. QED BY <1>1, <3>1, <3>2, <3>3 DEF FromHal
  <2>2. awm2om' = awm2om \/ (awm2om # <<>> /\ awm2om' = Tail(awm2om))
    <3>1. CASE uapp_open_socket_res \/ uapp_socket_close_ind
      BY <3>1 DEF uapp_open_socket_res, uapp_socket_close_ind, Next1
    <3>2. CASE FromHal \/ FromMicrostack
      BY <3>2 DEF FromMicrostack, FromHal, microstack_offload_cfm, microstack_unoffload_cfm,
                  handle_open_socket, handle_close_socket
    <3>3. CASE GattSessions
      BY <3>3 DEF GattSessions, gatt_offload, gatt_clear_offload_data, channels
    <3>4. QED BY <1>1, <3>1, <3>2, <3>3 DEF FromMicroapps
  <2>3. QED BY <2>1, <2>2 DEF Fewer
<1>4. Fewer(awm2om, awm2om', AwmToOmMsgs, LostRes)
  BY <1>3
<1>5. ASSUME NEW i \in Slots, NEW evt \in Events, NEW c \in ConnIds \cup {InvalidConnId},
             ProcessEvent(i, evt, c)
      PROVE  Known'
  BY <1>3, <1>4, <1>5, EventKnown, KnownKept
<1>6. ASSUME UNCHANGED <<instances, om2awm>>
      PROVE  Known'
  <2>1. \A i \in Live' : instances'[i].ep # "unknownEp"
    BY <1>1, <1>6 DEF Live
  <2>2. Fewer(om2awm, om2awm', OmToAwmMsgs, LostReqs)
    BY <1>6 DEF Fewer
  <2>3. QED BY <1>3, <1>4, <2>1, <2>2, KnownKept
<1>7. ASSUME Drop
      PROVE  Known'
  BY <1>6, <1>7 DEF Drop
<1>8. CASE handle_open_socket
  <2>1. /\ hal2om # <<>> /\ Head(hal2om).op = "OPEN_SOCKET" /\ om2awm' = om2awm
    BY <1>8 DEF handle_open_socket, Next1
  <2>2. Head(hal2om).ep # "unknownEp"
    BY <2>1, NextKnown DEF LostOpens
  <2>3. CASE find_idle_offload_instance = 0
    BY <1>6, <1>8, <2>1, <2>3 DEF handle_open_socket
  <2>4. CASE find_idle_offload_instance # 0
    <3>1. PICK i \in Slots : i = find_idle_offload_instance
      BY <1>1, <2>4, IdleSlot
    <3>2. /\ \A j \in Slots \ {i} : instances'[j] = instances[j]
          /\ instances'[i].ep = Head(hal2om).ep
      <4>1. instances' = [instances EXCEPT ![i] =
                            [@ EXCEPT !.state = NextState("Idle", "OFFLOAD_REQ"), !.id = Head(hal2om).id,
                                      !.type = Head(hal2om).type, !.ep = Head(hal2om).ep]]
        BY <1>8, <2>4, <3>1 DEF handle_open_socket
      <4>2. QED BY <1>1, <4>1 DEF InstancesTypeOK
    <3>3. \A j \in Live' : instances'[j].ep # "unknownEp"
      BY <1>1, <2>2, <3>2 DEF Live
    <3>4. Fewer(om2awm, om2awm', OmToAwmMsgs, LostReqs)
      BY <2>1 DEF Fewer
    <3>5. QED BY <1>3, <1>4, <3>3, <3>4, KnownKept
  <2>5. QED BY <2>3, <2>4
<1>9. CASE handle_close_socket
  <2>1. \/ Drop
        \/ \E i \in Slots : ProcessEvent(i, "UNOFFLOAD_REQ", instances[i].pseudo_id)
    BY <1>1, <1>9, LookUps DEF handle_close_socket
  <2>2. QED BY <1>2, <1>5, <1>7, <2>1 DEF Events
<1>10. CASE microstack_offload_cfm
  <2>1. Head(bmm2om).context \in Slots /\ Head(bmm2om).connId \in ConnIds \cup {InvalidConnId}
    BY <1>1, <1>10, QueueTypes, MessageFields DEF microstack_offload_cfm, Next1
  <2>2. \E evt \in Events : ProcessEvent(Head(bmm2om).context, evt, Head(bmm2om).connId)
    BY <1>10 DEF microstack_offload_cfm, Events
  <2>3. QED BY <1>5, <2>1, <2>2
<1>11. CASE microstack_unoffload_cfm
  <2>1. \/ Drop
        \/ \E i \in Slots :
              ProcessEvent(i, "UNOFFLOAD_FROM_MICROSTACK_SUCCESS", instances[i].pseudo_id)
    BY <1>1, <1>11, LookUps DEF microstack_unoffload_cfm
  <2>2. QED BY <1>2, <1>5, <1>7, <2>1 DEF Events
<1>12. CASE uapp_open_socket_res
  <2>1. \/ Drop
        \/ \E i \in Slots, evt \in {"OFFLOAD_TO_MICROAPP_SUCCESS", "OFFLOAD_TO_MICROAPP_FAILURE"} :
              ProcessEvent(i, evt, instances[i].pseudo_id)
    BY <1>1, <1>12, LookUps DEF uapp_open_socket_res
  <2>2. QED BY <1>2, <1>5, <1>7, <2>1 DEF Events
<1>13. CASE uapp_socket_close_ind
  BY <1>6, <1>13 DEF uapp_socket_close_ind
<1>14. CASE GattSessions
  <2>1. om2awm' = om2awm
    BY <1>14 DEF GattSessions, gatt_offload, gatt_clear_offload_data, channels
  <2>2. ASSUME NEW i \in Slots, instances'[i].state \in {"Idle", "Gatt"},
               \A j \in Slots \ {i} : instances'[j] = instances[j]
        PROVE  Known'
    <3>1. \A j \in Live' : instances'[j].ep # "unknownEp"
      BY <1>1, <2>2 DEF Live
    <3>2. Fewer(om2awm, om2awm', OmToAwmMsgs, LostReqs)
      BY <2>1 DEF Fewer
    <3>3. QED BY <1>3, <1>4, <3>1, <3>2, KnownKept
  <2>3. CASE gatt_offload
    <3>1. PICK i \in Slots : i = find_idle_offload_instance
      BY <1>1, <2>3, IdleSlot DEF gatt_offload
    <3>2. instances' = [instances EXCEPT ![i] = [@ EXCEPT !.state = "Gatt", !.id = NoSocket]]
      BY <2>3, <3>1 DEF gatt_offload
    <3>3. instances'[i].state = "Gatt" /\ \A j \in Slots \ {i} : instances'[j] = instances[j]
      BY <1>1, <3>2 DEF InstancesTypeOK
    <3>4. QED BY <2>2, <3>3
  <2>4. ASSUME NEW i \in Slots, gatt_clear_offload_data(i)
        PROVE  Known'
    <3>1. instances'[i].state = "Idle" /\ \A j \in Slots \ {i} : instances'[j] = instances[j]
      BY <1>1, <2>4 DEF gatt_clear_offload_data, InstancesTypeOK
    <3>2. QED BY <2>2, <3>1
  <2>5. QED BY <1>14, <2>3, <2>4 DEF GattSessions
<1>15. QED BY <1>1, <1>8, <1>9, <1>10, <1>11, <1>12, <1>13, <1>14
           DEF FromHal, FromMicrostack, FromMicroapps

(* The app manager finds the endpoint, and answers with the id of the socket. *)
LEMMA AwmKnown ==
  ASSUME KInv, AwmStep(AppManager) \/ AwmStep(\E t \in Types, s \in Sockets : close_socket_qapi(t, s))
  PROVE  Known'
<1>1. UNCHANGED <<hal2om, instances>>
  BY DEF AwmStep, AppManager, open_socket_req, close_socket_cmd, close_socket_qapi
<1>2. \A i \in Live' : instances'[i].ep # "unknownEp"
  BY <1>1 DEF KInv, Known, Live
<1>3. Fewer(hal2om, hal2om', HalToOmMsgs, LostOpens)
  BY <1>1 DEF Fewer
<1>4. CASE open_socket_req
  <2>1. /\ om2awm # <<>> /\ om2awm' = Tail(om2awm) /\ Head(om2awm) \in OmToAwmMsgs
        /\ Head(om2awm).op = "OPEN_REQ" /\ Head(om2awm).ep # "unknownEp"
    BY <1>4, NextKnown DEF open_socket_req, Next1, LostReqs
  <2>2. Head(om2awm).id \in Sockets /\ EndpointType(Head(om2awm).ep) \in Types
    BY <2>1 DEF OmToAwmMsgs, Endpoints, EndpointType, Types
  <2>3. ASSUME NEW status \in Results, awm2om' = OpenRes(Head(om2awm).id, status)
        PROVE  Fewer(awm2om, awm2om', AwmToOmMsgs, LostRes)
    <3>1. PICK m \in AwmToOmMsgs : m = [op |-> "OPEN_RES", id |-> Head(om2awm).id, status |-> status]
      BY <2>2 DEF AwmToOmMsgs
    <3>2. m \notin LostRes
      BY <2>2, <3>1, SocketsAssumption DEF LostRes
    <3>3. QED BY <2>3, <3>1, <3>2 DEF OpenRes, Fewer
  <2>4. \/ awm2om' = awm2om
        \/ \E status \in Results : awm2om' = OpenRes(Head(om2awm).id, status)
    <3>1. socket_opened(EndpointType(Head(om2awm).ep), Head(om2awm))
      BY <1>4, <2>2 DEF open_socket_req
    <3>2. QED BY <3>1 DEF socket_opened, Results
  <2>5. Fewer(awm2om, awm2om', AwmToOmMsgs, LostRes) /\ Fewer(om2awm, om2awm', OmToAwmMsgs, LostReqs)
    BY <2>1, <2>3, <2>4 DEF Fewer
  <2>6. QED BY <1>2, <1>3, <2>5, KnownKept
<1>5. CASE close_socket_cmd
  <2>1. Fewer(awm2om, awm2om', AwmToOmMsgs, LostRes) /\ Fewer(om2awm, om2awm', OmToAwmMsgs, LostReqs)
    BY <1>5 DEF close_socket_cmd, Next1, Fewer
  <2>2. QED BY <1>2, <1>3, <2>1, KnownKept
<1>6. ASSUME NEW t \in Types, NEW s \in Sockets, close_socket_qapi(t, s)
      PROVE  Known'
  <2>1. PICK m \in AwmToOmMsgs : m = [op |-> "CLOSE_IND", id |-> s]
    BY DEF AwmToOmMsgs
  <2>2. m \notin LostRes
    BY <2>1 DEF LostRes
  <2>3. Fewer(awm2om, awm2om', AwmToOmMsgs, LostRes) /\ Fewer(om2awm, om2awm', OmToAwmMsgs, LostReqs)
    BY <1>6, <2>1, <2>2 DEF close_socket_qapi, Fewer
  <2>4. QED BY <1>2, <1>3, <2>3, KnownKept
<1>7. QED BY <1>4, <1>5, <1>6 DEF AwmStep, AppManager

(* Every step keeps the endpoints known. *)
LEMMA KnownNext ==
  ASSUME KnownEndpoints, KInv, [Next]_vars
  PROVE  KInv'
<1>1. AInv'
  BY AppsNext DEF KInv
<1>2. UNCHANGED <<hal2om, om2awm, awm2om, instances>> => Known'
  BY DEF KInv, Known, Where, LostOpens, LostReqs, LostRes, Live
<1>3. ASSUME BmmStep(Microstack)
      PROVE  Known'
  BY <1>2, <1>3 DEF BmmStep, Microstack, BmmSocketOffloadReqHandler, BmmSocketCloseReqHandler,
                    BmmSocketSetParamsReqHandler
<1>4. ASSUME UNCHANGED vars
      PROVE  Known'
  BY <1>2, <1>4 DEF vars, channels
<1>5. Known'
  <2>1. CASE HalStep(StackCall) \/ HalStep(ClosedCommit) \/ HalStep(RxThread)
    BY <2>1, HalKnown
  <2>2. CASE \/ OmStep(FromHal) \/ OmStep(FromMicrostack) \/ OmStep(FromMicroapps)
             \/ OmStep(GattSessions)
    BY <2>2, OmKnown
  <2>3. CASE AwmStep(AppManager) \/ AwmStep(\E t \in Types, s \in Sockets : close_socket_qapi(t, s))
    BY <2>3, AwmKnown
  <2>4. QED BY <1>3, <1>4, <2>1, <2>2, <2>3 DEF Next
<1>6. QED BY <1>1, <1>5 DEF KInv

(* The invariant holds at the start. *)
LEMMA KnownStart == Init => KInv
<1> SUFFICES ASSUME Init
             PROVE  KInv
  OBVIOUS
<1>1. AInv
  BY AppsStart
<1>2. /\ hal2om = <<>> /\ om2awm = <<>> /\ awm2om = <<>>
      /\ \A i \in Slots : instances[i].state = "Idle"
  BY DEF Init, ChannelsInit, InstancesInit
<1>3. QED BY <1>1, <1>2 DEF KInv, Known, Where, Live

(* An answer of a microapp is taken out of its queue only by its handler. *)
LEMMA OpenResRead ==
  ASSUME KInv, [Next]_vars, Next1(awm2om, "OPEN_RES"), awm2om' = Tail(awm2om)
  PROVE  uapp_open_socket_res
<1>1. /\ awm2om' # awm2om /\ \A m : awm2om' # Append(awm2om, m)
      /\ awm2om # <<>> /\ Head(awm2om).op = "OPEN_RES"
  <2>1. awm2om \in Seq(AwmToOmMsgs) /\ awm2om # <<>>
    BY DEF Next1, KInv, AInv, PInv, IInv, TypeOK, ChannelsTypeOK
  <2>2. Len(awm2om) \in Nat /\ Len(Tail(awm2om)) = Len(awm2om) - 1
    BY <2>1
  <2>3. \A m : Len(Append(awm2om, m)) = Len(awm2om) + 1
    BY <2>1
  <2>4. ASSUME NEW m, awm2om' = Append(awm2om, m)
        PROVE  FALSE
    BY <2>2, <2>3, <2>4
  <2>5. awm2om' # awm2om
    BY <2>2
  <2>6. QED BY <2>4, <2>5 DEF Next1
<1>2. ASSUME UNCHANGED awm2om
      PROVE  uapp_open_socket_res
  BY <1>1, <1>2
<1>3. CASE HalStep(StackCall) \/ HalStep(ClosedCommit) \/ HalStep(RxThread)
  BY <1>2, <1>3 DEF HalStep
<1>4. CASE OmStep(FromHal) \/ OmStep(FromMicrostack) \/ OmStep(GattSessions)
  <2>1. UNCHANGED awm2om
    BY <1>4 DEF OmStep, FromHal, FromMicrostack, GattSessions, handle_open_socket,
                handle_close_socket, microstack_offload_cfm, microstack_unoffload_cfm,
                gatt_offload, gatt_clear_offload_data, channels
  <2>2. QED BY <1>2, <2>1
<1>5. CASE OmStep(FromMicroapps)
  BY <1>1, <1>5 DEF OmStep, FromMicroapps, uapp_socket_close_ind, Next1
<1>6. CASE BmmStep(Microstack)
  <2>1. UNCHANGED awm2om
    BY <1>6 DEF BmmStep, Microstack, BmmSocketOffloadReqHandler, BmmSocketCloseReqHandler,
                BmmSocketSetParamsReqHandler
  <2>2. QED BY <1>2, <2>1
<1>7. CASE AwmStep(AppManager)
  <2>1. ASSUME close_socket_cmd
        PROVE  uapp_open_socket_res
    BY <1>2, <2>1 DEF close_socket_cmd
  <2>2. ASSUME open_socket_req
        PROVE  uapp_open_socket_res
    <3>1. awm2om' = awm2om \/ \E m : awm2om' = Append(awm2om, m)
      BY <2>2 DEF open_socket_req, socket_opened, OpenRes
    <3>2. QED BY <1>1, <3>1
  <2>3. QED BY <1>7, <2>1, <2>2 DEF AwmStep, AppManager
<1>8. CASE AwmStep(\E t \in Types, s \in Sockets : close_socket_qapi(t, s))
  <2>1. \E m : awm2om' = Append(awm2om, m)
    BY <1>8 DEF AwmStep, close_socket_qapi
  <2>2. QED BY <1>1, <2>1
<1>9. CASE UNCHANGED vars
  BY <1>2, <1>9 DEF vars, channels
<1>10. QED BY <1>3, <1>4, <1>5, <1>6, <1>7, <1>8, <1>9 DEF Next

(* Every answer of a microapp finds the instance that waits for it, and takes it *)
(* further, as long as no socket asks for an endpoint that nobody registered,  *)
(* which is what the run unknown_endpoint shows to matter.                     *)
THEOREM OpenResAlways ==
  ASSUME KnownEndpoints
  PROVE  Spec => OpenResCompletes
<1>1. Spec => []KInv
  BY KnownStart, KnownNext, PTL DEF Spec
<1>2. ASSUME KInv, [Next]_vars, Next1(awm2om, "OPEN_RES"), awm2om' = Tail(awm2om)
      PROVE  \E i \in Slots : /\ instances[i].state = "OffloadToMicrostackSuccess"
                              /\ instances'[i].state # "OffloadToMicrostackSuccess"
  <2>1. uapp_open_socket_res
    BY <1>2, OpenResRead
  <2>2. AInv /\ IInv /\ InstancesTypeOK /\ Rests /\ awm2om \in Seq(AwmToOmMsgs)
    BY <1>2 DEF KInv, AInv, PInv, IInv, TypeOK, ChannelsTypeOK
  <2>3. /\ awm2om # <<>> /\ Head(awm2om).op = "OPEN_RES"
        /\ Head(awm2om) \in AwmToOmMsgs /\ Head(awm2om) \notin LostRes
    BY <1>2, NextKnown DEF Next1
  <2>4. /\ Head(awm2om).id \in Sockets /\ Head(awm2om).status \in Results
        /\ Head(awm2om) = [op |-> "OPEN_RES", id |-> Head(awm2om).id, status |-> Head(awm2om).status]
    BY <2>3 DEF LostRes, AwmToOmMsgs
  <2>5. PICK s \in Sockets : s = Head(awm2om).id
    BY <2>4
  <2>6. 1 \in DOMAIN awm2om /\ awm2om[1] = Head(awm2om)
    BY <2>2, <2>3
  <2>7. Accepted(s) # {} \/ Rejected(s) # {}
    BY <2>4, <2>5, <2>6 DEF Accepted, Rejected, Answers, AppAnswer, Where, Results
  <2>8. PICK i \in Serving(s) : instances[i].state = "OffloadToMicrostackSuccess"
    BY <2>2, <2>7 DEF AInv, App, Asking
  <2>9. i \in Live /\ i \in Slots /\ instances[i].id = s
    BY <2>8 DEF Serving, Live
  <2>10. find_by_socket_id(Head(awm2om).id) = i /\ i # 0
    <3>1. find_by_socket_id(instances[i].id) = i
      BY <2>2, <2>9, LiveIsFound
    <3>2. QED BY <2>5, <2>9, <3>1, SizesAssumption DEF Slots
  <2>11. PICK c \in ConnIds \cup {InvalidConnId} : c = instances[i].pseudo_id
    BY <2>2, <2>9 DEF InstancesTypeOK
  <2>12. PICK evt \in {"OFFLOAD_TO_MICROAPP_SUCCESS", "OFFLOAD_TO_MICROAPP_FAILURE"} :
             ProcessEvent(i, evt, c)
    <3> DEFINE outcome == IF Head(awm2om).status = "SUCCESS" THEN "OFFLOAD_TO_MICROAPP_SUCCESS"
                                                             ELSE "OFFLOAD_TO_MICROAPP_FAILURE"
    <3>1. ProcessEvent(i, outcome, c)
      BY <2>1, <2>10, <2>11 DEF uapp_open_socket_res
    <3>2. outcome \in {"OFFLOAD_TO_MICROAPP_SUCCESS", "OFFLOAD_TO_MICROAPP_FAILURE"}
      OBVIOUS
    <3> HIDE DEF outcome
    <3>3. QED BY <3>1, <3>2
  <2>13. IF <<instances[i].state, evt>> \in Expected THEN Moves(i, evt) ELSE Ignores(i)
    <3>1. InstancesTypeOK /\ Rests
      BY <2>2
    <3>2. i \in Slots /\ evt \in Events
      BY <2>9, <2>12 DEF Events
    <3>3. ProcessEvent(i, evt, c)
      BY <2>12
    <3>4. QED BY <3>1, <3>2, <3>3, EventMoves
  <2>14. Moves(i, evt)
    BY <2>8, <2>12, <2>13 DEF Expected
  <2>15. instances'[i].state # "OffloadToMicrostackSuccess"
    BY <2>12, <2>14 DEF Moves, Reports, TakesBack, Passes
  <2>16. QED BY <2>8, <2>9, <2>15
<1>3. KInv /\ [Next]_vars
        => [Next1(awm2om, "OPEN_RES") /\ awm2om' = Tail(awm2om)
            => \E i \in Slots : /\ instances[i].state = "OffloadToMicrostackSuccess"
                                /\ instances'[i].state # "OffloadToMicrostackSuccess"]_vars
  BY <1>2
<1>4. QED BY <1>1, <1>3, PTL DEF Spec, OpenResCompletes

-----------------------------------------------------------------------------
(* That nothing behind the HAL runs out of room. *)

(* What the HAL lets pass of a type that the stack uses.                    *)
Limit(t) == IF \E c \in Contexts : c.type = t THEN MaxConn(t) ELSE 0

(* The sizes of the tables, one against the other.  The comment at           *)
(* MAX_OFFLOAD_INSTANCES counts the instances like this.                   *)
RoomForAll ==
  /\ \A t \in Types : Limit(t) <= MaxSocketSupported
  /\ Limit("RFCOMM") + Limit("LE_COC") <= SockMaxConn
  /\ Limit("RFCOMM") + Limit("LE_COC") + MaxGattSessions <= NumInstances

TypeOf(s) == stateTable[s].type
Entered(t) == {s \in Sockets : TypeOf(s) = t}
Fits(S, t) == IsFiniteSet(S) /\ Cardinality(S) <= Limit(t)

(* The type that the HAL wrote down is the one that everybody works with.    *)
Typed ==
  /\ \A s \in Sockets : \A k \in Opens(s) : hal2om[k].type = TypeOf(s)
  /\ \A i \in Live : instances[i].type = TypeOf(instances[i].id)
  /\ \A i \in Slots : \A k \in Requested(i) : om2bmm[k].type = instances[i].type
  /\ \A x \in Indices : socket[x].inUse => socket[x].protocol = TypeOf(socket[x].socketId)

HalRoom == \A t \in Types : Fits(Entered(t), t)

GattHeld == {i \in Slots : instances[i].state = "Gatt"}
GattRoom == Cardinality(GattHeld) <= MaxGattSessions

(* The requests that the microapp for t serves; the sockets of S are enough  *)
(* for all that it holds when it comes to the k-th command.                *)
Matched(t) == {m \in OmToAwmMsgs : m.op = "OPEN_REQ" /\ m.type = t /\ EndpointType(m.ep) = t}

Covers(S, t, k) ==
  /\ \A l \in Where(om2awm, Matched(t)) : l <= k => om2awm[l].id \in S
  /\ \A u \in Sockets : Holding(t, u) # {} => u \in S \/ \E l \in OrderedAt(u, t) : l < k

AppRoom ==
  \A t \in Types : \A k \in Where(om2awm, Matched(t)) :
     \E S \in SUBSET Sockets : Fits(S, t) /\ Covers(S, t, k)

NInv == AInv /\ Links /\ HalRoom /\ Typed /\ GattRoom /\ AppRoom

-----------------------------------------------------------------------------
(* A set that goes one to one into a finite set is no larger. *)
LEMMA Injected ==
  ASSUME NEW S, NEW T, NEW f \in [S -> T], IsFiniteSet(T),
         \A a, b \in S : f[a] = f[b] => a = b
  PROVE  IsFiniteSet(S) /\ Cardinality(S) <= Cardinality(T)
<1>1. f \in Injection(S, T)
  BY DEF Injection, IsInjective
<1>2. QED BY <1>1, FS_Injection

(* The limits are numbers. *)
LEMMA LimitTypes ==
  /\ \A t \in Types : Limit(t) \in Nat /\ Limit(t) <= MaxConn(t)
  /\ "RFCOMM" \in Types /\ "LE_COC" \in Types
BY SizesAssumption DEF Limit, MaxConn, Types

(* A set that fits goes on fitting when it shrinks. *)
LEMMA FitsLess ==
  ASSUME NEW t \in Types, NEW S, NEW T \in SUBSET S, Fits(S, t)
  PROVE  Fits(T, t)
<1>1. IsFiniteSet(T) /\ Cardinality(T) <= Cardinality(S)
  BY FS_Subset DEF Fits
<1>2. Cardinality(T) \in Nat /\ Cardinality(S) \in Nat /\ Limit(t) \in Nat
  BY <1>1, FS_CardinalityType, LimitTypes DEF Fits
<1>3. QED BY <1>1, <1>2 DEF Fits

(* What the parts of the invariant say of the queues and the tables. *)
LEMMA RoomTypes ==
  ASSUME NInv
  PROVE  /\ CInv /\ PInv /\ IInv /\ HalTypeOK /\ AppsTypeOK /\ InstancesTypeOK /\ Rests /\ LiveIds
         /\ hal2om \in Seq(HalToOmMsgs) /\ om2bmm \in Seq(OmToBmmMsgs)
         /\ bmm2om \in Seq(BmmToOmMsgs) /\ om2awm \in Seq(OmToAwmMsgs)
         /\ awm2om \in Seq(AwmToOmMsgs)
         /\ \A i \in Slots : Instance(i) /\ instances[i].pseudo_id \in ConnIds \cup {InvalidConnId}
         /\ \A x \in Indices : Conn(x)
         /\ \A s \in Sockets : App(s)
<1>1. CInv /\ PInv /\ IInv /\ TypeOK
  BY DEF NInv, AInv, CInv, PInv, IInv
<1>2. InstancesTypeOK
  BY <1>1 DEF TypeOK
<1>3. \A i \in Slots : instances[i].pseudo_id \in ConnIds \cup {InvalidConnId}
  BY <1>2 DEF InstancesTypeOK
<1>4. (\A s \in Sockets : App(s)) /\ Links
  BY DEF NInv, AInv
<1>5. QED BY <1>1, <1>3, <1>4 DEF TypeOK, ChannelsTypeOK, PInv, IInv, Links

(* The messages to the offload manager after the step, seen from before. *)
LEMMA ShorterQueue ==
  ASSUME NEW D, NEW q \in Seq(D), NEW q2, NEW M, q2 = q \/ (q # <<>> /\ q2 = Tail(q))
  PROVE  \A k \in Where(q2, M) : \E l \in Where(q, M) : q2[k] = q[l]
<1>1. CASE q2 = q
  BY <1>1
<1>2. CASE q # <<>> /\ q2 = Tail(q)
  <2>1. \A k \in Where(Tail(q), M) : k \in 1 .. Len(q) - 1 /\ k + 1 \in Where(q, M)
    BY <1>2, WhereTailed
  <2>2. \A k \in 1 .. Len(q) - 1 : Tail(q)[k] = q[k + 1]
    BY <1>2
  <2>3. QED BY <1>2, <2>1, <2>2
<1>3. QED BY <1>1, <1>2

-----------------------------------------------------------------------------
(* The HAL makes an entry, takes one away, or leaves all types as they are.   *)
MakesEntry(s, c) ==
  /\ getState(s) = "CLOSED" /\ Cardinality(Entered(c.type)) < MaxConn(c.type)
  /\ stateTable' = [stateTable EXCEPT ![s] = [state |-> "OPENING", type |-> c.type]]
  /\ hal2om' = Append(hal2om, [op |-> "OPEN_SOCKET", id |-> s, type |-> c.type, ep |-> c.ep])

TakesEntry(s) ==
  /\ Removing(s) # {} /\ stateTable' = [stateTable EXCEPT ![s] = NoEntry]
  /\ UNCHANGED hal2om

LeavesTypes ==
  /\ \A s \in Sockets : stateTable'[s].type = stateTable[s].type
  /\ hal2om' = hal2om \/ \E s \in Sockets :
        hal2om' = Append(hal2om, [op |-> "CLOSE_SOCKET", id |-> s])

(* updateState() does not touch the type. *)
LEMMA UpdateKeepsTypes ==
  ASSUME HalTypeOK, NEW s0 \in Sockets, NEW new, updateState(s0, new)
  PROVE  \A s \in Sockets : stateTable'[s].type = stateTable[s].type
BY DEF HalTypeOK, updateState

(* Every step of the two HAL threads is one of the three. *)
LEMMA HalEntrySteps ==
  ASSUME NInv, HalStep(StackCall) \/ HalStep(ClosedCommit) \/ HalStep(RxThread)
  PROVE  \/ \E s \in Sockets, c \in Contexts : MakesEntry(s, c)
         \/ \E s \in Sockets : TakesEntry(s)
         \/ LeavesTypes
<1>1. HalTypeOK /\ om2hal \in Seq(OmToHalMsgs)
  BY DEF NInv, AInv, PInv, IInv, TypeOK, ChannelsTypeOK
<1>2. ASSUME UNCHANGED stateTable, UNCHANGED hal2om
      PROVE  LeavesTypes
  BY <1>2 DEF LeavesTypes
<1>3. ASSUME NEW s \in Sockets, CloseSocket(s)
      PROVE  LeavesTypes
  BY <1>1, <1>3, UpdateKeepsTypes DEF CloseSocket, LeavesTypes
<1>4. CASE StackCall
  <2>1. ASSUME NEW s \in Sockets, NEW c \in Contexts, Opened(s, c)
        PROVE  MakesEntry(s, c)
    <3>1. /\ getState(s) = "CLOSED" /\ ~isMaxOffloadSocketLimitReached(c.type)
          /\ stateTable' = [stateTable EXCEPT ![s] = [state |-> "OPENING", type |-> c.type]]
          /\ hal2om' = Append(hal2om, [op |-> "OPEN_SOCKET", id |-> s, type |-> c.type, ep |-> c.ep])
      BY <2>1 DEF Opened
    <3>2. c.type \in Types
      BY ContextsAssumption
    <3>3. /\ Fits(Entered(c.type), c.type)
      BY <3>2 DEF NInv, HalRoom
    <3>4. Cardinality(Entered(c.type)) \in Nat /\ MaxConn(c.type) \in Nat
      BY <3>3, FS_CardinalityType, SizesAssumption DEF Fits, MaxConn
    <3>5. Cardinality(Entered(c.type)) < MaxConn(c.type)
      BY <3>1, <3>4 DEF isMaxOffloadSocketLimitReached, countEntriesWithType, Entered, TypeOf
    <3>6. QED BY <3>1, <3>5 DEF MakesEntry
  <2>2. ASSUME NEW s \in Sockets, ClosedCheck(s)
        PROVE  LeavesTypes
    BY <1>2, <2>2 DEF ClosedCheck
  <2>3. QED BY <1>4, <2>1, <2>2 DEF StackCall
<1>5. CASE ClosedCommit
  BY <1>1, <1>3, <1>5 DEF ClosedCommit, HalTypeOK
<1>6. CASE RxThread
  <2>1. CASE RxOpenCb
    <3>1. Head(om2hal) \in OmToHalMsgs
      BY <1>1, <2>1, QueueTypes DEF RxOpenCb, Next1
    <3>2. Head(om2hal).id \in Sockets
      BY <3>1, MessageFields
    <3>3. UNCHANGED stateTable \/ updateState(Head(om2hal).id, "OPENED")
      BY <2>1 DEF RxOpenCb
    <3>4. \A s \in Sockets : stateTable'[s].type = stateTable[s].type
      BY <1>1, <3>2, <3>3, UpdateKeepsTypes
    <3>5. QED BY <2>1, <3>4 DEF LeavesTypes, RxOpenCb
  <2>2. CASE RxCloseCb \/ RxCloseInd
    BY <1>2, <2>2 DEF RxCloseCb, RxCloseInd
  <2>3. CASE RxClosedCommit
    BY <1>1, <1>3, <2>3 DEF RxClosedCommit, HalTypeOK
  <2>4. CASE removeEntry
    <3>1. rx.id \in Sockets /\ rx = [op |-> "remove", id |-> rx.id]
      BY <1>1, <2>4 DEF removeEntry, HalTypeOK
    <3>2. TakesEntry(rx.id)
      BY <2>4, <3>1 DEF removeEntry, TakesEntry, Removing
    <3>3. QED BY <3>1, <3>2
  <2>5. QED BY <1>6, <2>1, <2>2, <2>3, <2>4 DEF RxThread
<1>7. QED BY <1>4, <1>5, <1>6 DEF HalStep

(* The entries of each type still fit. *)
LEMMA HalRoomKept ==
  ASSUME NInv,
         \/ \E s \in Sockets, c \in Contexts : MakesEntry(s, c)
         \/ \E s \in Sockets : TakesEntry(s)
         \/ LeavesTypes
  PROVE  HalRoom'
<1>1. HalTypeOK /\ HalRoom
  BY DEF NInv, AInv, PInv, IInv, TypeOK
<1>2. SUFFICES ASSUME NEW t \in Types
               PROVE  Fits(Entered(t)', t)
  BY DEF HalRoom, Fits, Limit, MaxConn
<1>3. Fits(Entered(t), t)
  BY <1>1 DEF HalRoom
<1>4. ASSUME NEW s \in Sockets, NEW c \in Contexts, MakesEntry(s, c)
      PROVE  Fits(Entered(t)', t)
  <2>1. \A u \in Sockets : stateTable'[u].type = IF u = s THEN c.type ELSE stateTable[u].type
    BY <1>1, <1>4 DEF MakesEntry, HalTypeOK
  <2>2. CASE c.type # t
    <3>1. Entered(t)' \subseteq Entered(t)
      BY <2>1, <2>2 DEF Entered, TypeOf
    <3>2. QED BY <1>3, <3>1, FitsLess
  <2>3. CASE c.type = t
    <3>1. Entered(t)' \subseteq Entered(t) \cup {s}
      BY <2>1, <2>3 DEF Entered, TypeOf
    <3>2. Limit(t) = MaxConn(t) /\ MaxConn(t) \in Nat
      BY <2>3, SizesAssumption DEF Limit, MaxConn
    <3>3. Cardinality(Entered(t)) < MaxConn(t)
      BY <1>4, <2>3 DEF MakesEntry
    <3>4. /\ IsFiniteSet(Entered(t) \cup {s})
          /\ Cardinality(Entered(t) \cup {s}) <= Cardinality(Entered(t)) + 1
          /\ Cardinality(Entered(t)) \in Nat /\ Cardinality(Entered(t) \cup {s}) \in Nat
      BY SMTT(30), <1>3, FS_AddElement, FS_CardinalityType DEF Fits
    <3>5. Fits(Entered(t) \cup {s}, t)
      BY <3>2, <3>3, <3>4 DEF Fits
    <3>6. QED BY <3>1, <3>5, FitsLess
  <2>4. QED BY <2>2, <2>3
<1>5. ASSUME NEW s \in Sockets, TakesEntry(s)
      PROVE  Fits(Entered(t)', t)
  <2>1. Entered(t)' \subseteq Entered(t)
    BY <1>1, <1>5 DEF Entered, TypeOf, TakesEntry, HalTypeOK, NoEntry, Types
  <2>2. QED BY <1>3, <2>1, FitsLess
<1>6. ASSUME LeavesTypes
      PROVE  Fits(Entered(t)', t)
  <2>1. Entered(t)' = Entered(t)
    BY <1>6 DEF Entered, TypeOf, LeavesTypes
  <2>2. QED BY <1>3, <2>1
<1>7. QED BY <1>4, <1>5, <1>6

(* And they have the type that everybody works with: an entry is made and     *)
(* taken away only when nobody works for the socket.                       *)
LEMMA HalTyped ==
  ASSUME NInv, UNCHANGED <<instances, socket, om2bmm>>,
         \/ \E s \in Sockets, c \in Contexts : MakesEntry(s, c)
         \/ \E s \in Sockets : TakesEntry(s)
         \/ LeavesTypes
  PROVE  Typed'
<1>1. /\ HalTypeOK /\ IInv /\ LiveIds /\ InstancesTypeOK /\ hal2om \in Seq(HalToOmMsgs)
      /\ \A x \in Indices : Conn(x)
  BY RoomTypes
<1>2. Typed
  BY DEF NInv
<1>3. ASSUME \A u \in Sockets : Serving(u) # {} => TypeOf(u)' = TypeOf(u),
             \A u \in Sockets : \A k \in Opens(u)' : hal2om'[k].type = TypeOf(u)'
      PROVE  Typed'
  <2>1. \A i \in Live : instances[i].id \in Sockets /\ i \in Serving(instances[i].id)
    BY <1>1, LiveIsLiveStates DEF LiveIds, Serving
  <2>2. \A i \in Live' : instances'[i].type = TypeOf(instances[i].id)'
    <3>1. Live' = Live
      BY DEF Live
    <3>2. QED BY <1>2, <1>3, <2>1, <3>1 DEF Typed
  <2>3. \A x \in Indices : socket[x].inUse =>
           socket[x].socketId \in Sockets /\ Serving(socket[x].socketId) # {}
    BY <1>1 DEF Conn
  <2>4. \A x \in Indices : socket'[x].inUse => socket'[x].protocol = TypeOf(socket[x].socketId)'
    BY <1>2, <1>3, <2>3 DEF Typed
  <2>5. \A i \in Slots : \A k \in Requested(i)' : om2bmm'[k].type = instances'[i].type
    <3>1. \A i \in Slots : Requested(i)' = Requested(i)
      BY DEF Requested, Where, ReqsFor
    <3>2. QED BY <1>2, <3>1 DEF Typed
  <2>6. (\A i \in Live : instances[i].type = TypeOf(instances[i].id))'
    BY <2>2
  <2>7. (\A x \in Indices : socket[x].inUse => socket[x].protocol = TypeOf(socket[x].socketId))'
    BY <2>4
  <2>8. (\A i \in Slots : \A k \in Requested(i) : om2bmm[k].type = instances[i].type)'
    BY <2>5
  <2>9. (\A u \in Sockets : \A k \in Opens(u) : hal2om[k].type = TypeOf(u))'
    BY <1>3
  <2>10. QED BY <2>6, <2>7, <2>8, <2>9 DEF Typed
<1>4. ASSUME NEW s \in Sockets, NEW c \in Contexts, MakesEntry(s, c)
      PROVE  Typed'
  <2>1. Serving(s) = {} /\ Opens(s) = {}
    BY <1>1, <1>4, OneAnswers DEF MakesEntry
  <2>2. \A u \in Sockets : TypeOf(u)' = IF u = s THEN c.type ELSE TypeOf(u)
    BY <1>1, <1>4 DEF MakesEntry, HalTypeOK, TypeOf
  <2>3. c.type \in Types /\ c.ep \in Endpoints
    BY ContextsAssumption
  <2>4. PICK m \in HalToOmMsgs : m = [op |-> "OPEN_SOCKET", id |-> s, type |-> c.type, ep |-> c.ep]
    BY <2>3 DEF HalToOmMsgs
  <2>5. hal2om' = Append(hal2om, m)
    BY <1>4, <2>4 DEF MakesEntry
  <2>6. ASSUME NEW u \in Sockets, NEW k \in Where(Append(hal2om, m), OpenReqs(u))
        PROVE  Append(hal2om, m)[k].type = TypeOf(u)'
    <3>1. \A l \in 1 .. Len(hal2om) : Append(hal2om, m)[l] = hal2om[l]
      BY <1>1
    <3>2. Append(hal2om, m)[Len(hal2om) + 1] = m
      BY <1>1
    <3>3. Opens(u) \subseteq 1 .. Len(hal2om)
      BY <1>1, <2>4, WhereAppended DEF Opens
    <3>4. CASE u = s
      <4>1. k = Len(hal2om) + 1
        BY <1>1, <2>1, <3>4, WhereAppended DEF Opens
      <4>2. QED BY <2>2, <2>4, <3>2, <3>4, <4>1
    <3>5. CASE u # s
      <4>1. k \in Opens(u)
        <5>1. m \notin OpenReqs(u)
          BY <2>4, <3>5 DEF OpenReqs
        <5>2. QED BY <1>1, <5>1, WhereAppended DEF Opens
      <4>2. hal2om[k].type = TypeOf(u)
        BY <1>2, <4>1 DEF Typed
      <4>3. QED BY <2>2, <3>1, <3>3, <3>5, <4>1, <4>2
    <3>6. QED BY <3>4, <3>5
  <2>7. \A u \in Sockets : \A k \in Opens(u)' : hal2om'[k].type = TypeOf(u)'
    BY <2>5, <2>6 DEF Opens, OpenReqs
  <2>8. QED BY <1>3, <2>1, <2>2, <2>7
<1>5. ASSUME NEW s \in Sockets, TakesEntry(s)
      PROVE  Typed'
  <2>1. Serving(s) = {} /\ Opens(s) = {}
    BY <1>1, <1>5, OneAnswers DEF TakesEntry
  <2>2. \A u \in Sockets : u # s => TypeOf(u)' = TypeOf(u)
    BY <1>1, <1>5 DEF TakesEntry, HalTypeOK, TypeOf
  <2>3. \A u \in Sockets : Opens(u)' = Opens(u)
    BY <1>5 DEF TakesEntry, Opens, Where, OpenReqs
  <2>4. \A u \in Sockets : \A k \in Opens(u)' : hal2om'[k].type = TypeOf(u)'
    BY <1>2, <1>5, <2>1, <2>2, <2>3 DEF Typed, TakesEntry
  <2>5. QED BY <1>3, <2>1, <2>2, <2>4
<1>6. ASSUME LeavesTypes
      PROVE  Typed'
  <2>1. \A u \in Sockets : TypeOf(u)' = TypeOf(u)
    BY <1>6 DEF LeavesTypes, TypeOf
  <2>2. ASSUME hal2om' = hal2om
        PROVE  \A u \in Sockets : \A k \in Opens(u)' : hal2om'[k].type = TypeOf(u)'
    BY <1>2, <2>1, <2>2 DEF Opens, Where, OpenReqs, Typed
  <2>3. ASSUME NEW s \in Sockets, hal2om' = Append(hal2om, [op |-> "CLOSE_SOCKET", id |-> s])
        PROVE  \A u \in Sockets : \A k \in Opens(u)' : hal2om'[k].type = TypeOf(u)'
    <3>1. PICK m \in HalToOmMsgs : m = [op |-> "CLOSE_SOCKET", id |-> s]
      BY DEF HalToOmMsgs
    <3>2. hal2om' = Append(hal2om, m)
      BY <2>3, <3>1
    <3>3. \A u \in Sockets : Where(Append(hal2om, m), OpenReqs(u)) = Opens(u)
                             /\ Opens(u) \subseteq 1 .. Len(hal2om)
      <4>1. \A u \in Sockets : m \notin OpenReqs(u)
        BY <3>1 DEF OpenReqs
      <4>2. QED BY <1>1, <4>1, WhereAppended DEF Opens
    <3>4. \A l \in 1 .. Len(hal2om) : Append(hal2om, m)[l] = hal2om[l]
      BY <1>1
    <3>5. \A u \in Sockets : \A k \in Where(Append(hal2om, m), OpenReqs(u)) :
             Append(hal2om, m)[k].type = TypeOf(u)'
      BY <1>2, <2>1, <3>3, <3>4 DEF Typed
    <3>6. QED BY <3>2, <3>5 DEF Opens, OpenReqs
  <2>4. \A u \in Sockets : \A k \in Opens(u)' : hal2om'[k].type = TypeOf(u)'
    BY <1>6, <2>2, <2>3 DEF LeavesTypes
  <2>5. QED BY <1>3, <2>1, <2>4
<1>7. QED BY <1>4, <1>5, <1>6

-----------------------------------------------------------------------------
(* One more command to the app manager: what it takes for an open request.    *)
LEMMA CommandSent ==
  ASSUME NInv, NEW m \in OmToAwmMsgs, om2awm' = Append(om2awm, m), UNCHANGED socketDetails,
         \A t \in Types : m \in Matched(t) =>
           \E S \in SUBSET Sockets :
             /\ Fits(S, t) /\ m.id \in S
             /\ \A l \in Where(om2awm, Matched(t)) : om2awm[l].id \in S
             /\ \A u \in Sockets : Holding(t, u) # {} => u \in S \/ OrderedAt(u, t) # {}
  PROVE  AppRoom'
<1> DEFINE q == Append(om2awm, m)
<1>1. om2awm \in Seq(OmToAwmMsgs)
  BY RoomTypes
<1>2. /\ Len(om2awm) \in Nat /\ q[Len(om2awm) + 1] = m
      /\ \A k \in 1 .. Len(om2awm) : q[k] = om2awm[k]
  BY <1>1
<1>3. \A M : /\ Where(om2awm, M) \subseteq 1 .. Len(om2awm)
             /\ m \notin M => Where(q, M) = Where(om2awm, M)
             /\ m \in M => Where(q, M) = Where(om2awm, M) \cup {Len(om2awm) + 1}
  BY <1>1, WhereAppended
<1> HIDE DEF q
<1>4. ASSUME NEW t \in Types, NEW k \in Where(q, Matched(t)), NEW S \in SUBSET Sockets,
             Fits(S, t),
             \A l \in Where(q, Matched(t)) : l <= k => q[l].id \in S,
             \A u \in Sockets : Holding(t, u) # {} =>
               u \in S \/ \E l \in Where(q, AppClosesAt(u, t)) : l < k
      PROVE  Fits(S, t) /\ Covers(S, t, k)'
  <2>1. \A u \in Sockets : Holding(t, u)' = Holding(t, u)
    BY DEF Holding
  <2>2. om2awm' = q
    BY DEF q
  <2>3. \A u \in Sockets : OrderedAt(u, t)' = Where(q, AppClosesAt(u, t))
    BY <2>2 DEF OrderedAt, AppClosesAt, AppCloses
  <2>4. Where(om2awm, Matched(t))' = Where(q, Matched(t))
    BY <2>2 DEF Matched
  <2>5. \A l \in Where(om2awm, Matched(t))' : l <= k => om2awm'[l].id \in S
    BY <1>4, <2>2, <2>4
  <2>6. \A u \in Sockets : Holding(t, u)' # {} => u \in S \/ \E l \in OrderedAt(u, t)' : l < k
    BY <1>4, <2>1, <2>3
  <2>7. QED BY <1>4, <2>5, <2>6 DEF Covers
<1>5. ASSUME NEW t \in Types, NEW k \in Where(q, Matched(t))
      PROVE  \E S \in SUBSET Sockets : Fits(S, t) /\ Covers(S, t, k)'
  <2>1. CASE k \in Where(om2awm, Matched(t))
    <3>1. PICK S \in SUBSET Sockets : Fits(S, t) /\ Covers(S, t, k)
      BY <2>1 DEF NInv, AppRoom
    <3>2. k \in 1 .. Len(om2awm)
      BY <1>3, <2>1
    <3>3. \A l \in Where(q, Matched(t)) : l <= k => q[l].id \in S
      BY <1>2, <1>3, <3>1, <3>2 DEF Covers
    <3>4. \A u \in Sockets : Where(om2awm, AppClosesAt(u, t)) \subseteq Where(q, AppClosesAt(u, t))
      BY <1>3
    <3>5. \A u \in Sockets : Holding(t, u) # {} =>
             u \in S \/ \E l \in Where(q, AppClosesAt(u, t)) : l < k
      BY <3>1, <3>4 DEF Covers, OrderedAt
    <3>6. QED BY <1>4, <3>1, <3>3, <3>5
  <2>2. CASE k \notin Where(om2awm, Matched(t))
    <3>1. m \in Matched(t) /\ k = Len(om2awm) + 1
      BY <1>3, <2>2
    <3>2. PICK S \in SUBSET Sockets :
             /\ Fits(S, t) /\ m.id \in S
             /\ \A l \in Where(om2awm, Matched(t)) : om2awm[l].id \in S
             /\ \A u \in Sockets : Holding(t, u) # {} => u \in S \/ OrderedAt(u, t) # {}
      BY <3>1
    <3>3. \A l \in Where(q, Matched(t)) : l <= k => q[l].id \in S
      BY <1>2, <1>3, <3>2
    <3>4. ASSUME NEW u \in Sockets, Holding(t, u) # {}, u \notin S
          PROVE  \E l \in Where(q, AppClosesAt(u, t)) : l < k
      <4>1. PICK l : l \in OrderedAt(u, t)
        BY <3>2, <3>4
      <4>2. l \in 1 .. Len(om2awm) /\ l \in Where(q, AppClosesAt(u, t))
        BY <1>3, <4>1 DEF OrderedAt
      <4>3. QED BY <1>2, <3>1, <4>2
    <3>5. QED BY <1>4, <3>2, <3>3, <3>4
  <2>3. QED BY <2>1, <2>2
<1>6. ASSUME NEW t \in Types
      PROVE  Where(om2awm, Matched(t))' = Where(q, Matched(t))
  BY DEF q, Matched
<1>7. QED
  <2>1. \A t \in Types : \A k \in Where(om2awm, Matched(t))' :
           \E S \in SUBSET Sockets : Fits(S, t) /\ Covers(S, t, k)'
    BY <1>5, <1>6
  <2>2. \A t, S : Fits(S, t)' = Fits(S, t)
    BY DEF Fits, Limit, MaxConn
  <2>3. QED BY <2>1, <2>2 DEF AppRoom

(* When an instance asks its microapp, the sockets with an entry of that type  *)
(* are enough: for the requests in front of it, for this one, and for what  *)
(* the microapp holds and is not yet told to close.                        *)
LEMMA EntriesAreEnough ==
  ASSUME NInv, NEW i \in Live, NEW t \in Types, AppOpen(i) \in Matched(t)
  PROVE  \E S \in SUBSET Sockets :
           /\ Fits(S, t) /\ AppOpen(i).id \in S
           /\ \A l \in Where(om2awm, Matched(t)) : om2awm[l].id \in S
           /\ \A u \in Sockets : Holding(t, u) # {} => u \in S \/ OrderedAt(u, t) # {}
<1>1. /\ InstancesTypeOK /\ LiveIds /\ om2awm \in Seq(OmToAwmMsgs)
      /\ \A s \in Sockets : Asking(s) /\ Held(s)
  BY RoomTypes DEF App
<1>2. Fits(Entered(t), t) /\ \A j \in Live : instances[j].type = TypeOf(instances[j].id)
  BY DEF NInv, HalRoom, Typed
<1>3. \A j \in Live : instances[j].id \in Sockets
  BY <1>1, LiveIsLiveStates DEF LiveIds
<1>4. \A u \in Sockets : \A j \in Serving(u) : instances[j].type = t => u \in Entered(t)
  BY <1>2 DEF Serving, Entered
<1>5. AppOpen(i).id \in Entered(t)
  <2>1. AppOpen(i).id = instances[i].id /\ instances[i].type = t
    BY DEF AppOpen, Matched
  <2>2. QED BY <1>2, <1>3, <2>1 DEF Entered
<1>6. ASSUME NEW l \in Where(om2awm, Matched(t))
      PROVE  om2awm[l].id \in Entered(t)
  <2>1. l \in DOMAIN om2awm /\ om2awm[l] \in Matched(t)
    BY DEF Where
  <2>2. PICK u \in Sockets : u = om2awm[l].id
    BY <2>1, MessageFields DEF Matched, OmToAwmMsgs
  <2>3. l \in Asked(u)
    BY <2>1, <2>2 DEF Asked, Where, AppOpens, Matched
  <2>4. PICK j \in Serving(u) : om2awm[l] = AppOpen(j)
    BY <1>1, <2>3 DEF Asking
  <2>5. instances[j].type = t
    BY <2>1, <2>4 DEF AppOpen, Matched
  <2>6. QED BY <1>4, <2>2, <2>5
<1>7. ASSUME NEW u \in Sockets, Holding(t, u) # {}
      PROVE  u \in Entered(t) \/ OrderedAt(u, t) # {}
  BY <1>1, <1>4, <1>7 DEF Held
<1>8. Entered(t) \in SUBSET Sockets
  BY DEF Entered
<1>9. QED BY <1>2, <1>5, <1>6, <1>7, <1>8

-----------------------------------------------------------------------------
(* The offload manager reads what the HAL sends and leaves its table alone.   *)
LEMMA OmKeepsTyped ==
  ASSUME NInv, UNCHANGED <<stateTable, socket>>,
         hal2om' = hal2om \/ (hal2om # <<>> /\ hal2om' = Tail(hal2om)),
         \A i \in Live' : instances'[i].type = TypeOf(instances'[i].id),
         \A i \in Slots : \A k \in Requested(i)' : om2bmm'[k].type = instances'[i].type
  PROVE  Typed'
<1>1. Typed /\ hal2om \in Seq(HalToOmMsgs)
  BY RoomTypes DEF NInv
<1>2. \A u : TypeOf(u)' = TypeOf(u)
  BY DEF TypeOf
<1>3. ASSUME NEW u \in Sockets, NEW k \in Where(hal2om', OpenReqs(u))
      PROVE  hal2om'[k].type = TypeOf(u)
  <2>1. PICK l \in Where(hal2om, OpenReqs(u)) : hal2om'[k] = hal2om[l]
    BY <1>1, <1>3, ShorterQueue
  <2>2. QED BY <1>1, <2>1 DEF Typed, Opens
<1>4. (\A s \in Sockets : \A k \in Opens(s) : hal2om[k].type = TypeOf(s))'
  BY <1>2, <1>3 DEF Opens, OpenReqs
<1>5. (\A i \in Live : instances[i].type = TypeOf(instances[i].id))'
  BY <1>2
<1>6. (\A i \in Slots : \A k \in Requested(i) : om2bmm[k].type = instances[i].type)'
  OBVIOUS
<1>7. (\A x \in Indices : socket[x].inUse => socket[x].protocol = TypeOf(socket[x].socketId))'
  BY <1>1, <1>2 DEF Typed
<1>8. QED BY <1>4, <1>5, <1>6, <1>7 DEF Typed

(* No more GATT sessions hold an instance. *)
LEMMA GattRoomKept ==
  ASSUME NInv, \A i \in Slots : instances'[i].state = "Gatt" => instances[i].state = "Gatt"
  PROVE  GattRoom'
<1>1. GattHeld' \subseteq GattHeld /\ GattHeld \subseteq Slots
  BY DEF GattHeld
<1>2. IsFiniteSet(Slots)
  BY SizesAssumption, FS_Interval DEF Slots
<1>3. /\ IsFiniteSet(GattHeld) /\ IsFiniteSet(GattHeld')
      /\ Cardinality(GattHeld') <= Cardinality(GattHeld)
  BY <1>1, <1>2, FS_Subset
<1>4. Cardinality(GattHeld) \in Nat /\ Cardinality(GattHeld') \in Nat
  BY <1>3, FS_CardinalityType
<1>5. QED BY <1>3, <1>4, GattAssumption DEF NInv, GattRoom

(* Nothing is asked of the microstack for instance i by what is not a request. *)
LEMMA RequestsKept ==
  ASSUME NInv, NEW i \in Slots,
         om2bmm' = om2bmm \/ \E m \in OmToBmmMsgs : m \notin ReqsFor(i) /\ om2bmm' = Append(om2bmm, m),
         instances'[i].type = instances[i].type
  PROVE  \A k \in Requested(i)' : om2bmm'[k].type = instances'[i].type
<1>1. Typed /\ om2bmm \in Seq(OmToBmmMsgs)
  BY RoomTypes DEF NInv
<1>2. Spares(om2bmm, om2bmm', OmToBmmMsgs, ReqsFor(i))
  BY DEF Spares
<1>3. \A k \in Where(om2bmm', ReqsFor(i)) : \E l \in Where(om2bmm, ReqsFor(i)) : om2bmm'[k] = om2bmm[l]
  BY <1>1, <1>2, SparedWhere
<1>4. \A k \in Where(om2bmm', ReqsFor(i)) : om2bmm'[k].type = instances'[i].type
  BY <1>1, <1>3 DEF Typed, Requested
<1>5. QED BY <1>4 DEF Requested, ReqsFor

(* An event at an instance changes no type and asks the microstack for no    *)
(* connection; what it asks of a microapp, the entries are enough for.      *)
LEMMA EventRoom ==
  ASSUME NInv, NEW i \in Slots, NEW evt \in Events, NEW c \in ConnIds \cup {InvalidConnId},
         ProcessEvent(i, evt, c), UNCHANGED <<stateTable, socket, socketDetails>>,
         hal2om' = hal2om \/ (hal2om # <<>> /\ hal2om' = Tail(hal2om))
  PROVE  Typed' /\ GattRoom' /\ AppRoom'
<1>1. /\ InstancesTypeOK /\ Rests /\ LiveIds /\ Typed /\ AppRoom
      /\ \A j \in Slots : instances[j].pseudo_id \in ConnIds \cup {InvalidConnId}
  BY RoomTypes DEF NInv
<1>2. /\ \A j \in Slots \ {i} : instances'[j] = instances[j]
      /\ \A j \in Slots : instances'[j].id = instances[j].id /\ instances'[j].type = instances[j].type
      /\ IF <<instances[i].state, evt>> \in Expected THEN Moves(i, evt) ELSE Ignores(i)
  BY <1>1, EventMoves
<1>3. /\ \A j \in Live' : j \in Live
      /\ \A j \in Slots : instances'[j].state = "Gatt" => instances[j].state = "Gatt"
      /\ om2bmm' = om2bmm \/ \E m \in {CloseReq(i), SetParams(i)} : om2bmm' = Append(om2bmm, m)
      /\ \/ om2awm' = om2awm \/ om2awm' = Append(om2awm, AppClose(i))
         \/ om2awm' = Append(om2awm, AppOpen(i))
      /\ om2awm' # om2awm => i \in Live
  <2>1. CASE <<instances[i].state, evt>> \notin Expected
    <3>1. instances'[i].state = instances[i].state /\ om2bmm' = om2bmm /\ om2awm' = om2awm
      BY <1>2, <2>1 DEF Ignores, Silent
    <3>2. QED BY <1>2, <3>1 DEF Live
  <2>2. CASE <<instances[i].state, evt>> \in Expected
    <3>1. Moves(i, evt) /\ i \in Live
      BY <1>2, <2>2, ExpectedIsLive DEF Live, Early
    <3>2. instances'[i].state # "Gatt"
      BY <3>1 DEF Moves, AsksMicroapp, Refuses, Reports, TakesBack, Unoffloads, UnoffloadsEarly,
                  GivesUp, Finishes, Passes
    <3>3. om2bmm' = om2bmm \/ \E m \in {CloseReq(i), SetParams(i)} : om2bmm' = Append(om2bmm, m)
      BY <3>1 DEF Moves, AsksMicroapp, Refuses, Reports, TakesBack, Unoffloads, UnoffloadsEarly,
                  GivesUp, Finishes
    <3>4. \/ om2awm' = om2awm \/ om2awm' = Append(om2awm, AppClose(i))
          \/ om2awm' = Append(om2awm, AppOpen(i))
      BY <3>1 DEF Moves, AsksMicroapp, Refuses, Reports, TakesBack, Unoffloads, UnoffloadsEarly,
                  GivesUp, Finishes
    <3>5. QED BY <1>2, <3>1, <3>2, <3>3, <3>4 DEF Live
  <2>3. QED BY <2>1, <2>2
<1>4. GattRoom'
  BY <1>3, GattRoomKept
<1>5. Typed'
  <2>1. \A j \in Live' : instances'[j].type = TypeOf(instances'[j].id)
    BY <1>1, <1>2, <1>3 DEF Typed, Live
  <2>2. ASSUME NEW j \in Slots
        PROVE  \A k \in Requested(j)' : om2bmm'[k].type = instances'[j].type
    <3>1. CloseReq(i) \in OmToBmmMsgs /\ SetParams(i) \in OmToBmmMsgs
      BY <1>1 DEF CloseReq, SetParams, OmToBmmMsgs
    <3>2. CloseReq(i) \notin ReqsFor(j) /\ SetParams(i) \notin ReqsFor(j)
      BY DEF CloseReq, SetParams, ReqsFor
    <3>3. \/ om2bmm' = om2bmm
          \/ \E m \in OmToBmmMsgs : m \notin ReqsFor(j) /\ om2bmm' = Append(om2bmm, m)
      BY <1>3, <3>1, <3>2
    <3>4. QED BY <1>2, <3>3, RequestsKept
  <2>3. QED BY <2>1, <2>2, OmKeepsTyped
<1>6. AppRoom'
  <2>1. CASE om2awm' = om2awm
    BY <1>1, <2>1 DEF AppRoom, Covers, Where, Matched, Holding, OrderedAt, AppClosesAt, AppCloses,
                      Fits, Limit, MaxConn
  <2>2. CASE om2awm' # om2awm
    <3>1. i \in Live /\ instances[i].id \in Sockets
      BY <1>1, <1>3, <2>2, LiveIsLiveStates DEF LiveIds
    <3>2. AppOpen(i) \in OmToAwmMsgs /\ AppClose(i) \in OmToAwmMsgs
      BY <1>1, <3>1, CommandTypes
    <3>3. CASE om2awm' = Append(om2awm, AppClose(i))
      <4>1. \A t : AppClose(i) \notin Matched(t)
        BY DEF AppClose, Matched
      <4>2. QED BY <3>2, <3>3, <4>1, CommandSent
    <3>4. CASE om2awm' = Append(om2awm, AppOpen(i))
      <4>1. \A t \in Types : AppOpen(i) \in Matched(t) =>
              \E S \in SUBSET Sockets :
                /\ Fits(S, t) /\ AppOpen(i).id \in S
                /\ \A l \in Where(om2awm, Matched(t)) : om2awm[l].id \in S
                /\ \A u \in Sockets : Holding(t, u) # {} => u \in S \/ OrderedAt(u, t) # {}
        BY <3>1, EntriesAreEnough
      <4>2. QED BY <3>2, <3>4, <4>1, CommandSent
    <3>5. QED BY <1>3, <2>2, <3>3, <3>4
  <2>3. QED BY <2>1, <2>2
<1>7. QED BY <1>4, <1>5, <1>6

(* A step that leaves the app manager's queue and its tables alone. *)
LEMMA AppRoomQuiet ==
  ASSUME AppRoom, UNCHANGED <<om2awm, socketDetails>>
  PROVE  AppRoom'
BY DEF AppRoom, Covers, Where, Matched, Holding, OrderedAt, AppClosesAt, AppCloses, Fits, Limit,
       MaxConn

(* An open request that is taken: the instance gets the type of the HAL's entry. *)
LEMMA OpenRoom ==
  ASSUME NInv, handle_open_socket, UNCHANGED <<stateTable, socket, socketDetails>>
  PROVE  Typed' /\ GattRoom' /\ AppRoom'
<1>1. /\ InstancesTypeOK /\ Typed /\ AppRoom /\ hal2om \in Seq(HalToOmMsgs)
      /\ om2bmm \in Seq(OmToBmmMsgs) /\ \A i \in Slots : Instance(i)
  BY RoomTypes DEF NInv
<1>2. /\ hal2om # <<>> /\ hal2om' = Tail(hal2om) /\ Head(hal2om).op = "OPEN_SOCKET"
      /\ om2awm' = om2awm
  BY DEF handle_open_socket, Next1
<1>3. AppRoom'
  BY <1>1, <1>2, AppRoomQuiet
<1>4. CASE find_idle_offload_instance = 0
  <2>1. UNCHANGED <<instances, om2bmm>>
    BY <1>4 DEF handle_open_socket
  <2>2. GattRoom'
    BY <2>1, GattRoomKept
  <2>3. \A i \in Live' : instances'[i].type = TypeOf(instances'[i].id)
    BY <1>1, <2>1 DEF Typed, Live
  <2>4. \A i \in Slots : \A k \in Requested(i)' : om2bmm'[k].type = instances'[i].type
    BY <2>1, RequestsKept
  <2>5. QED BY <1>2, <1>3, <2>2, <2>3, <2>4, OmKeepsTyped
<1>5. CASE find_idle_offload_instance # 0
  <2>1. PICK i \in Slots : i = find_idle_offload_instance /\ instances[i].state = "Idle"
    BY <1>1, <1>5, IdleSlot
  <2>2. PICK s \in Sockets, t \in Types : s = Head(hal2om).id /\ t = Head(hal2om).type
    BY <1>1, <1>2, QueueTypes, MessageFields
  <2>3. /\ instances' = [instances EXCEPT ![i] =
                            [@ EXCEPT !.state = NextState("Idle", "OFFLOAD_REQ"), !.id = s,
                                      !.type = t, !.ep = Head(hal2om).ep]]
        /\ om2bmm' = Append(om2bmm, [op |-> "OFFLOAD_REQ", id |-> s, type |-> t, context |-> i])
    BY <1>5, <2>1, <2>2 DEF handle_open_socket
  <2>4. /\ \A j \in Slots \ {i} : instances'[j] = instances[j]
        /\ instances'[i].state = "OffloadReq" /\ instances'[i].id = s /\ instances'[i].type = t
    BY <1>1, <2>3, FreeRows DEF InstancesTypeOK
  <2>5. GattRoom'
    BY <2>4, GattRoomKept
  <2>6. t = TypeOf(s)
    <3>1. 1 \in Opens(s) /\ hal2om[1] = Head(hal2om)
      <4>1. 1 \in DOMAIN hal2om /\ hal2om[1] = Head(hal2om) /\ Head(hal2om) \in HalToOmMsgs
        BY <1>1, <1>2
      <4>2. QED BY <1>2, <2>2, <4>1 DEF Opens, Where, OpenReqs
    <3>2. QED BY <1>1, <2>2, <3>1 DEF Typed
  <2>7. \A j \in Live' : instances'[j].type = TypeOf(instances'[j].id)
    BY <1>1, <2>4, <2>6 DEF Typed, Live
  <2>8. PICK m \in OmToBmmMsgs : m = [op |-> "OFFLOAD_REQ", id |-> s, type |-> t, context |-> i]
    BY DEF OmToBmmMsgs
  <2>9. om2bmm' = Append(om2bmm, m) /\ m.type = t /\ m.context = i
    BY <2>3, <2>8
  <2>10. ASSUME NEW j \in Slots
         PROVE  \A k \in Requested(j)' : om2bmm'[k].type = instances'[j].type
    <3>1. CASE j # i
      <4>1. m \notin ReqsFor(j) /\ instances'[j].type = instances[j].type
        BY <2>4, <2>9, <3>1 DEF ReqsFor
      <4>2. QED BY <2>9, <4>1, RequestsKept
    <3>2. CASE j = i
      <4>1. Requested(i) = {}
        BY <1>1, <2>1 DEF Instance, Waiting
      <4>2. Where(Append(om2bmm, m), ReqsFor(i)) \subseteq {Len(om2bmm) + 1}
        BY <1>1, <4>1, WhereAppended DEF Requested
      <4>3. Append(om2bmm, m)[Len(om2bmm) + 1] = m
        BY <1>1
      <4>4. Requested(i)' \subseteq {Len(om2bmm) + 1}
        BY <2>9, <4>2 DEF Requested, ReqsFor
      <4>5. QED BY <2>4, <2>9, <3>2, <4>3, <4>4
    <3>3. QED BY <3>1, <3>2
  <2>11. QED BY <1>2, <1>3, <2>5, <2>7, <2>10, OmKeepsTyped
<1>6. QED BY <1>4, <1>5

(* A GATT session that takes an instance is counted. *)
LEMMA GattSessionsRoom ==
  ASSUME NInv, GattSessions, UNCHANGED <<stateTable, socket, socketDetails>>
  PROVE  Typed' /\ GattRoom' /\ AppRoom'
<1>1. InstancesTypeOK /\ Typed /\ AppRoom /\ GattRoom
  BY RoomTypes DEF NInv
<1>2. UNCHANGED <<hal2om, om2bmm, om2awm>>
  BY DEF GattSessions, gatt_offload, gatt_clear_offload_data, channels
<1>3. ASSUME NEW i \in Slots, instances'[i].state \in {"Idle", "Gatt"},
             instances'[i].type = instances[i].type,
             \A j \in Slots \ {i} : instances'[j] = instances[j]
      PROVE  Typed' /\ AppRoom'
  <2>1. \A j \in Live' : instances'[j].type = TypeOf(instances'[j].id)
    BY <1>1, <1>3 DEF Typed, Live
  <2>2. \A j \in Slots : instances'[j].type = instances[j].type
    BY <1>3
  <2>3. \A j \in Slots : \A k \in Requested(j)' : om2bmm'[k].type = instances'[j].type
    BY <1>2, <2>2, RequestsKept
  <2>4. QED BY <1>1, <1>2, <2>1, <2>3, OmKeepsTyped, AppRoomQuiet
<1>4. CASE gatt_offload
  <2>1. PICK i \in Slots : i = find_idle_offload_instance
    BY <1>1, <1>4, IdleSlot DEF gatt_offload
  <2>2. instances' = [instances EXCEPT ![i] = [@ EXCEPT !.state = "Gatt", !.id = NoSocket]]
    BY <1>4, <2>1 DEF gatt_offload
  <2>3. /\ instances'[i].state = "Gatt" /\ instances'[i].type = instances[i].type
        /\ \A j \in Slots \ {i} : instances'[j] = instances[j]
    BY <1>1, <2>2 DEF InstancesTypeOK
  <2>4. GattHeld' \subseteq GattHeld \cup {i} /\ GattHeld \subseteq Slots
    BY <2>3 DEF GattHeld
  <2>5. IsFiniteSet(GattHeld)
    <3>1. IsFiniteSet(Slots)
      BY SizesAssumption, FS_Interval DEF Slots
    <3>2. QED BY <2>4, <3>1, FS_Subset
  <2>6. Cardinality(GattHeld) < MaxGattSessions
    BY <1>4 DEF gatt_offload, GattHeld
  <2>7. /\ IsFiniteSet(GattHeld \cup {i})
        /\ Cardinality(GattHeld \cup {i}) <= Cardinality(GattHeld) + 1
        /\ Cardinality(GattHeld) \in Nat /\ Cardinality(GattHeld \cup {i}) \in Nat
    <3>1. Cardinality(GattHeld) \in Nat
      BY <2>5, FS_CardinalityType
    <3>2. /\ IsFiniteSet(GattHeld \cup {i})
          /\ Cardinality(GattHeld \cup {i})
               = IF i \in GattHeld THEN Cardinality(GattHeld) ELSE Cardinality(GattHeld) + 1
      BY <2>5, FS_AddElement
    <3>3. QED BY <3>1, <3>2
  <2>8. /\ Cardinality(GattHeld') <= Cardinality(GattHeld \cup {i}) /\ Cardinality(GattHeld') \in Nat
    BY <2>4, <2>7, FS_Subset, FS_CardinalityType
  <2>9. GattRoom'
    BY <2>6, <2>7, <2>8, GattAssumption DEF GattRoom
  <2>10. QED BY <1>3, <2>3, <2>9
<1>5. ASSUME NEW i \in Slots, gatt_clear_offload_data(i)
      PROVE  Typed' /\ GattRoom' /\ AppRoom'
  <2>1. /\ instances'[i].state = "Idle" /\ instances'[i].type = instances[i].type
        /\ \A j \in Slots \ {i} : instances'[j] = instances[j]
    BY <1>1, <1>5 DEF gatt_clear_offload_data, InstancesTypeOK
  <2>2. GattRoom'
    BY <2>1, GattRoomKept
  <2>3. QED BY <1>3, <2>1, <2>2
<1>6. QED BY <1>4, <1>5 DEF GattSessions

(* Every handler of the offload manager. *)
LEMMA OmRoom ==
  ASSUME NInv,
         OmStep(FromHal) \/ OmStep(FromMicrostack) \/ OmStep(FromMicroapps) \/ OmStep(GattSessions)
  PROVE  HalRoom' /\ Typed' /\ GattRoom' /\ AppRoom'
<1>1. /\ FromHal \/ FromMicrostack \/ FromMicroapps \/ GattSessions
      /\ UNCHANGED <<stateTable, socket, socketDetails>>
      /\ InstancesTypeOK /\ hal2om \in Seq(HalToOmMsgs) /\ bmm2om \in Seq(BmmToOmMsgs)
      /\ awm2om \in Seq(AwmToOmMsgs) /\ Typed /\ AppRoom /\ HalRoom
      /\ \A i \in Slots : instances[i].pseudo_id \in ConnIds \cup {InvalidConnId}
  BY RoomTypes DEF OmStep, halVars, appVars, NInv
<1>2. HalRoom'
  BY <1>1 DEF HalRoom, Fits, Entered, TypeOf, Limit, MaxConn
<1> SUFFICES Typed' /\ GattRoom' /\ AppRoom'
  BY <1>2
<1>3. hal2om' = hal2om \/ (hal2om # <<>> /\ hal2om' = Tail(hal2om))
  <2>1. CASE handle_open_socket \/ handle_close_socket
    BY <2>1 DEF handle_open_socket, handle_close_socket, Next1
  <2>2. CASE FromMicrostack \/ FromMicroapps
    BY <2>2 DEF FromMicrostack, FromMicroapps, microstack_offload_cfm, microstack_unoffload_cfm,
                uapp_open_socket_res, uapp_socket_close_ind
  <2>3. CASE GattSessions
    BY <2>3 DEF GattSessions, gatt_offload, gatt_clear_offload_data, channels
  <2>4. QED BY <1>1, <2>1, <2>2, <2>3 DEF FromHal
<1>4. ASSUME NEW i \in Slots, NEW evt \in Events, NEW c \in ConnIds \cup {InvalidConnId},
             ProcessEvent(i, evt, c)
      PROVE  Typed' /\ GattRoom' /\ AppRoom'
  BY <1>1, <1>3, <1>4, EventRoom
<1>5. ASSUME UNCHANGED <<instances, om2bmm, om2awm>>
      PROVE  Typed' /\ GattRoom' /\ AppRoom'
  <2>1. \A i \in Live' : instances'[i].type = TypeOf(instances'[i].id)
    BY <1>1, <1>5 DEF Typed, Live
  <2>2. \A i \in Slots : \A k \in Requested(i)' : om2bmm'[k].type = instances'[i].type
    BY <1>5, RequestsKept
  <2>3. Typed'
    BY <1>1, <1>3, <2>1, <2>2, OmKeepsTyped
  <2>4. GattRoom'
    BY <1>5, GattRoomKept
  <2>5. QED BY <1>1, <1>5, <2>3, <2>4, AppRoomQuiet
<1>6. ASSUME Drop
      PROVE  Typed' /\ GattRoom' /\ AppRoom'
  BY <1>5, <1>6 DEF Drop
<1>7. CASE handle_open_socket
  BY <1>1, <1>7, OpenRoom
<1>8. CASE handle_close_socket
  <2>1. \/ Drop
        \/ \E i \in Slots : ProcessEvent(i, "UNOFFLOAD_REQ", instances[i].pseudo_id)
    BY <1>1, <1>8, LookUps DEF handle_close_socket
  <2>2. QED BY <1>1, <1>4, <1>6, <2>1 DEF Events
<1>9. CASE microstack_offload_cfm
  <2>1. Head(bmm2om).context \in Slots /\ Head(bmm2om).connId \in ConnIds \cup {InvalidConnId}
    BY <1>1, <1>9, QueueTypes, MessageFields DEF microstack_offload_cfm, Next1
  <2>2. \E evt \in Events : ProcessEvent(Head(bmm2om).context, evt, Head(bmm2om).connId)
    BY <1>9 DEF microstack_offload_cfm, Events
  <2>3. QED BY <1>4, <2>1, <2>2
<1>10. CASE microstack_unoffload_cfm
  <2>1. \/ Drop
        \/ \E i \in Slots :
              ProcessEvent(i, "UNOFFLOAD_FROM_MICROSTACK_SUCCESS", instances[i].pseudo_id)
    BY <1>1, <1>10, LookUps DEF microstack_unoffload_cfm
  <2>2. QED BY <1>1, <1>4, <1>6, <2>1 DEF Events
<1>11. CASE uapp_open_socket_res
  <2>1. \/ Drop
        \/ \E i \in Slots, evt \in {"OFFLOAD_TO_MICROAPP_SUCCESS", "OFFLOAD_TO_MICROAPP_FAILURE"} :
              ProcessEvent(i, evt, instances[i].pseudo_id)
    BY <1>1, <1>11, LookUps DEF uapp_open_socket_res
  <2>2. QED BY <1>1, <1>4, <1>6, <2>1 DEF Events
<1>12. CASE uapp_socket_close_ind
  BY <1>5, <1>12 DEF uapp_socket_close_ind
<1>13. CASE GattSessions
  BY <1>1, <1>13, GattSessionsRoom
<1>14. QED BY <1>1, <1>7, <1>8, <1>9, <1>10, <1>11, <1>12, <1>13
           DEF FromHal, FromMicrostack, FromMicroapps

-----------------------------------------------------------------------------
(* A connection gets the type of the request, and so of the instance. *)
LEMMA BmmRoom ==
  ASSUME NInv, BmmStep(Microstack)
  PROVE  HalRoom' /\ Typed' /\ GattRoom' /\ AppRoom'
<1>1. /\ UNCHANGED <<stateTable, instances, socketDetails, hal2om, om2awm>>
      /\ CInv /\ LiveIds /\ InstancesTypeOK /\ Typed /\ AppRoom /\ HalRoom
      /\ om2bmm \in Seq(OmToBmmMsgs) /\ \A i \in Slots : Instance(i)
  BY RoomTypes DEF BmmStep, halVars, appVars, NInv, Microstack, BmmSocketOffloadReqHandler,
                   BmmSocketCloseReqHandler, BmmSocketSetParamsReqHandler
<1>2. BmmConnStep
  <2>1. UNCHANGED instances
    BY <1>1
  <2>2. CASE \E paramsOk, filterOk \in BOOLEAN : BmmSocketOffloadReqHandler(paramsOk, filterOk)
    BY <1>1, <2>1, <2>2, OffloadReqSteps
  <2>3. CASE BmmSocketCloseReqHandler
    BY <1>1, <2>1, <2>3, CloseReqSteps
  <2>4. CASE BmmSocketSetParamsReqHandler
    BY <1>1, <2>1, <2>4, SetParamsSteps
  <2>5. QED BY <2>2, <2>3, <2>4 DEF BmmStep, Microstack
<1>3. HalRoom'
  BY <1>1 DEF HalRoom, Fits, Entered, TypeOf, Limit, MaxConn
<1>4. GattRoom' /\ AppRoom'
  BY <1>1, GattRoomKept, AppRoomQuiet
<1>5. om2bmm # <<>> /\ om2bmm' = Tail(om2bmm)
  BY <1>2 DEF BmmConnStep, RefuseStep, GrantStep, CloseStep, CreditStep
<1>6. \A i \in Slots : \A k \in Where(om2bmm', ReqsFor(i)) : om2bmm'[k].type = instances[i].type
  <2>1. \A i \in Slots : \A k \in Where(om2bmm', ReqsFor(i)) :
           \E l \in Where(om2bmm, ReqsFor(i)) : om2bmm'[k] = om2bmm[l]
    <3> SUFFICES ASSUME NEW i \in Slots
                 PROVE  \A k \in Where(om2bmm', ReqsFor(i)) :
                           \E l \in Where(om2bmm, ReqsFor(i)) : om2bmm'[k] = om2bmm[l]
      OBVIOUS
    <3>1. PICK q2 : q2 = om2bmm'
      OBVIOUS
    <3>2. q2 = om2bmm \/ (om2bmm # <<>> /\ q2 = Tail(om2bmm))
      BY <1>5, <3>1
    <3>3. \A k \in Where(q2, ReqsFor(i)) : \E l \in Where(om2bmm, ReqsFor(i)) : q2[k] = om2bmm[l]
      BY <1>1, <3>2, ShorterQueue
    <3>4. QED BY <3>1, <3>3
  <2>2. \A i \in Slots : \A l \in Where(om2bmm, ReqsFor(i)) : om2bmm[l].type = instances[i].type
    BY <1>1 DEF Typed, Requested
  <2>3. QED BY <2>1, <2>2
<1>7. ASSUME NEW x \in Indices, socket'[x].inUse
      PROVE  socket'[x].protocol = TypeOf(socket'[x].socketId)
  <2>1. CASE socket[x].inUse /\ socket'[x].protocol = socket[x].protocol
               /\ socket'[x].socketId = socket[x].socketId
    BY <1>1, <2>1 DEF Typed
  <2>2. ASSUME NEW i \in Slots, NEW m \in BmmToOmMsgs, NEW y \in Indices, NEW c \in ConnIds,
               GrantStep(i, y, c, m), x = y
        PROVE  socket'[x].protocol = TypeOf(socket'[x].socketId)
    <3>1. /\ socket'[x].protocol = Head(om2bmm).type /\ socket'[x].socketId = Head(om2bmm).id
          /\ Head(om2bmm) \in ReqsFor(i)
      BY <2>2 DEF GrantStep
    <3>2. 1 \in Requested(i) /\ om2bmm[1] = Head(om2bmm)
      BY <1>1, <1>5, <3>1 DEF Requested, Where
    <3>3. Head(om2bmm).id = instances[i].id /\ Head(om2bmm).type = instances[i].type /\ i \in Live
      <4>1. Waiting(i) /\ om2bmm[1].id = instances[i].id
        BY <1>1, <3>2 DEF Instance
      <4>2. QED BY <1>1, <3>2, <4>1 DEF Typed, Waiting, Live
    <3>4. QED BY <1>1, <3>1, <3>3 DEF Typed
  <2>3. ASSUME NEW i \in Slots, NEW m \in BmmToOmMsgs, NEW y \in Indices, NEW c \in ConnIds,
               GrantStep(i, y, c, m)
        PROVE  socket'[x].protocol = TypeOf(socket'[x].socketId)
    <3>1. CASE x # y
      BY <1>7, <2>1, <2>3, <3>1 DEF GrantStep
    <3>2. QED BY <2>2, <2>3, <3>1
  <2>4. ASSUME NEW y \in Indices, NEW c \in ConnIds \cup {InvalidConnId}, NEW m \in BmmToOmMsgs,
               CloseStep(y, c, m)
        PROVE  socket'[x].protocol = TypeOf(socket'[x].socketId)
    BY <1>7, <2>1, <2>4 DEF CloseStep
  <2>5. ASSUME NEW c \in ConnIds \cup {InvalidConnId}, CreditStep(c)
        PROVE  socket'[x].protocol = TypeOf(socket'[x].socketId)
    BY <1>7, <2>1, <2>5 DEF CreditStep
  <2>6. ASSUME NEW i \in Slots, NEW m \in BmmToOmMsgs, RefuseStep(i, m)
        PROVE  socket'[x].protocol = TypeOf(socket'[x].socketId)
    BY <1>7, <2>1, <2>6 DEF RefuseStep
  <2>7. QED BY <1>2, <2>3, <2>4, <2>5, <2>6 DEF BmmConnStep
<1>8. Typed'
  <2>1. \A s : TypeOf(s)' = TypeOf(s)
    BY <1>1 DEF TypeOf
  <2>2. (\A s \in Sockets : \A k \in Opens(s) : hal2om[k].type = TypeOf(s))'
    BY <1>1, <2>1 DEF Typed, Opens, Where, OpenReqs
  <2>3. (\A i \in Live : instances[i].type = TypeOf(instances[i].id))'
    BY <1>1, <2>1 DEF Typed, Live
  <2>4. (\A i \in Slots : \A k \in Requested(i) : om2bmm[k].type = instances[i].type)'
    BY <1>1, <1>6 DEF Requested, ReqsFor
  <2>6. (\A x \in Indices : socket[x].inUse => socket[x].protocol = TypeOf(socket[x].socketId))'
    BY <1>1, <1>7 DEF TypeOf
  <2>7. QED BY <2>2, <2>3, <2>4, <2>6 DEF Typed
<1>9. QED BY <1>3, <1>4, <1>8

(* A command is read: what its microapp holds afterwards it held before, or was *)
(* asked to, and what it was told to close is gone.                        *)
LEMMA CommandRead ==
  ASSUME NInv, om2awm # <<>>, om2awm' = Tail(om2awm),
         \A t \in Types, u \in Sockets : Holding(t, u)' # {} =>
           \/ Holding(t, u) # {} /\ Head(om2awm) \notin AppClosesAt(u, t)
           \/ Head(om2awm) \in Matched(t) /\ Head(om2awm).id = u
  PROVE  AppRoom'
<1> DEFINE q == Tail(om2awm)
<1>1. om2awm \in Seq(OmToAwmMsgs) /\ AppRoom
  BY RoomTypes DEF NInv
<1>2. /\ Len(om2awm) \in Nat /\ Head(om2awm) = om2awm[1] /\ om2awm' = q
      /\ \A k \in 1 .. Len(om2awm) - 1 : q[k] = om2awm[k + 1]
  BY <1>1
<1>3. \A M : /\ Where(om2awm, M) \subseteq 1 .. Len(om2awm)
             /\ \A k : k \in Where(q, M) <=> k \in 1 .. Len(om2awm) - 1 /\ k + 1 \in Where(om2awm, M)
             /\ Head(om2awm) \in M <=> 1 \in Where(om2awm, M)
  BY <1>1, WhereTailed
<1> HIDE DEF q
<1>4. ASSUME NEW t \in Types, NEW k \in Where(q, Matched(t))
      PROVE  \E S \in SUBSET Sockets : Fits(S, t) /\ Covers(S, t, k)'
  <2>1. k \in 1 .. Len(om2awm) - 1 /\ k + 1 \in Where(om2awm, Matched(t))
    BY <1>3
  <2>2. PICK S \in SUBSET Sockets : Fits(S, t) /\ Covers(S, t, k + 1)
    BY <1>1, <2>1 DEF AppRoom
  <2>3. ASSUME NEW l \in Where(q, Matched(t)), l <= k
        PROVE  q[l].id \in S
    <3>1. l \in 1 .. Len(om2awm) - 1 /\ l + 1 \in Where(om2awm, Matched(t))
      BY <1>3
    <3>2. l + 1 <= k + 1
      BY <1>2, <2>1, <2>3, <3>1
    <3>3. QED BY <1>2, <2>2, <3>1, <3>2 DEF Covers
  <2>4. ASSUME NEW u \in Sockets, Holding(t, u)' # {}, u \notin S
        PROVE  \E l \in Where(q, AppClosesAt(u, t)) : l < k
    <3>1. ~(Head(om2awm) \in Matched(t) /\ Head(om2awm).id = u)
      <4>1. ASSUME Head(om2awm) \in Matched(t)
            PROVE  Head(om2awm).id \in S
        <5>1. 1 \in Where(om2awm, Matched(t)) /\ 1 <= k + 1
          BY <1>2, <1>3, <2>1, <4>1
        <5>2. QED BY <1>2, <2>2, <5>1 DEF Covers
      <4>2. QED BY <2>4, <4>1
    <3>2. Holding(t, u) # {} /\ Head(om2awm) \notin AppClosesAt(u, t)
      BY <2>4, <3>1
    <3>3. PICK l \in OrderedAt(u, t) : l < k + 1
      BY <2>2, <2>4, <3>2 DEF Covers
    <3>4. l \in 1 .. Len(om2awm) /\ l # 1 /\ l \in Where(om2awm, AppClosesAt(u, t))
      BY <1>3, <3>2, <3>3 DEF OrderedAt
    <3>5. PICK j \in 1 .. Len(om2awm) - 1 : j + 1 = l
      <4>1. l - 1 \in 1 .. Len(om2awm) - 1 /\ (l - 1) + 1 = l
        BY <1>2, <3>4
      <4>2. QED BY <4>1
    <3>6. j \in Where(q, AppClosesAt(u, t)) /\ j < k
      BY SMTT(30), <1>2, <1>3, <2>1, <3>3, <3>4, <3>5
    <3>7. QED BY <3>6
  <2>5. Covers(S, t, k)'
    <3>1. \A u \in Sockets : OrderedAt(u, t)' = Where(q, AppClosesAt(u, t))
      BY <1>2 DEF OrderedAt, AppClosesAt, AppCloses
    <3>2. \A l \in Where(om2awm, Matched(t))' : l <= k => om2awm'[l].id \in S
      BY <1>2, <2>3 DEF Matched
    <3>3. \A u \in Sockets : Holding(t, u)' # {} => u \in S \/ \E l \in OrderedAt(u, t)' : l < k
      BY <2>4, <3>1
    <3>4. QED BY <3>2, <3>3 DEF Covers
  <2>6. QED BY <2>2, <2>5
<1>5. \A t \in Types : Where(om2awm, Matched(t))' = Where(q, Matched(t))
  BY <1>2 DEF Matched
<1>6. QED
  <2>1. \A t \in Types : \A k \in Where(om2awm, Matched(t))' :
           \E S \in SUBSET Sockets : Fits(S, t) /\ Covers(S, t, k)'
    BY <1>4, <1>5
  <2>2. \A t, S : Fits(S, t)' = Fits(S, t)
    BY DEF Fits, Limit, MaxConn
  <2>3. QED BY <2>1, <2>2 DEF AppRoom

(* The two commands do that. *)
LEMMA CommandHandled ==
  ASSUME NInv, AppManager
  PROVE  AppRoom'
<1>1. /\ om2awm \in Seq(OmToAwmMsgs) /\ AppsTypeOK /\ \A s \in Sockets : Held(s)
  BY RoomTypes DEF App
<1>2. ASSUME open_socket_req
      PROVE  AppRoom'
  <2>1. /\ om2awm # <<>> /\ om2awm' = Tail(om2awm) /\ Head(om2awm).op = "OPEN_REQ"
        /\ Head(om2awm) \in OmToAwmMsgs
    BY <1>1, <1>2, QueueTypes DEF open_socket_req, Next1
  <2>2. \A u, t : Head(om2awm) \notin AppClosesAt(u, t)
    BY <2>1 DEF AppClosesAt, AppCloses
  <2>3. CASE UNCHANGED socketDetails
    <3>1. \A t, u : Holding(t, u)' = Holding(t, u)
      BY <2>3 DEF Holding
    <3>2. QED BY <2>1, <2>2, <3>1, CommandRead
  <2>4. CASE ~UNCHANGED socketDetails
    <3>1. PICK t0 \in Types : t0 = EndpointType(Head(om2awm).ep) /\ socket_opened(t0, Head(om2awm))
      BY <1>2, <2>4 DEF open_socket_req, appVars
    <3>2. /\ Head(om2awm).type = t0
          /\ socketDetails' = [socketDetails EXCEPT ![t0][Lowest(Unused(t0))] = Head(om2awm).id]
      BY <2>4, <3>1 DEF socket_opened, appVars
    <3>3. Head(om2awm) \in Matched(t0)
      BY <2>1, <3>1, <3>2 DEF Matched
    <3>4. \A t \in Types, k \in Entries :
             \/ socketDetails'[t][k] = socketDetails[t][k]
             \/ t = t0 /\ socketDetails'[t][k] = Head(om2awm).id
      BY <1>1, <3>2 DEF AppsTypeOK
    <3>5. ASSUME NEW t \in Types, NEW u \in Sockets, Holding(t, u)' # {}
          PROVE  \/ Holding(t, u) # {} /\ Head(om2awm) \notin AppClosesAt(u, t)
                 \/ Head(om2awm) \in Matched(t) /\ Head(om2awm).id = u
      <4>1. PICK k \in Entries : socketDetails'[t][k] = u
        BY <3>5 DEF Holding
      <4>2. QED BY <2>2, <3>3, <3>4, <4>1 DEF Holding
    <3>6. QED BY <2>1, <3>5, CommandRead
  <2>5. QED BY <2>3, <2>4
<1>3. ASSUME close_socket_cmd
      PROVE  AppRoom'
  <2>1. /\ om2awm # <<>> /\ om2awm' = Tail(om2awm) /\ Head(om2awm).op = "CLOSE_CMD"
        /\ Head(om2awm) \in OmToAwmMsgs
    BY <1>1, <1>3, QueueTypes DEF close_socket_cmd, Next1
  <2>2. PICK s \in Sockets : s = Head(om2awm).id
    BY <2>1, MessageFields DEF OmToAwmMsgs
  <2>3. ASSUME NEW t \in Types, NEW u \in Sockets, Head(om2awm) \notin AppClosesAt(u, t),
               Holding(t, u)' # {}
        PROVE  Holding(t, u) # {}
    <3>1. PICK k \in Entries : socketDetails'[t][k] = u
      BY <2>3 DEF Holding
    <3>2. CASE UNCHANGED socketDetails
      BY <3>1, <3>2 DEF Holding
    <3>3. CASE ~UNCHANGED socketDetails
      <4>1. PICK t0 \in Types : socket_closed(t0, s)
        BY <1>3, <2>2, <3>3 DEF close_socket_cmd, appVars
      <4>2. socketDetails' = [socketDetails EXCEPT ![t0][Lowest(Holding(t0, s))] = NoSocket]
        BY <3>3, <4>1 DEF socket_closed, appVars
      <4>3. socketDetails'[t][k] = socketDetails[t][k] \/ socketDetails'[t][k] = NoSocket
        BY <1>1, <4>2 DEF AppsTypeOK
      <4>4. QED BY <3>1, <4>3, SocketsAssumption DEF Holding
    <3>4. QED BY <3>2, <3>3
  <2>4. ASSUME NEW t \in Types, NEW u \in Sockets, Head(om2awm) \in AppClosesAt(u, t)
        PROVE  Holding(t, u)' = {}
    <3>1. u = s /\ EndpointType(Head(om2awm).ep) = t
      BY <2>2, <2>4 DEF AppClosesAt, AppCloses
    <3>2. socket_closed(t, s)
      BY <1>3, <2>2, <3>1 DEF close_socket_cmd
    <3>3. CASE Holding(t, s) = {}
      BY <3>1, <3>2, <3>3 DEF socket_closed, appVars, Holding
    <3>4. CASE Holding(t, s) # {}
      <4>1. PICK h \in Entries : Holding(t, s) = {h}
        BY <1>1, <3>4 DEF Held, Holding
      <4>2. Lowest(Holding(t, s)) = h
        <5>1. h \in {h} /\ \A l \in {h} : h <= l
          BY MicroAppsAssumption DEF Entries
        <5>2. QED BY <4>1, <5>1 DEF Lowest
      <4>3. socketDetails' = [socketDetails EXCEPT ![t][h] = NoSocket]
        BY <3>2, <3>4, <4>2 DEF socket_closed
      <4>4. \A k \in Entries : socketDetails'[t][k] = IF k = h THEN NoSocket ELSE socketDetails[t][k]
        BY <1>1, <4>1, <4>3 DEF AppsTypeOK
      <4>5. QED BY <3>1, <4>1, <4>4, SocketsAssumption DEF Holding
    <3>5. QED BY <3>3, <3>4
  <2>5. QED BY <2>1, <2>3, <2>4, CommandRead
<1>4. QED BY <1>2, <1>3 DEF AppManager

-----------------------------------------------------------------------------
(* Nothing that the room depends on has changed. *)
LEMMA RoomQuiet ==
  ASSUME NInv, UNCHANGED <<stateTable, instances, socket, hal2om, om2bmm>>
  PROVE  HalRoom' /\ Typed' /\ GattRoom'
<1>1. HalRoom /\ Typed /\ GattRoom
  BY DEF NInv
<1>2. HalRoom'
  BY <1>1 DEF HalRoom, Fits, Entered, TypeOf, Limit, MaxConn
<1>3. GattRoom'
  BY GattRoomKept
<1>4. (\A s \in Sockets : \A k \in Opens(s) : hal2om[k].type = TypeOf(s))'
  BY <1>1 DEF Typed, Opens, Where, OpenReqs, TypeOf
<1>5. (\A i \in Live : instances[i].type = TypeOf(instances[i].id))'
  BY <1>1 DEF Typed, Live, TypeOf
<1>6. (\A i \in Slots : \A k \in Requested(i) : om2bmm[k].type = instances[i].type)'
  BY <1>1 DEF Typed, Requested, Where, ReqsFor
<1>7. (\A x \in Indices : socket[x].inUse => socket[x].protocol = TypeOf(socket[x].socketId))'
  BY <1>1 DEF Typed, TypeOf
<1>8. QED BY <1>2, <1>3, <1>4, <1>5, <1>6, <1>7 DEF Typed

(* The invariant holds at the start. *)
LEMMA RoomStart == Init => NInv
<1> SUFFICES ASSUME Init
             PROVE  NInv
  OBVIOUS
<1>1. AInv /\ Links
  BY AppsStart, LinksStart DEF CInv
<1>2. /\ hal2om = <<>> /\ om2bmm = <<>> /\ om2awm = <<>>
      /\ \A i \in Slots : instances[i].state = "Idle"
      /\ \A x \in Indices : ~socket[x].inUse
      /\ \A s \in Sockets : stateTable[s] = NoEntry
  BY DEF Init, ChannelsInit, HalInit, InstancesInit, BmmInit, FreeInst
<1>3. \A M : Where(hal2om, M) = {} /\ Where(om2bmm, M) = {} /\ Where(om2awm, M) = {}
  BY <1>2 DEF Where
<1>4. Typed
  BY <1>2, <1>3 DEF Typed, Opens, Live, Requested
<1>5. HalRoom
  <2>1. \A t \in Types : Entered(t) = {}
    BY <1>2 DEF Entered, TypeOf, NoEntry, Types
  <2>2. \A t \in Types : Limit(t) \in Nat
    BY LimitTypes
  <2>3. QED BY <2>1, <2>2, FS_EmptySet DEF HalRoom, Fits
<1>6. GattRoom
  <2>1. GattHeld = {}
    BY <1>2 DEF GattHeld
  <2>2. QED BY <2>1, FS_EmptySet, GattAssumption DEF GattRoom
<1>7. AppRoom
  BY <1>3 DEF AppRoom
<1>8. QED BY <1>1, <1>4, <1>5, <1>6, <1>7 DEF NInv

(* Every step of the system keeps the invariant. *)
LEMMA RoomNext == NInv /\ [Next]_vars => NInv'
<1> SUFFICES ASSUME NInv, [Next]_vars
             PROVE  NInv'
  OBVIOUS
<1>1. AInv' /\ Links'
  <2>1. AInv /\ CInv
    BY RoomTypes DEF NInv
  <2>2. QED BY <2>1, AppsNext, LinksNext DEF CInv
<1>2. HalRoom' /\ Typed' /\ GattRoom' /\ AppRoom'
  <2>1. CASE HalStep(StackCall) \/ HalStep(ClosedCommit) \/ HalStep(RxThread)
    <3>1. \/ \E s \in Sockets, c \in Contexts : MakesEntry(s, c)
          \/ \E s \in Sockets : TakesEntry(s)
          \/ LeavesTypes
      BY <2>1, HalEntrySteps
    <3>2. UNCHANGED <<instances, socket, om2bmm, om2awm, socketDetails>>
      BY <2>1 DEF HalStep, appVars
    <3>3. HalRoom' /\ Typed'
      BY <3>1, <3>2, HalRoomKept, HalTyped
    <3>4. AppRoom
      BY DEF NInv
    <3>5. GattRoom' /\ AppRoom'
      BY <3>2, <3>4, GattRoomKept, AppRoomQuiet
    <3>6. QED BY <3>3, <3>5
  <2>2. CASE \/ OmStep(FromHal) \/ OmStep(FromMicrostack) \/ OmStep(FromMicroapps)
             \/ OmStep(GattSessions)
    BY <2>2, OmRoom
  <2>3. CASE BmmStep(Microstack)
    BY <2>3, BmmRoom
  <2>4. CASE AwmStep(AppManager)
    <3>1. AppRoom'
      BY <2>4, CommandHandled DEF AwmStep
    <3>2. UNCHANGED <<stateTable, instances, socket, hal2om, om2bmm>>
      BY <2>4 DEF AwmStep, halVars, AppManager, open_socket_req, close_socket_cmd
    <3>3. QED BY <3>1, <3>2, RoomQuiet
  <2>5. CASE AwmStep(\E t \in Types, s \in Sockets : close_socket_qapi(t, s))
    <3>1. UNCHANGED <<stateTable, instances, socket, hal2om, om2bmm, om2awm, socketDetails>>
      BY <2>5 DEF AwmStep, halVars, appVars, close_socket_qapi
    <3>2. AppRoom
      BY DEF NInv
    <3>3. QED BY <3>1, <3>2, RoomQuiet, AppRoomQuiet
  <2>6. CASE UNCHANGED vars
    <3>1. UNCHANGED <<stateTable, instances, socket, hal2om, om2bmm, om2awm, socketDetails>>
      BY <2>6 DEF vars, channels, halVars, appVars
    <3>2. AppRoom
      BY DEF NInv
    <3>3. QED BY <3>1, <3>2, RoomQuiet, AppRoomQuiet
  <2>7. QED BY <2>1, <2>2, <2>3, <2>4, <2>5, <2>6 DEF Next
<1>3. QED BY <1>1, <1>2 DEF NInv

-----------------------------------------------------------------------------
(* The sockets with an entry, but for the one that asks. *)
Others(s) == (Entered("RFCOMM") \cup Entered("LE_COC")) \ {s}

(* A set that fits, but for one of its members. *)
LEMMA OneLess ==
  ASSUME NEW t \in Types, NEW S, Fits(S, t), NEW s \in S
  PROVE  IsFiniteSet(S \ {s}) /\ Cardinality(S \ {s}) \in Nat /\ Cardinality(S \ {s}) < Limit(t)
<1>1. Cardinality(S) \in Nat /\ Limit(t) \in Nat /\ Cardinality(S) <= Limit(t)
  BY FS_CardinalityType, LimitTypes DEF Fits
<1>2. IsFiniteSet(S \ {s}) /\ Cardinality(S \ {s}) = Cardinality(S) - 1
  BY FS_RemoveElement DEF Fits
<1>3. Cardinality(S \ {s}) \in Nat
  BY <1>2, FS_CardinalityType
<1>4. QED BY <1>1, <1>2, <1>3

(* They are fewer than the HAL lets pass. *)
LEMMA OthersFit ==
  ASSUME NInv, NEW t \in Types, NEW s \in Entered(t)
  PROVE  /\ IsFiniteSet(Others(s)) /\ Cardinality(Others(s)) \in Nat
         /\ Cardinality(Others(s)) < Limit("RFCOMM") + Limit("LE_COC")
<1> DEFINE R == Entered("RFCOMM")
           L == Entered("LE_COC")
<1>1. Fits(R, "RFCOMM") /\ Fits(L, "LE_COC") /\ s \in R \cup L
  BY LimitTypes DEF NInv, HalRoom, Types
<1>2. /\ Cardinality(R) \in Nat /\ Cardinality(L) \in Nat
      /\ Limit("RFCOMM") \in Nat /\ Limit("LE_COC") \in Nat
      /\ Cardinality(R) <= Limit("RFCOMM") /\ Cardinality(L) <= Limit("LE_COC")
  BY <1>1, FS_CardinalityType, LimitTypes DEF Fits
<1> HIDE DEF R, L
<1>3. /\ IsFiniteSet(R \cup L)
      /\ Cardinality(R \cup L) = Cardinality(R) + Cardinality(L) - Cardinality(R \cap L)
  BY <1>1, FS_Union DEF Fits
<1>4. Cardinality(R \cap L) \in Nat
  BY <1>1, FS_Intersection, FS_CardinalityType DEF Fits
<1>5. /\ IsFiniteSet((R \cup L) \ {s}) /\ Cardinality((R \cup L) \ {s}) = Cardinality(R \cup L) - 1
      /\ Cardinality((R \cup L) \ {s}) \in Nat
  <2>1. IsFiniteSet((R \cup L) \ {s}) /\ Cardinality((R \cup L) \ {s}) = Cardinality(R \cup L) - 1
    BY <1>1, <1>3, FS_RemoveElement
  <2>2. QED BY <2>1, FS_CardinalityType
<1>6. Others(s) = (R \cup L) \ {s}
  BY DEF Others, R, L
<1>7. QED
  <2>1. Cardinality((R \cup L) \ {s}) < Limit("RFCOMM") + Limit("LE_COC")
    BY <1>2, <1>3, <1>4, <1>5
  <2>2. QED BY <1>5, <1>6, <2>1

(* An open request that the offload manager reads: the instances that are not    *)
(* idle serve other sockets that the HAL has let pass, or are GATT sessions.    *)
LEMMA OpenFindsInstance ==
  ASSUME NInv, RoomForAll, Next1(hal2om, "OPEN_SOCKET")
  PROVE  find_idle_offload_instance # 0
<1>1. /\ IInv /\ InstancesTypeOK /\ LiveIds /\ hal2om \in Seq(HalToOmMsgs) /\ Typed /\ GattRoom
      /\ hal2om # <<>> /\ Head(hal2om).op = "OPEN_SOCKET"
  BY RoomTypes DEF NInv, Next1
<1>2. Head(hal2om) \in HalToOmMsgs /\ Head(hal2om) = hal2om[1] /\ 1 \in 1 .. Len(hal2om)
  BY <1>1, QueueTypes
<1>3. PICK s \in Sockets : s = Head(hal2om).id
  BY <1>2 DEF HalToOmMsgs
<1>4. 1 \in Opens(s)
  BY <1>1, <1>2, <1>3 DEF Opens, Where, OpenReqs
<1>5. Serving(s) = {}
  BY <1>1, <1>4, OneAnswers
<1>6. PICK t \in Types : s \in Entered(t)
  <2>1. Head(hal2om).type \in Types
    BY <1>1, <1>2 DEF HalToOmMsgs
  <2>2. Head(hal2om).type = TypeOf(s)
    BY <1>1, <1>2, <1>4 DEF Typed
  <2>3. QED BY <2>1, <2>2 DEF Entered
<1>7. /\ IsFiniteSet(Others(s)) /\ Cardinality(Others(s)) \in Nat
      /\ Cardinality(Others(s)) < Limit("RFCOMM") + Limit("LE_COC")
  BY <1>6, OthersFit
<1>8. \A i \in Live : instances[i].id \in Others(s)
  <2> SUFFICES ASSUME NEW i \in Live
               PROVE  instances[i].id \in Others(s)
    OBVIOUS
  <2>1. instances[i].id \in Sockets /\ i \in Serving(instances[i].id)
    BY <1>1, LiveIsLiveStates DEF LiveIds, Serving
  <2>2. TypeOf(instances[i].id) \in Types
    <3>1. instances[i].type = TypeOf(instances[i].id)
      BY <1>1 DEF Typed
    <3>2. QED BY <1>1, <3>1 DEF InstancesTypeOK, Live
  <2>3. QED BY <1>5, <2>1, <2>2 DEF Others, Entered, Types
<1>9. IsFiniteSet(Live) /\ Cardinality(Live) <= Cardinality(Others(s))
  <2> DEFINE f == [i \in Live |-> instances[i].id]
  <2>1. f \in [Live -> Others(s)]
    BY <1>8
  <2>2. \A i, j \in Live : f[i] = f[j] => i = j
    <3> SUFFICES ASSUME NEW i \in Live, NEW j \in Live, instances[i].id = instances[j].id
                 PROVE  i = j
      OBVIOUS
    <3>1. PICK u \in Sockets : u = instances[i].id
      BY <1>8 DEF Others, Entered
    <3>2. One(Serving(u)) /\ i \in Serving(u) /\ j \in Serving(u)
      BY <1>1, <3>1, OneAnswers DEF Serving
    <3>3. QED BY <3>2 DEF One
  <2> HIDE DEF f
  <2>3. QED BY <1>7, <2>1, <2>2, Injected
<1>10. SUFFICES ASSUME find_idle_offload_instance = 0
                PROVE  FALSE
  OBVIOUS
<1>11. Slots = Live \cup GattHeld
  <2> DEFINE Idles == {i \in Slots : instances[i].state = "Idle"}
  <2>1. Idles \in SUBSET Slots /\ First(Idles) = 0
    BY <1>10 DEF find_idle_offload_instance
  <2>2. 0 \notin Slots
    BY SizesAssumption DEF Slots
  <2>3. Idles = {}
    <3> HIDE DEF Idles
    <3>1. QED BY <2>1, <2>2, FirstIsLeast
  <2>4. QED BY <2>3 DEF Live, GattHeld
<1>12. IsFiniteSet(Slots) /\ Cardinality(Slots) = NumInstances
  <2>1. NumInstances \in Nat /\ NumInstances >= 1 /\ NumInstances - 1 + 1 = NumInstances
    BY SizesAssumption
  <2>2. IsFiniteSet(1 .. NumInstances) /\ Cardinality(1 .. NumInstances) = NumInstances - 1 + 1
    BY <2>1, FS_Interval
  <2>3. QED BY <2>1, <2>2 DEF Slots
<1>13. IsFiniteSet(GattHeld)
  BY <1>11, <1>12, FS_Subset
<1>14. Cardinality(Slots) = Cardinality(Live) + Cardinality(GattHeld) - Cardinality(Live \cap GattHeld)
  BY <1>9, <1>11, <1>13, FS_Union
<1>15. /\ Cardinality(Live) \in Nat /\ Cardinality(GattHeld) \in Nat
       /\ Cardinality(Live \cap GattHeld) \in Nat
  BY <1>9, <1>13, FS_Intersection, FS_CardinalityType
<1>16. /\ Limit("RFCOMM") + Limit("LE_COC") + MaxGattSessions <= NumInstances
       /\ Limit("RFCOMM") \in Nat /\ Limit("LE_COC") \in Nat /\ MaxGattSessions \in Nat
       /\ Cardinality(GattHeld) <= MaxGattSessions /\ NumInstances \in Nat
  BY <1>1, LimitTypes, GattAssumption, SizesAssumption DEF RoomForAll, GattRoom
<1>17. QED BY <1>7, <1>9, <1>12, <1>14, <1>15, <1>16

(* Two connections that were made for the same socket are one. *)
LEMMA OneConnEach ==
  ASSUME CInv, NEW x \in Indices, NEW y \in Indices, socket[x].inUse, socket[y].inUse,
         socket[x].socketId = socket[y].socketId
  PROVE  x = y
<1>1. IInv /\ Conn(x) /\ Conn(y) /\ \A i \in Slots : Instance(i)
  BY LinkTypes DEF CInv, PInv
<1>2. PICK u \in Sockets : u = socket[x].socketId
  BY <1>1 DEF Conn
<1>3. PICK i \in Serving(u) : \/ Arriving(i, socket[x].connId) \/ Used(i, socket[x].connId)
                              \/ Leaving(i, socket[x].connId)
  BY <1>1, <1>2 DEF Conn
<1>4. PICK j \in Serving(u) : \/ Arriving(j, socket[y].connId) \/ Used(j, socket[y].connId)
                              \/ Leaving(j, socket[y].connId)
  BY <1>1, <1>2 DEF Conn
<1>5. i = j /\ i \in Slots
  BY <1>1, OneAnswers DEF One, Serving, Live
<1>6. CASE Waiting(i)
  <2>1. Arriving(i, socket[x].connId) /\ Arriving(i, socket[y].connId)
    BY <1>3, <1>4, <1>5, <1>6 DEF Used, Leaving, Connected, Waiting
  <2>2. PICK k \in Where(bmm2om, Grant(i, socket[x].connId)) : TRUE
    BY <2>1 DEF Arriving
  <2>3. PICK l \in Where(bmm2om, Grant(i, socket[y].connId)) : TRUE
    BY <2>1 DEF Arriving
  <2>4. /\ k \in Confirmed(i) /\ bmm2om[k].connId = socket[x].connId
        /\ l \in Confirmed(i) /\ bmm2om[l].connId = socket[y].connId
    BY <2>2, <2>3 DEF Where, Grant, Confirmed
  <2>5. k = l
    BY <1>1, <1>5, <2>4 DEF Instance, One
  <2>6. socket[x].connId = socket[y].connId
    BY <2>4, <2>5
  <2>7. QED BY <1>1, <2>6, ConnsApart
<1>7. CASE ~Waiting(i)
  <2>1. socket[x].connId = instances[i].pseudo_id /\ socket[y].connId = instances[i].pseudo_id
    BY <1>3, <1>4, <1>5, <1>7 DEF Arriving, Used, Leaving
  <2>2. QED BY <1>1, <2>1, ConnsApart
<1>8. QED BY <1>6, <1>7

(* An offload request that the microstack manager reads: its socket has no       *)
(* connection yet, and all connections that there are belong to other sockets   *)
(* that the HAL has let pass.                                              *)
LEMMA OffloadFindsIndex ==
  ASSUME NInv, RoomForAll, Next1(om2bmm, "OFFLOAD_REQ")
  PROVE  ~RefusedByTable(Head(om2bmm).id, Head(om2bmm).type)
<1>1. /\ CInv /\ IInv /\ InstancesTypeOK /\ LiveIds /\ om2bmm \in Seq(OmToBmmMsgs) /\ Typed
      /\ om2bmm # <<>> /\ Head(om2bmm).op = "OFFLOAD_REQ"
      /\ (\A i \in Slots : Instance(i)) /\ \A x \in Indices : Conn(x)
  BY RoomTypes DEF NInv, Next1
<1>2. Head(om2bmm) \in OmToBmmMsgs /\ Head(om2bmm) = om2bmm[1] /\ 1 \in 1 .. Len(om2bmm)
  BY <1>1, QueueTypes
<1>3. PICK i \in Slots : i = Head(om2bmm).context
  BY <1>1, <1>2 DEF OmToBmmMsgs
<1>4. 1 \in Requested(i)
  BY <1>1, <1>2, <1>3 DEF Requested, Where, ReqsFor
<1>5. /\ Waiting(i) /\ Confirmed(i) = {} /\ Head(om2bmm).id = instances[i].id
      /\ Head(om2bmm).type = instances[i].type
  <2>1. Waiting(i) /\ Confirmed(i) = {} /\ om2bmm[1].id = instances[i].id
    BY <1>1, <1>4 DEF Instance
  <2>2. om2bmm[1].type = instances[i].type
    BY <1>1, <1>4 DEF Typed
  <2>3. QED BY <1>2, <2>1, <2>2
<1>6. i \in Live
  BY <1>5 DEF Waiting, Live
<1>7. PICK s \in Sockets : s = instances[i].id
  BY <1>1, <1>6, LiveIsLiveStates DEF LiveIds
<1>8. PICK t \in Types : t = instances[i].type
  BY <1>1 DEF InstancesTypeOK
<1>9. s \in Entered(t) /\ i \in Serving(s)
  <2>1. instances[i].type = TypeOf(instances[i].id)
    BY <1>1, <1>6 DEF Typed
  <2>2. QED BY <1>6, <1>7, <1>8, <2>1 DEF Entered, Serving
<1>10. \A x \in Indices : socket[x].inUse =>
          /\ socket[x].socketId \in Sockets /\ socket[x].socketId # s
          /\ socket[x].protocol = TypeOf(socket[x].socketId) /\ socket[x].protocol \in Types
  <2> SUFFICES ASSUME NEW x \in Indices, socket[x].inUse
               PROVE  /\ socket[x].socketId \in Sockets /\ socket[x].socketId # s
                      /\ socket[x].protocol = TypeOf(socket[x].socketId)
                      /\ socket[x].protocol \in Types
    OBVIOUS
  <2>1. Conn(x)
    BY <1>1
  <2>2. socket[x].socketId \in Sockets /\ socket[x].protocol \in Types
    BY <2>1 DEF Conn
  <2>3. socket[x].protocol = TypeOf(socket[x].socketId)
    BY <1>1 DEF Typed
  <2>4. ASSUME socket[x].socketId = s
        PROVE  FALSE
    <3>1. PICK j \in Serving(s) : \/ Arriving(j, socket[x].connId) \/ Used(j, socket[x].connId)
                                  \/ Leaving(j, socket[x].connId)
      BY <2>1, <2>4 DEF Conn
    <3>2. j = i
      BY <1>1, <1>9, OneAnswers DEF One
    <3>3. Arriving(i, socket[x].connId)
      BY <1>5, <3>1, <3>2 DEF Waiting, Used, Leaving, Connected
    <3>4. PICK k \in Where(bmm2om, Grant(i, socket[x].connId)) : TRUE
      BY <3>3 DEF Arriving
    <3>5. k \in Confirmed(i)
      BY <3>4 DEF Where, Grant, Confirmed
    <3>6. QED BY <1>5, <3>5
  <2>5. QED BY <2>2, <2>3, <2>4
<1>11. Cardinality(Active(t)) < MaxConn(t)
  <2> DEFINE f == [x \in Active(t) |-> socket[x].socketId]
  <2>1. /\ IsFiniteSet(Entered(t) \ {s}) /\ Cardinality(Entered(t) \ {s}) \in Nat
        /\ Cardinality(Entered(t) \ {s}) < Limit(t)
    <3>1. Fits(Entered(t), t)
      BY DEF NInv, HalRoom
    <3>2. QED BY <1>9, <3>1, OneLess
  <2>2. f \in [Active(t) -> Entered(t) \ {s}]
    BY <1>10 DEF Active, Entered
  <2>3. \A x, y \in Active(t) : f[x] = f[y] => x = y
    BY <1>1, OneConnEach DEF Active
  <2> HIDE DEF f
  <2>4. IsFiniteSet(Active(t)) /\ Cardinality(Active(t)) <= Cardinality(Entered(t) \ {s})
    BY <2>1, <2>2, <2>3, Injected
  <2>5. Cardinality(Active(t)) \in Nat /\ Limit(t) \in Nat /\ Limit(t) <= MaxConn(t) /\ MaxConn(t) \in Nat
    BY <2>4, FS_CardinalityType, LimitTypes, SizesAssumption DEF MaxConn
  <2>6. QED BY <2>1, <2>4, <2>5
<1>12. FreeIndices # {}
  <2> SUFFICES ASSUME FreeIndices = {}
               PROVE  FALSE
    OBVIOUS
  <2> DEFINE f == [x \in Indices |-> socket[x].socketId]
  <2>1. \A x \in Indices : socket[x].inUse
    BY DEF FreeIndices
  <2>2. /\ IsFiniteSet(Others(s)) /\ Cardinality(Others(s)) \in Nat
        /\ Cardinality(Others(s)) < Limit("RFCOMM") + Limit("LE_COC")
    BY <1>9, OthersFit
  <2>3. f \in [Indices -> Others(s)]
    <3> SUFFICES ASSUME NEW x \in Indices
                 PROVE  socket[x].socketId \in Others(s)
      OBVIOUS
    <3>1. /\ socket[x].socketId \in Sockets /\ socket[x].socketId # s
          /\ TypeOf(socket[x].socketId) \in Types
      BY <1>10, <2>1
    <3>2. QED BY <3>1 DEF Others, Entered, Types
  <2>4. \A x, y \in Indices : f[x] = f[y] => x = y
    BY <1>1, <2>1, OneConnEach
  <2> HIDE DEF f
  <2>5. IsFiniteSet(Indices) /\ Cardinality(Indices) <= Cardinality(Others(s))
    BY <2>2, <2>3, <2>4, Injected
  <2>6. Cardinality(Indices) = SockMaxConn /\ SockMaxConn \in Nat
    <3>1. SockMaxConn \in Nat /\ SockMaxConn >= 1 /\ (SockMaxConn - 1) - 0 + 1 = SockMaxConn
      BY SizesAssumption DEF SockMaxConn
    <3>2. Cardinality(0 .. SockMaxConn - 1) = (SockMaxConn - 1) - 0 + 1
      BY <3>1, FS_Interval
    <3>3. QED BY <3>1, <3>2 DEF Indices
  <2>7. Limit("RFCOMM") \in Nat /\ Limit("LE_COC") \in Nat
    BY LimitTypes
  <2>8. QED BY <2>2, <2>5, <2>6, <2>7 DEF RoomForAll
<1>13. /\ ~\E x \in Indices : socket[x].inUse /\ socket[x].socketId = Head(om2bmm).id
       /\ ~(Cardinality(Active(t)) >= MaxConn(t))
  <2>1. Cardinality(Active(t)) \in Nat \/ Cardinality(Active(t)) \in Int
    <3>1. IsFiniteSet(Indices)
      BY SizesAssumption, FS_Interval DEF Indices, SockMaxConn
    <3>2. IsFiniteSet(Active(t))
      BY <3>1, FS_Subset DEF Active
    <3>3. QED BY <3>2, FS_CardinalityType
  <2>2. MaxConn(t) \in Nat
    BY SizesAssumption DEF MaxConn
  <2>3. ~(Cardinality(Active(t)) >= MaxConn(t))
    BY <1>11, <2>1, <2>2
  <2>4. QED BY <1>5, <1>7, <1>10, <2>3
<1>14. QED BY <1>5, <1>8, <1>12, <1>13 DEF RefusedByTable

(* An open request that a microapp reads: what it holds, it holds for other      *)
(* sockets of those that had an entry when the request was sent.             *)
LEMMA OpenReqFindsEntry ==
  ASSUME NInv, RoomForAll, Next1(om2awm, "OPEN_REQ"),
         EndpointType(Head(om2awm).ep) = Head(om2awm).type
  PROVE  /\ socketsInUse[Head(om2awm).type] < MaxSocketSupported
         /\ Unused(Head(om2awm).type) # {}
<1>1. /\ IInv /\ AppsTypeOK /\ om2awm \in Seq(OmToAwmMsgs) /\ AppRoom /\ Counters
      /\ om2awm # <<>> /\ Head(om2awm).op = "OPEN_REQ" /\ \A u \in Sockets : App(u)
  BY RoomTypes DEF NInv, AInv, Next1
<1>2. Head(om2awm) \in OmToAwmMsgs /\ Head(om2awm) = om2awm[1] /\ 1 \in 1 .. Len(om2awm)
  BY <1>1, QueueTypes
<1>3. PICK s \in Sockets : s = Head(om2awm).id
  BY <1>1, <1>2 DEF OmToAwmMsgs
<1>4. PICK t \in Types : t = Head(om2awm).type
  BY <1>1, <1>2 DEF OmToAwmMsgs
<1>5. 1 \in Where(om2awm, Matched(t)) /\ 1 \in Asked(s)
  BY <1>1, <1>2, <1>3, <1>4 DEF Where, Matched, Asked, AppOpens
<1>6. PICK S \in SUBSET Sockets : Fits(S, t) /\ Covers(S, t, 1)
  BY <1>1, <1>5 DEF AppRoom
<1>7. s \in S
  BY <1>2, <1>3, <1>5, <1>6 DEF Covers
<1>8. \A u \in Sockets : Holding(t, u) # {} => u \in S
  <2>1. \A u \in Sockets : \A l \in OrderedAt(u, t) : ~(l < 1)
    BY <1>1 DEF OrderedAt, Where
  <2>2. QED BY <1>6, <2>1 DEF Covers
<1>9. Holding(t, s) = {}
  <2>1. Asking(s) /\ Held(s) /\ One(Serving(s))
    BY <1>1, OneAnswers DEF App
  <2>2. PICK i \in Serving(s) : instances[i].state = "OffloadToMicrostackSuccess"
    BY <1>5, <2>1 DEF Asking
  <2>3. Accepted(s) = {}
    BY <1>5, <2>1 DEF Asking
  <2>4. \A j \in Serving(s) : ~Granted(s, j)
    BY <2>1, <2>2, <2>3 DEF One, Granted
  <2>5. Ordered(s) = {}
    <3>1. \A l \in Ordered(s) : l < 1 /\ l \in 1 .. Len(om2awm)
      BY <1>1, <1>5, <2>1 DEF Held, Behind, Asked, Ordered, Where
    <3>2. QED BY <3>1
  <2>6. OrderedAt(s, t) = {}
    BY <2>5 DEF OrderedAt, Ordered, Where, AppClosesAt
  <2>7. QED BY <2>1, <2>4, <2>6 DEF Held
<1> DEFINE Taken == Entries \ Unused(t)
           f == [k \in Taken |-> socketDetails[t][k]]
<1>10. f \in [Taken -> S \ {s}]
  <2> SUFFICES ASSUME NEW k \in Entries, socketDetails[t][k] # NoSocket
               PROVE  socketDetails[t][k] \in S /\ socketDetails[t][k] # s
    BY DEF Unused
  <2>1. PICK u \in Sockets : u = socketDetails[t][k]
    BY <1>1 DEF AppsTypeOK
  <2>2. k \in Holding(t, u)
    BY <2>1 DEF Holding
  <2>3. QED BY <1>8, <1>9, <2>1, <2>2
<1>11. \A k, l \in Taken : f[k] = f[l] => k = l
  <2> SUFFICES ASSUME NEW k \in Entries, NEW l \in Entries, socketDetails[t][k] # NoSocket,
                      socketDetails[t][k] = socketDetails[t][l]
               PROVE  k = l
    BY DEF Unused
  <2>1. PICK u \in Sockets : u = socketDetails[t][k]
    BY <1>1 DEF AppsTypeOK
  <2>2. k \in Holding(t, u) /\ l \in Holding(t, u) /\ Held(u)
    BY <1>1, <2>1 DEF Holding, App
  <2>3. QED BY <2>2 DEF Held
<1> HIDE DEF f
<1>12. /\ IsFiniteSet(S \ {s}) /\ Cardinality(S \ {s}) \in Nat /\ Cardinality(S \ {s}) < Limit(t)
  BY <1>6, <1>7, OneLess
<1>13. Cardinality(Taken) < MaxSocketSupported /\ Cardinality(Taken) \in Nat
  <2> HIDE DEF Taken
  <2>1. IsFiniteSet(Taken) /\ Cardinality(Taken) <= Cardinality(S \ {s})
    BY <1>10, <1>11, <1>12, Injected
  <2>2. Cardinality(Taken) \in Nat
    BY <2>1, FS_CardinalityType
  <2>3. Limit(t) \in Nat /\ Limit(t) <= MaxSocketSupported /\ MaxSocketSupported \in Nat
    BY LimitTypes, MicroAppsAssumption DEF RoomForAll
  <2>4. QED BY <1>12, <2>1, <2>2, <2>3
<1>14. socketsInUse[t] < MaxSocketSupported
  BY <1>1, <1>13 DEF Counters
<1>15. Unused(t) # {}
  <2> SUFFICES ASSUME Unused(t) = {}
               PROVE  FALSE
    OBVIOUS
  <2>1. Taken = Entries
    OBVIOUS
  <2>2. Cardinality(Entries) = MaxSocketSupported /\ MaxSocketSupported \in Nat
    <3>1. /\ MaxSocketSupported \in Nat /\ MaxSocketSupported >= 1
          /\ MaxSocketSupported - 1 + 1 = MaxSocketSupported
      BY MicroAppsAssumption
    <3>2. Cardinality(1 .. MaxSocketSupported) = MaxSocketSupported - 1 + 1
      BY <3>1, FS_Interval
    <3>3. QED BY <3>1, <3>2 DEF Entries
  <2> HIDE DEF Taken
  <2>3. QED BY <1>13, <2>1, <2>2
<1>16. QED BY <1>4, <1>14, <1>15

-----------------------------------------------------------------------------
(* No table behind the HAL refuses for want of room what the HAL has let pass:   *)
(* for any number of sockets, any order of the answers, GATT sessions in the     *)
(* same table of instances, and any limits for which the tables are large enough *)
(* when nothing is being released.  The moment between the release of the HAL's   *)
(* entry and the close command to the microapp needs no table to be larger.      *)
THEOREM NoLateRefusalAlways ==
  ASSUME RoomForAll
  PROVE  Spec => []NoLateRefusal
<1>1. RoomForAll
  OBVIOUS
<1>2. ASSUME NInv
      PROVE  NoLateRefusal
  BY <1>1, <1>2, OpenFindsInstance, OffloadFindsIndex, OpenReqFindsEntry DEF NoLateRefusal
<1>3. Spec => []NInv
  BY RoomStart, RoomNext, PTL DEF Spec
<1>4. QED BY <1>2, <1>3, PTL
=============================================================================
