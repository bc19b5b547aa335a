-------------------------- MODULE GattOffloadProofs --------------------------
(***************************************************************************)
(* A GATT session has one instance and one place, whatever crosses.        *)
(*                                                                         *)
(* GattInv is the core of GattProfileProofs with the Bluetooth stack's and *)
(* the microapps' side of it, and the theorems at the end are its          *)
(* consequences: the variables have their types, and SessionsOwned. The    *)
(* argument is by steps of the whole composition. First the longest of the *)
(* profile manager's operations, the registration and the clear, which     *)
(* works through the places of a connection in turn; then its three        *)
(* message handlers; then the HAL's calls and what it hears; then the      *)
(* requests that the GATT layer queues, where an answer starts the next    *)
(* element at once, and so on; last the microapps.                         *)
(*                                                                         *)
(* It relies on what the assumptions of GattInvAlways say: finite sets, no *)
(* more sessions than there are instances (a registration that finds no    *)
(* instance leaves its place taken, profile_mgr_gatt.c), and a stack that  *)
(* does not hurry: it registers an endpoint once the earlier registration  *)
(* for it is answered, and it clears a connection with nothing else        *)
(* underway. Whatever else the stack, the peer, the filters and the        *)
(* microapps do is free.                                                   *)
(***************************************************************************)
EXTENDS GattProfileProofs

(* A registration that is taken finds nobody about to answer for its endpoint, *)
(* and no clear.                                                           *)
LEMMA Arrives ==
  ASSUME NEW t, NEW h, NEW b, Core(t, h, b), Around(h, b), h # <<>>,
         NEW s \in Sessions, Head(h) \in Reg(s)
  PROVE  /\ ~Working(t, s) /\ stateTable[s] = "OPENING"
         /\ \A j \in Live(t) : t.inst[j].state \in Starting => t.inst[j].ep # reg[s].ep
         /\ \A a \in Acls : ~BeingCleared(t, h, queue, b, a)
         /\ \A k \in SvcSlots(reg[s].ep) :
               t.svcs[reg[s].ep][k].offloadId = 0 => t.svcs[reg[s].ep][k] = FreeService
<1>1. /\ Globals(t) /\ Owned(t) /\ Numbered(t) /\ Ledger(t, h, stateTable)
      /\ ClearsAlone(t, h, queue, b, stateTable)
      /\ h \in Seq(HalToOmMsgs) /\ reg \in Registrations /\ OneOpening(stateTable)
  BY DEF Core, Around
<1>2. ~Working(t, s) /\ stateTable[s] = "OPENING"
  <2>1. Head(h) \in InFlight(h)
    BY <1>1, Taken1
  <2>2. Num(h, Reg(s)) # 0
    BY <1>1, <2>1, Counted
  <2>3. QED BY <1>1, <2>2, EntryOf
<1>3. ASSUME NEW j \in Live(t), t.inst[j].state \in Starting
      PROVE  t.inst[j].ep # reg[s].ep
  <2>1. reg[SesOf(t, j).id].ep = t.inst[j].ep /\ SesOf(t, j).id \in Sessions
    BY <1>1, LiveParts, SeatedParts
  <2>2. Beginning(t, SesOf(t, j).id) /\ Working(t, SesOf(t, j).id)
    BY <1>3 DEF Beginning, Working
  <2>3. stateTable[SesOf(t, j).id] = "OPENING"
    BY <1>1, <2>1, <2>2, EntryOf
  <2>4. SesOf(t, j).id # s
    BY <1>2, <2>2
  <2>5. QED BY <1>1, <1>2, <2>1, <2>3, <2>4 DEF OneOpening
<1>4. \A a \in Acls : ~BeingCleared(t, h, queue, b, a)
  BY <1>1, <1>2 DEF ClearsAlone
<1>5. ASSUME NEW k \in SvcSlots(reg[s].ep), t.svcs[reg[s].ep][k].offloadId = 0
      PROVE  t.svcs[reg[s].ep][k] = FreeService
  <2>1. reg[s].ep \in Endpoints
    BY <1>1, RegParts
  <2>2. ASSUME NEW x \in SesSlots, Seat(t, reg[s].ep, k, x) # NoSession
        PROVE  FALSE
    <3>1. PICK j \in Live(t) : t.inst[j].ep = reg[s].ep /\ t.inst[j].svc = k /\ t.inst[j].ses = x
      BY <1>1, <2>1, <2>2 DEF Owned
    <3>2. SvcOf(t, j).offloadId = 0
      BY <1>5, <3>1 DEF SvcOf
    <3>3. t.inst[j].state = "OffloadReq"
      BY <1>1, <3>2 DEF Numbered
    <3>4. QED BY <1>3, <3>1, <3>3 DEF Starting
  <2>3. QED BY <1>1, <2>1, <2>2 DEF Owned
<1>6. QED BY <1>2, <1>3, <1>4, <1>5

(* With an instance for every session there is one for it. *)
LEMMA InstanceLeft ==
  ASSUME IsFiniteSet(Sessions), Cardinality(Sessions) <= NumInstances,
         NEW t, Globals(t), Owned(t), NEW s \in Sessions, ~Working(t, s)
  PROVE  \E i \in Slots : t.inst[i].state = "Idle"
<1>1. SUFFICES ASSUME \A i \in Slots : t.inst[i].state # "Idle" PROVE FALSE
  OBVIOUS
<1>2. Live(t) = Slots
  BY <1>1 DEF Owned, Live
<1> DEFINE f == [i \in Slots |-> SesOf(t, i).id]
           Others == Sessions \ {s}
<1>3. f \in Injection(Slots, Others)
  <2>1. \A i \in Slots : SesOf(t, i).id \in Others
    BY <1>2 DEF Owned, Seated, Working
  <2>2. \A i, j \in Slots : SesOf(t, i).id = SesOf(t, j).id => i = j
    BY <1>2 DEF Owned
  <2>3. f \in [Slots -> Others]
    BY <2>1
  <2>4. \A i, j \in Slots : f[i] = f[j] => i = j
    BY <2>2
  <2>5. QED BY <2>3, <2>4, Fun_IsInj
<1>4. NumInstances \in Nat \ {0}
  BY NumInstancesAssumption
<1>5. IsFiniteSet(Slots) /\ Cardinality(Slots) = NumInstances
  BY <1>4, FS_Interval DEF Slots
<1>6. /\ IsFiniteSet(Others) /\ Cardinality(Others) = Cardinality(Sessions) - 1
      /\ Cardinality(Sessions) \in Nat
  BY FS_RemoveElement, FS_CardinalityType
<1>7. Cardinality(Slots) <= Cardinality(Others)
  <2> HIDE DEF f, Others
  <2>1. QED BY <1>3, <1>5, <1>6, FS_Injection
<1>8. QED BY <1>4, <1>5, <1>6, <1>7

(* The session that enters leaves everything else as it was. *)
LEMMA CoreEnters ==
  ASSUME NEW t, NEW h, NEW b, Core(t, h, b), Around(h, b), h # <<>>,
         NEW s \in Sessions, Head(h) \in Reg(s),
         NEW i \in Slots, t.inst[i].state = "Idle", NEW e, e = reg[s].ep,
         NEW k \in SvcSlots(e), NEW x \in SesSlots, Seat(t, e, k, x) = NoSession,
         \A y \in SesSlots : Seat(t, e, k, y) # NoSession =>
            t.svcs[e][k].acl = reg[s].acl /\ t.svcs[e][k].service = reg[s].service,
         NEW t1, Enters(t, t1, i, e, k, x, s)
  PROVE  /\ Core(t1, Tail(h), b) /\ Around(Tail(h), b)
         /\ i \in Live(t1) /\ t1.inst[i].state = "OffloadReq" /\ Calm(t1, queue, b, i)
<1>1. /\ Globals(t) /\ Owned(t) /\ Numbered(t) /\ Ledger(t, h, stateTable)
      /\ ClearsAlone(t, h, queue, b, stateTable)
      /\ OneAsk(t, queue, b) /\ AskSense(t, queue, b) /\ IdsFinite(t.bs)
      /\ h \in Seq(HalToOmMsgs) /\ b \in Seq(BsToOmMsgs) /\ queue \in Queues
      /\ reg \in Registrations /\ Acls # {} /\ Tail(h) \in Seq(HalToOmMsgs)
      /\ InFlight(Tail(h)) \subseteq InFlight(h)
  BY Taken1 DEF Core, Around
<1>2. /\ ~Working(t, s)
      /\ \A a \in Acls : ~BeingCleared(t, h, queue, b, a)
  BY Arrives
<1>3. e \in Endpoints
  BY <1>1, RegParts
<1>4. /\ Owned(t1) /\ Live(t1) = Live(t) \cup {i} /\ i \notin Live(t)
      /\ \A j \in Live(t) : /\ t1.inst[j] = t.inst[j] /\ SesOf(t1, j).id = SesOf(t, j).id
                            /\ SvcOf(t1, j).acl = SvcOf(t, j).acl
                            /\ SvcOf(t1, j).offloadId = SvcOf(t, j).offloadId
      /\ SesOf(t1, i).id = s /\ t1.inst[i].state = "OffloadReq"
  <2>1. /\ i \in Slots /\ s \in Sessions /\ k \in SvcSlots(e) /\ x \in SesSlots
        /\ e = reg[s].ep /\ t.inst[i].state = "Idle" /\ Seat(t, e, k, x) = NoSession
        /\ \A y \in SesSlots : Seat(t, e, k, y) # NoSession =>
              t.svcs[e][k].acl = reg[s].acl /\ t.svcs[e][k].service = reg[s].service
        /\ Enters(t, t1, i, e, k, x, s)
    OBVIOUS
  <2>2. Globals(t) /\ Owned(t) /\ ~Working(t, s) /\ e \in Endpoints
    BY <1>1, <1>2, <1>3
  <2>3. QED BY ONLY <2>1, <2>2, OwnedEnters
<1>5. Globals(t1) /\ t1.hal = t.hal /\ t1.bs = t.bs
  BY DEF Enters
<1>6. Numbered(t1)
  BY <1>1, <1>4 DEF Numbered
<1>7. Ledger(t1, Tail(h), stateTable)
  <2>1. \A u : /\ Working(t1, u) => Working(t, u) \/ u = s
               /\ Beginning(t1, u) => Beginning(t, u) \/ u = s
    BY <1>4 DEF Working, Beginning
  <2>2. QED BY <1>1, <1>5, <2>1, LedgerRegisters
<1>8. ClearsAlone(t1, Tail(h), queue, b, stateTable)
  <2>1. \A a \in Acls : ~BeingCleared(t1, Tail(h), queue, b, a)
    BY <1>1, <1>2, <1>5 DEF BeingCleared, Emptied
  <2>2. \A a \in Acls : ~Emptied(t1, queue, b, a)
    BY <2>1 DEF BeingCleared
  <2>3. \A u \in Sessions, a \in Acls : Before(t1.hal, Gone(u), Cleared(a))
    BY <1>1, <1>5 DEF ClearsAlone
  <2>4. QED BY <2>1, <2>2, <2>3 DEF ClearsAlone
<1>9. OneAsk(t1, queue, b)
  <2>1. \A j \in Slots : t.inst[j].state = "OffloadReq" => t1.inst[j].state = "OffloadReq"
    BY <1>1, <1>4 DEF Owned, Live
  <2>2. \A j : Num(t1.bs, Asking(j)) = Num(t.bs, Asking(j))
    BY <1>5
  <2>3. QED BY <1>1, <2>1, <2>2, AsksKept
<1>10. AskSense(t1, queue, b)
  <2>1. \A m \in InFlight(t1.bs) : Enables(m) => m \in InFlight(t.bs)
    BY <1>5
  <2>2. \A j \in Live(t) : t.inst[j].state = "OffloadReq" /\ ~Calm(t, queue, b, j) =>
          SvcOf(t1, j).offloadId = SvcOf(t, j).offloadId /\ SvcOf(t1, j).acl = SvcOf(t, j).acl
    BY <1>4
  <2>3. QED BY <1>1, <2>1, <2>2, SenseKept
<1>11. Calm(t1, queue, b, i)
  <2> SUFFICES ASSUME NEW a \in Acls PROVE AsksOf(t1, queue, b, i, a) = 0
    BY DEF Calm
  <2>1. AsksOf(t, queue, b, i, a) <= 0
    BY <1>1 DEF OneAsk, Count
  <2>2. AsksOf(t1, queue, b, i, a) = AsksOf(t, queue, b, i, a)
    BY <1>5 DEF AsksOf
  <2>3. Num(t.bs, Asking(i)) \in Nat /\ Num(queue[a], Asking(i)) \in Nat /\ Num(b, Asking(i)) \in Nat
    BY <1>1, AskNumbers
  <2>4. AsksOf(t, queue, b, i, a) \in Nat
    BY <2>3 DEF AsksOf
  <2>5. QED BY <2>1, <2>2, <2>4
<1>12. Core(t1, Tail(h), b)
  BY <1>1, <1>4, <1>5, <1>6, <1>7, <1>8, <1>9, <1>10 DEF Core
<1>13. Around(Tail(h), b)
  BY <1>1 DEF Around
<1>14. QED BY <1>4, <1>11, <1>12, <1>13

-----------------------------------------------------------------------------
(* The lists with one service changed. *)
ListWith(f, e, k, v) == [f EXCEPT ![e] = [@ EXCEPT ![k] = v]]

(* It is a list again, with one slot of one endpoint changed. *)
LEMMA ListSet ==
  ASSUME NEW f \in Lists, NEW e \in Endpoints, NEW k \in SvcSlots(e), NEW v \in Service,
         NEW g, g = ListWith(f, e, k, v)
  PROVE  /\ g \in Lists
         /\ \A d \in Endpoints : \A l \in SvcSlots(d) :
               g[d][l] = IF d = e /\ l = k THEN v ELSE f[d][l]
<1>1. g = [d \in Endpoints |-> IF d = e THEN [f[e] EXCEPT ![k] = v] ELSE f[d]]
  BY InLists DEF ListWith
<1>2. /\ \A d \in Endpoints : g[d] \in [SvcSlots(d) -> Service]
      /\ g = [d \in Endpoints |-> g[d]]
      /\ \A d \in Endpoints : \A l \in SvcSlots(d) :
               g[d][l] = IF d = e /\ l = k THEN v ELSE f[d][l]
  <2>1. \A d \in Endpoints : f[d] \in [SvcSlots(d) -> Service]
    BY InLists
  <2>2. \A d \in Endpoints : g[d] = IF d = e THEN [f[e] EXCEPT ![k] = v] ELSE f[d]
    BY <1>1
  <2>3. g = [d \in Endpoints |-> g[d]]
    BY <1>1
  <2>4. v \in Service /\ e \in Endpoints /\ k \in SvcSlots(e)
    OBVIOUS
  <2>5. \A d \in Endpoints : g[d] \in [SvcSlots(d) -> Service]
    BY ONLY <2>1, <2>2, <2>4
  <2>6. \A d \in Endpoints : \A l \in SvcSlots(d) :
               g[d][l] = IF d = e /\ l = k THEN v ELSE f[d][l]
    BY ONLY <2>1, <2>2, <2>4
  <2>7. QED BY <2>3, <2>5, <2>6
<1>3. g \in Lists
  BY <1>2, InLists
<1>4. QED BY <1>2, <1>3

(* What create_offload_instance_and_session() puts in the slot. *)
SeatTaken(svc, x, s) == [svc EXCEPT !.sess[x] = [id |-> s, pending |-> FALSE]]
WithBuf(svc, s) == [svc EXCEPT !.buf = s]

(* A service with the place taken is a service, and its other places are as before. *)
LEMMA JoinedParts ==
  ASSUME NEW base \in Service, NEW x \in SesSlots, NEW s \in Sessions,
         NEW v, v = WithBuf(SeatTaken(base, x, s), s)
  PROVE  /\ v \in Service /\ v.acl = base.acl /\ v.service = base.service
         /\ v.offloadId = base.offloadId
         /\ \A y \in SesSlots : v.sess[y].id = IF y = x THEN s ELSE base.sess[y].id
         /\ SeatTaken(base, x, s) \in Service
<1> DEFINE one == [id |-> s, pending |-> FALSE]
           f == [base.sess EXCEPT ![x] = one]
<1>1. base.sess \in [SesSlots -> [id : Sessions \cup {NoSession}, pending : BOOLEAN]]
  BY DEF Service
<1>2. one \in [id : Sessions \cup {NoSession}, pending : BOOLEAN] /\ one.id = s
  OBVIOUS
<1> HIDE DEF one
<1>3. /\ f \in [SesSlots -> [id : Sessions \cup {NoSession}, pending : BOOLEAN]]
      /\ \A y \in SesSlots : f[y].id = IF y = x THEN s ELSE base.sess[y].id
  BY <1>1, <1>2
<1>4. v = [base EXCEPT !.sess = f, !.buf = s]
  BY DEF Service, one, WithBuf, SeatTaken
<1>5. SeatTaken(base, x, s) = [base EXCEPT !.sess = f]
  BY DEF Service, one, SeatTaken
<1> HIDE DEF f
<1>6. v \in Service /\ [base EXCEPT !.sess = f] \in Service
  BY <1>3, <1>4 DEF Service
<1>7. /\ v.acl = base.acl /\ v.service = base.service /\ v.offloadId = base.offloadId
      /\ v.sess = f
  BY <1>4 DEF Service
<1>8. QED BY <1>3, <1>5, <1>6, <1>7

(* The way a registration takes. *)
Readied(t, e, k, x, s, i, v) ==
  [[t EXCEPT !.svcs[e][k] = v] EXCEPT !.inst[i] = [@ EXCEPT !.ep = e, !.svc = k, !.ses = x],
                                      !.svcs[e][k].buf = s]

(* A registration changes nothing, is refused, finds no instance, or takes a place. *)
LEMMA RegisterWays ==
  ASSUME NEW t, t = Now, NEW s \in Sessions, reg[s].chars \in Nat, NEW t2, t2 = AfterRegister(s),
         NEW e, e = reg[s].ep, NEW k, k = ServiceFor(e, reg[s]),
         NEW x, x = First(FreePlaces(e, reg[s], k)),
         NEW i, i = First({j \in Slots : t.inst[j].state = "Idle"}),
         NEW v, v = Joined(e, reg[s], k, x, s)
  PROVE  \/ t2 = t
         \/ t2 = RegisterRefused(s, t)
         \/ k # 0 /\ x # 0 /\ i = 0
         \/ /\ k # 0 /\ x # 0 /\ i # 0
            /\ t2 = Event(Readied(t, e, k, x, s, i, v), i, "OFFLOAD_REQ")
<1> DEFINE f == reg[s].ep
           l == ServiceFor(f, reg[s])
           y == First(FreePlaces(f, reg[s], l))
           j == First({n \in Slots : instances[n].state = "Idle"})
           joined == [Now EXCEPT !.svcs[f][l] = Joined(f, reg[s], l, y, s)]
           none == RegisterRefused(s, joined)
           taken == Event([joined EXCEPT !.inst[j] = [@ EXCEPT !.ep = f, !.svc = l, !.ses = y],
                                         !.svcs[f][l].buf = s], j, "OFFLOAD_REQ")
<1>1. AdspMaxChars \in Nat
  BY ProfileAssumption
<1>2. t.inst = instances
  BY DEF Now
<1>3. AfterRegister(s) =
        CASE reg[s].chars > AdspMaxChars -> Now
          [] reg[s].chars <= AdspMaxChars /\ (gattId[f] = "none" \/ l = 0 \/ y = 0) ->
               RegisterRefused(s, Now)
          [] j = 0 /\ reg[s].chars <= AdspMaxChars /\ gattId[f] # "none" /\ l # 0 /\ y # 0 -> none
          [] OTHER -> taken
  BY ONLY Zenon DEF AfterRegister
<1>4. f = e /\ l = k /\ y = x
  OBVIOUS
<1> HIDE DEF f, l, y, j, joined, none, taken
<1>5. CASE reg[s].chars > AdspMaxChars
  BY ONLY <1>1, <1>5, <1>3, t = Now, t2 = AfterRegister(s), reg[s].chars \in Nat
<1>6. CASE reg[s].chars <= AdspMaxChars /\ (gattId[e] = "none" \/ k = 0 \/ x = 0)
  BY ONLY <1>1, <1>6, <1>3, <1>4, t = Now, t2 = AfterRegister(s), reg[s].chars \in Nat
<1>7. CASE i = 0 /\ reg[s].chars <= AdspMaxChars /\ gattId[e] # "none" /\ k # 0 /\ x # 0
  BY <1>7
<1>8. CASE i # 0 /\ reg[s].chars <= AdspMaxChars /\ gattId[e] # "none" /\ k # 0 /\ x # 0
  <2>1. /\ ~(reg[s].chars > AdspMaxChars)
        /\ ~(reg[s].chars <= AdspMaxChars /\ (gattId[e] = "none" \/ k = 0 \/ x = 0))
        /\ ~(i = 0 /\ reg[s].chars <= AdspMaxChars /\ gattId[e] # "none" /\ k # 0 /\ x # 0)
    BY <1>1, <1>8
  <2>2. QED BY <1>2, <1>8, <2>1 DEF AfterRegister, Readied
<1>9. QED BY <1>1, <1>5, <1>6, <1>7, <1>8

(* The request to register a session: hal_offload(). *)
LEMMA Registers ==
  ASSUME IsFiniteSet(Sessions), Cardinality(Sessions) <= NumInstances,
         NEW t, t = Now, NEW h, NEW b, Core(t, h, b), Around(h, b), h # <<>>,
         NEW s \in Sessions, Head(h) \in Reg(s), NEW t2, t2 = AfterRegister(s)
  PROVE  Core(t2, Tail(h), b) /\ Around(Tail(h), b) /\ t2.failed = t.failed
<1>1. /\ Globals(t) /\ Owned(t) /\ Numbered(t) /\ Ledger(t, h, stateTable)
      /\ ClearsAlone(t, h, queue, b, stateTable)
      /\ OneAsk(t, queue, b) /\ AskSense(t, queue, b) /\ IdsFinite(t.bs)
      /\ h \in Seq(HalToOmMsgs) /\ b \in Seq(BsToOmMsgs) /\ queue \in Queues
      /\ reg \in Registrations /\ Tail(h) \in Seq(HalToOmMsgs)
      /\ InFlight(Tail(h)) \subseteq InFlight(h)
  BY Taken1 DEF Core, Around
<1>2. /\ ~Working(t, s)
      /\ \A a \in Acls : ~BeingCleared(t, h, queue, b, a)
      /\ \A k \in SvcSlots(reg[s].ep) :
            t.svcs[reg[s].ep][k].offloadId = 0 => t.svcs[reg[s].ep][k] = FreeService
  BY Arrives
<1>3. /\ reg[s].ep \in Endpoints /\ reg[s].acl \in Acls /\ reg[s].service \in Services
      /\ reg[s].chars \in Nat
  BY <1>1, RegParts
<1>4. Around(Tail(h), b)
  BY <1>1 DEF Around
<1>5. CASE t2 = t
  <2>1. Ledger(t, Tail(h), stateTable)
    BY <1>1, LedgerRegisters
  <2>2. ClearsAlone(t, Tail(h), queue, b, stateTable)
    BY <1>1, <1>2 DEF ClearsAlone, BeingCleared
  <2>3. QED BY <1>1, <1>4, <1>5, <2>1, <2>2 DEF Core
<1>6. CASE t2 = RegisterRefused(s, t)
  <2> DEFINE m == [op |-> "REGISTER_RSP", id |-> s, ok |-> FALSE]
  <2>1. PICK no \in BOOLEAN : no = FALSE
    OBVIOUS
  <2>2. m \in OmToHalMsgs /\ m \in No(s) /\ m.op # "CLEAR_RSP"
    <3>1. [op |-> "REGISTER_RSP", id |-> s, ok |-> no] \in OmToHalMsgs
      BY DEF OmToHalMsgs
    <3>2. QED BY <2>1, <3>1 DEF No
  <2>3. t2 = ToHal(t, m)
    BY <1>6 DEF RegisterRefused
  <2> HIDE DEF m
  <2>4. /\ Globals(t2) /\ t2.inst = t.inst /\ t2.svcs = t.svcs /\ t2.hal = Append(t.hal, m)
        /\ t2.bs = t.bs /\ t2.failed = t.failed
    BY <1>1, <2>2, <2>3, QueueFields
  <2>5. /\ Owned(t2) /\ Numbered(t2) /\ Live(t2) = Live(t)
        /\ \A j : SvcOf(t2, j) = SvcOf(t, j)
        /\ \A u : (Working(t2, u) <=> Working(t, u)) /\ (Beginning(t2, u) <=> Beginning(t, u))
    BY <1>1, <2>4, SameOwned
  <2>6. Ledger(t2, Tail(h), stateTable)
    BY <1>1, <2>2, <2>4, <2>5, LedgerRegisters
  <2>7. ClearsAlone(t2, Tail(h), queue, b, stateTable)
    <3>1. /\ InFlight(t2.hal) = InFlight(t.hal) \cup {m}
          /\ \A A, B : A \cap B = {} /\ Before(t.hal, A, B) /\ (m \notin A \/ Where(t.hal, B) = {})
               => Before(t2.hal, A, B)
      BY SMTT(30), <1>1, <2>2, <2>4, Appended, GlobalsParts
    <3>2. \A a \in Acls : ~BeingCleared(t2, Tail(h), queue, b, a)
      <4> SUFFICES ASSUME NEW a \in Acls PROVE ~BeingCleared(t2, Tail(h), queue, b, a)
        OBVIOUS
      <4>1. [op |-> "CLEAR_RSP", acl |-> a] # m
        BY <2>2
      <4>2. ~BeingCleared(t, h, queue, b, a)
        BY <1>2
      <4>3. /\ InFlight(Tail(h)) \subseteq InFlight(h) /\ t2.bs = t.bs
            /\ InFlight(t2.hal) = InFlight(t.hal) \cup {m}
        BY <1>1, <2>4, <3>1
      <4>4. QED BY ONLY <4>1, <4>2, <4>3 DEF BeingCleared, Emptied
    <3>3. \A a \in Acls : ~Emptied(t2, queue, b, a)
      BY <3>2 DEF BeingCleared
    <3>4. \A u \in Sessions, a \in Acls : Before(t2.hal, Gone(u), Cleared(a))
      <4> SUFFICES ASSUME NEW u \in Sessions, NEW a \in Acls
                   PROVE  Before(t2.hal, Gone(u), Cleared(a))
        OBVIOUS
      <4>1. m \notin Gone(u) /\ Gone(u) \cap Cleared(a) = {}
        BY <2>2, OneEach, HalMessages
      <4>2. Before(t.hal, Gone(u), Cleared(a))
        BY <1>1 DEF ClearsAlone
      <4>3. QED BY <3>1, <4>1, <4>2
    <3>5. QED BY <3>2, <3>3, <3>4 DEF ClearsAlone
  <2>8. OneAsk(t2, queue, b) /\ AskSense(t2, queue, b) /\ IdsFinite(t2.bs)
    BY <1>1, <2>4, <2>5 DEF OneAsk, AsksOf, AskSense
  <2>9. QED BY <1>4, <2>4, <2>5, <2>6, <2>7, <2>8 DEF Core
<1>7. PICK e : e = reg[s].ep
  OBVIOUS
<1>8. PICK k : k = ServiceFor(e, reg[s])
  OBVIOUS
<1>9. PICK x : x = First(FreePlaces(e, reg[s], k))
  OBVIOUS
<1>10. PICK i : i = First({j \in Slots : t.inst[j].state = "Idle"})
  OBVIOUS
<1>11. PICK v : v = Joined(e, reg[s], k, x, s)
  OBVIOUS
<1>12. i \in Slots /\ t.inst[i].state = "Idle" /\ i # 0
  <2>1. {j \in Slots : t.inst[j].state = "Idle"} # {}
    BY <1>1, <1>2, InstanceLeft
  <2>2. {j \in Slots : t.inst[j].state = "Idle"} \in SUBSET Nat /\ \A j \in Slots : j # 0
    BY NumInstancesAssumption DEF Slots
  <2>3. QED BY <1>10, <2>1, <2>2, FirstIsLeast
<1>13. \/ t2 = t
       \/ t2 = RegisterRefused(s, t)
       \/ /\ k # 0 /\ x # 0
          /\ t2 = Event(Readied(t, e, k, x, s, i, v), i, "OFFLOAD_REQ")
  <2>1. t = Now /\ t2 = AfterRegister(s) /\ s \in Sessions
    OBVIOUS
  <2>2. reg[s].chars \in Nat
    BY <1>3
  <2>3. QED BY ONLY <2>1, <2>2, <1>7, <1>8, <1>9, <1>10, <1>11, <1>12, RegisterWays
<1>14. ASSUME k # 0, x # 0,
              t2 = Event(Readied(t, e, k, x, s, i, v), i, "OFFLOAD_REQ")
       PROVE  Core(t2, Tail(h), b) /\ t2.failed = t.failed
  <2>1. e \in Endpoints /\ t.svcs = svc_list
    BY <1>3, <1>7 DEF Now
  <2>2. /\ k \in SvcSlots(e)
        /\ OfService(e, reg[s], k) \/ t.svcs[e][k] = FreeService
    <3>1. MaxServices[e] \in Nat \ {0}
      BY <2>1, ProfileAssumption
    <3>2. /\ {l \in SvcSlots(e) : OfService(e, reg[s], l)} \in SUBSET Nat
          /\ {l \in SvcSlots(e) : svc_list[e][l].offloadId = 0} \in SUBSET Nat
      BY <3>1 DEF SvcSlots
    <3>3. CASE {l \in SvcSlots(e) : OfService(e, reg[s], l)} # {}
      <4>1. k = First({l \in SvcSlots(e) : OfService(e, reg[s], l)})
        BY <1>8, <3>3 DEF ServiceFor
      <4>2. QED BY <3>2, <3>3, <4>1, FirstIsLeast
    <3>4. CASE {l \in SvcSlots(e) : OfService(e, reg[s], l)} = {}
      <4>1. k = First({l \in SvcSlots(e) : svc_list[e][l].offloadId = 0})
        BY <1>8, <3>4 DEF ServiceFor
      <4>2. k \in {l \in SvcSlots(e) : svc_list[e][l].offloadId = 0}
        BY <1>14, <3>2, <4>1, FirstIsLeast
      <4>3. QED BY <1>2, <1>7, <2>1, <4>2
    <3>5. QED BY <3>3, <3>4
  <2>3. PICK base : base = IF OfService(e, reg[s], k) THEN svc_list[e][k]
                           ELSE [FreeService EXCEPT !.acl = reg[s].acl, !.service = reg[s].service]
    OBVIOUS
  <2>4. x \in SesSlots /\ (OfService(e, reg[s], k) => Seat(t, e, k, x) = NoSession)
    <3>1. FreePlaces(e, reg[s], k) \in SUBSET Nat
      BY ProfileAssumption DEF FreePlaces, SesSlots
    <3>2. x \in FreePlaces(e, reg[s], k)
      BY <1>9, <1>14, <3>1, FirstIsLeast
    <3>3. QED BY <2>1, <3>2 DEF FreePlaces, Seat
  <2>5. /\ base \in Service /\ base.acl = reg[s].acl /\ base.service = reg[s].service
        /\ base.offloadId = t.svcs[e][k].offloadId
        /\ \A y \in SesSlots : base.sess[y].id = Seat(t, e, k, y)
        /\ Seat(t, e, k, x) = NoSession
        /\ \A y \in SesSlots : Seat(t, e, k, y) # NoSession =>
              t.svcs[e][k].acl = reg[s].acl /\ t.svcs[e][k].service = reg[s].service
    <3>1. CASE OfService(e, reg[s], k)
      <4>1. base = t.svcs[e][k] /\ t.svcs[e][k] \in Service
        BY <1>1, <2>1, <2>2, <2>3, <3>1, GlobalsParts
      <4>2. t.svcs[e][k].acl = reg[s].acl /\ t.svcs[e][k].service = reg[s].service
        BY <2>1, <3>1 DEF OfService
      <4>3. QED BY <2>4, <3>1, <4>1, <4>2 DEF Seat
    <3>2. CASE ~OfService(e, reg[s], k)
      <4>1. base = [FreeService EXCEPT !.acl = reg[s].acl, !.service = reg[s].service]
        BY <2>3, <3>2
      <4>2. t.svcs[e][k] = FreeService
        BY <2>2, <3>2
      <4>3. base \in Service /\ base.acl = reg[s].acl /\ base.service = reg[s].service
              /\ base.offloadId = FreeService.offloadId /\ base.sess = FreeService.sess
        BY <1>3, <4>1, FreeServiceType DEF Service
      <4>4. \A y \in SesSlots : FreeService.sess[y].id = NoSession
        BY DEF FreeService, FreeSession
      <4>5. QED BY <2>4, <4>2, <4>3, <4>4 DEF Seat
    <3>3. QED BY <3>1, <3>2
  <2>6. v = SeatTaken(base, x, s)
    BY <1>11, <2>3 DEF Joined, SeatTaken
  <2>7. PICK w : w = WithBuf(v, s)
    OBVIOUS
  <2>8. /\ v \in Service /\ w \in Service /\ w.acl = reg[s].acl /\ w.service = reg[s].service
        /\ w.offloadId = t.svcs[e][k].offloadId
        /\ \A y \in SesSlots : w.sess[y].id = IF y = x THEN s ELSE Seat(t, e, k, y)
    <3>1. w = WithBuf(SeatTaken(base, x, s), s)
      BY <2>6, <2>7
    <3>2. /\ w \in Service /\ w.acl = base.acl /\ w.service = base.service
          /\ w.offloadId = base.offloadId
          /\ \A y \in SesSlots : w.sess[y].id = IF y = x THEN s ELSE base.sess[y].id
          /\ v \in Service
      <4>1. s \in Sessions /\ base \in Service /\ x \in SesSlots
        BY <2>4, <2>5
      <4>2. QED BY ONLY <4>1, <2>6, <3>1, JoinedParts
    <3>3. QED BY <2>5, <3>2
  <2>9. PICK f : f = ListWith(t.svcs, e, k, v)
    OBVIOUS
  <2>10. PICK g : g = ListWith(f, e, k, w)
    OBVIOUS
  <2>11. /\ f \in Lists /\ f[e][k] = v
         /\ \A d \in Endpoints : \A l \in SvcSlots(d) :
               f[d][l] = IF d = e /\ l = k THEN v ELSE t.svcs[d][l]
    <3>1. t.svcs \in Lists
      BY <1>1, GlobalsParts
    <3>2. e \in Endpoints /\ k \in SvcSlots(e) /\ v \in Service
      BY <2>1, <2>2, <2>8
    <3>3. QED BY ONLY <2>9, <3>1, <3>2, ListSet
  <2>12. /\ g \in Lists
         /\ \A d \in Endpoints : \A l \in SvcSlots(d) :
               g[d][l] = IF d = e /\ l = k THEN w ELSE f[d][l]
    <3>1. e \in Endpoints /\ k \in SvcSlots(e) /\ w \in Service /\ f \in Lists
      BY <2>1, <2>2, <2>8, <2>11
    <3>2. QED BY ONLY <2>10, <3>1, ListSet
  <2>13. PICK j0 : j0 = [t.inst[i] EXCEPT !.ep = e, !.svc = k, !.ses = x]
    OBVIOUS
  <2>14. /\ j0 \in Instance /\ j0.state = "Idle" /\ j0.ep = e /\ j0.svc = k /\ j0.ses = x
         /\ [j0 EXCEPT !.state = "OffloadReq"]
               = [state |-> "OffloadReq", ep |-> e, svc |-> k, ses |-> x]
         /\ [state |-> "OffloadReq", ep |-> e, svc |-> k, ses |-> x] \in Instance
    <3>1. t.inst[i] \in Instance /\ k \in Nat
      BY <1>1, <1>12, <2>1, <2>2, GlobalsParts, ProfileAssumption DEF SvcSlots
    <3>2. "OffloadReq" \in OffloadStates /\ e \in Endpoints /\ x \in SesSlots
      BY <2>1, <2>4 DEF OffloadStates
    <3>3. /\ j0 \in Instance /\ j0.state = t.inst[i].state /\ j0.ep = e /\ j0.svc = k
          /\ j0.ses = x
      BY ONLY <2>13, <3>1, <3>2 DEF Instance
    <3>4. [state |-> "OffloadReq", ep |-> e, svc |-> k, ses |-> x] \in Instance
      BY ONLY <3>1, <3>2 DEF Instance
    <3>5. [j0 EXCEPT !.state = "OffloadReq"]
            = [state |-> "OffloadReq", ep |-> e, svc |-> k, ses |-> x]
      BY ONLY <3>3 DEF Instance
    <3>6. QED BY <1>12, <3>3, <3>4, <3>5
  <2>15. PICK t0 : t0 = Readied(t, e, k, x, s, i, v)
    OBVIOUS
  <2>16. t0 = [t EXCEPT !.svcs = g, !.inst = [t.inst EXCEPT ![i] = j0]]
    <3>1. t0 = [[t EXCEPT !.svcs = f]
                  EXCEPT !.inst[i] = [@ EXCEPT !.ep = e, !.svc = k, !.ses = x],
                         !.svcs[e][k].buf = s]
      BY <2>9, <2>15 DEF Readied, ListWith
    <3>2. t \in [inst : [Slots -> Instance], svcs : Lists, hal : Seq(OmToHalMsgs),
                 bs : Seq(OmToBsMsgs), awm : Seq(OmToAwmMsgs), failed : BOOLEAN]
      BY <1>1 DEF Globals
    <3>3. [f EXCEPT ![e] = [f[e] EXCEPT ![k] = [f[e][k] EXCEPT !.buf = s]]] = g
      <4>1. [f[e][k] EXCEPT !.buf = s] = w
        BY <2>7, <2>11 DEF WithBuf
      <4>2. [f[e] EXCEPT ![k] = [f[e][k] EXCEPT !.buf = s]] = [f[e] EXCEPT ![k] = w]
        BY ONLY <4>1
      <4>3. [f EXCEPT ![e] = [f[e] EXCEPT ![k] = [f[e][k] EXCEPT !.buf = s]]]
              = [f EXCEPT ![e] = [f[e] EXCEPT ![k] = w]]
        BY ONLY <4>2
      <4>4. QED BY ONLY <4>3, <2>10 DEF ListWith
    <3>4. /\ t0.svcs = [f EXCEPT ![e] = [f[e] EXCEPT ![k] = [f[e][k] EXCEPT !.buf = s]]]
          /\ t0.inst = [t.inst EXCEPT ![i] = [@ EXCEPT !.ep = e, !.svc = k, !.ses = x]]
          /\ t0 = [t EXCEPT !.svcs = t0.svcs, !.inst = t0.inst]
      <4>1. PICK u : u = [t EXCEPT !.svcs = f]
        OBVIOUS
      <4>2. /\ u.svcs = f /\ u.inst = t.inst /\ u = [t EXCEPT !.svcs = f]
            /\ \A A, B : [[u EXCEPT !.inst = A] EXCEPT !.svcs = B]
                          = [t EXCEPT !.svcs = B, !.inst = A]
        BY ONLY <3>2, <4>1
      <4>3. PICK A : A = [u.inst EXCEPT ![i] = [@ EXCEPT !.ep = e, !.svc = k, !.ses = x]]
        OBVIOUS
      <4>4. PICK B : B = [u.svcs EXCEPT ![e] = [u.svcs[e] EXCEPT ![k] = [u.svcs[e][k] EXCEPT !.buf = s]]]
        OBVIOUS
      <4>5. t0 = [[u EXCEPT !.inst = A] EXCEPT !.svcs = B]
        <5>1. t0 = [u EXCEPT !.inst[i] = [@ EXCEPT !.ep = e, !.svc = k, !.ses = x],
                             !.svcs[e][k].buf = s]
          BY <3>1, <4>1
        <5>2. PICK u1 : u1 = [u EXCEPT !.inst[i] = [@ EXCEPT !.ep = e, !.svc = k, !.ses = x]]
          OBVIOUS
        <5>3. t0 = [u1 EXCEPT !.svcs[e][k].buf = s]
          BY <5>1, <5>2
        <5>4. u1 = [u EXCEPT !.inst = A]
          BY <4>3, <5>2
        <5>5. u1.svcs = u.svcs
          BY ONLY <3>2, <4>2, <5>4
        <5>6. t0 = [u1 EXCEPT !.svcs = [u1.svcs EXCEPT ![e] =
                                       [u1.svcs[e] EXCEPT ![k] =
                                          [u1.svcs[e][k] EXCEPT !.buf = s]]]]
          BY ONLY <5>3
        <5>7. t0 = [u1 EXCEPT !.svcs = B]
          BY <4>4, <5>5, <5>6
        <5>8. QED BY <5>4, <5>7
      <4>6. t0 = [t EXCEPT !.svcs = B, !.inst = A]
        BY ONLY <4>2, <4>5
      <4>7. t0.svcs = B /\ t0.inst = A
        BY ONLY <3>2, <4>6
      <4>8. QED BY <4>2, <4>3, <4>4, <4>6, <4>7
    <3>5. t0.inst = [t.inst EXCEPT ![i] = j0]
      BY ONLY <2>13, <3>4
    <3>6. QED BY ONLY <3>3, <3>4, <3>5
  <2>17. PICK t1 : t1 = [t0 EXCEPT !.inst[i].state = "OffloadReq"]
    OBVIOUS
  <2>18. t0.inst[i].state = "Idle"
    BY <1>1, <1>12, <2>14, <2>16 DEF Globals
  <2>19. t2 = offload_to_ustack(t1, i)
    <3>1. Rows(t0.inst[i].state, "OFFLOAD_REQ") = {<<t0.inst[i].state, "OFFLOAD_REQ", "OffloadReq">>}
      BY <2>18, RowsOf
    <3>2. Event(t0, i, "OFFLOAD_REQ") = Entered(t1, i, "OffloadReq")
      BY <2>17, <3>1, OnlyRow
    <3>3. Entered(t1, i, "OffloadReq") = offload_to_ustack(t1, i)
      BY DEF Entered
    <3>4. QED BY <1>14, <2>15, <3>2, <3>3
  <2>20. /\ Globals(t1) /\ t1.svcs = g /\ t1.hal = t.hal /\ t1.bs = t.bs /\ t1.failed = t.failed
         /\ t1.inst = [t.inst EXCEPT ![i] = [state |-> "OffloadReq", ep |-> e, svc |-> k, ses |-> x]]
    <3>1. /\ Globals(t0) /\ t0.svcs = g /\ t0.hal = t.hal /\ t0.bs = t.bs /\ t0.failed = t.failed
          /\ t0.inst = [t.inst EXCEPT ![i] = j0]
      BY <1>1, <1>12, <2>12, <2>14, <2>16 DEF Globals
    <3>2. "OffloadReq" \in OffloadStates
      BY DEF OffloadStates
    <3>3. t1 = WithState(t0, i, "OffloadReq")
      BY <2>17 DEF WithState
    <3>4. /\ Globals(t1) /\ t1.svcs = g /\ t1.hal = t.hal /\ t1.bs = t.bs /\ t1.failed = t.failed
          /\ t1.inst = [t0.inst EXCEPT ![i] = [@ EXCEPT !.state = "OffloadReq"]]
      BY <1>12, <3>1, <3>2, <3>3, StateFields
    <3>5. t.inst \in [Slots -> Instance]
      BY <1>1, GlobalsParts
    <3>6. QED BY <1>12, <2>14, <3>1, <3>4, <3>5
  <2>21. Enters(t, t1, i, e, k, x, s)
    BY <2>1, <2>2, <2>8, <2>11, <2>12, <2>20 DEF Enters, Seat
  <2>22. /\ Core(t1, Tail(h), b) /\ Around(Tail(h), b)
         /\ i \in Live(t1) /\ t1.inst[i].state = "OffloadReq" /\ Calm(t1, queue, b, i)
    BY <1>7, <1>12, <2>2, <2>4, <2>5, <2>21, CoreEnters
  <2>23. PICK h1 : h1 = Tail(h)
    OBVIOUS
  <2>24. Core(t1, h1, b) /\ Around(h1, b)
    BY <2>22, <2>23
  <2>25. Core(t2, h1, b) /\ t2.failed = t1.failed
    BY ONLY <2>19, <2>22, <2>24, UstackAsks
  <2>26. QED BY <2>20, <2>23, <2>25
<1>15. QED BY <1>4, <1>5, <1>6, <1>13, <1>14

-----------------------------------------------------------------------------
(* While a connection is cleared, who is worked for is of that connection and    *)
(* has been answered.                                                      *)
LEMMA ClearingLive ==
  ASSUME NEW t, NEW h, NEW b, Core(t, h, b), Around(h, b), NEW a \in Acls,
         BeingCleared(t, h, queue, b, a), NEW i \in Live(t)
  PROVE  SvcOf(t, i).acl = a /\ Calm(t, queue, b, i) /\ Seated(t, i)
<1>1. /\ Globals(t) /\ Owned(t) /\ Ledger(t, h, stateTable) /\ h \in Seq(HalToOmMsgs)
      /\ ClearsAlone(t, h, queue, b, stateTable)
  BY DEF Core, Around
<1>2. PICK s : s = SesOf(t, i).id
  OBVIOUS
<1>3. Seated(t, i) /\ s \in Sessions /\ reg[s].acl = SvcOf(t, i).acl /\ Working(t, s)
  BY <1>1, <1>2, LiveParts, SeatedParts DEF Working
<1>4. stateTable[s] # "OPENING" /\ stateTable[s] # "CLOSED" /\ reg[s].acl = a
  BY <1>1, <1>3, EntryOf DEF ClearsAlone
<1>5. ~Beginning(t, s)
  BY <1>1, <1>3, <1>4, EntryOf
<1>6. t.inst[i].state # "OffloadReq"
  BY <1>2, <1>5 DEF Beginning, Starting
<1>7. QED BY <1>3, <1>4, <1>6, CalmUnless

(* One turn of clear_all_sessions_on_acl_handle(). *)
LEMMA ClearTurn ==
  ASSUME NEW t, NEW h, NEW b, Core(t, h, b), Around(h, b), NEW a \in Acls,
         [op |-> "CLEAR", acl |-> a] \in InFlight(h), NEW i \in Live(t),
         NEW t1, t1 = unoffload_to_uapp(t, i), NEW t2, t2 = Idled(t1, i)
  PROVE  Core(t2, h, b) /\ t2.failed = t.failed /\ Live(t2) = Live(t) \ {i}
<1>1. Globals(t) /\ Owned(t) /\ Seated(t, i)
  BY LiveParts DEF Core
<1>2. /\ Globals(t1) /\ SeatsKept(t, t1, i)
      /\ t1.inst = t.inst /\ t1.hal = t.hal /\ t1.bs = t.bs /\ t1.failed = t.failed
      /\ \A e \in Endpoints : \A k \in SvcSlots(e) :
            t1.svcs[e][k].offloadId = t.svcs[e][k].offloadId
  BY <1>1, UappUntold
<1>3. Told(t, t1) /\ Live(t1) = Live(t)
  BY <1>2 DEF Told, Live
<1>4. Core(t1, h, b)
  BY <1>2, <1>3, CoreSame
<1>5. BeingCleared(t1, h, queue, b, a)
  BY DEF BeingCleared
<1>6. Seated(t1, i) /\ Calm(t1, queue, b, i) /\ Owned(t1)
  BY <1>3, <1>4, <1>5, ClearingLive DEF Core
<1>7. Frees(t1, t2, i) /\ t2.hal = t1.hal
  BY <1>2, <1>6, IdledFrees
<1>8. Core(t2, h, b)
  BY <1>3, <1>4, <1>6, <1>7, CoreFrees
<1>9. Live(t2) = Live(t1) \ {i}
  BY <1>2, <1>3, <1>6, <1>7, OwnedFrees
<1>10. QED BY <1>2, <1>3, <1>7, <1>8, <1>9 DEF Frees

(* The turns, one after the other. *)
Turns(a, f, n) ==
  f = [m \in 0 .. n |-> IF m = 0 THEN [t |-> Now, conn |-> NoAcl] ELSE ClearNext(a, f[m - 1], m)]

(* There are such turns, and the clear leaves what the last of them leaves. *)
LEMMA ClearTurns ==
  ASSUME NEW a
  PROVE  \E f : Turns(a, f, NumInstances) /\ clear_all_sessions(a) = f[NumInstances]
<1>1. NumInstances \in Nat
  BY NumInstancesAssumption
<1> DEFINE none == {n \in Nat : ~\E f : Turns(a, f, n)}
<1>2. none = {}
  <2>1. SUFFICES ASSUME none # {} PROVE FALSE
    OBVIOUS
  <2>2. PICK n \in none : \A m \in none : n <= m
    BY <2>1, LeastExists
  <2>3. CASE n = 0
    <3> DEFINE f == [m \in 0 .. 0 |-> [t |-> Now, conn |-> NoAcl]]
    <3>1. Turns(a, f, 0)
      BY DEF Turns
    <3>2. QED BY <2>3, <3>1
  <2>4. CASE n # 0
    <3>1. n - 1 \in Nat /\ n - 1 \notin none
      BY <2>2, <2>4
    <3>2. PICK f : Turns(a, f, n - 1)
      BY <3>1
    <3>3. PICK last : last = ClearNext(a, f[n - 1], n)
      OBVIOUS
    <3> DEFINE g == [m \in 0 .. n |-> IF m = n THEN last ELSE f[m]]
    <3>4. ASSUME NEW m \in 0 .. n
          PROVE  g[m] = IF m = 0 THEN [t |-> Now, conn |-> NoAcl] ELSE ClearNext(a, g[m - 1], m)
      <4>1. CASE m = n
        BY <2>4, <3>1, <3>3, <4>1
      <4>2. CASE m # n
        <5>1. m \in 0 .. n - 1 /\ (m # 0 => m - 1 \in 0 .. n /\ m - 1 # n)
          BY <2>2, <4>2
        <5>2. f[m] = IF m = 0 THEN [t |-> Now, conn |-> NoAcl] ELSE ClearNext(a, f[m - 1], m)
          BY <3>2, <5>1 DEF Turns
        <5>3. g[m] = f[m] /\ (m # 0 => g[m - 1] = f[m - 1])
          BY <4>2, <5>1
        <5> HIDE DEF g
        <5>4. QED BY <5>2, <5>3
      <4>3. QED BY <4>1, <4>2
    <3>5. g = [m \in 0 .. n |-> g[m]]
      OBVIOUS
    <3> HIDE DEF g
    <3>6. Turns(a, g, n)
      BY <3>4, <3>5 DEF Turns
    <3>7. QED BY <2>2, <3>6
  <2>5. QED BY <2>3, <2>4
<1>3. \E f : Turns(a, f, NumInstances)
  BY <1>1, <1>2
<1> DEFINE c == CHOOSE f : Turns(a, f, NumInstances)
<1>4. Turns(a, c, NumInstances)
  BY <1>3
<1>5. clear_all_sessions(a) = c[NumInstances]
  BY DEF clear_all_sessions, Turns
<1> HIDE DEF c
<1>6. QED BY <1>4, <1>5

(* When they are over nothing is worked for. *)
LEMMA ClearsAll ==
  ASSUME NEW t, t = Now, NEW h, NEW b, Core(t, h, b), Around(h, b), NEW a \in Acls,
         [op |-> "CLEAR", acl |-> a] \in InFlight(h), NEW c, c = clear_all_sessions(a)
  PROVE  /\ Core(c.t, h, b) /\ c.t.failed = t.failed /\ Live(c.t) = {}
         /\ c.conn \in {a, NoAcl}
<1>1. NumInstances \in Nat
  BY NumInstancesAssumption
<1>2. PICK f : Turns(a, f, NumInstances) /\ c = f[NumInstances]
  BY ClearTurns
<1>3. /\ f[0].t = t /\ f[0].conn = NoAcl
      /\ \A n \in 1 .. NumInstances : f[n] = ClearNext(a, f[n - 1], n)
  <2>1. \A n \in 0 .. NumInstances :
          f[n] = IF n = 0 THEN [t |-> Now, conn |-> NoAcl] ELSE ClearNext(a, f[n - 1], n)
    BY <1>2 DEF Turns
  <2>2. \A n \in 1 .. NumInstances : n \in 0 .. NumInstances /\ n # 0
    BY <1>1
  <2>3. QED BY <1>1, <2>1, <2>2
<1> DEFINE Good(n) == /\ Core(f[n].t, h, b) /\ f[n].t.failed = t.failed
                      /\ f[n].conn \in {a, NoAcl} /\ \A i \in Live(f[n].t) : i > n
           bad == {n \in 0 .. NumInstances : ~Good(n)}
<1>4. Good(0)
  BY <1>3, NumInstancesAssumption DEF Live, Slots
<1>5. ASSUME NEW n \in 1 .. NumInstances, Good(n - 1)
      PROVE  Good(n)
  <2>1. PICK u : u = f[n - 1].t
    OBVIOUS
  <2>2. PICK d : d = f[n - 1].conn
    OBVIOUS
  <2>3. /\ Core(u, h, b) /\ u.failed = t.failed /\ d \in {a, NoAcl}
        /\ \A i \in Live(u) : i > n - 1
    BY <1>5, <2>1, <2>2
  <2>4. f[n] = ClearNext(a, f[n - 1], n)
    BY <1>3
  <2>5. BeingCleared(u, h, queue, b, a)
    BY DEF BeingCleared
  <2>6. Live(u) \subseteq Int /\ n \in Slots
    BY <1>1 DEF Live, Slots
  <2>7. CASE n \in Live(u)
    <3>1. SvcOf(u, n).acl = a /\ Seated(u, n)
      BY <2>3, <2>5, <2>7, ClearingLive
    <3>2. f[n] = [t |-> Idled(unoffload_to_uapp(u, n), n), conn |-> btConnId(SvcOf(u, n))]
      BY <2>1, <2>4, <2>7, <3>1 DEF ClearNext, Live
    <3>3. PICK v : v = Idled(unoffload_to_uapp(u, n), n)
      OBVIOUS
    <3>4. Core(v, h, b) /\ v.failed = u.failed /\ Live(v) = Live(u) \ {n}
      BY <2>3, <2>7, <3>3, ClearTurn
    <3>5. btConnId(SvcOf(u, n)) \in {a, NoAcl}
      BY <3>1 DEF btConnId
    <3>6. f[n].t = v /\ f[n].conn \in {a, NoAcl}
      BY <3>2, <3>3, <3>5
    <3>7. \A i \in Live(v) : i > n
      BY <2>3, <2>6, <3>4
    <3>8. QED BY <2>3, <3>4, <3>6, <3>7
  <2>8. CASE n \notin Live(u)
    <3>1. f[n] = f[n - 1]
      BY <2>1, <2>4, <2>6, <2>8 DEF ClearNext, Live
    <3>2. \A i \in Live(u) : i > n
      BY <2>3, <2>6, <2>8
    <3>3. QED BY <2>1, <2>2, <2>3, <3>1, <3>2
  <2>9. QED BY <2>7, <2>8
<1>6. bad = {}
  <2>1. SUFFICES ASSUME bad # {} PROVE FALSE
    OBVIOUS
  <2> HIDE DEF Good
  <2>2. bad \in SUBSET Nat
    BY <1>1
  <2>3. PICK n \in bad : \A m \in bad : n <= m
    BY <2>1, <2>2, LeastExists
  <2>4. n # 0
    BY <1>4, <2>3
  <2>5. n \in 1 .. NumInstances /\ n - 1 \in 0 .. NumInstances /\ ~(n <= n - 1)
    BY <1>1, <2>3, <2>4
  <2>6. Good(n - 1)
    BY <2>3, <2>5
  <2>7. Good(n)
    BY <1>5, <2>5, <2>6
  <2>8. QED BY <2>3, <2>7
<1>7. Good(NumInstances)
  <2> HIDE DEF Good
  <2>1. QED BY <1>1, <1>6
<1>8. Live(f[NumInstances].t) = {}
  <2>1. Live(f[NumInstances].t) \subseteq Slots
    BY DEF Live
  <2>2. \A i \in Slots : ~(i > NumInstances)
    BY <1>1 DEF Slots
  <2>3. \A i \in Live(f[NumInstances].t) : i > NumInstances
    BY <1>7
  <2>4. QED BY <2>1, <2>2, <2>3
<1>9. QED BY <1>2, <1>7, <1>8

(* The microstack is told of a connection whose sessions are gone. *)
LEMMA CoreClearAsked ==
  ASSUME NEW t, NEW h, NEW b, Core(t, h, b), Around(h, b), NEW a \in Acls,
         BeingCleared(t, h, queue, b, a), Live(t) = {},
         NEW m, m = [op |-> "DISABLE_REQ", inst |-> 0, why |-> "CLEAR", acl |-> a, ids |-> {}],
         NEW t2, t2 = ToBs(t, m)
  PROVE  Core(t2, h, b) /\ t2.failed = t.failed
<1>1. /\ Globals(t) /\ Owned(t) /\ Numbered(t) /\ Ledger(t, h, stateTable)
      /\ ClearsAlone(t, h, queue, b, stateTable)
      /\ OneAsk(t, queue, b) /\ AskSense(t, queue, b) /\ IdsFinite(t.bs)
      /\ h \in Seq(HalToOmMsgs) /\ b \in Seq(BsToOmMsgs) /\ queue \in Queues
      /\ t.bs \in Seq(OmToBsMsgs)
  BY GlobalsParts DEF Core, Around
<1>2. m \in OmToBsMsgs
  BY DEF OmToBsMsgs, DisableReqs
<1>3. /\ Globals(t2) /\ t2.inst = t.inst /\ t2.svcs = t.svcs /\ t2.hal = t.hal
      /\ t2.bs = Append(t.bs, m) /\ t2.failed = t.failed
  <2>1. t2 = ToBs(t, m)
    OBVIOUS
  <2>2. QED BY ONLY <1>1, <1>2, <2>1, QueueFields
<1>4. /\ Owned(t2) /\ Numbered(t2) /\ Live(t2) = Live(t)
      /\ \A j : SvcOf(t2, j) = SvcOf(t, j) /\ SesOf(t2, j) = SesOf(t, j)
      /\ \A s : (Working(t2, s) <=> Working(t, s)) /\ (Beginning(t2, s) <=> Beginning(t, s))
  BY ONLY <1>1, <1>3, SameOwned
<1>5. Ledger(t2, h, stateTable)
  BY <1>1, <1>3, <1>4, LedgerKept
<1>6. /\ InFlight(t2.bs) = InFlight(t.bs) \cup {m}
      /\ \A S : Num(t.bs, S) \in Nat /\ Num(t2.bs, S) = Num(t.bs, S) + Count(m \in S)
  BY ONLY <1>1, <1>2, <1>3, Appended
<1>7. ~Enables(m) /\ \A j : m \notin Asking(j)
  BY DEF Enables, Asking, Asks
<1>8. ClearsAlone(t2, h, queue, b, stateTable)
  <2>1. \A d \in Acls : BeingCleared(t2, h, queue, b, d) => BeingCleared(t, h, queue, b, d)
    <3> SUFFICES ASSUME NEW d \in Acls, BeingCleared(t2, h, queue, b, d), d # a
                 PROVE  BeingCleared(t, h, queue, b, d)
      OBVIOUS
    <3>1. ~ClearMsg(m, d)
      BY DEF ClearMsg
    <3>2. QED BY <1>3, <1>6, <3>1 DEF BeingCleared, Emptied
  <2>2. \A s \in Sessions, d \in Acls : Before(t2.hal, Gone(s), Cleared(d))
    BY <1>1, <1>3 DEF ClearsAlone
  <2>3. QED BY <1>1, <1>4, <2>1, <2>2 DEF ClearsAlone
<1>9. OneAsk(t2, queue, b)
  <2>1. \A j : Num(t2.bs, Asking(j)) = Num(t.bs, Asking(j))
    <3>1. \A j : Count(m \in Asking(j)) = 0
      BY <1>7 DEF Count
    <3>2. \A j : Num(t.bs, Asking(j)) \in Nat /\ Num(t2.bs, Asking(j)) = Num(t.bs, Asking(j)) + 0
      BY <1>6, <3>1
    <3>3. QED BY ONLY <3>2
  <2>2. QED BY <1>1, <1>3, <2>1 DEF OneAsk, AsksOf
<1>10. AskSense(t2, queue, b)
  BY ONLY <1>1, <1>4, <1>6, <1>7 DEF AskSense
<1>11. IdsFinite(t2.bs)
  <2>1. IsFiniteSet(m.ids)
    BY FS_EmptySet
  <2>2. QED BY <1>1, <1>6, <2>1 DEF IdsFinite
<1>12. QED BY <1>3, <1>4, <1>5, <1>8, <1>9, <1>10, <1>11 DEF Core

(* A link has gone: hal_clear_service(). *)
LEMMA Clears ==
  ASSUME NEW t, t = Now, NEW h, NEW b, Core(t, h, b), Around(h, b), h # <<>>, NEW a \in Acls,
         Head(h) = [op |-> "CLEAR", acl |-> a], NEW c, c = clear_all_sessions(a),
         NEW t2, t2 = IF c.conn = NoAcl
                      THEN ToHal(c.t, [op |-> "CLEAR_RSP", acl |-> a])
                      ELSE ToBs(c.t, [op |-> "DISABLE_REQ", inst |-> 0, why |-> "CLEAR",
                                      acl |-> c.conn, ids |-> {}])
  PROVE  Core(t2, Tail(h), b) /\ Around(Tail(h), b) /\ t2.failed = t.failed
<1>1. [op |-> "CLEAR", acl |-> a] \in InFlight(h)
  BY Taken1 DEF Around
<1>2. PICK u : u = c.t
  OBVIOUS
<1>3. /\ Core(u, h, b) /\ u.failed = t.failed /\ Live(u) = {}
      /\ c.conn \in {a, NoAcl}
  BY <1>1, <1>2, ClearsAll
<1>4. BeingCleared(u, h, queue, b, a)
  BY <1>1 DEF BeingCleared
<1>5. Core(t2, h, b) /\ t2.failed = u.failed
  <2>1. CASE c.conn = NoAcl
    <3>1. PICK m : m = [op |-> "CLEAR_RSP", acl |-> a]
      OBVIOUS
    <3>2. t2 = ToHal(u, m) /\ m \in Cleared(a)
      BY <1>2, <2>1, <3>1 DEF Cleared
    <3>3. ClearsAlone(u, h, queue, b, stateTable)
      BY <1>3 DEF Core
    <3>4. QED BY <1>3, <1>4, <3>2, <3>3, CoreClearAnswered
  <2>2. CASE c.conn # NoAcl
    <3>1. PICK m : m = [op |-> "DISABLE_REQ", inst |-> 0, why |-> "CLEAR", acl |-> a, ids |-> {}]
      OBVIOUS
    <3>2. t2 = ToBs(u, m)
      BY <1>2, <1>3, <2>2, <3>1
    <3>3. QED BY <1>3, <1>4, <3>1, <3>2, CoreClearAsked
  <2>3. QED BY <2>1, <2>2
<1>6. Head(h).op # "REGISTER"
  OBVIOUS
<1>7. QED BY <1>3, <1>5, <1>6, CoreTakesH

-----------------------------------------------------------------------------
(* The steps of the profile manager. *)

(* What a handler leaves is what the next one finds. *)
LEMMA HandlerStep ==
  ASSUME NEW t2, NEW h2, NEW b2, Becomes(t2), hal2om' = h2, bs2om' = b2,
         UNCHANGED <<reg, stateTable, queue>>, Core(t2, h2, b2), Around(h2, b2)
  PROVE  Core(Now, hal2om, bs2om)' /\ Around(hal2om, bs2om)'
<1>1. t2 \in [inst : [Slots -> Instance], svcs : Lists, hal : Seq(OmToHalMsgs),
              bs : Seq(OmToBsMsgs), awm : Seq(OmToAwmMsgs), failed : BOOLEAN]
  BY DEF Core, Globals
<1>2. t2 = [inst |-> t2.inst, svcs |-> t2.svcs, hal |-> t2.hal, bs |-> t2.bs, awm |-> t2.awm,
            failed |-> t2.failed]
  BY <1>1
<1>3. Now' = t2
  BY <1>2 DEF Now, Becomes
<1>4. QED BY <1>3, Primed

(* What is known of the messages at the head of a queue. *)
LEMMA HeadOf ==
  ASSUME NEW D, NEW q \in Seq(D), q # <<>>
  PROVE  Head(q) \in D /\ Head(q) \in InFlight(q) /\ Tail(q) \in Seq(D)
BY Taken1

(* Messages of the HAL. *)
LEMMA FromHalStep ==
  ASSUME IsFiniteSet(Sessions), Cardinality(Sessions) <= NumInstances,
         Core(Now, hal2om, bs2om), Around(hal2om, bs2om),
         UNCHANGED <<reg, stateTable, queue>>, FromHal
  PROVE  Core(Now, hal2om, bs2om)' /\ Around(hal2om, bs2om)'
<1>1. PICK t : t = Now
  OBVIOUS
<1>2. PICK h : h = hal2om
  OBVIOUS
<1>3. PICK b : b = bs2om
  OBVIOUS
<1>4. Core(t, h, b) /\ Around(h, b)
  BY <1>1, <1>2, <1>3
<1>5. h # <<>> => Head(h) \in HalToOmMsgs
  BY <1>4, HeadOf DEF Around
<1>6. PICK h2 : h2 = Tail(h)
  OBVIOUS
<1>7. CASE hal_offload
  <2>1. h # <<>> /\ Head(h).op = "REGISTER" /\ hal2om' = h2 /\ bs2om' = b
    BY <1>2, <1>3, <1>6, <1>7 DEF hal_offload, Next1
  <2>2. PICK s : s = Head(h).id
    OBVIOUS
  <2>3. s \in Sessions /\ Head(h) \in Reg(s)
    BY <1>5, <2>1, <2>2 DEF HalToOmMsgs, Reg
  <2>4. PICK t2 : t2 = AfterRegister(s)
    OBVIOUS
  <2>5. Becomes(t2)
    BY <1>2, <1>7, <2>2, <2>4 DEF hal_offload
  <2>6. Core(t2, h2, b) /\ Around(h2, b)
    BY <1>1, <1>4, <1>6, <2>1, <2>3, <2>4, Registers
  <2>7. QED BY <2>1, <2>5, <2>6, HandlerStep
<1>8. CASE hal_unoffload
  <2>1. h # <<>> /\ Head(h).op = "UNREGISTER" /\ hal2om' = h2 /\ bs2om' = b
    BY <1>2, <1>3, <1>6, <1>8 DEF hal_unoffload, Next1
  <2>2. PICK s : s = Head(h).id
    OBVIOUS
  <2>3. s \in Sessions /\ Head(h) \in Unreg(s)
    BY <1>5, <2>1, <2>2 DEF HalToOmMsgs, Unreg
  <2>4. PICK i : i = offload_instance_find_by_gatt_session_id(t, s)
    OBVIOUS
  <2>5. PICK t2 : t2 = IF i = 0 THEN t ELSE Event(t, i, "UNOFFLOAD_REQ")
    OBVIOUS
  <2>6. Becomes(t2)
    BY <1>1, <1>2, <1>8, <2>2, <2>4, <2>5 DEF hal_unoffload
  <2>7. Core(t2, h2, b) /\ Around(h2, b)
    BY <1>4, <1>6, <2>1, <2>3, <2>4, <2>5, Unoffloads
  <2>8. QED BY <2>1, <2>6, <2>7, HandlerStep
<1>9. CASE hal_clear_service
  <2>1. h # <<>> /\ Head(h).op = "CLEAR" /\ hal2om' = h2 /\ bs2om' = b
    BY <1>2, <1>3, <1>6, <1>9 DEF hal_clear_service, Next1
  <2>2. PICK a : a = Head(h).acl
    OBVIOUS
  <2>3. a \in Acls /\ Head(h) = [op |-> "CLEAR", acl |-> a]
    BY <1>5, <2>1, <2>2 DEF HalToOmMsgs
  <2>4. PICK c : c = clear_all_sessions(a)
    OBVIOUS
  <2>5. PICK t2 : t2 = IF c.conn = NoAcl
                       THEN ToHal(c.t, [op |-> "CLEAR_RSP", acl |-> a])
                       ELSE ToBs(c.t, [op |-> "DISABLE_REQ", inst |-> 0, why |-> "CLEAR",
                                       acl |-> c.conn, ids |-> {}])
    OBVIOUS
  <2>6. Becomes(t2)
    BY <1>2, <1>9, <2>2, <2>4, <2>5 DEF hal_clear_service
  <2>7. Core(t2, h2, b) /\ Around(h2, b)
    BY <1>1, <1>4, <1>6, <2>1, <2>3, <2>4, <2>5, Clears
  <2>8. QED BY <2>1, <2>6, <2>7, HandlerStep
<1>10. QED BY <1>7, <1>8, <1>9 DEF FromHal

(* Messages of the microstack. *)
LEMMA FromMicrostackStep ==
  ASSUME Core(Now, hal2om, bs2om), Around(hal2om, bs2om),
         UNCHANGED <<reg, stateTable, queue>>, microstack_gatt_cb
  PROVE  Core(Now, hal2om, bs2om)' /\ Around(hal2om, bs2om)'
<1>1. PICK t : t = Now
  OBVIOUS
<1>2. PICK h : h = hal2om
  OBVIOUS
<1>3. PICK b : b = bs2om
  OBVIOUS
<1>4. Core(t, h, b) /\ Around(h, b)
  BY <1>1, <1>2, <1>3
<1>5. b # <<>> => Head(b) \in BsToOmMsgs
  BY <1>4, HeadOf DEF Around
<1>6. PICK b2 : b2 = Tail(b)
  OBVIOUS
<1>7. t.inst = instances /\ t.svcs = svc_list
  BY <1>1 DEF Now
<1>8. CASE register_cfm
  <2>1. b # <<>> /\ hal2om' = h /\ bs2om' = b2 /\ Becomes(t)
    BY <1>1, <1>2, <1>3, <1>6, <1>8 DEF register_cfm, FromBs, Next1
  <2>2. Core(t, h, b2) /\ Around(h, b2)
    BY <1>4, <1>6, <2>1, CoreTakesB
  <2>3. QED BY <2>1, <2>2, HandlerStep
<1>9. CASE conn_info_cfm
  <2>1. b # <<>> /\ Head(b).op = "CONN_INFO_CFM" /\ hal2om' = h /\ bs2om' = b2
    BY <1>2, <1>3, <1>6, <1>9 DEF conn_info_cfm, FromBs, Next1
  <2>2. PICK i : i = Head(b).inst
    OBVIOUS
  <2>3. PICK t2 : t2 = CASE ~Head(b).ok -> Event(t, i, "OFFLOAD_TO_MICROSTACK_FAILURE")
                         [] Head(b).ok /\ t.inst[i].svc = 0 -> Fail(t)
                         [] OTHER -> enable_svc(WithSvc(t, i, [SvcOf(t, i) EXCEPT !.conn = TRUE]),
                                                i, "ENABLE", {})
    OBVIOUS
  <2>4. Becomes(t2)
    BY <1>1, <1>3, <1>7, <1>9, <2>2, <2>3 DEF conn_info_cfm, FromBs
  <2>5. Core(t2, h, b2) /\ Around(h, b2)
    BY <1>4, <1>6, <2>1, <2>2, <2>3, Informs
  <2>6. QED BY <2>1, <2>4, <2>5, HandlerStep
<1>10. CASE enable_service_cfm
  <2>1. b # <<>> /\ Head(b).op = "ENABLE_CFM" /\ hal2om' = h /\ bs2om' = b2
    BY <1>2, <1>3, <1>6, <1>10 DEF enable_service_cfm, FromBs, Next1
  <2>2. PICK i : i = Head(b).inst
    OBVIOUS
  <2>3. PICK t2 : t2 = CASE Head(b).why = "DISABLE" ->
                             IF Head(b).ok THEN Event(t, i, "UNOFFLOAD_FROM_MICROSTACK_SUCCESS")
                             ELSE t
                        [] Head(b).why = "ENABLE" /\ t.inst[i].svc = 0 -> Fail(t)
                        [] OTHER -> Event(WithSvc(t, i, [SvcOf(t, i) EXCEPT
                                                           !.offloadId = Head(b).offloadId]),
                                          i, MicrostackOffloaded(Head(b).ok))
    OBVIOUS
  <2>4. Becomes(t2)
    BY <1>1, <1>3, <1>7, <1>10, <2>2, <2>3 DEF enable_service_cfm, FromBs
  <2>5. Core(t2, h, b2) /\ Around(h, b2)
    BY <1>4, <1>6, <2>1, <2>2, <2>3, Enabled
  <2>6. QED BY <2>1, <2>4, <2>5, HandlerStep
<1>11. CASE disable_service_cfm
  <2>1. b # <<>> /\ Head(b).op = "DISABLE_CFM" /\ hal2om' = h /\ bs2om' = b2
    BY <1>2, <1>3, <1>6, <1>11 DEF disable_service_cfm, FromBs, Next1
  <2>2. PICK t2 : t2 = IF Head(b).why = "CLEAR"
                       THEN ToHal(t, [op |-> "CLEAR_RSP", acl |-> Head(b).acl])
                       ELSE Event(t, Head(b).inst, "UNOFFLOAD_FROM_MICROSTACK_SUCCESS")
    OBVIOUS
  <2>3. Becomes(t2)
    BY <1>1, <1>3, <1>11, <2>2 DEF disable_service_cfm, FromBs
  <2>4. Core(t2, h, b2) /\ Around(h, b2)
    BY <1>4, <1>6, <2>1, <2>2, Disabled
  <2>5. QED BY <2>1, <2>3, <2>4, HandlerStep
<1>12. CASE read_cfm
  <2>1. b # <<>> /\ Head(b).op = "READ_CFM" /\ hal2om' = h /\ bs2om' = b2
    BY <1>2, <1>3, <1>6, <1>12 DEF read_cfm, FromBs, Next1
  <2>2. PICK m : m = Head(b)
    OBVIOUS
  <2>3. m.ep \in Endpoints /\ m.handle \in Sessions
    BY <1>5, <2>1, <2>2 DEF BsToOmMsgs
  <2>4. PICK k : k = First(SlotsWith(m.ep, m.acl, m.handle))
    OBVIOUS
  <2>5. PICK t2 : t2 = IF k = 0 THEN t
                       ELSE WithPending(ToAwm(t, [op |-> "OP_RSP", id |-> m.handle, ep |-> m.ep]),
                                        m.ep, k, PlaceOf(m.ep, k, m.handle), FALSE)
    OBVIOUS
  <2>6. Becomes(t2)
    BY <1>1, <1>3, <1>12, <2>2, <2>4, <2>5 DEF read_cfm, FromBs
  <2>7. Core(t, h, b2) /\ Around(h, b2)
    BY <1>4, <1>6, <2>1, CoreTakesB
  <2>8. Core(t2, h, b2)
    BY <1>7, <2>3, <2>4, <2>5, <2>7, Reads
  <2>9. QED BY <2>1, <2>6, <2>7, <2>8, HandlerStep
<1>13. QED BY <1>8, <1>9, <1>10, <1>11, <1>12 DEF microstack_gatt_cb

(* Messages of the microapps. *)
LEMMA FromMicroappsStep ==
  ASSUME Core(Now, hal2om, bs2om), Around(hal2om, bs2om), awm2om \in Seq(AwmToOmMsgs),
         UNCHANGED <<reg, stateTable, queue>>, FromMicroapps
  PROVE  Core(Now, hal2om, bs2om)' /\ Around(hal2om, bs2om)'
<1>1. PICK t : t = Now
  OBVIOUS
<1>2. PICK h : h = hal2om
  OBVIOUS
<1>3. PICK b : b = bs2om
  OBVIOUS
<1>4. Core(t, h, b) /\ Around(h, b) /\ Globals(t)
  BY <1>1, <1>2, <1>3 DEF Core
<1>5. PICK m : m = Head(awm2om)
  OBVIOUS
<1>6. t.inst = instances
  BY <1>1 DEF Now
<1>7. awm2om # <<>> => m \in AwmToOmMsgs
  BY <1>5, HeadOf
<1>8. CASE uapp_register
  <2>1. awm2om # <<>> /\ m.op = "APP_REG_REQ" /\ hal2om' = h /\ bs2om' = b
    BY <1>2, <1>3, <1>5, <1>8 DEF uapp_register, FromAwm, Next1
  <2>2. PICK n : n = [op |-> "REGISTER_REQ", ep |-> m.ep]
    OBVIOUS
  <2>3. Harmless(n)
    <3>1. m.ep \in Endpoints
      BY <1>7, <2>1 DEF AwmToOmMsgs
    <3>2. n \in OmToBsMsgs
      BY <2>2, <3>1 DEF OmToBsMsgs
    <3>3. QED BY <2>2, <3>2 DEF Harmless, Asks, Enables, ClearMsg
  <2>4. PICK t2 : t2 = ToBs(t, n)
    OBVIOUS
  <2>5. Becomes(t2)
    BY <1>1, <1>5, <1>8, <2>2, <2>4 DEF uapp_register, FromAwm
  <2>6. /\ Globals(t2) /\ t2.inst = t.inst /\ t2.svcs = t.svcs /\ t2.hal = t.hal
        /\ t2.bs = Append(t.bs, n)
    BY <1>4, <2>3, <2>4, QueueFields DEF Harmless
  <2>7. Told(t, t2)
    BY <2>3, <2>6 DEF Told
  <2>8. Core(t2, h, b)
    BY <1>4, <2>6, <2>7, CoreTold
  <2>9. QED BY <1>4, <2>1, <2>5, <2>8, HandlerStep
<1>9. CASE session_registered_resp \/ session_unregistered
  <2>1. PICK evt \in {"OFFLOAD_TO_MICROAPP_SUCCESS", "OFFLOAD_TO_MICROAPP_FAILURE",
                      "UNOFFLOAD_FROM_MICROAPP_SUCCESS"} : FromAwm(Routed(m.id, evt))
    BY <1>5, <1>9 DEF session_registered_resp, session_unregistered
  <2>2. PICK s : s = m.id
    OBVIOUS
  <2>3. PICK i : i = offload_instance_find_by_gatt_session_id(t, s)
    OBVIOUS
  <2>4. PICK t2 : t2 = IF i \in 1 .. NumInstances - 1 THEN Event(t, i, evt) ELSE t
    OBVIOUS
  <2>5. Becomes(t2) /\ hal2om' = h /\ bs2om' = b
    BY <1>1, <1>2, <1>3, <2>1, <2>2, <2>3, <2>4 DEF FromAwm, Routed
  <2>6. Core(t2, h, b)
    BY <1>4, <2>3, <2>4, Routes
  <2>7. QED BY <1>4, <2>5, <2>6, HandlerStep
<1>10. CASE uapp_char_evt
  <2>1. PICK i : i = offload_instance_find_by_gatt_session_id(t, m.id)
    OBVIOUS
  <2>2. PICK t2 : t2 = IF i = 0 THEN t ELSE AfterCharReq(i)
    OBVIOUS
  <2>3. Becomes(t2) /\ hal2om' = h /\ bs2om' = b
    BY <1>1, <1>2, <1>3, <1>5, <1>10, <2>1, <2>2 DEF uapp_char_evt, FromAwm
  <2>4. Core(t2, h, b)
    <3>1. CASE i = 0
      BY <1>4, <2>2, <3>1
    <3>2. CASE i # 0
      <4>1. i \in Live(t)
        BY <2>1, <3>2, FindSession
      <4>2. PICK s : s = SesOf(t, i).id
        OBVIOUS
      <4>3. \/ t2 = ToAwm(t, [op |-> "OP_RSP", id |-> s, ep |-> t.inst[i].ep])
            \/ t2 = WithPending(ToBs(t, [op |-> "READ_REQ", ep |-> t.inst[i].ep,
                                         acl |-> btConnId(SvcOf(t, i)), handle |-> s]),
                                t.inst[i].ep, t.inst[i].svc, t.inst[i].ses, TRUE)
        BY <1>1, <1>6, <2>2, <3>2, <4>2 DEF AfterCharReq
      <4>4. QED BY <1>4, <4>1, <4>2, <4>3, AsksToRead
    <3>3. QED BY <3>1, <3>2
  <2>5. QED BY <1>4, <2>3, <2>4, HandlerStep
<1>11. QED BY <1>8, <1>9, <1>10 DEF FromMicroapps

-----------------------------------------------------------------------------
(* The steps of the HAL. *)

(* Core and Around with all they depend on. *)
Whole(t, h, b, q, st) ==
  /\ Globals(t) /\ Owned(t) /\ Numbered(t)
  /\ Ledger(t, h, st)
  /\ ClearsAlone(t, h, q, b, st)
  /\ OneAsk(t, q, b) /\ AskSense(t, q, b) /\ IdsFinite(t.bs)
  /\ h \in Seq(HalToOmMsgs) /\ b \in Seq(BsToOmMsgs) /\ q \in Queues
  /\ reg \in Registrations /\ OneOpening(st) /\ Acls # {}

(* It is the two, with the queues and the table of the HAL as they are. *)
LEMMA WholeIs ==
  ASSUME NEW t, NEW h, NEW b
  PROVE  Whole(t, h, b, queue, stateTable) <=> Core(t, h, b) /\ Around(h, b)
BY DEF Whole, Core, Around

(* The state after a step, known by its parts. *)
LEMMA WholePrimed ==
  ASSUME NEW t, NEW h, NEW b, NEW q, NEW st, Now' = t, hal2om' = h, bs2om' = b, queue' = q,
         stateTable' = st, UNCHANGED reg, Whole(t, h, b, q, st)
  PROVE  Core(Now, hal2om, bs2om)' /\ Around(hal2om, bs2om)'
<1>1. (Owned(Now) /\ Globals(Now) /\ Numbered(Now) /\ IdsFinite(Now.bs))'
  BY DEF Whole, Owned
<1>2. Ledger(Now, hal2om, stateTable)'
  BY DEF Whole
<1>3. ClearsAlone(Now, hal2om, queue, bs2om, stateTable)'
  BY DEF Whole, ClearsAlone
<1>4. (OneAsk(Now, queue, bs2om) /\ AskSense(Now, queue, bs2om))'
  BY DEF Whole
<1>5. Around(hal2om, bs2om)'
  BY DEF Around, OneOpening, Whole
<1>6. QED BY <1>1, <1>2, <1>3, <1>4, <1>5 DEF Core

(* The ledger of one session, whose entry is v. *)
Entry(t, h, v, s) ==
  /\ Tokens(t, h, s) <= Count(v # "CLOSED")
  /\ Starts(t, h, s) <= Count(v = "OPENING")
  /\ Before(t.hal, Yes(s), Gone(s))
  /\ v = "OPENING" => \A l \in Where(h, Unreg(s)) : \E k \in Where(h, Reg(s)) : l < k
  /\ v = "OPENED" => Where(h, Unreg(s)) = {}

(* The ledger is that of every session. *)
LEMMA Entries ==
  ASSUME NEW t, NEW h, NEW st
  PROVE  Ledger(t, h, st) <=> \A s \in Sessions : Entry(t, h, st[s], s)
BY DEF Ledger, Entry

(* Where the messages of a set are when one is appended. *)
LEMMA WhereAppend ==
  ASSUME NEW D, NEW q \in Seq(D), NEW m \in D, NEW S
  PROVE  /\ m \notin S => Where(Append(q, m), S) = Where(q, S)
         /\ m \in S => Where(Append(q, m), S) = Where(q, S) \cup {Len(q) + 1}
         /\ \A k \in Where(q, S) : k < Len(q) + 1
<1>1. \A k \in 1 .. Len(q) + 1 : Append(q, m)[k] = IF k = Len(q) + 1 THEN m ELSE q[k]
  OBVIOUS
<1>2. DOMAIN Append(q, m) = 1 .. Len(q) + 1 /\ DOMAIN q = 1 .. Len(q) /\ Len(q) \in Nat
  OBVIOUS
<1>3. m \notin S => Where(Append(q, m), S) = Where(q, S)
  BY <1>1, <1>2 DEF Where
<1>4. m \in S => Where(Append(q, m), S) = Where(q, S) \cup {Len(q) + 1}
  BY <1>1, <1>2 DEF Where
<1>5. \A k \in Where(q, S) : k < Len(q) + 1
  BY <1>2 DEF Where
<1>6. QED BY <1>3, <1>4, <1>5

(* A request about somebody else changes no session's ledger. *)
LEMMA EntryElse ==
  ASSUME NEW t, Globals(t), NEW h \in Seq(HalToOmMsgs), NEW m \in HalToOmMsgs, NEW v, NEW s,
         m \notin Reg(s), m \notin Unreg(s), Entry(t, h, v, s)
  PROVE  Entry(t, Append(h, m), v, s)
<1>1. /\ Where(Append(h, m), Reg(s)) = Where(h, Reg(s))
      /\ Where(Append(h, m), Unreg(s)) = Where(h, Unreg(s))
  BY WhereAppend
<1>2. Num(Append(h, m), Reg(s)) = Num(h, Reg(s))
  BY <1>1 DEF Num
<1>3. QED BY <1>1, <1>2 DEF Entry, Tokens, Starts

(* registerService(): an entry where there was none. *)
LEMMA EntryOpens ==
  ASSUME NEW t, Globals(t), NEW h \in Seq(HalToOmMsgs), NEW s \in Sessions,
         NEW m \in HalToOmMsgs, m \in Reg(s), Entry(t, h, "CLOSED", s)
  PROVE  Entry(t, Append(h, m), "OPENING", s)
<1> DEFINE r == Num(h, Reg(s))
           w == Count(Working(t, s))
           g == Count(Beginning(t, s))
           n == Num(t.hal, No(s))
           y == Num(t.hal, Yes(s))
           o == Num(t.hal, Gone(s))
           r2 == Num(Append(h, m), Reg(s))
<1>1. r \in Nat /\ n \in Nat /\ y \in Nat /\ o \in Nat /\ w \in {0, 1} /\ g \in {0, 1}
  BY LedgerNumbers DEF Count
<1>2. r + w + n + o <= 0 /\ r + g + n + y <= 0
  BY DEF Entry, Tokens, Starts, Count
<1>3. r2 = r + 1
  <2>1. r2 = r + Count(m \in Reg(s))
    BY Appended
  <2>2. QED BY <2>1 DEF Count
<1>4. Tokens(t, Append(h, m), s) = r2 + w + n + o /\ Starts(t, Append(h, m), s) = r2 + g + n + y
  BY DEF Tokens, Starts
<1> HIDE DEF r, w, g, n, y, o, r2
<1>5. r2 + w + n + o = 1 /\ r2 + g + n + y = 1
  BY ONLY <1>1, <1>2, <1>3
<1>6. \A l \in Where(Append(h, m), Unreg(s)) : \E k \in Where(Append(h, m), Reg(s)) : l < k
  <2>1. m \notin Unreg(s)
    BY OneEach
  <2>2. /\ Where(Append(h, m), Unreg(s)) = Where(h, Unreg(s))
        /\ Len(h) + 1 \in Where(Append(h, m), Reg(s))
        /\ \A l \in Where(h, Unreg(s)) : l < Len(h) + 1
    BY <2>1, WhereAppend
  <2>3. QED BY <2>2
<1>7. Before(t.hal, Yes(s), Gone(s))
  BY DEF Entry
<1>8. QED BY <1>4, <1>5, <1>6, <1>7 DEF Entry, Count

(* unregisterService(): no answer to a registration is left. *)
LEMMA EntryCloses ==
  ASSUME NEW t, Globals(t), NEW h \in Seq(HalToOmMsgs), NEW s \in Sessions,
         NEW m \in HalToOmMsgs, m \in Unreg(s), Entry(t, h, "OPENED", s)
  PROVE  Entry(t, Append(h, m), "CLOSING", s)
<1>1. m \notin Reg(s)
  BY OneEach
<1>2. Where(Append(h, m), Reg(s)) = Where(h, Reg(s))
  BY <1>1, WhereAppend
<1>3. Num(Append(h, m), Reg(s)) = Num(h, Reg(s))
  BY <1>2 DEF Num
<1>4. Count("OPENED" # "CLOSED") = 1 /\ Count("CLOSING" # "CLOSED") = 1
        /\ Count("OPENED" = "OPENING") = 0 /\ Count("CLOSING" = "OPENING") = 0
  BY DEF Count
<1>5. QED BY <1>3, <1>4 DEF Entry, Tokens, Starts

(* processGattOffloadRx(): an answer is counted until it is heard. *)
LEMMA EntryHears ==
  ASSUME NEW t, Globals(t), NEW h \in Seq(HalToOmMsgs), NEW s \in Sessions, NEW v,
         Entry(t, h, v, s), t.hal # <<>>, NEW m, m = Head(t.hal), NEW t2, t2.hal = Tail(t.hal),
         Working(t2, s) <=> Working(t, s), Beginning(t2, s) <=> Beginning(t, s)
  PROVE  /\ m \in Yes(s) => v = "OPENING" /\ Entry(t2, h, "OPENED", s)
         /\ m \in No(s) => v = "OPENING" /\ Entry(t2, h, "CLOSED", s)
         /\ m \in Gone(s) => v # "CLOSED" /\ Entry(t2, h, "CLOSED", s)
         /\ m \notin Yes(s) \cup No(s) \cup Gone(s) => Entry(t2, h, v, s)
<1> DEFINE r == Num(h, Reg(s))
           w == Count(Working(t, s))
           g == Count(Beginning(t, s))
           n == Num(t.hal, No(s))
           y == Num(t.hal, Yes(s))
           o == Num(t.hal, Gone(s))
           n2 == Num(t2.hal, No(s))
           y2 == Num(t2.hal, Yes(s))
           o2 == Num(t2.hal, Gone(s))
<1>1. /\ r \in Nat /\ n \in Nat /\ y \in Nat /\ o \in Nat /\ w \in {0, 1} /\ g \in {0, 1}
      /\ r = 0 <=> Where(h, Reg(s)) = {}
  BY LedgerNumbers DEF Count
<1>2. t.hal \in Seq(OmToHalMsgs)
  BY GlobalsParts
<1>3. \A S : /\ Num(t2.hal, S) \in Nat
             /\ Num(t.hal, S) = Num(t2.hal, S) + Count(m \in S)
  BY <1>2, Taken1
<1>4. /\ Before(t2.hal, Yes(s), Gone(s))
      /\ m \in Gone(s) => y = 0
  <2>1. Before(t.hal, Yes(s), Gone(s))
    BY DEF Entry
  <2>2. QED BY <1>2, <2>1, Taken1
<1>5. /\ n2 \in Nat /\ y2 \in Nat /\ o2 \in Nat
      /\ n = n2 + Count(m \in No(s)) /\ y = y2 + Count(m \in Yes(s))
      /\ o = o2 + Count(m \in Gone(s))
  BY <1>3
<1>6. r + w + n + o <= Count(v # "CLOSED") /\ r + g + n + y <= Count(v = "OPENING")
  BY DEF Entry, Tokens, Starts
<1>7. /\ Tokens(t2, h, s) = r + w + n2 + o2
      /\ Starts(t2, h, s) = r + g + n2 + y2
  BY DEF Tokens, Starts, Count
<1>8. g <= w
  BY DEF Count, Beginning, Working
<1>9. v = "OPENING" => \A l \in Where(h, Unreg(s)) : \E k \in Where(h, Reg(s)) : l < k
  BY DEF Entry
<1>10. v = "OPENED" => Where(h, Unreg(s)) = {}
  BY DEF Entry
<1> HIDE DEF r, w, g, n, y, o, n2, y2, o2
<1>11. ASSUME m \in Yes(s) PROVE v = "OPENING" /\ Entry(t2, h, "OPENED", s)
  <2>1. m \notin No(s) /\ m \notin Gone(s)
    BY <1>11, OneEach
  <2>2. n = n2 /\ y = y2 + 1 /\ o = o2
    BY <1>5, <1>11, <2>1 DEF Count
  <2>3. v = "OPENING"
    BY <1>1, <1>5, <1>6, <2>2 DEF Count
  <2>4. r + w + n2 + o2 <= 1 /\ r + g + n2 + y2 <= 0 /\ r = 0
    BY <1>1, <1>5, <1>6, <2>2 DEF Count
  <2>5. Where(h, Unreg(s)) = {}
    BY <1>1, <1>9, <2>3, <2>4
  <2>6. QED BY <1>4, <1>7, <2>3, <2>4, <2>5 DEF Entry, Count
<1>12. ASSUME m \in No(s) PROVE v = "OPENING" /\ Entry(t2, h, "CLOSED", s)
  <2>1. m \notin Yes(s) /\ m \notin Gone(s)
    BY <1>12, OneEach
  <2>2. n = n2 + 1 /\ y = y2 /\ o = o2
    BY <1>5, <1>12, <2>1 DEF Count
  <2>3. v = "OPENING"
    BY <1>1, <1>5, <1>6, <2>2 DEF Count
  <2>4. r + w + n2 + o2 <= 0 /\ r + g + n2 + y2 <= 0
    BY <1>1, <1>5, <1>6, <2>2 DEF Count
  <2>5. QED BY <1>4, <1>7, <2>3, <2>4 DEF Entry, Count
<1>13. ASSUME m \in Gone(s) PROVE v # "CLOSED" /\ Entry(t2, h, "CLOSED", s)
  <2>1. m \notin Yes(s) /\ m \notin No(s) /\ y = 0
    BY <1>4, <1>13, OneEach
  <2>2. n = n2 /\ y = y2 /\ o = o2 + 1
    BY <1>5, <1>13, <2>1 DEF Count
  <2>3. v # "CLOSED"
    BY <1>1, <1>5, <1>6, <2>2 DEF Count
  <2>4. r + w + n + o <= 1
    <3>1. Count(v # "CLOSED") = 1
      BY <2>3 DEF Count
    <3>2. QED BY <1>6, <3>1
  <2>5. r + w + n2 + o2 <= 0 /\ r + g + n2 + y2 <= 0
    BY <1>1, <1>5, <1>8, <2>1, <2>2, <2>4
  <2>6. QED BY <1>4, <1>7, <2>3, <2>5 DEF Entry, Count
<1>14. ASSUME m \notin Yes(s) \cup No(s) \cup Gone(s) PROVE Entry(t2, h, v, s)
  <2>1. n = n2 /\ y = y2 /\ o = o2
    BY <1>5, <1>14 DEF Count
  <2>2. r + w + n2 + o2 <= Count(v # "CLOSED") /\ r + g + n2 + y2 <= Count(v = "OPENING")
    BY <1>6, <2>1
  <2>3. QED BY <1>4, <1>7, <1>9, <1>10, <2>2 DEF Entry
<1>15. QED BY <1>11, <1>12, <1>13, <1>14

(* ... and the answer to a clear finds nothing else on its way. *)
LEMMA EntryCleared ==
  ASSUME NEW t, Globals(t), NEW h \in Seq(HalToOmMsgs), NEW s \in Sessions, NEW v,
         Entry(t, h, v, s), v # "OPENING", t.hal # <<>>, NEW a, Head(t.hal) \in Cleared(a),
         Before(t.hal, Gone(s), Cleared(a)), NEW t2, t2.hal = Tail(t.hal),
         ~Working(t2, s), ~Beginning(t2, s)
  PROVE  Entry(t2, h, "CLOSED", s)
<1> DEFINE r == Num(h, Reg(s))
           n == Num(t.hal, No(s))
           y == Num(t.hal, Yes(s))
           o == Num(t.hal, Gone(s))
           n2 == Num(t2.hal, No(s))
           y2 == Num(t2.hal, Yes(s))
           o2 == Num(t2.hal, Gone(s))
<1>1. r \in Nat /\ n \in Nat /\ y \in Nat /\ o \in Nat /\ Count(Beginning(t, s)) \in {0, 1}
  BY LedgerNumbers DEF Count
<1>2. t.hal \in Seq(OmToHalMsgs)
  BY GlobalsParts
<1>3. /\ o = 0
      /\ \A S : Num(t2.hal, S) \in Nat /\ Num(t.hal, S) = Num(t2.hal, S) + Count(Head(t.hal) \in S)
  BY <1>2, Taken1
<1>4. /\ n2 \in Nat /\ y2 \in Nat /\ o2 \in Nat /\ n2 <= n /\ y2 <= y /\ o2 <= o
  BY <1>3 DEF Count
<1>5. r + Count(Beginning(t, s)) + n + y <= 0
  BY DEF Entry, Starts, Count
<1>6. Before(t2.hal, Yes(s), Gone(s))
  BY <1>2, Taken1 DEF Entry
<1>7. Tokens(t2, h, s) = r + 0 + n2 + o2 /\ Starts(t2, h, s) = r + 0 + n2 + y2
  BY DEF Tokens, Starts, Count
<1> HIDE DEF r, n, y, o, n2, y2, o2
<1>8. r + 0 + n2 + o2 <= 0 /\ r + 0 + n2 + y2 <= 0
  BY <1>1, <1>3, <1>4, <1>5
<1>9. QED BY <1>6, <1>7, <1>8 DEF Entry, Count

(* The clears as the surroundings know them. *)
LEMMA ClearingIs ==
  ASSUME NEW a
  PROVE  Clearing(a) <=> BeingCleared(Now, hal2om, queue, bs2om, a)
BY DEF Clearing, BeingCleared, Emptied, ClearMsg, Now

(* A call of the HAL asks for one thing, and changes its own table. *)
LEMMA WholeAsks ==
  ASSUME NEW t, NEW h, NEW b, Core(t, h, b), Around(h, b), NEW m \in HalToOmMsgs, NEW st,
         OneOpening(st), \A s \in Sessions : Entry(t, Append(h, m), st[s], s),
         \A a \in Acls : BeingCleared(t, h, queue, b, a) \/ m = [op |-> "CLEAR", acl |-> a] =>
            \A s \in Sessions : st[s] # "OPENING" /\ (st[s] # "CLOSED" => reg[s].acl = a)
  PROVE  Whole(t, Append(h, m), b, queue, st)
<1>1. /\ Globals(t) /\ Owned(t) /\ Numbered(t)
      /\ ClearsAlone(t, h, queue, b, stateTable)
      /\ OneAsk(t, queue, b) /\ AskSense(t, queue, b) /\ IdsFinite(t.bs)
  BY DEF Core
<1>2. h \in Seq(HalToOmMsgs) /\ b \in Seq(BsToOmMsgs) /\ queue \in Queues
        /\ reg \in Registrations /\ Acls # {}
  BY DEF Around
<1>3. Ledger(t, Append(h, m), st)
  BY Entries
<1>4. InFlight(Append(h, m)) = InFlight(h) \cup {m} /\ Append(h, m) \in Seq(HalToOmMsgs)
  BY <1>2, Appended
<1>5. \A a \in Acls : BeingCleared(t, Append(h, m), queue, b, a) =>
        BeingCleared(t, h, queue, b, a) \/ m = [op |-> "CLEAR", acl |-> a]
  BY <1>4 DEF BeingCleared
<1>6. ClearsAlone(t, Append(h, m), queue, b, st)
  BY <1>1, <1>5 DEF ClearsAlone
<1>7. QED BY <1>1, <1>2, <1>3, <1>4, <1>6 DEF Whole

(* registerService() while no registration of the endpoint and no clear is on. *)
LEMMA RegisterStep ==
  ASSUME Adversities \cap {"registrations", "clear", "acls"} = {},
         Core(Now, hal2om, bs2om), Around(hal2om, bs2om), stateTable \in [Sessions -> HalStates],
         NEW s \in Sessions, MayRegister(s), registerService(s),
         UNCHANGED <<Now, bs2om, queue, reg>>
  PROVE  Core(Now, hal2om, bs2om)' /\ Around(hal2om, bs2om)'
<1>1. PICK t : t = Now
  OBVIOUS
<1>2. PICK h : h = hal2om
  OBVIOUS
<1>3. PICK b : b = bs2om
  OBVIOUS
<1>4. PICK st : st = stateTable'
  OBVIOUS
<1>5. PICK m : m = [op |-> "REGISTER", id |-> s]
  OBVIOUS
<1>6. Core(t, h, b) /\ Around(h, b) /\ Globals(t) /\ h \in Seq(HalToOmMsgs)
        /\ Ledger(t, h, stateTable) /\ ClearsAlone(t, h, queue, b, stateTable)
        /\ OneOpening(stateTable) /\ reg \in Registrations
  BY <1>1, <1>2, <1>3 DEF Core, Around
<1>7. /\ stateTable[s] = "CLOSED" /\ hal2om' = Append(h, m)
      /\ st = [stateTable EXCEPT ![s] = "OPENING"]
  BY <1>2, <1>4, <1>5 DEF registerService
<1>8. st[s] = "OPENING" /\ \A u \in Sessions \ {s} : st[u] = stateTable[u]
  BY <1>7
<1>9. /\ \A u \in Sessions : reg[u].ep = reg[s].ep => stateTable[u] # "OPENING"
      /\ ~Clearing(reg[s].acl) /\ \A a \in Acls \ {reg[s].acl} : ~Clearing(a)
  BY DEF MayRegister, Tolerated, Opening
<1>10. \A a \in Acls : ~BeingCleared(t, h, queue, b, a)
  BY <1>1, <1>2, <1>3, <1>9, ClearingIs
<1>11. m \in HalToOmMsgs /\ m \in Reg(s) /\ \A a : m # [op |-> "CLEAR", acl |-> a]
  BY <1>5 DEF HalToOmMsgs, Reg
<1>12. OneOpening(st)
  BY <1>6, <1>8, <1>9 DEF OneOpening
<1>13. ASSUME NEW u \in Sessions PROVE Entry(t, Append(h, m), st[u], u)
  <2>1. Entry(t, h, stateTable[u], u)
    BY <1>6, Entries
  <2>2. CASE u = s
    BY <1>6, <1>7, <1>8, <1>11, <2>1, <2>2, EntryOpens
  <2>3. CASE u # s
    <3>1. m \notin Reg(u) /\ m \notin Unreg(u)
      BY <1>11, <2>3, OneEach
    <3>2. QED BY <1>6, <1>8, <1>11, <2>1, <2>3, <3>1, EntryElse
  <2>4. QED BY <2>2, <2>3
<1>14. Whole(t, Append(h, m), b, queue, st)
  BY <1>6, <1>10, <1>11, <1>12, <1>13, WholeAsks
<1>15. Now' = t /\ bs2om' = b /\ queue' = queue /\ stateTable' = st
  BY <1>1, <1>3, <1>4
<1>16. PICK q : q = queue
  OBVIOUS
<1>17. QED BY <1>7, <1>14, <1>15, <1>16, WholePrimed

(* unregisterService(): the session has been answered. *)
LEMMA UnregisterStep ==
  ASSUME Core(Now, hal2om, bs2om), Around(hal2om, bs2om), stateTable \in [Sessions -> HalStates],
         NEW s \in Sessions, unregisterService(s), UNCHANGED <<Now, bs2om, queue, reg>>
  PROVE  Core(Now, hal2om, bs2om)' /\ Around(hal2om, bs2om)'
<1>1. PICK t : t = Now
  OBVIOUS
<1>2. PICK h : h = hal2om
  OBVIOUS
<1>3. PICK b : b = bs2om
  OBVIOUS
<1>4. PICK st : st = stateTable'
  OBVIOUS
<1>5. PICK m : m = [op |-> "UNREGISTER", id |-> s]
  OBVIOUS
<1>6. Core(t, h, b) /\ Around(h, b) /\ Globals(t) /\ h \in Seq(HalToOmMsgs)
        /\ Ledger(t, h, stateTable) /\ ClearsAlone(t, h, queue, b, stateTable)
        /\ OneOpening(stateTable) /\ reg \in Registrations
  BY <1>1, <1>2, <1>3 DEF Core, Around
<1>7. /\ stateTable[s] = "OPENED" /\ hal2om' = Append(h, m)
      /\ st = [stateTable EXCEPT ![s] = "CLOSING"]
  BY <1>2, <1>4, <1>5 DEF unregisterService
<1>8. st[s] = "CLOSING" /\ \A u \in Sessions \ {s} : st[u] = stateTable[u]
  BY <1>7
<1>9. m \in HalToOmMsgs /\ m \in Unreg(s) /\ \A a : m # [op |-> "CLEAR", acl |-> a]
  BY <1>5 DEF HalToOmMsgs, Unreg
<1>10. OneOpening(st)
  BY <1>6, <1>8 DEF OneOpening
<1>11. \A a \in Acls : BeingCleared(t, h, queue, b, a) =>
         \A u \in Sessions : st[u] # "OPENING" /\ (st[u] # "CLOSED" => reg[u].acl = a)
  BY <1>6, <1>7, <1>8 DEF ClearsAlone
<1>12. ASSUME NEW u \in Sessions PROVE Entry(t, Append(h, m), st[u], u)
  <2>1. Entry(t, h, stateTable[u], u)
    BY <1>6, Entries
  <2>2. CASE u = s
    BY <1>6, <1>7, <1>8, <1>9, <2>1, <2>2, EntryCloses
  <2>3. CASE u # s
    <3>1. m \notin Reg(u) /\ m \notin Unreg(u)
      BY <1>9, <2>3, OneEach
    <3>2. QED BY <1>6, <1>8, <1>9, <2>1, <2>3, <3>1, EntryElse
  <2>4. QED BY <2>2, <2>3
<1>13. Whole(t, Append(h, m), b, queue, st)
  BY <1>6, <1>9, <1>10, <1>11, <1>12, WholeAsks
<1>14. Now' = t /\ bs2om' = b /\ queue' = queue /\ stateTable' = st
  BY <1>1, <1>3, <1>4
<1>15. PICK q : q = queue
  OBVIOUS
<1>16. QED BY <1>7, <1>13, <1>14, <1>15, WholePrimed

(* clearServices() of a connection with no session of another one about. *)
LEMMA ClearStep ==
  ASSUME Adversities \cap {"registrations", "clear", "acls"} = {},
         Core(Now, hal2om, bs2om), Around(hal2om, bs2om),
         NEW a \in Acls, MayClear(a), clearServices(a), UNCHANGED <<Now, bs2om, queue, reg>>
  PROVE  Core(Now, hal2om, bs2om)' /\ Around(hal2om, bs2om)'
<1>1. PICK t : t = Now
  OBVIOUS
<1>2. PICK h : h = hal2om
  OBVIOUS
<1>3. PICK b : b = bs2om
  OBVIOUS
<1>4. PICK st : st = stateTable
  OBVIOUS
<1>5. PICK m : m = [op |-> "CLEAR", acl |-> a]
  OBVIOUS
<1>6. Core(t, h, b) /\ Around(h, b) /\ Globals(t) /\ h \in Seq(HalToOmMsgs)
        /\ Ledger(t, h, st) /\ ClearsAlone(t, h, queue, b, st) /\ OneOpening(st)
  BY <1>1, <1>2, <1>3, <1>4 DEF Core, Around
<1>7. hal2om' = Append(h, m) /\ stateTable' = st
  BY <1>2, <1>4, <1>5 DEF clearServices
<1>8. /\ \A s \in Sessions : reg[s].acl = a => st[s] # "OPENING"
      /\ \A s \in Sessions : st[s] # "CLOSED" => reg[s].acl = a
  BY <1>4 DEF MayClear, Tolerated, Opening
<1>9. m \in HalToOmMsgs /\ \A s : m \notin Reg(s) /\ m \notin Unreg(s)
  BY <1>5 DEF HalToOmMsgs, Reg, Unreg
<1>10. \A c \in Acls : BeingCleared(t, h, queue, b, c) \/ m = [op |-> "CLEAR", acl |-> c] =>
         \A s \in Sessions : st[s] # "OPENING" /\ (st[s] # "CLOSED" => reg[s].acl = c)
  <2>1. \A c : m = [op |-> "CLEAR", acl |-> c] => c = a
    BY <1>5
  <2>2. \A s \in Sessions : st[s] # "OPENING"
    BY <1>8
  <2>3. QED BY <1>6, <1>8, <2>1, <2>2 DEF ClearsAlone
<1>11. \A s \in Sessions : Entry(t, Append(h, m), st[s], s)
  <2>1. \A s \in Sessions : Entry(t, h, st[s], s)
    BY <1>6, Entries
  <2>2. QED BY <1>6, <1>9, <2>1, EntryElse
<1>12. Whole(t, Append(h, m), b, queue, st)
  BY <1>6, <1>9, <1>10, <1>11, WholeAsks
<1>13. Now' = t /\ bs2om' = b /\ queue' = queue
  BY <1>1, <1>3
<1>14. PICK q : q = queue
  OBVIOUS
<1>15. QED BY <1>7, <1>12, <1>13, <1>14, WholePrimed

(* An answer less for the HAL. *)
LEMMA HeardFields ==
  ASSUME NEW t, Globals(t), t.hal # <<>>, NEW t2, t2 = [t EXCEPT !.hal = Tail(@)]
  PROVE  /\ Globals(t2) /\ t2.inst = t.inst /\ t2.svcs = t.svcs /\ t2.hal = Tail(t.hal)
         /\ t2.bs = t.bs
<1>1. Tail(t.hal) \in Seq(OmToHalMsgs)
  BY GlobalsParts, Taken1
<1>2. t \in [inst : [Slots -> Instance], svcs : Lists, hal : Seq(OmToHalMsgs),
             bs : Seq(OmToBsMsgs), awm : Seq(OmToAwmMsgs), failed : BOOLEAN]
  BY DEF Globals
<1>3. QED BY <1>1, <1>2 DEF Globals

(* What the HAL hears leaves the rest as it was, once its table is right. *)
LEMMA WholeHears ==
  ASSUME NEW t, NEW h, NEW b, Core(t, h, b), Around(h, b), t.hal # <<>>,
         NEW t2, t2 = [t EXCEPT !.hal = Tail(@)], NEW st,
         \A s \in Sessions : Entry(t2, h, st[s], s),
         \A s \in Sessions : /\ st[s] = "OPENING" => stateTable[s] = "OPENING"
                             /\ st[s] # "CLOSED" => stateTable[s] # "CLOSED"
  PROVE  Whole(t2, h, b, queue, st)
<1>1. /\ Globals(t) /\ Owned(t) /\ Numbered(t)
      /\ ClearsAlone(t, h, queue, b, stateTable)
      /\ OneAsk(t, queue, b) /\ AskSense(t, queue, b) /\ IdsFinite(t.bs)
  BY DEF Core
<1>2. h \in Seq(HalToOmMsgs) /\ b \in Seq(BsToOmMsgs) /\ queue \in Queues
        /\ reg \in Registrations /\ Acls # {} /\ OneOpening(stateTable)
  BY DEF Around
<1>3. /\ Globals(t2) /\ t2.inst = t.inst /\ t2.svcs = t.svcs /\ t2.hal = Tail(t.hal)
      /\ t2.bs = t.bs
  BY <1>1, HeardFields
<1>4. /\ Owned(t2) /\ Numbered(t2) /\ Live(t2) = Live(t)
      /\ \A j : SvcOf(t2, j) = SvcOf(t, j)
  BY ONLY <1>1, <1>3, SameOwned
<1>5. Ledger(t2, h, st)
  BY Entries
<1>6. OneOpening(st)
  BY <1>2 DEF OneOpening
<1>7. OneAsk(t2, queue, b) /\ AskSense(t2, queue, b)
  <2>1. OneAsk(t2, queue, b)
    BY ONLY <1>1, <1>3 DEF OneAsk, AsksOf
  <2>2. AskSense(t2, queue, b)
    BY ONLY <1>1, <1>3, <1>4 DEF AskSense
  <2>3. QED BY <2>1, <2>2
<1>8. ClearsAlone(t2, h, queue, b, st)
  <2>1. t.hal \in Seq(OmToHalMsgs)
    BY <1>1, GlobalsParts
  <2>2. InFlight(t2.hal) \subseteq InFlight(t.hal)
    BY <1>3, <2>1, Taken1
  <2>3. \A a : Emptied(t2, queue, b, a) => Emptied(t, queue, b, a)
    BY <1>3, <2>2 DEF Emptied
  <2>4. \A a : BeingCleared(t2, h, queue, b, a) => BeingCleared(t, h, queue, b, a)
    BY <2>3 DEF BeingCleared
  <2>5. \A s \in Sessions, a \in Acls : Before(t2.hal, Gone(s), Cleared(a))
    <3>1. \A s \in Sessions, a \in Acls : Before(t.hal, Gone(s), Cleared(a))
      BY <1>1 DEF ClearsAlone
    <3>2. QED BY <1>3, <2>1, <3>1, Taken1
  <2>6. QED BY <1>1, <1>4, <2>3, <2>4, <2>5 DEF ClearsAlone
<1>9. QED BY <1>1, <1>2, <1>3, <1>4, <1>5, <1>6, <1>7, <1>8 DEF Whole

(* processGattOffloadRx(): every answer finds the entry it is for. *)
LEMMA HearsStep ==
  ASSUME Core(Now, hal2om, bs2om), Around(hal2om, bs2om), stateTable \in [Sessions -> HalStates],
         processGattOffloadRx,
         UNCHANGED <<reg, failed, om2bs, bs2om, om2awm, instances, svc_list, queue>>
  PROVE  Core(Now, hal2om, bs2om)' /\ Around(hal2om, bs2om)'
<1>1. PICK t : t = Now
  OBVIOUS
<1>2. PICK h : h = hal2om
  OBVIOUS
<1>3. PICK b : b = bs2om
  OBVIOUS
<1>4. PICK st : st = stateTable'
  OBVIOUS
<1>5. PICK t2 : t2 = [t EXCEPT !.hal = Tail(@)]
  OBVIOUS
<1>6. PICK m : m = Head(t.hal)
  OBVIOUS
<1>7. Core(t, h, b) /\ Around(h, b) /\ Globals(t) /\ h \in Seq(HalToOmMsgs) /\ Owned(t)
        /\ Ledger(t, h, stateTable) /\ ClearsAlone(t, h, queue, b, stateTable)
  BY <1>1, <1>2, <1>3 DEF Core, Around
<1>8. t.hal = om2hal /\ t.hal # <<>> /\ hal2om' = h
  BY <1>1, <1>2 DEF Now, processGattOffloadRx
<1>9. Now' = t2
  BY <1>1, <1>5 DEF Now, processGattOffloadRx
<1>10. t.hal \in Seq(OmToHalMsgs) /\ m \in OmToHalMsgs /\ m \in InFlight(t.hal)
  BY <1>6, <1>7, <1>8, GlobalsParts, HeadOf
<1>11. st = CASE m.op = "REGISTER_RSP" -> updateState(m.id, IF m.ok THEN "OPENED" ELSE "CLOSED")
              [] m.op = "UNREGISTER_RSP" -> updateState(m.id, "CLOSED")
              [] m.op = "CLEAR_RSP" -> [s \in Sessions |-> "CLOSED"]
  BY <1>4, <1>6, <1>8 DEF processGattOffloadRx
<1>12. /\ Globals(t2) /\ t2.inst = t.inst /\ t2.svcs = t.svcs /\ t2.hal = Tail(t.hal)
  BY <1>5, <1>7, <1>8, HeardFields
<1>13. /\ Live(t2) = Live(t)
       /\ \A s : (Working(t2, s) <=> Working(t, s)) /\ (Beginning(t2, s) <=> Beginning(t, s))
  BY <1>12, SameOwned
<1>14. \A s \in Sessions : Entry(t, h, stateTable[s], s)
  BY <1>7, Entries
<1>15. ASSUME NEW s \in Sessions
       PROVE  /\ m \in Yes(s) => stateTable[s] = "OPENING" /\ Entry(t2, h, "OPENED", s)
              /\ m \in No(s) => stateTable[s] = "OPENING" /\ Entry(t2, h, "CLOSED", s)
              /\ m \in Gone(s) => stateTable[s] # "CLOSED" /\ Entry(t2, h, "CLOSED", s)
              /\ m \notin Yes(s) \cup No(s) \cup Gone(s) => Entry(t2, h, stateTable[s], s)
  <2>1. PICK v : v = stateTable[s]
    OBVIOUS
  <2>2. Entry(t, h, v, s)
    BY <1>14, <2>1
  <2>3. (Working(t2, s) <=> Working(t, s)) /\ (Beginning(t2, s) <=> Beginning(t, s))
    BY <1>13
  <2>4. s \in Sessions
    OBVIOUS
  <2>5. /\ m \in Yes(s) => v = "OPENING" /\ Entry(t2, h, "OPENED", s)
        /\ m \in No(s) => v = "OPENING" /\ Entry(t2, h, "CLOSED", s)
        /\ m \in Gone(s) => v # "CLOSED" /\ Entry(t2, h, "CLOSED", s)
        /\ m \notin Yes(s) \cup No(s) \cup Gone(s) => Entry(t2, h, v, s)
    BY ONLY <1>6, <1>7, <1>8, <1>12, <2>2, <2>3, <2>4, EntryHears
  <2>6. QED BY <2>1, <2>5
<1>16. /\ \A s \in Sessions : Entry(t2, h, st[s], s)
       /\ \A s \in Sessions : /\ st[s] = "OPENING" => stateTable[s] = "OPENING"
                              /\ st[s] # "CLOSED" => stateTable[s] # "CLOSED"
  <2>1. CASE m.op = "CLEAR_RSP"
    <3>1. PICK a \in Acls : m = [op |-> "CLEAR_RSP", acl |-> a]
      BY <1>10, <2>1 DEF OmToHalMsgs
    <3>2. st = [s \in Sessions |-> "CLOSED"]
      BY <1>11, <3>1
    <3>3. Emptied(t, queue, b, a) /\ BeingCleared(t, h, queue, b, a)
      BY <1>10, <3>1 DEF Emptied, BeingCleared
    <3>4. Live(t) = {} /\ \A s \in Sessions : stateTable[s] # "OPENING"
      BY <1>7, <3>3 DEF ClearsAlone
    <3>5. \A s : ~Working(t2, s) /\ ~Beginning(t2, s)
      BY <1>13, <3>4 DEF Working, Beginning
    <3>6. Head(t.hal) \in Cleared(a)
      BY <1>6, <3>1 DEF Cleared
    <3>7. ASSUME NEW s \in Sessions PROVE Entry(t2, h, "CLOSED", s)
      <4>1. PICK v : v = stateTable[s]
        OBVIOUS
      <4>2. Entry(t, h, v, s) /\ v # "OPENING"
        BY <1>14, <3>4, <4>1
      <4>3. Before(t.hal, Gone(s), Cleared(a))
        BY <1>7 DEF ClearsAlone
      <4>4. s \in Sessions /\ ~Working(t2, s) /\ ~Beginning(t2, s)
        BY <3>5
      <4>5. QED BY ONLY <1>7, <1>8, <1>12, <3>6, <4>2, <4>3, <4>4, EntryCleared
    <3>8. QED BY <3>2, <3>7
  <2>2. CASE m.op = "REGISTER_RSP"
    <3>1. PICK u \in Sessions, ok \in BOOLEAN : m = [op |-> "REGISTER_RSP", id |-> u, ok |-> ok]
      BY <1>10, <2>2 DEF OmToHalMsgs
    <3>2. m.id = u /\ m.ok = ok /\ m \in Yes(u) \cup No(u)
      BY <3>1 DEF Yes, No
    <3>3. PICK new : new = IF ok THEN "OPENED" ELSE "CLOSED"
      OBVIOUS
    <3>4. stateTable[u] = "OPENING" /\ Entry(t2, h, new, u)
      <4>1. (m \in Yes(u) /\ new = "OPENED") \/ (m \in No(u) /\ new = "CLOSED")
        BY <3>1, <3>3 DEF Yes, No
      <4>2. QED BY <1>15, <4>1
    <3>5. st = [stateTable EXCEPT ![u] = new]
      BY <1>11, <2>2, <3>2, <3>3, <3>4 DEF updateState
    <3>6. ASSUME NEW s \in Sessions, s # u PROVE Entry(t2, h, stateTable[s], s)
      <4>1. m \notin Yes(s) \cup No(s) \cup Gone(s)
        BY <3>2, <3>6, OneEach
      <4>2. QED BY <1>15, <4>1
    <3>7. st[u] = new /\ new \in {"OPENED", "CLOSED"} /\ \A s \in Sessions : s # u => st[s] = stateTable[s]
      BY <3>3, <3>5
    <3>8. QED BY <3>4, <3>6, <3>7
  <2>3. CASE m.op = "UNREGISTER_RSP"
    <3>1. PICK u \in Sessions : m = [op |-> "UNREGISTER_RSP", id |-> u]
      BY <1>10, <2>3 DEF OmToHalMsgs
    <3>2. m.id = u /\ m \in Gone(u)
      BY <3>1 DEF Gone
    <3>3. stateTable[u] # "CLOSED" /\ Entry(t2, h, "CLOSED", u)
      BY <1>15, <3>2
    <3>4. st = [stateTable EXCEPT ![u] = "CLOSED"]
      BY <1>11, <2>3, <3>2, <3>3 DEF updateState
    <3>5. ASSUME NEW s \in Sessions, s # u PROVE Entry(t2, h, stateTable[s], s)
      <4>1. m \notin Yes(s) \cup No(s) \cup Gone(s)
        BY <3>2, <3>5, OneEach
      <4>2. QED BY <1>15, <4>1
    <3>6. st[u] = "CLOSED" /\ \A s \in Sessions : s # u => st[s] = stateTable[s]
      BY <3>4
    <3>7. QED BY <3>3, <3>5, <3>6
  <2>4. QED BY <1>10, <2>1, <2>2, <2>3 DEF OmToHalMsgs
<1>17. Whole(t2, h, b, queue, st)
  BY <1>5, <1>7, <1>8, <1>16, WholeHears
<1>18. bs2om' = b /\ queue' = queue /\ stateTable' = st
  BY <1>3, <1>4
<1>19. PICK q : q = queue
  OBVIOUS
<1>20. QED BY <1>8, <1>9, <1>17, <1>18, <1>19, WholePrimed

-----------------------------------------------------------------------------
(* The steps of the microstack. *)

(* m answers the request r: what it asks of, and says to, an instance is what r    *)
(* did, and what it clears.                                                *)
Answers(r, m) ==
  /\ m \in BsToOmMsgs
  /\ \A i : Asks(m, i) => Asks(r, i)
  /\ Enables(m) => /\ Enables(r) /\ m.inst = r.inst
                   /\ IF m.ok THEN m.offloadId # 0 ELSE m.offloadId = r.offloadId
  /\ \A a \in Acls : ClearMsg(m, a) => ClearMsg(r, a)

(* m says nothing that a service or a clearing waits for.                    *)
Plain(m) == ~Enables(m) /\ \A a \in Acls : ~ClearMsg(m, a)

(* A question counts in a queue by the instance it is asked for. *)
LEMMA AnswerCounts ==
  ASSUME NEW r \in OmToBsMsgs, NEW m, Answers(r, m), NEW i
  PROVE  Count(m \in Asking(i)) <= Count(r \in Asking(i)) /\ Count(m \in Asking(i)) \in {0, 1}
BY DEF Answers, Asking, Count

(* Between the microstack and the profile manager a request is passed on, once. *)
LEMMA WholeRelays ==
  ASSUME NEW t, NEW h, NEW b, Core(t, h, b), Around(h, b), NEW a \in Acls,
         \A m \in InFlight(queue[a]) : m.acl = a,
         NEW t2, Globals(t2), t2.inst = t.inst, t2.svcs = t.svcs, t2.hal = t.hal,
         InFlight(t2.bs) \subseteq InFlight(t.bs),
         NEW q2 \in Seq(QueueReqs), NEW b2 \in Seq(BsToOmMsgs),
         \A i : Num(t2.bs, Asking(i)) + Num(q2, Asking(i)) + Num(b2, Asking(i))
                  <= Num(t.bs, Asking(i)) + Num(queue[a], Asking(i)) + Num(b, Asking(i)),
         \A m \in InFlight(q2) :
            m \in InFlight(queue[a]) \/ (m \in InFlight(t.bs) /\ m.acl = a),
         \A m \in InFlight(b2) :
            \/ m \in InFlight(b) \/ Plain(m)
            \/ \E r \in InFlight(t.bs) \cup InFlight(queue[a]) : Answers(r, m)
  PROVE  Whole(t2, h, b2, [queue EXCEPT ![a] = q2], stateTable)
<1> DEFINE q == [queue EXCEPT ![a] = q2]
<1>1. /\ Globals(t) /\ Owned(t) /\ Numbered(t) /\ Ledger(t, h, stateTable)
      /\ ClearsAlone(t, h, queue, b, stateTable)
      /\ OneAsk(t, queue, b) /\ AskSense(t, queue, b) /\ IdsFinite(t.bs)
  BY DEF Core
<1>2. /\ h \in Seq(HalToOmMsgs) /\ b \in Seq(BsToOmMsgs) /\ queue \in Queues
      /\ reg \in Registrations /\ Acls # {} /\ OneOpening(stateTable)
  BY DEF Around
<1>3. /\ q \in Queues /\ q[a] = q2 /\ \A c \in Acls \ {a} : q[c] = queue[c]
  BY <1>2 DEF Queues
<1>4. /\ Owned(t2) /\ Numbered(t2) /\ Live(t2) = Live(t)
      /\ \A j : SvcOf(t2, j) = SvcOf(t, j)
      /\ \A s : (Working(t2, s) <=> Working(t, s)) /\ (Beginning(t2, s) <=> Beginning(t, s))
  BY <1>1, SameOwned
<1>5. Ledger(t2, h, stateTable)
  BY <1>1, <1>2, <1>4, LedgerKept
<1>6. IdsFinite(t2.bs)
  BY <1>1 DEF IdsFinite
<1>7. NoAcl \notin Acls
  BY GattMarksAssumption
<1> HIDE DEF q
<1>8. ClearsAlone(t2, h, q, b2, stateTable)
  <2>1. ASSUME NEW c \in Acls, NEW m \in InFlight(b2), ClearMsg(m, c)
        PROVE  Emptied(t, queue, b, c)
    <3>1. CASE m \in InFlight(b)
      BY <2>1, <3>1 DEF Emptied
    <3>2. CASE m \notin InFlight(b)
      <4>1. PICK r \in InFlight(t.bs) \cup InFlight(queue[a]) : Answers(r, m)
        BY <2>1, <3>2 DEF Plain
      <4>2. ClearMsg(r, c)
        BY <2>1, <4>1 DEF Answers
      <4>3. r \in InFlight(queue[a]) => c = a
        BY <4>2 DEF ClearMsg
      <4>4. QED BY <4>1, <4>2, <4>3 DEF Emptied
    <3>3. QED BY <3>1, <3>2
  <2>2. ASSUME NEW c \in Acls, NEW m \in InFlight(q[c]), ClearMsg(m, c)
        PROVE  Emptied(t, queue, b, c)
    <3>1. CASE c = a
      BY <1>3, <2>2, <3>1 DEF Emptied
    <3>2. CASE c # a
      BY <1>3, <2>2, <3>2 DEF Emptied
    <3>3. QED BY <3>1, <3>2
  <2>3. \A c \in Acls : Emptied(t2, q, b2, c) => Emptied(t, queue, b, c)
    <3>1. SUFFICES ASSUME NEW c \in Acls, Emptied(t2, q, b2, c) PROVE Emptied(t, queue, b, c)
      OBVIOUS
    <3>2. CASE [op |-> "CLEAR_RSP", acl |-> c] \in InFlight(t2.hal)
      BY <3>2 DEF Emptied
    <3>3. CASE \E m \in InFlight(t2.bs) \cup InFlight(q[c]) \cup InFlight(b2) : ClearMsg(m, c)
      <4>1. PICK m \in InFlight(t2.bs) \cup InFlight(q[c]) \cup InFlight(b2) : ClearMsg(m, c)
        BY <3>3
      <4>2. CASE m \in InFlight(t2.bs)
        BY <4>1, <4>2 DEF Emptied
      <4>3. QED BY <2>1, <2>2, <4>1, <4>2
    <3>4. QED BY <3>1, <3>2, <3>3 DEF Emptied
  <2>4. \A c \in Acls : BeingCleared(t2, h, q, b2, c) => BeingCleared(t, h, queue, b, c)
    BY <2>3 DEF BeingCleared
  <2>5. QED BY <1>1, <1>4, <2>3, <2>4 DEF ClearsAlone
<1>9. AskSense(t2, q, b2)
  <2>1. \A m \in InFlight(t2.bs) : Enables(m) =>
          /\ m.offloadId = SvcOf(t2, m.inst).offloadId
          /\ m.acl \in {SvcOf(t2, m.inst).acl, NoAcl}
    BY <1>1, <1>4 DEF AskSense
  <2>2. ASSUME NEW c \in Acls, NEW m \in InFlight(q[c]), Enables(m)
        PROVE  m.offloadId = SvcOf(t2, m.inst).offloadId /\ SvcOf(t2, m.inst).acl = c
    <3>1. CASE m \in InFlight(queue[c])
      BY <1>1, <1>4, <2>2, <3>1 DEF AskSense
    <3>2. CASE m \notin InFlight(queue[c])
      <4>1. c = a /\ m \in InFlight(t.bs) /\ m.acl = a
        BY <1>3, <2>2, <3>2
      <4>2. m.offloadId = SvcOf(t, m.inst).offloadId /\ m.acl \in {SvcOf(t, m.inst).acl, NoAcl}
        BY <1>1, <2>2, <4>1 DEF AskSense
      <4>3. QED BY <1>4, <1>7, <4>1, <4>2
    <3>3. QED BY <3>1, <3>2
  <2>3. ASSUME NEW m \in InFlight(b2), Enables(m)
        PROVE  IF m.ok THEN m.offloadId # 0 ELSE m.offloadId = SvcOf(t2, m.inst).offloadId
    <3>1. CASE m \in InFlight(b)
      BY <1>1, <1>4, <2>3, <3>1 DEF AskSense
    <3>2. CASE m \notin InFlight(b)
      <4>1. PICK r \in InFlight(t.bs) \cup InFlight(queue[a]) : Answers(r, m)
        BY <2>3, <3>2 DEF Plain
      <4>2. /\ Enables(r) /\ m.inst = r.inst
            /\ IF m.ok THEN m.offloadId # 0 ELSE m.offloadId = r.offloadId
        BY <2>3, <4>1 DEF Answers
      <4>3. r.offloadId = SvcOf(t, r.inst).offloadId
        BY <1>1, <4>1, <4>2 DEF AskSense
      <4>4. QED BY <1>4, <4>2, <4>3
    <3>3. QED BY <3>1, <3>2
  <2>4. QED BY <2>1, <2>2, <2>3 DEF AskSense
<1>10. OneAsk(t2, q, b2)
  <2>1. SUFFICES ASSUME NEW i \in Slots, NEW c \in Acls
                 PROVE  AsksOf(t2, q, b2, i, c) <= Count(t2.inst[i].state = "OffloadReq")
    BY DEF OneAsk
  <2> DEFINE x == Num(t.bs, Asking(i))
             y == Num(queue[a], Asking(i))
             z == Num(b, Asking(i))
             w == Num(queue[c], Asking(i))
             x2 == Num(t2.bs, Asking(i))
             y2 == Num(q2, Asking(i))
             z2 == Num(b2, Asking(i))
             n == Count(t.inst[i].state = "OffloadReq")
  <2>2. x \in Nat /\ y \in Nat /\ z \in Nat /\ w \in Nat
    BY <1>1, <1>2, AskNumbers
  <2>3. x2 \in Nat /\ z2 \in Nat
    BY <1>3, AskNumbers
  <2>4. y2 \in Nat
    BY WhereFinite
  <2>5. x2 + y2 + z2 <= x + y + z
    OBVIOUS
  <2>6. x + y + z <= n /\ x + w + z <= n
    BY <1>1 DEF OneAsk, AsksOf
  <2>7. AsksOf(t2, q, b2, i, c) = x2 + (IF c = a THEN y2 ELSE w) + z2
    BY <1>3 DEF AsksOf
  <2>8. c # a => y = 0 \/ w = 0
    <3>1. SUFFICES ASSUME c # a, y # 0, w # 0 PROVE FALSE
      OBVIOUS
    <3>2. queue[a] \in Seq(QueueReqs) /\ queue[c] \in Seq(QueueReqs)
      BY <1>2 DEF Queues
    <3>3. Where(queue[a], Asking(i)) # {} /\ Where(queue[c], Asking(i)) # {}
      BY <3>1, <3>2, WhereFinite
    <3>4. PICK m \in InFlight(queue[a]) : m \in Asking(i)
      BY <3>3 DEF Where, InFlight
    <3>5. PICK l \in InFlight(queue[c]) : l \in Asking(i)
      BY <3>3 DEF Where, InFlight
    <3>6. m \in QueueReqs /\ l \in QueueReqs
      BY <3>2, <3>4, <3>5, Counted
    <3>7. Enables(m) /\ m.inst = i /\ Enables(l) /\ l.inst = i
      BY <3>4, <3>5, <3>6 DEF Asking, Asks, QueueReqs, EnableReqs, DisableReqs, ReadReqs
    <3>8. SvcOf(t, i).acl = a /\ SvcOf(t, i).acl = c
      BY <1>1, <3>4, <3>5, <3>7 DEF AskSense
    <3>9. QED BY <3>1, <3>8
  <2>9. Count(t2.inst[i].state = "OffloadReq") = n
    OBVIOUS
  <2> HIDE DEF x, y, z, w, x2, y2, z2, n
  <2>10. x2 + (IF c = a THEN y2 ELSE w) + z2 <= n
    <3>1. n \in {0, 1}
      BY DEF n, Count
    <3>2. QED BY ONLY <2>2, <2>3, <2>4, <2>5, <2>6, <2>8, <3>1
  <2>11. QED BY ONLY <2>7, <2>9, <2>10
<1>11. Whole(t2, h, b2, q, stateTable)
  BY <1>1, <1>2, <1>3, <1>4, <1>5, <1>6, <1>8, <1>9, <1>10 DEF Whole
<1>12. QED BY <1>11 DEF q

(* What the requests of a connection work on, and its type. *)
Enabling == [id : OffloadIds, ep : Endpoints, handles : SUBSET Sessions]

AtOK(u) ==
  /\ u \in [svcs : SUBSET Enabling, reading : Seq(ReadReqs), queue : Seq(QueueReqs),
            bs : Seq(BsToOmMsgs), failed : BOOLEAN]
  /\ IsFiniteSet(u.svcs) /\ Len(u.reading) <= 1

(* A request is dealt with, answered, or waits. *)
Handles(u, m, v) ==
  /\ AtOK(v)
  /\ \/ v.queue = u.queue /\ v.bs = u.bs
     \/ v.queue = Append(u.queue, m) /\ v.bs = u.bs
     \/ v.queue = u.queue /\ \E c : Answers(m, c) /\ v.bs = Append(u.bs, c)

WithServices(u, S) == [u EXCEPT !.svcs = S]

(* The parts of such a record, and of one with another answer or other services. *)
LEMMA AtFields ==
  ASSUME NEW u, AtOK(u)
  PROVE  /\ u.svcs \subseteq Enabling /\ u.reading \in Seq(ReadReqs) /\ u.queue \in Seq(QueueReqs)
         /\ u.bs \in Seq(BsToOmMsgs) /\ u.failed \in BOOLEAN
         /\ \A c \in BsToOmMsgs :
              /\ AtOK(Answer(u, c)) /\ Answer(u, c).svcs = u.svcs
              /\ Answer(u, c).queue = u.queue /\ Answer(u, c).bs = Append(u.bs, c)
              /\ Answer(u, c).reading = u.reading /\ Answer(u, c).failed = u.failed
         /\ \A S \in SUBSET Enabling : IsFiniteSet(S) =>
              /\ AtOK(WithServices(u, S)) /\ WithServices(u, S).queue = u.queue
              /\ WithServices(u, S).bs = u.bs /\ WithServices(u, S).failed = u.failed
              /\ WithServices(u, S).reading = u.reading
<1>1. u \in [svcs : SUBSET Enabling, reading : Seq(ReadReqs), queue : Seq(QueueReqs),
             bs : Seq(BsToOmMsgs), failed : BOOLEAN]
  BY DEF AtOK
<1>2. /\ u.svcs \subseteq Enabling /\ u.reading \in Seq(ReadReqs) /\ u.queue \in Seq(QueueReqs)
      /\ u.bs \in Seq(BsToOmMsgs) /\ u.failed \in BOOLEAN
  BY <1>1
<1>3. ASSUME NEW c \in BsToOmMsgs
      PROVE  /\ AtOK(Answer(u, c)) /\ Answer(u, c).svcs = u.svcs
             /\ Answer(u, c).queue = u.queue /\ Answer(u, c).bs = Append(u.bs, c)
             /\ Answer(u, c).reading = u.reading /\ Answer(u, c).failed = u.failed
  <2>1. Append(u.bs, c) \in Seq(BsToOmMsgs)
    BY <1>2
  <2>2. QED BY <1>1, <2>1 DEF AtOK, Answer
<1>4. ASSUME NEW S \in SUBSET Enabling, IsFiniteSet(S)
      PROVE  /\ AtOK(WithServices(u, S)) /\ WithServices(u, S).queue = u.queue
             /\ WithServices(u, S).bs = u.bs /\ WithServices(u, S).failed = u.failed
             /\ WithServices(u, S).reading = u.reading
  BY <1>1, <1>4 DEF AtOK, WithServices
<1>5. QED BY <1>2, <1>3, <1>4

(* The image of a finite set is finite. *)
LEMMA ImageFinite ==
  ASSUME NEW S, IsFiniteSet(S), NEW f, f = [x \in S |-> f[x]]
  PROVE  IsFiniteSet({f[x] : x \in S})
<1> DEFINE T == {f[x] : x \in S}
<1>1. f \in [S -> T]
  OBVIOUS
<1>2. \A y \in T : \E x \in S : f[x] = y
  OBVIOUS
<1> HIDE DEF T
<1>3. f \in Surjection(S, T)
  BY <1>1, <1>2, Fun_IsSurj
<1>4. IsFiniteSet(T)
  BY <1>3, FS_Surjection
<1>5. QED BY <1>4 DEF T

(* The answers to an enable request. *)
LEMMA EnableAnswers ==
  ASSUME NEW m \in EnableReqs, NEW ok \in BOOLEAN, NEW id \in Nat,
         IF ok THEN id # 0 ELSE id = m.offloadId,
         NEW c, c = [op |-> "ENABLE_CFM", inst |-> m.inst, why |-> m.why, ok |-> ok,
                     offloadId |-> id]
  PROVE  Answers(m, c) /\ c \in BsToOmMsgs
<1>1. m.op = "ENABLE_REQ" /\ m.inst \in Slots /\ m.why \in {"ENABLE", "DISABLE"}
  BY DEF EnableReqs
<1>2. c \in [op : {"ENABLE_CFM"}, inst : Slots, why : {"ENABLE", "DISABLE"}, ok : BOOLEAN,
             offloadId : Nat]
  BY <1>1
<1>3. c \in BsToOmMsgs
  BY <1>2 DEF BsToOmMsgs
<1>4. /\ c.op = "ENABLE_CFM" /\ c.inst = m.inst /\ c.why = m.why /\ c.ok = ok
      /\ c.offloadId = id
  OBVIOUS
<1>5. QED BY <1>1, <1>3, <1>4 DEF Answers, Asks, Enables, ClearMsg

(* GattOffloadEnableServiceReqHandler(), with all its outcomes. *)
LEMMA Enables1 ==
  ASSUME NEW u, AtOK(u), NEW m \in EnableReqs, NEW ids \in SUBSET OffloadIds,
         apps \subseteq Endpoints, NEW v \in Enable(u, m, ids)
  PROVE  Handles(u, m, v) /\ v.failed = u.failed /\ v.queue = u.queue
<1>1. /\ m.offloadId \in Nat /\ m.handles \in SUBSET Sessions /\ IsFiniteSet(u.svcs)
      /\ u.svcs \subseteq Enabling
  BY AtFields DEF EnableReqs, AtOK
<1>2. ASSUME NEW ok \in BOOLEAN, NEW id \in Nat, IF ok THEN id # 0 ELSE id = m.offloadId
      PROVE  LET w == EnableCfm(u, m, ok, id)
             IN /\ AtOK(w) /\ w.svcs = u.svcs /\ w.queue = u.queue /\ w.failed = u.failed
                /\ \E c : Answers(m, c) /\ w.bs = Append(u.bs, c)
  <2>1. PICK c : c = [op |-> "ENABLE_CFM", inst |-> m.inst, why |-> m.why, ok |-> ok,
                      offloadId |-> id]
    OBVIOUS
  <2>2. Answers(m, c) /\ c \in BsToOmMsgs
    BY <1>2, <2>1, EnableAnswers
  <2>3. EnableCfm(u, m, ok, id) = Answer(u, c)
    BY <2>1 DEF EnableCfm
  <2>4. QED BY <2>2, <2>3, AtFields
<1>3. ASSUME NEW ok \in BOOLEAN, NEW id \in Nat, IF ok THEN id # 0 ELSE id = m.offloadId,
             NEW S \in SUBSET Enabling, IsFiniteSet(S),
             v = [EnableCfm(u, m, ok, id) EXCEPT !.svcs = S]
      PROVE  Handles(u, m, v) /\ v.failed = u.failed /\ v.queue = u.queue
  <2>1. PICK w : w = EnableCfm(u, m, ok, id)
    OBVIOUS
  <2>2. /\ AtOK(w) /\ w.svcs = u.svcs /\ w.queue = u.queue /\ w.failed = u.failed
        /\ \E c : Answers(m, c) /\ w.bs = Append(u.bs, c)
    BY <1>2, <1>3, <2>1
  <2>3. v = WithServices(w, S)
    BY <1>3, <2>1 DEF WithServices
  <2>4. AtOK(v) /\ v.queue = w.queue /\ v.bs = w.bs /\ v.failed = w.failed
    <3>1. \A T \in SUBSET Enabling : IsFiniteSet(T) =>
            /\ AtOK(WithServices(w, T)) /\ WithServices(w, T).queue = w.queue
            /\ WithServices(w, T).bs = w.bs /\ WithServices(w, T).failed = w.failed
      BY ONLY ZenonT(60), <2>2, AtFields
    <3>2. S \in SUBSET Enabling /\ IsFiniteSet(S)
      BY <1>3
    <3>3. QED BY ONLY <2>3, <3>1, <3>2
  <2>5. QED BY <2>2, <2>4 DEF Handles
<1>4. PICK no \in BOOLEAN : no = FALSE
  OBVIOUS
<1>5. PICK yes \in BOOLEAN : yes = TRUE
  OBVIOUS
<1>6. CASE v = EnableCfm(u, m, FALSE, m.offloadId)
  <2>1. PICK id \in Nat : id = m.offloadId
    BY <1>1
  <2>2. v = EnableCfm(u, m, no, id)
    BY <1>4, <1>6, <2>1
  <2>3. QED BY <1>2, <1>4, <2>1, <2>2 DEF Handles
<1>7. CASE Valid(u, m) /\ v \in Enabled1(u, m, ids)
  <2>1. PICK id \in IF m.offloadId = 0 THEN ids ELSE {m.offloadId} :
          v = [EnableCfm(u, m, TRUE, id) EXCEPT
                 !.svcs = (@ \ Known(u, id)) \cup {[id |-> id, ep |-> m.ep, handles |-> m.handles]}]
    BY <1>7 DEF Enabled1
  <2>2. id \in OffloadIds /\ id \in Nat /\ id # 0
    BY <1>1, <2>1 DEF OffloadIds
  <2>3. PICK w : w = EnableCfm(u, m, yes, id)
    OBVIOUS
  <2>4. AtOK(w) /\ w.svcs = u.svcs
    BY <1>2, <1>5, <2>2, <2>3
  <2>5. PICK one : one = [id |-> id, ep |-> m.ep, handles |-> m.handles]
    OBVIOUS
  <2>6. PICK S : S = (u.svcs \ Known(u, id)) \cup {one}
    OBVIOUS
  <2>7. v = [w EXCEPT !.svcs = S]
    <3>1. v = [w EXCEPT !.svcs = (@ \ Known(u, id)) \cup {one}]
      BY <1>5, <2>1, <2>3, <2>5
    <3>2. [w EXCEPT !.svcs = (@ \ Known(u, id)) \cup {one}]
            = [w EXCEPT !.svcs = (w.svcs \ Known(u, id)) \cup {one}]
      OBVIOUS
    <3>3. QED BY <2>4, <2>6, <3>1, <3>2
  <2>8. m.ep \in Endpoints
    BY <1>7 DEF Valid
  <2>9. one \in Enabling
    BY <1>1, <2>2, <2>5, <2>8 DEF Enabling
  <2>10. S \in SUBSET Enabling
    BY <1>1, <2>6, <2>9
  <2>11. IsFiniteSet(u.svcs \ Known(u, id))
    BY <1>1, FS_Subset
  <2>12. IsFiniteSet(S)
    BY <2>6, <2>11, FS_AddElement
  <2>13. QED BY <1>3, <1>5, <2>2, <2>3, <2>7, <2>10, <2>12
<1>8. CASE v = FilterFailed(u, m)
  <2>1. PICK id \in Nat : id = m.offloadId
    BY <1>1
  <2>2. PICK w : w = EnableCfm(u, m, no, id)
    OBVIOUS
  <2>3. AtOK(w) /\ w.svcs = u.svcs
    BY <1>2, <1>4, <2>1, <2>2
  <2>4. PICK f : f = [svc \in u.svcs |-> IF svc.id = id THEN [svc EXCEPT !.handles = {}] ELSE svc]
    OBVIOUS
  <2>5. PICK S : S = {f[svc] : svc \in u.svcs}
    OBVIOUS
  <2>6. S = {IF svc.id = id THEN [svc EXCEPT !.handles = {}] ELSE svc : svc \in u.svcs}
    BY <2>4, <2>5
  <2>7. v = [w EXCEPT !.svcs = S]
    <3>1. v = [w EXCEPT !.svcs = {IF svc.id = id THEN [svc EXCEPT !.handles = {}] ELSE svc :
                                    svc \in @}]
      BY <1>4, <1>8, <2>1, <2>2 DEF FilterFailed
    <3>2. QED BY <2>3, <2>6, <3>1
  <2>8. IsFiniteSet(S)
    <3>1. f = [svc \in u.svcs |-> f[svc]]
      BY <2>4
    <3>2. QED BY <1>1, <2>5, <3>1, ImageFinite
  <2>9. S \in SUBSET Enabling
    <3>1. \A svc \in Enabling : [svc EXCEPT !.handles = {}] \in Enabling
      BY DEF Enabling
    <3>2. QED BY <1>1, <2>6, <3>1
  <2>10. QED BY <1>3, <1>4, <2>1, <2>2, <2>7, <2>8, <2>9
<1>9. QED BY <1>6, <1>7, <1>8 DEF Enable

(* The requests that may wait for the channel, by what they ask. *)
LEMMA QueueReqKinds ==
  ASSUME NEW m \in QueueReqs
  PROVE  /\ m \in OmToBsMsgs /\ m.op \in {"ENABLE_REQ", "DISABLE_REQ", "READ_REQ"}
         /\ m.op = "ENABLE_REQ" => m \in EnableReqs
         /\ m.op = "DISABLE_REQ" => m \in DisableReqs
         /\ m.op = "READ_REQ" => m \in ReadReqs
<1>1. m \in OmToBsMsgs
  BY DEF QueueReqs, OmToBsMsgs
<1>2. CASE m \in EnableReqs
  BY <1>1, <1>2 DEF EnableReqs
<1>3. CASE m \in DisableReqs
  BY <1>1, <1>3 DEF DisableReqs
<1>4. CASE m \in ReadReqs
  BY <1>1, <1>4 DEF ReadReqs
<1>5. QED BY <1>2, <1>3, <1>4 DEF QueueReqs

(* The answer to a disable request. *)
LEMMA DisableAnswers ==
  ASSUME NEW m \in DisableReqs,
         NEW c, c = [op |-> "DISABLE_CFM", inst |-> m.inst, why |-> m.why, acl |-> m.acl]
  PROVE  Answers(m, c) /\ c \in BsToOmMsgs
<1>1. m.op = "DISABLE_REQ"
  BY DEF DisableReqs
<1>2. c \in BsToOmMsgs
  BY DEF BsToOmMsgs, DisableReqs
<1>3. c.op = "DISABLE_CFM" /\ c.why = m.why /\ c.acl = m.acl
  OBVIOUS
<1>4. QED BY <1>1, <1>2, <1>3 DEF Answers, Asks, Enables, ClearMsg

(* GattOffloadDisableServiceReqHandler(). *)
LEMMA Disables ==
  ASSUME NEW u, AtOK(u), NEW m \in DisableReqs, NEW v, v = Disable(u, m)
  PROVE  Handles(u, m, v) /\ v.failed = u.failed /\ v.queue = u.queue
<1>1. PICK c : c = [op |-> "DISABLE_CFM", inst |-> m.inst, why |-> m.why, acl |-> m.acl]
  OBVIOUS
<1>2. Answers(m, c) /\ c \in BsToOmMsgs
  BY <1>1, DisableAnswers
<1>3. u.svcs \subseteq Enabling /\ IsFiniteSet(u.svcs)
  BY AtFields DEF AtOK
<1>4. PICK S : S = IF m.ids = {} THEN {} ELSE {svc \in u.svcs : svc.id \notin m.ids}
  OBVIOUS
<1>5. S \in SUBSET u.svcs
  BY <1>4
<1>6. S \in SUBSET Enabling /\ IsFiniteSet(S)
  BY <1>3, <1>5, FS_Subset
<1>7. PICK w : w = WithServices(u, S)
  OBVIOUS
<1>8. AtOK(w) /\ w.queue = u.queue /\ w.bs = u.bs /\ w.failed = u.failed
  <2>1. \A T \in SUBSET Enabling : IsFiniteSet(T) =>
          /\ AtOK(WithServices(u, T)) /\ WithServices(u, T).queue = u.queue
          /\ WithServices(u, T).bs = u.bs /\ WithServices(u, T).failed = u.failed
    BY AtFields
  <2>2. QED BY ONLY <1>6, <1>7, <2>1
<1>9. v = Answer(w, c)
  <2>1. v = Answer([u EXCEPT !.svcs = IF m.ids = {} THEN {} ELSE {svc \in @ : svc.id \notin m.ids}],
                   c)
    BY <1>1 DEF Disable
  <2>2. w = [u EXCEPT !.svcs = IF m.ids = {} THEN {} ELSE {svc \in u.svcs : svc.id \notin m.ids}]
    BY <1>4, <1>7 DEF WithServices
  <2>3. QED BY <2>1, <2>2
<1>10. AtOK(v) /\ v.queue = w.queue /\ v.bs = Append(w.bs, c) /\ v.failed = w.failed
  <2>1. \A d \in BsToOmMsgs :
          /\ AtOK(Answer(w, d)) /\ Answer(w, d).queue = w.queue
          /\ Answer(w, d).bs = Append(w.bs, d) /\ Answer(w, d).failed = w.failed
    BY ONLY <1>8, AtFields
  <2>2. QED BY ONLY <1>2, <1>9, <2>1
<1>11. QED BY <1>2, <1>8, <1>10 DEF Handles

(* CsrBtGattNewReqHandler() with the channel free. *)
LEMMA Performs ==
  ASSUME NEW u, AtOK(u), NEW m \in QueueReqs, NEW ids \in SUBSET OffloadIds,
         apps \subseteq Endpoints, NEW v \in Perform(u, m, ids)
  PROVE  Handles(u, m, v) /\ v.failed = u.failed /\ v.queue = u.queue
<1>1. CASE m.op = "ENABLE_REQ"
  <2>1. m \in EnableReqs /\ v \in Enable(u, m, ids)
    BY <1>1, QueueReqKinds DEF Perform
  <2>2. QED BY <2>1, Enables1
<1>2. CASE m.op = "DISABLE_REQ"
  <2>1. m \in DisableReqs /\ v = Disable(u, m)
    BY <1>2, QueueReqKinds DEF Perform
  <2>2. QED BY <2>1, Disables
<1>3. CASE m.op = "READ_REQ"
  <2>1. m \in ReadReqs /\ v = [u EXCEPT !.reading = <<m>>]
    BY <1>3, QueueReqKinds DEF Perform
  <2>2. <<m>> \in Seq(ReadReqs) /\ Len(<<m>>) <= 1
    BY <2>1
  <2>3. AtOK(v) /\ v.queue = u.queue /\ v.bs = u.bs /\ v.failed = u.failed
    BY <2>1, <2>2 DEF AtOK
  <2>4. QED BY <2>3 DEF Handles
<1>4. QED BY <1>1, <1>2, <1>3, QueueReqKinds

(* What has waited is performed, answered, or waits again. *)
LEMMA RestoresOne ==
  ASSUME NEW u, AtOK(u), NEW m \in QueueReqs, NEW ids \in SUBSET OffloadIds,
         apps \subseteq Endpoints, NEW v \in RestoreOne(u, m, ids)
  PROVE  Handles(u, m, v) /\ (m.op # "ENABLE_REQ" => v.failed = u.failed)
<1>1. CASE v = [u EXCEPT !.queue = Append(@, m)]
  <2>1. Append(u.queue, m) \in Seq(QueueReqs)
    BY AtFields
  <2>2. AtOK(v) /\ v.queue = Append(u.queue, m) /\ v.bs = u.bs /\ v.failed = u.failed
    BY <1>1, <2>1 DEF AtOK
  <2>3. QED BY <2>2 DEF Handles
<1>2. CASE v \in Perform(u, m, ids)
  BY <1>2, Performs
<1>3. CASE m.op = "ENABLE_REQ" /\ v = EnableCfm(u, m, FALSE, m.offloadId)
  <2>1. m \in EnableReqs
    BY <1>3, QueueReqKinds
  <2>2. PICK id \in Nat : id = m.offloadId
    BY <2>1 DEF EnableReqs
  <2>3. PICK no \in BOOLEAN : no = FALSE
    OBVIOUS
  <2>4. PICK c : c = [op |-> "ENABLE_CFM", inst |-> m.inst, why |-> m.why, ok |-> no,
                      offloadId |-> id]
    OBVIOUS
  <2>5. Answers(m, c) /\ c \in BsToOmMsgs
    BY <2>1, <2>2, <2>3, <2>4, EnableAnswers
  <2>6. v = Answer(u, c)
    BY <1>3, <2>2, <2>3, <2>4 DEF EnableCfm
  <2>7. \A d \in BsToOmMsgs :
          /\ AtOK(Answer(u, d)) /\ Answer(u, d).queue = u.queue
          /\ Answer(u, d).bs = Append(u.bs, d) /\ Answer(u, d).failed = u.failed
    BY AtFields
  <2>8. AtOK(v) /\ v.queue = u.queue /\ v.bs = Append(u.bs, c)
    BY ONLY <2>5, <2>6, <2>7
  <2>9. QED BY <1>3, <2>5, <2>8 DEF Handles
<1>4. CASE m.op = "ENABLE_REQ" /\ v = [u EXCEPT !.failed = TRUE]
  <2>1. AtOK(v) /\ v.queue = u.queue /\ v.bs = u.bs
    BY <1>4 DEF AtOK
  <2>2. QED BY <1>4, <2>1 DEF Handles
<1>5. QED BY <1>1, <1>2, <1>3, <1>4 DEF RestoreOne

(* A request that is handled counts no longer, or where it has gone. *)
LEMMA HandlesCounts ==
  ASSUME NEW u, AtOK(u), NEW m \in QueueReqs, NEW v, Handles(u, m, v)
  PROVE  /\ AtOK(v)
         /\ \A i : Num(v.queue, Asking(i)) + Num(v.bs, Asking(i))
                     <= Num(u.queue, Asking(i)) + Num(u.bs, Asking(i)) + Count(m \in Asking(i))
         /\ InFlight(v.queue) \subseteq InFlight(u.queue) \cup {m}
         /\ \A c \in InFlight(v.bs) : c \in InFlight(u.bs) \/ Answers(m, c)
<1>1. u.queue \in Seq(QueueReqs) /\ u.bs \in Seq(BsToOmMsgs)
  BY AtFields
<1>2. \A i : /\ Num(u.queue, Asking(i)) \in Nat /\ Num(u.bs, Asking(i)) \in Nat
             /\ Count(m \in Asking(i)) \in {0, 1}
  BY <1>1, WhereFinite DEF Count
<1>3. CASE v.queue = u.queue /\ v.bs = u.bs
  BY <1>2, <1>3 DEF Handles
<1>4. CASE v.queue = Append(u.queue, m) /\ v.bs = u.bs
  <2>1. /\ InFlight(v.queue) = InFlight(u.queue) \cup {m}
        /\ \A S : Num(v.queue, S) = Num(u.queue, S) + Count(m \in S)
    BY <1>1, <1>4, Appended
  <2>2. \A i : Num(v.queue, Asking(i)) = Num(u.queue, Asking(i)) + Count(m \in Asking(i))
    BY <2>1
  <2>3. QED BY <1>2, <1>4, <2>1, <2>2 DEF Handles
<1>5. CASE v.queue = u.queue /\ \E c : Answers(m, c) /\ v.bs = Append(u.bs, c)
  <2>1. PICK c : Answers(m, c) /\ v.bs = Append(u.bs, c)
    BY <1>5
  <2>2. c \in BsToOmMsgs /\ m \in OmToBsMsgs
    BY <2>1, QueueReqKinds DEF Answers
  <2>3. /\ InFlight(v.bs) = InFlight(u.bs) \cup {c}
        /\ \A S : Num(v.bs, S) = Num(u.bs, S) + Count(c \in S)
    BY <1>1, <2>1, <2>2, Appended
  <2>4. \A i : Num(v.bs, Asking(i)) = Num(u.bs, Asking(i)) + Count(c \in Asking(i))
    BY <2>3
  <2>5. \A i : Count(c \in Asking(i)) <= Count(m \in Asking(i)) /\ Count(c \in Asking(i)) \in {0, 1}
    BY <2>1, <2>2, AnswerCounts
  <2>6. QED BY <1>2, <1>5, <2>1, <2>3, <2>4, <2>5 DEF Handles
<1>6. QED BY <1>3, <1>4, <1>5 DEF Handles

(* How many of a set of messages there are behind position n. *)
Rest(q, n, S) == Cardinality({k \in DOMAIN q : k > n /\ q[k] \in S})

(* From all of them to none, one position at a time. *)
LEMMA RestSteps ==
  ASSUME NEW D, NEW q \in Seq(D), NEW S
  PROVE  /\ \A n \in 0 .. Len(q) : Rest(q, n, S) \in Nat
         /\ Rest(q, 0, S) = Num(q, S) /\ Rest(q, Len(q), S) = 0
         /\ \A n \in 1 .. Len(q) : Rest(q, n - 1, S) = Rest(q, n, S) + Count(q[n] \in S)
<1> DEFINE B(n) == {k \in DOMAIN q : k > n /\ q[k] \in S}
<1>1. DOMAIN q = 1 .. Len(q) /\ Len(q) \in Nat
  OBVIOUS
<1>2. ASSUME NEW n \in 0 .. Len(q) PROVE IsFiniteSet(B(n)) /\ Cardinality(B(n)) \in Nat
  <2>1. B(n) \in SUBSET (1 .. Len(q))
    BY <1>1
  <2>2. IsFiniteSet(1 .. Len(q))
    BY <1>1, FS_Interval
  <2> HIDE DEF B
  <2>3. IsFiniteSet(B(n))
    BY <2>1, <2>2, FS_Subset
  <2>4. QED BY <2>3, FS_CardinalityType
<1>3. B(0) = Where(q, S)
  BY <1>1 DEF Where
<1>4. B(Len(q)) = {}
  BY <1>1
<1>5. ASSUME NEW n \in 1 .. Len(q)
      PROVE  Cardinality(B(n - 1)) = Cardinality(B(n)) + Count(q[n] \in S)
  <2>1. n \in 0 .. Len(q) /\ n \notin B(n)
    BY <1>1
  <2>2. CASE q[n] \in S
    <3>1. B(n - 1) = B(n) \cup {n}
      BY <1>1, <2>2
    <3>2. IsFiniteSet(B(n))
      BY <1>2, <2>1
    <3> HIDE DEF B
    <3>3. Cardinality(B(n) \cup {n}) = Cardinality(B(n)) + 1
      BY <2>1, <3>2, FS_AddElement
    <3>4. QED BY <2>2, <3>1, <3>3 DEF Count
  <2>3. CASE q[n] \notin S
    <3>1. B(n - 1) = B(n)
      BY <1>1, <2>3
    <3>2. Cardinality(B(n)) \in Nat
      BY <1>2, <2>1
    <3>3. Count(q[n] \in S) = 0
      BY <2>3 DEF Count
    <3> HIDE DEF B
    <3>4. QED BY <3>1, <3>2, <3>3
  <2>4. QED BY <2>2, <2>3
<1>6. \A n : Rest(q, n, S) = Cardinality(B(n))
  BY DEF Rest
<1> HIDE DEF B
<1>7. QED BY <1>2, <1>3, <1>4, <1>5, <1>6, FS_EmptySet DEF Num

(* What CsrBtGattQueueRestoreHandler() may have got to, request after request. *)
Restorings(u, ids, f, n) ==
  f = [m \in 0 .. n |-> IF m = 0 THEN {[u EXCEPT !.queue = <<>>]}
                        ELSE UNION {RestoreOne(v, u.queue[m], ids) : v \in f[m - 1]}]

(* There is a function like that for every queue. *)
LEMMA RestoredSteps ==
  ASSUME NEW u, Len(u.queue) \in Nat, NEW ids
  PROVE  \E f : Restorings(u, ids, f, Len(u.queue)) /\ Restore(u, ids) = f[Len(u.queue)]
<1> DEFINE none == {n \in Nat : ~\E f : Restorings(u, ids, f, n)}
           Next0(V, m) == UNION {RestoreOne(v, u.queue[m], ids) : v \in V}
           first == {[u EXCEPT !.queue = <<>>]}
<1>1. none = {}
  <2>1. SUFFICES ASSUME none # {} PROVE FALSE
    OBVIOUS
  <2>2. PICK n \in none : \A m \in none : n <= m
    BY <2>1, LeastExists
  <2>3. CASE n = 0
    <3> DEFINE f == [m \in 0 .. 0 |-> first]
    <3>1. Restorings(u, ids, f, 0)
      BY DEF Restorings
    <3>2. QED BY <2>3, <3>1
  <2>4. CASE n # 0
    <3>1. n - 1 \in Nat /\ n - 1 \notin none
      BY <2>2, <2>4
    <3>2. PICK f : Restorings(u, ids, f, n - 1)
      BY <3>1
    <3>3. PICK last : last = Next0(f[n - 1], n)
      OBVIOUS
    <3> DEFINE g == [m \in 0 .. n |-> IF m = n THEN last ELSE f[m]]
    <3>4. ASSUME NEW m \in 0 .. n
          PROVE  g[m] = IF m = 0 THEN first ELSE Next0(g[m - 1], m)
      <4>1. CASE m = n
        <5>1. g[m] = last /\ m # 0 /\ g[m - 1] = f[n - 1]
          BY <2>4, <3>1, <4>1
        <5> HIDE DEF g, Next0
        <5>2. QED BY <3>3, <4>1, <5>1
      <4>2. CASE m # n
        <5>1. m \in 0 .. n - 1 /\ (m # 0 => m - 1 \in 0 .. n /\ m - 1 # n)
          BY <2>2, <4>2
        <5>2. f[m] = IF m = 0 THEN first ELSE Next0(f[m - 1], m)
          BY <3>2, <5>1 DEF Restorings
        <5>3. g[m] = f[m] /\ (m # 0 => g[m - 1] = f[m - 1])
          BY <4>2, <5>1
        <5> HIDE DEF g, Next0, first
        <5>4. QED BY <5>2, <5>3
      <4>3. QED BY <4>1, <4>2
    <3>5. g = [m \in 0 .. n |-> g[m]]
      OBVIOUS
    <3> HIDE DEF g
    <3>6. Restorings(u, ids, g, n)
      BY <3>4, <3>5 DEF Restorings
    <3>7. QED BY <2>2, <3>6
  <2>5. QED BY <2>3, <2>4
<1>2. \E f : Restorings(u, ids, f, Len(u.queue))
  BY <1>1
<1> DEFINE c == CHOOSE f : Restorings(u, ids, f, Len(u.queue))
<1>3. Restorings(u, ids, c, Len(u.queue))
  BY <1>2
<1>4. Restore(u, ids) = c[Len(u.queue)]
  BY DEF Restore, Restorings
<1> HIDE DEF c
<1>5. QED BY <1>3, <1>4

(* What holds while the requests that have waited are performed: those up to the   *)
(* n-th of u have been handled, and v is what that has left.               *)
Restoring(u, v, n) ==
  /\ AtOK(v)
  /\ \A i : Num(v.queue, Asking(i)) + Num(v.bs, Asking(i)) + Rest(u.queue, n, Asking(i))
              <= Num(u.queue, Asking(i)) + Num(u.bs, Asking(i))
  /\ InFlight(v.queue) \subseteq InFlight(u.queue)
  /\ \A c \in InFlight(v.bs) :
        c \in InFlight(u.bs) \/ \E r \in InFlight(u.queue) : Answers(r, c)
  /\ (\A r \in InFlight(u.queue) : r.op # "ENABLE_REQ") => v.failed = u.failed

(* The next request keeps that. *)
LEMMA RestoringNext ==
  ASSUME NEW u, AtOK(u), NEW n \in 1 .. Len(u.queue), NEW w, Restoring(u, w, n - 1),
         NEW ids \in SUBSET OffloadIds, apps \subseteq Endpoints,
         NEW v \in RestoreOne(w, u.queue[n], ids)
  PROVE  Restoring(u, v, n)
<1>1. u.queue \in Seq(QueueReqs) /\ u.bs \in Seq(BsToOmMsgs)
  BY AtFields
<1>2. PICK m : m = u.queue[n]
  OBVIOUS
<1>3. m \in QueueReqs /\ m \in InFlight(u.queue)
  BY <1>1, <1>2 DEF InFlight
<1>4. AtOK(w) /\ v \in RestoreOne(w, m, ids)
  BY <1>2 DEF Restoring
<1>5. Handles(w, m, v) /\ (m.op # "ENABLE_REQ" => v.failed = w.failed)
  BY <1>3, <1>4, RestoresOne
<1>6. /\ AtOK(v)
      /\ \A i : Num(v.queue, Asking(i)) + Num(v.bs, Asking(i))
                  <= Num(w.queue, Asking(i)) + Num(w.bs, Asking(i)) + Count(m \in Asking(i))
      /\ InFlight(v.queue) \subseteq InFlight(w.queue) \cup {m}
      /\ \A c \in InFlight(v.bs) : c \in InFlight(w.bs) \/ Answers(m, c)
  BY ONLY <1>3, <1>4, <1>5, HandlesCounts
<1>7. ASSUME NEW i
      PROVE  Num(v.queue, Asking(i)) + Num(v.bs, Asking(i)) + Rest(u.queue, n, Asking(i))
               <= Num(u.queue, Asking(i)) + Num(u.bs, Asking(i))
  <2> DEFINE a == Num(v.queue, Asking(i))
             b == Num(v.bs, Asking(i))
             c == Rest(u.queue, n, Asking(i))
             d == Num(u.queue, Asking(i))
             e == Num(u.bs, Asking(i))
             f == Num(w.queue, Asking(i))
             g == Num(w.bs, Asking(i))
             k == Rest(u.queue, n - 1, Asking(i))
             l == Count(m \in Asking(i))
  <2>1. a + b <= f + g + l
    BY <1>6
  <2>2. f + g + k <= d + e
    BY DEF Restoring
  <2>3. k = c + l /\ c \in Nat
    <3>1. n \in 0 .. Len(u.queue)
      BY <1>1
    <3>2. QED BY <1>1, <1>2, <3>1, RestSteps
  <2>4. a \in Nat /\ b \in Nat
    <3>1. v.queue \in Seq(QueueReqs) /\ v.bs \in Seq(BsToOmMsgs)
      BY <1>6, AtFields
    <3>2. QED BY <3>1, WhereFinite
  <2>5. f \in Nat /\ g \in Nat /\ d \in Nat /\ e \in Nat
    <3>1. w.queue \in Seq(QueueReqs) /\ w.bs \in Seq(BsToOmMsgs)
      BY <1>4, AtFields
    <3>2. QED BY <1>1, <3>1, WhereFinite
  <2>6. l \in {0, 1}
    BY DEF Count
  <2> HIDE DEF a, b, c, d, e, f, g, k, l
  <2>7. a + b + c <= d + e
    BY ONLY <2>1, <2>2, <2>3, <2>4, <2>5, <2>6
  <2>8. QED BY <2>7 DEF a, b, c, d, e
<1>8. InFlight(v.queue) \subseteq InFlight(u.queue)
  BY <1>3, <1>6 DEF Restoring
<1>9. \A c \in InFlight(v.bs) :
         c \in InFlight(u.bs) \/ \E r \in InFlight(u.queue) : Answers(r, c)
  BY <1>3, <1>6 DEF Restoring
<1>10. (\A r \in InFlight(u.queue) : r.op # "ENABLE_REQ") => v.failed = u.failed
  BY <1>3, <1>5 DEF Restoring
<1>11. QED BY <1>6, <1>7, <1>8, <1>9, <1>10 DEF Restoring

(* CsrBtGattQueueRestoreHandler(). *)
LEMMA Restored ==
  ASSUME NEW u, AtOK(u), NEW ids \in SUBSET OffloadIds, apps \subseteq Endpoints,
         NEW v \in Restore(u, ids)
  PROVE  Restoring(u, v, Len(u.queue))
<1>1. u.queue \in Seq(QueueReqs) /\ u.bs \in Seq(BsToOmMsgs) /\ Len(u.queue) \in Nat
  BY AtFields
<1>2. PICK f : Restorings(u, ids, f, Len(u.queue)) /\ Restore(u, ids) = f[Len(u.queue)]
  BY <1>1, RestoredSteps
<1>3. /\ f[0] = {[u EXCEPT !.queue = <<>>]}
      /\ \A n \in 1 .. Len(u.queue) :
            f[n] = UNION {RestoreOne(w, u.queue[n], ids) : w \in f[n - 1]}
  <2>1. \A n \in 0 .. Len(u.queue) :
          f[n] = IF n = 0 THEN {[u EXCEPT !.queue = <<>>]}
                 ELSE UNION {RestoreOne(w, u.queue[n], ids) : w \in f[n - 1]}
    BY <1>2 DEF Restorings
  <2>2. \A n \in 1 .. Len(u.queue) : n \in 0 .. Len(u.queue) /\ n # 0
    BY <1>1
  <2>3. 0 \in 0 .. Len(u.queue)
    BY <1>1
  <2>4. QED BY <2>1, <2>2, <2>3
<1> DEFINE Good(n) == \A w \in f[n] : Restoring(u, w, n)
           bad == {n \in 0 .. Len(u.queue) : ~Good(n)}
<1>4. Good(0)
  <2>1. PICK w : w = [u EXCEPT !.queue = <<>>]
    OBVIOUS
  <2>2. AtOK(w) /\ w.queue = <<>> /\ w.bs = u.bs /\ w.failed = u.failed
    <3>1. <<>> \in Seq(QueueReqs)
      OBVIOUS
    <3>2. /\ u \in [svcs : SUBSET Enabling, reading : Seq(ReadReqs), queue : Seq(QueueReqs),
                    bs : Seq(BsToOmMsgs), failed : BOOLEAN]
          /\ IsFiniteSet(u.svcs) /\ Len(u.reading) <= 1
      BY DEF AtOK
    <3>3. w.svcs = u.svcs /\ w.reading = u.reading
      BY <2>1, <3>2
    <3>4. QED BY <2>1, <3>1, <3>2, <3>3 DEF AtOK
  <2>3. \A i : /\ Num(w.queue, Asking(i)) = 0 /\ Num(w.bs, Asking(i)) = Num(u.bs, Asking(i))
               /\ Rest(u.queue, 0, Asking(i)) = Num(u.queue, Asking(i))
    BY <1>1, <2>2, NumEmpty, RestSteps
  <2>4. \A i : Num(u.queue, Asking(i)) \in Nat /\ Num(u.bs, Asking(i)) \in Nat
    BY <1>1, WhereFinite
  <2>5. InFlight(w.queue) = {}
    BY <2>2, NumEmpty
  <2>6. Restoring(u, w, 0)
    BY <2>2, <2>3, <2>4, <2>5 DEF Restoring
  <2>7. QED BY <1>3, <2>1, <2>6
<1>5. ASSUME NEW n \in 1 .. Len(u.queue), Good(n - 1) PROVE Good(n)
  <2>1. SUFFICES ASSUME NEW x \in f[n] PROVE Restoring(u, x, n)
    OBVIOUS
  <2>2. PICK w \in f[n - 1] : x \in RestoreOne(w, u.queue[n], ids)
    BY <1>3
  <2>3. Restoring(u, w, n - 1)
    BY <1>5, <2>2
  <2>4. QED BY <2>2, <2>3, RestoringNext
<1>6. bad = {}
  <2>1. SUFFICES ASSUME bad # {} PROVE FALSE
    OBVIOUS
  <2> HIDE DEF Good
  <2>2. bad \in SUBSET Nat
    BY <1>1
  <2>3. PICK n \in bad : \A m \in bad : n <= m
    BY <2>1, <2>2, LeastExists
  <2>4. n # 0
    BY <1>4, <2>3
  <2>5. n \in 1 .. Len(u.queue) /\ n - 1 \in 0 .. Len(u.queue) /\ ~(n <= n - 1)
    BY <1>1, <2>3, <2>4
  <2>6. Good(n - 1)
    BY <2>3, <2>5
  <2>7. Good(n)
    BY <1>5, <2>5, <2>6
  <2>8. QED BY <2>3, <2>7
<1>7. Good(Len(u.queue))
  <2> HIDE DEF Good
  <2>1. Len(u.queue) \in 0 .. Len(u.queue)
    BY <1>1
  <2>2. QED BY <1>6, <2>1
<1>8. QED BY <1>2, <1>7

(* What the microstack keeps. *)
StackOK ==
  /\ apps \subseteq Endpoints /\ conns \subseteq Acls
  /\ svcs \in [Acls -> SUBSET Enabling] /\ \A a \in Acls : IsFiniteSet(svcs[a])
  /\ reading \in [Acls -> Seq(ReadReqs)] /\ \A a \in Acls : Len(reading[a]) <= 1
  /\ \A a \in Acls : IdsFinite(queue[a]) /\ \A m \in InFlight(queue[a]) : m.acl = a

(* The record of a connection. *)
LEMMA AtIs ==
  ASSUME Core(Now, hal2om, bs2om), Around(hal2om, bs2om), StackOK, NEW a \in Acls
  PROVE  /\ AtOK(At(a)) /\ At(a).svcs = svcs[a] /\ At(a).reading = reading[a]
         /\ At(a).queue = queue[a] /\ At(a).bs = bs2om /\ At(a).failed = failed
<1>1. svcs[a] \in SUBSET Enabling /\ IsFiniteSet(svcs[a])
        /\ reading[a] \in Seq(ReadReqs) /\ Len(reading[a]) <= 1
  BY DEF StackOK
<1>2. queue[a] \in Seq(QueueReqs) /\ bs2om \in Seq(BsToOmMsgs)
  BY DEF Around, Queues
<1>3. failed \in BOOLEAN
  BY DEF Core, Globals, Now
<1>4. QED BY <1>1, <1>2, <1>3 DEF At, AtOK

(* A step of the microstack on one connection. *)
LEMMA StackMoves ==
  ASSUME Core(Now, hal2om, bs2om), Around(hal2om, bs2om), StackOK, NEW a \in Acls,
         NEW u, AtOK(u), AtBecomes(a, u), apps' \subseteq Endpoints, conns' \subseteq Acls,
         UNCHANGED <<reg, hal2om, om2hal, om2awm, stateTable, instances, svc_list>>,
         om2bs' \in Seq(OmToBsMsgs), InFlight(om2bs') \subseteq InFlight(om2bs),
         \A i : Num(om2bs', Asking(i)) + Num(u.queue, Asking(i)) + Num(u.bs, Asking(i))
                  <= Num(om2bs, Asking(i)) + Num(queue[a], Asking(i)) + Num(bs2om, Asking(i)),
         \A m \in InFlight(u.queue) :
            m \in InFlight(queue[a]) \/ (m \in InFlight(om2bs) /\ m.acl = a),
         \A m \in InFlight(u.bs) : m \in InFlight(bs2om) \/ Plain(m)
            \/ \E r \in InFlight(om2bs) \cup InFlight(queue[a]) : Answers(r, m)
  PROVE  Core(Now, hal2om, bs2om)' /\ Around(hal2om, bs2om)' /\ StackOK'
<1>1. PICK t : t = Now
  OBVIOUS
<1>2. PICK h : h = hal2om
  OBVIOUS
<1>3. PICK b : b = bs2om
  OBVIOUS
<1>4. PICK x : x = om2bs'
  OBVIOUS
<1>5. PICK b2 : b2 = u.bs
  OBVIOUS
<1>6. PICK q2 : q2 = u.queue
  OBVIOUS
<1>7. PICK q : q = [queue EXCEPT ![a] = q2]
  OBVIOUS
<1>8. PICK t2 : t2 = [inst |-> t.inst, svcs |-> t.svcs, hal |-> t.hal, bs |-> x, awm |-> t.awm,
                      failed |-> u.failed]
  OBVIOUS
<1>9. Core(t, h, b) /\ Around(h, b) /\ Globals(t) /\ t.bs = om2bs
  BY <1>1, <1>2, <1>3 DEF Core, Now
<1>10. /\ svcs' = [svcs EXCEPT ![a] = u.svcs] /\ reading' = [reading EXCEPT ![a] = u.reading]
       /\ queue' = q /\ bs2om' = b2 /\ failed' = u.failed
  BY <1>5, <1>6, <1>7 DEF AtBecomes
<1>11. Now' = t2
  BY <1>1, <1>4, <1>8, <1>10 DEF Now
<1>12. /\ u.svcs \subseteq Enabling /\ u.reading \in Seq(ReadReqs) /\ q2 \in Seq(QueueReqs)
       /\ b2 \in Seq(BsToOmMsgs) /\ u.failed \in BOOLEAN /\ IsFiniteSet(u.svcs)
       /\ Len(u.reading) <= 1
  BY <1>5, <1>6, AtFields DEF AtOK
<1>13. Globals(t2) /\ t2.inst = t.inst /\ t2.svcs = t.svcs /\ t2.hal = t.hal /\ t2.bs = x
  <2>1. x \in Seq(OmToBsMsgs)
    BY <1>4
  <2>2. t.awm \in Seq(OmToAwmMsgs) /\ t.hal \in Seq(OmToHalMsgs)
          /\ t.inst \in [Slots -> Instance] /\ t.svcs \in Lists
    BY <1>9, GlobalsParts
  <2>3. QED BY <1>8, <1>12, <2>1, <2>2 DEF Globals
<1>14. Whole(t2, h, b2, q, stateTable)
  <2>1. \A m \in InFlight(queue[a]) : m.acl = a
    BY DEF StackOK
  <2>2. InFlight(t2.bs) \subseteq InFlight(t.bs)
    BY <1>4, <1>9, <1>13
  <2>3. \A i : Num(t2.bs, Asking(i)) + Num(q2, Asking(i)) + Num(b2, Asking(i))
                 <= Num(t.bs, Asking(i)) + Num(queue[a], Asking(i)) + Num(b, Asking(i))
    BY <1>3, <1>4, <1>5, <1>6, <1>9, <1>13
  <2>4. \A m \in InFlight(q2) :
           m \in InFlight(queue[a]) \/ (m \in InFlight(t.bs) /\ m.acl = a)
    BY <1>6, <1>9
  <2>5. \A m \in InFlight(b2) :
           \/ m \in InFlight(b) \/ Plain(m)
           \/ \E r \in InFlight(t.bs) \cup InFlight(queue[a]) : Answers(r, m)
    BY <1>3, <1>5, <1>9
  <2>6. a \in Acls
    OBVIOUS
  <2>7. QED BY ONLY <1>7, <1>9, <1>12, <1>13, <2>1, <2>2, <2>3, <2>4, <2>5, <2>6, WholeRelays
<1>15. Core(Now, hal2om, bs2om)' /\ Around(hal2om, bs2om)'
  <2>1. PICK st : st = stateTable
    OBVIOUS
  <2>2. stateTable' = st /\ hal2om' = h
    BY <1>2, <2>1
  <2>3. Whole(t2, h, b2, q, st)
    BY <1>14, <2>1
  <2>4. QED BY <1>10, <1>11, <2>2, <2>3, WholePrimed
<1>16. StackOK'
  <2>1. svcs' \in [Acls -> SUBSET Enabling] /\ \A c \in Acls : IsFiniteSet(svcs'[c])
    BY <1>10, <1>12 DEF StackOK
  <2>2. reading' \in [Acls -> Seq(ReadReqs)] /\ \A c \in Acls : Len(reading'[c]) <= 1
    BY <1>10, <1>12 DEF StackOK
  <2>3. ASSUME NEW c \in Acls
        PROVE  IdsFinite(queue[c])' /\ \A m \in InFlight(queue'[c]) : m.acl = c
    <3>1. IdsFinite(queue[c]) /\ \A m \in InFlight(queue[c]) : m.acl = c
      BY DEF StackOK
    <3>2. queue'[c] = IF c = a THEN q2 ELSE queue[c]
      BY <1>7, <1>9, <1>10 DEF Around, Queues
    <3>3. IdsFinite(om2bs)
      BY <1>9 DEF Core
    <3>4. \A m \in InFlight(queue'[c]) :
             m \in InFlight(queue[c]) \/ (m \in InFlight(om2bs) /\ m.acl = c)
      BY <1>6, <3>2
    <3>5. \A m \in InFlight(queue'[c]) : m.op = "DISABLE_REQ" => IsFiniteSet(m.ids)
      BY <3>1, <3>3, <3>4 DEF IdsFinite
    <3>6. IdsFinite(queue'[c])
      BY <3>5 DEF IdsFinite
    <3>7. QED BY <3>1, <3>4, <3>6
  <2>4. QED BY <2>1, <2>2, <2>3 DEF StackOK
<1>17. QED BY <1>15, <1>16

(* What the profile manager's queue to the microstack is when a request is taken. *)
LEMMA RequestTaken ==
  ASSUME Core(Now, hal2om, bs2om), om2bs # <<>>, om2bs' = Tail(om2bs)
  PROVE  /\ om2bs' \in Seq(OmToBsMsgs) /\ InFlight(om2bs') \subseteq InFlight(om2bs)
         /\ Head(om2bs) \in OmToBsMsgs /\ Head(om2bs) \in InFlight(om2bs)
         /\ \A S : /\ Num(om2bs', S) \in Nat
                   /\ Num(om2bs, S) = Num(om2bs', S) + Count(Head(om2bs) \in S)
<1>1. Globals(Now) /\ Now.bs = om2bs
  BY DEF Core, Now
<1>2. om2bs \in Seq(OmToBsMsgs)
  BY <1>1, GlobalsParts
<1>3. QED BY <1>2, Taken1

(* A request that is answered at once. *)
LEMMA AnswersHead ==
  ASSUME Core(Now, hal2om, bs2om), Around(hal2om, bs2om), StackOK,
         apps' \subseteq Endpoints, conns' \subseteq Acls,
         UNCHANGED <<reg, hal2om, om2hal, om2awm, stateTable, instances, svc_list>>,
         UNCHANGED <<svcs, reading, queue, failed>>, om2bs # <<>>, om2bs' = Tail(om2bs),
         NEW c, Answers(Head(om2bs), c), bs2om' = Append(bs2om, c)
  PROVE  Core(Now, hal2om, bs2om)' /\ Around(hal2om, bs2om)' /\ StackOK'
<1>1. PICK a \in Acls : TRUE
  BY DEF Around
<1>2. PICK u : u = Answer(At(a), c)
  OBVIOUS
<1>3. c \in BsToOmMsgs
  BY DEF Answers
<1>4. /\ AtOK(At(a)) /\ At(a).svcs = svcs[a] /\ At(a).reading = reading[a]
      /\ At(a).queue = queue[a] /\ At(a).bs = bs2om /\ At(a).failed = failed
  BY AtIs
<1>5. \A d \in BsToOmMsgs :
         /\ AtOK(Answer(At(a), d)) /\ Answer(At(a), d).svcs = At(a).svcs
         /\ Answer(At(a), d).queue = At(a).queue /\ Answer(At(a), d).bs = Append(At(a).bs, d)
         /\ Answer(At(a), d).reading = At(a).reading /\ Answer(At(a), d).failed = At(a).failed
  BY ONLY <1>4, AtFields
<1>6. /\ AtOK(u) /\ u.svcs = svcs[a] /\ u.reading = reading[a] /\ u.queue = queue[a]
      /\ u.bs = Append(bs2om, c) /\ u.failed = failed
  BY ONLY <1>2, <1>3, <1>4, <1>5
<1>7. /\ svcs \in [Acls -> SUBSET Enabling] /\ reading \in [Acls -> Seq(ReadReqs)]
      /\ queue \in [Acls -> Seq(QueueReqs)] /\ bs2om \in Seq(BsToOmMsgs)
  BY DEF StackOK, Around, Queues
<1>8. AtBecomes(a, u)
  BY <1>6, <1>7 DEF AtBecomes
<1>9. /\ om2bs' \in Seq(OmToBsMsgs) /\ InFlight(om2bs') \subseteq InFlight(om2bs)
      /\ Head(om2bs) \in OmToBsMsgs /\ Head(om2bs) \in InFlight(om2bs)
      /\ \A S : /\ Num(om2bs', S) \in Nat
                /\ Num(om2bs, S) = Num(om2bs', S) + Count(Head(om2bs) \in S)
  BY RequestTaken
<1>10. /\ InFlight(u.bs) = InFlight(bs2om) \cup {c}
       /\ \A S : Num(bs2om, S) \in Nat /\ Num(u.bs, S) = Num(bs2om, S) + Count(c \in S)
  BY <1>3, <1>6, <1>7, Appended
<1>11. ASSUME NEW i
       PROVE  Num(om2bs', Asking(i)) + Num(u.queue, Asking(i)) + Num(u.bs, Asking(i))
                <= Num(om2bs, Asking(i)) + Num(queue[a], Asking(i)) + Num(bs2om, Asking(i))
  <2> DEFINE x == Num(om2bs, Asking(i))
             x2 == Num(om2bs', Asking(i))
             y == Num(queue[a], Asking(i))
             z == Num(bs2om, Asking(i))
             z2 == Num(u.bs, Asking(i))
             n == Count(Head(om2bs) \in Asking(i))
             l == Count(c \in Asking(i))
  <2>1. x = x2 + n /\ x2 \in Nat
    BY <1>9
  <2>2. z2 = z + l /\ z \in Nat
    BY <1>10
  <2>3. l <= n /\ l \in {0, 1}
    BY <1>9, AnswerCounts
  <2>4. y \in Nat /\ n \in {0, 1}
    BY <1>7, WhereFinite DEF Count
  <2>5. Num(u.queue, Asking(i)) = y
    BY <1>6
  <2> HIDE DEF x, x2, y, z, z2, n, l
  <2>6. x2 + y + z2 <= x + y + z
    BY ONLY <2>1, <2>2, <2>3, <2>4
  <2>7. QED BY <2>5, <2>6 DEF x, x2, y, z, z2
<1>12. \A m \in InFlight(u.queue) : m \in InFlight(queue[a])
  BY <1>6
<1>13. \A m \in InFlight(u.bs) : m \in InFlight(bs2om)
          \/ \E r \in InFlight(om2bs) \cup InFlight(queue[a]) : Answers(r, m)
  BY <1>9, <1>10
<1>14. QED BY <1>6, <1>8, <1>9, <1>11, <1>12, <1>13, StackMoves

(* A request that is handled on its connection. *)
LEMMA HandlesHead ==
  ASSUME Core(Now, hal2om, bs2om), Around(hal2om, bs2om), StackOK,
         apps' \subseteq Endpoints, conns' \subseteq Acls,
         UNCHANGED <<reg, hal2om, om2hal, om2awm, stateTable, instances, svc_list>>,
         om2bs # <<>>, om2bs' = Tail(om2bs), NEW a \in Acls,
         Head(om2bs) \in QueueReqs, Head(om2bs).acl = a,
         NEW u, Handles(At(a), Head(om2bs), u), AtBecomes(a, u)
  PROVE  Core(Now, hal2om, bs2om)' /\ Around(hal2om, bs2om)' /\ StackOK'
<1>1. PICK m : m = Head(om2bs)
  OBVIOUS
<1>2. m \in QueueReqs /\ m.acl = a /\ Handles(At(a), m, u)
  BY <1>1
<1>3. /\ AtOK(At(a)) /\ At(a).queue = queue[a] /\ At(a).bs = bs2om
  BY AtIs
<1>4. /\ AtOK(u)
      /\ \A i : Num(u.queue, Asking(i)) + Num(u.bs, Asking(i))
                  <= Num(At(a).queue, Asking(i)) + Num(At(a).bs, Asking(i)) + Count(m \in Asking(i))
      /\ InFlight(u.queue) \subseteq InFlight(At(a).queue) \cup {m}
      /\ \A c \in InFlight(u.bs) : c \in InFlight(At(a).bs) \/ Answers(m, c)
  BY ONLY <1>2, <1>3, HandlesCounts
<1>5. /\ om2bs' \in Seq(OmToBsMsgs) /\ InFlight(om2bs') \subseteq InFlight(om2bs)
      /\ m \in InFlight(om2bs)
      /\ \A S : /\ Num(om2bs', S) \in Nat
                /\ Num(om2bs, S) = Num(om2bs', S) + Count(m \in S)
  BY <1>1, RequestTaken
<1>6. ASSUME NEW i
      PROVE  Num(om2bs', Asking(i)) + Num(u.queue, Asking(i)) + Num(u.bs, Asking(i))
               <= Num(om2bs, Asking(i)) + Num(queue[a], Asking(i)) + Num(bs2om, Asking(i))
  <2> DEFINE x == Num(om2bs, Asking(i))
             x2 == Num(om2bs', Asking(i))
             y == Num(queue[a], Asking(i))
             y2 == Num(u.queue, Asking(i))
             z == Num(bs2om, Asking(i))
             z2 == Num(u.bs, Asking(i))
             n == Count(m \in Asking(i))
  <2>1. x = x2 + n /\ x2 \in Nat
    BY <1>5
  <2>2. y2 + z2 <= y + z + n
    BY <1>3, <1>4
  <2>3. y2 \in Nat /\ z2 \in Nat
    BY <1>4, AtFields, WhereFinite
  <2>4. y \in Nat /\ z \in Nat /\ n \in {0, 1}
    BY <1>3, AtFields, WhereFinite DEF Count
  <2> HIDE DEF x, x2, y, y2, z, z2, n
  <2>5. x2 + y2 + z2 <= x + y + z
    BY ONLY <2>1, <2>2, <2>3, <2>4
  <2>6. QED BY <2>5 DEF x, x2, y, y2, z, z2
<1>7. \A k \in InFlight(u.queue) :
         k \in InFlight(queue[a]) \/ (k \in InFlight(om2bs) /\ k.acl = a)
  BY <1>2, <1>3, <1>4, <1>5
<1>8. \A k \in InFlight(u.bs) : k \in InFlight(bs2om)
         \/ \E r \in InFlight(om2bs) \cup InFlight(queue[a]) : Answers(r, k)
  BY <1>3, <1>4, <1>5
<1>9. QED BY <1>4, <1>5, <1>6, <1>7, <1>8, StackMoves

(* GattOffloadRegisterReqHandler(). *)
LEMMA RegisterReqStep ==
  ASSUME Core(Now, hal2om, bs2om), Around(hal2om, bs2om), StackOK, RegisterReq,
         UNCHANGED <<reg, hal2om, om2hal, om2awm, stateTable, instances, svc_list>>
  PROVE  Core(Now, hal2om, bs2om)' /\ Around(hal2om, bs2om)' /\ StackOK'
<1>1. PICK m : m = Head(om2bs)
  OBVIOUS
<1>2. om2bs # <<>> /\ m.op = "REGISTER_REQ" /\ om2bs' = Tail(om2bs)
  BY <1>1 DEF RegisterReq, Next1, Took
<1>3. m \in OmToBsMsgs
  BY <1>1, <1>2, RequestTaken
<1>4. m.ep \in Endpoints
  BY <1>2, <1>3 DEF OmToBsMsgs, EnableReqs, DisableReqs, ReadReqs
<1>5. PICK c : c = [op |-> "REGISTER_CFM", ep |-> m.ep]
  OBVIOUS
<1>6. c \in BsToOmMsgs
  BY <1>4, <1>5 DEF BsToOmMsgs
<1>7. Answers(m, c)
  BY <1>5, <1>6 DEF Answers, Asks, Enables, ClearMsg
<1>8. bs2om' = Append(bs2om, c) /\ UNCHANGED <<svcs, reading, queue, failed>>
        /\ apps' \subseteq Endpoints /\ conns' \subseteq Acls
  BY <1>1, <1>4, <1>5 DEF RegisterReq, StackOK
<1>9. QED BY <1>1, <1>2, <1>7, <1>8, AnswersHead

(* GattOffloadConnInfoReqHandler(). *)
LEMMA ConnInfoReqStep ==
  ASSUME Core(Now, hal2om, bs2om), Around(hal2om, bs2om), StackOK, ConnInfoReq,
         UNCHANGED <<reg, hal2om, om2hal, om2awm, stateTable, instances, svc_list>>
  PROVE  Core(Now, hal2om, bs2om)' /\ Around(hal2om, bs2om)' /\ StackOK'
<1>1. PICK m : m = Head(om2bs)
  OBVIOUS
<1>2. om2bs # <<>> /\ m.op = "CONN_INFO_REQ" /\ om2bs' = Tail(om2bs)
  BY <1>1 DEF ConnInfoReq, Next1, Took
<1>3. m \in OmToBsMsgs
  BY <1>1, <1>2, RequestTaken
<1>4. m.inst \in Slots /\ m.acl \in Acls
  BY <1>2, <1>3 DEF OmToBsMsgs, EnableReqs, DisableReqs, ReadReqs
<1>5. PICK ok \in BOOLEAN :
        /\ conns' = IF ok THEN conns \cup {m.acl} ELSE conns
        /\ bs2om' = Append(bs2om, [op |-> "CONN_INFO_CFM", inst |-> m.inst, ok |-> ok])
  BY <1>1 DEF ConnInfoReq
<1>6. PICK c : c = [op |-> "CONN_INFO_CFM", inst |-> m.inst, ok |-> ok]
  OBVIOUS
<1>7. c \in BsToOmMsgs
  BY <1>4, <1>6 DEF BsToOmMsgs
<1>8. Answers(m, c)
  BY <1>2, <1>6, <1>7 DEF Answers, Asks, Enables, ClearMsg
<1>9. bs2om' = Append(bs2om, c) /\ UNCHANGED <<svcs, reading, queue, failed>>
        /\ apps' \subseteq Endpoints /\ conns' \subseteq Acls
  BY <1>4, <1>5, <1>6 DEF ConnInfoReq, StackOK
<1>10. QED BY <1>1, <1>2, <1>8, <1>9, AnswersHead

(* The handlers of the requests on a connection. *)
LEMMA ChannelReqStep ==
  ASSUME Core(Now, hal2om, bs2om), Around(hal2om, bs2om), StackOK,
         NEW fresh \in SUBSET OffloadIds, ChannelReq(fresh),
         UNCHANGED <<reg, hal2om, om2hal, om2awm, stateTable, instances, svc_list>>
  PROVE  Core(Now, hal2om, bs2om)' /\ Around(hal2om, bs2om)' /\ StackOK'
<1>1. PICK m : m = Head(om2bs)
  OBVIOUS
<1>2. PICK a : a = m.acl
  OBVIOUS
<1>3. /\ om2bs # <<>> /\ m.op \in {"ENABLE_REQ", "DISABLE_REQ", "READ_REQ"}
      /\ om2bs' = Tail(om2bs) /\ apps' = apps /\ conns' = conns
  BY <1>1 DEF ChannelReq, ChannelOps, Took
<1>4. m \in OmToBsMsgs
  BY <1>1, <1>3, RequestTaken
<1>5. m \in QueueReqs
  BY <1>3, <1>4 DEF OmToBsMsgs, QueueReqs
<1>6. apps' \subseteq Endpoints /\ conns' \subseteq Acls /\ apps \subseteq Endpoints
  BY <1>3 DEF StackOK
<1>7. CASE a \notin conns
  <2>1. PICK c : c = NoConnection(m)
    OBVIOUS
  <2>2. bs2om' = Append(bs2om, c) /\ UNCHANGED <<svcs, reading, queue, failed>>
    BY <1>1, <1>2, <1>7, <2>1 DEF ChannelReq
  <2>3. Answers(m, c)
    <3>1. CASE m.op = "ENABLE_REQ"
      <4>1. m \in EnableReqs
        BY <1>5, <3>1, QueueReqKinds
      <4>2. PICK no \in BOOLEAN : no = FALSE
        OBVIOUS
      <4>3. PICK id \in Nat : id = m.offloadId
        BY <4>1 DEF EnableReqs
      <4>4. c = [op |-> "ENABLE_CFM", inst |-> m.inst, why |-> m.why, ok |-> no,
                 offloadId |-> id]
        BY <2>1, <3>1, <4>2, <4>3 DEF NoConnection
      <4>5. QED BY <4>1, <4>2, <4>3, <4>4, EnableAnswers
    <3>2. CASE m.op = "DISABLE_REQ"
      <4>1. m \in DisableReqs
        BY <1>5, <3>2, QueueReqKinds
      <4>2. c = [op |-> "DISABLE_CFM", inst |-> m.inst, why |-> m.why, acl |-> m.acl]
        BY <2>1, <3>2 DEF NoConnection
      <4>3. QED BY <4>1, <4>2, DisableAnswers
    <3>3. CASE m.op = "READ_REQ"
      <4>1. m \in ReadReqs
        BY <1>5, <3>3, QueueReqKinds
      <4>2. c = [op |-> "READ_CFM", ep |-> m.ep, acl |-> m.acl, handle |-> m.handle]
        BY <2>1, <3>3 DEF NoConnection
      <4>3. c \in BsToOmMsgs
        BY <4>1, <4>2 DEF ReadReqs, BsToOmMsgs
      <4>4. QED BY <4>2, <4>3 DEF Answers, Asks, Enables, ClearMsg
    <3>4. QED BY <1>3, <3>1, <3>2, <3>3
  <2>4. QED BY <1>1, <1>3, <1>6, <2>2, <2>3, AnswersHead
<1>8. CASE a \in conns
  <2>1. a \in Acls
    BY <1>8 DEF StackOK
  <2>2. PICK u \in IF reading[a] # <<>> THEN {[At(a) EXCEPT !.queue = Append(@, m)]}
                   ELSE Perform(At(a), m, fresh) : AtBecomes(a, u)
    BY <1>1, <1>2, <1>8 DEF ChannelReq
  <2>3. AtOK(At(a))
    BY <2>1, AtIs
  <2>4. Handles(At(a), m, u)
    <3>1. CASE u = [At(a) EXCEPT !.queue = Append(@, m)]
      <4>1. PICK w : w = At(a)
        OBVIOUS
      <4>2. AtOK(w) /\ u = [w EXCEPT !.queue = Append(@, m)]
        BY <2>3, <3>1, <4>1
      <4>3. Append(w.queue, m) \in Seq(QueueReqs)
        BY <1>5, <4>2, AtFields
      <4>4. AtOK(u) /\ u.queue = Append(w.queue, m) /\ u.bs = w.bs
        BY <4>2, <4>3 DEF AtOK
      <4>5. QED BY <4>1, <4>4 DEF Handles
    <3>2. CASE u \in Perform(At(a), m, fresh)
      BY <1>5, <1>6, <2>3, <3>2, Performs
    <3>3. QED BY <2>2, <3>1, <3>2
  <2>5. QED BY <1>1, <1>2, <1>3, <1>5, <1>6, <2>1, <2>2, <2>4, HandlesHead
<1>9. QED BY <1>7, <1>8

(* CsrBtGattAttReadCfmHandler(). *)
LEMMA PeerAnswersStep ==
  ASSUME Core(Now, hal2om, bs2om), Around(hal2om, bs2om), StackOK,
         NEW fresh \in SUBSET OffloadIds, NEW a \in Acls, PeerAnswers(a, fresh),
         UNCHANGED <<reg, hal2om, om2hal, om2awm, stateTable, instances, svc_list>>
  PROVE  Core(Now, hal2om, bs2om)' /\ Around(hal2om, bs2om)' /\ StackOK'
<1>1. PICK m : m = reading[a][1]
  OBVIOUS
<1>2. PICK c : c = [op |-> "READ_CFM", ep |-> m.ep, acl |-> m.acl, handle |-> m.handle]
  OBVIOUS
<1>3. m \in ReadReqs
  <2>1. reading[a] \in Seq(ReadReqs) /\ reading[a] # <<>>
    BY DEF StackOK, PeerAnswers
  <2>2. QED BY <1>1, <2>1
<1>4. c \in BsToOmMsgs
  BY <1>2, <1>3 DEF ReadReqs, BsToOmMsgs
<1>5. PICK w : w = [At(a) EXCEPT !.reading = <<>>]
  OBVIOUS
<1>6. PICK d : d = Answer(w, c)
  OBVIOUS
<1>7. PICK u \in Restore(d, fresh) : AtBecomes(a, u)
  BY <1>1, <1>2, <1>5, <1>6 DEF PeerAnswers
<1>8. /\ AtOK(At(a)) /\ At(a).queue = queue[a] /\ At(a).bs = bs2om
  BY AtIs
<1>9. AtOK(w) /\ w.queue = queue[a] /\ w.bs = bs2om
  <2>1. <<>> \in Seq(ReadReqs) /\ Len(<<>>) <= 1
    OBVIOUS
  <2>2. QED BY <1>5, <1>8, <2>1 DEF AtOK
<1>10. AtOK(d) /\ d.queue = queue[a] /\ d.bs = Append(bs2om, c)
  <2>1. \A k \in BsToOmMsgs :
          /\ AtOK(Answer(w, k)) /\ Answer(w, k).queue = w.queue
          /\ Answer(w, k).bs = Append(w.bs, k)
    BY ONLY <1>9, AtFields
  <2>2. QED BY ONLY <1>4, <1>6, <1>9, <2>1
<1>11. apps \subseteq Endpoints /\ apps' \subseteq Endpoints /\ conns' \subseteq Acls
         /\ om2bs' = om2bs
  BY DEF PeerAnswers, StackOK
<1>12. Restoring(d, u, Len(d.queue))
  BY <1>7, <1>10, <1>11, Restored
<1>13. queue[a] \in Seq(QueueReqs) /\ bs2om \in Seq(BsToOmMsgs)
  BY DEF Around, Queues
<1>14. /\ InFlight(d.bs) = InFlight(bs2om) \cup {c}
       /\ \A S : Num(bs2om, S) \in Nat /\ Num(d.bs, S) = Num(bs2om, S) + Count(c \in S)
  BY <1>4, <1>10, <1>13, Appended
<1>15. \A i : c \notin Asking(i)
  BY <1>2 DEF Asking, Asks, Enables
<1>16. \A i : Num(d.bs, Asking(i)) = Num(bs2om, Asking(i))
  BY <1>14, <1>15 DEF Count
<1>17. Plain(c)
  BY <1>2 DEF Plain, Enables, ClearMsg
<1>18. \A i : Num(om2bs, Asking(i)) \in Nat
  <2>1. Globals(Now) /\ Now.bs = om2bs
    BY DEF Core, Now
  <2>2. QED BY <2>1, GlobalsParts, WhereFinite
<1>19. AtOK(u)
  BY <1>12 DEF Restoring
<1>20. ASSUME NEW i
       PROVE  Num(om2bs', Asking(i)) + Num(u.queue, Asking(i)) + Num(u.bs, Asking(i))
                <= Num(om2bs, Asking(i)) + Num(queue[a], Asking(i)) + Num(bs2om, Asking(i))
  <2> DEFINE x == Num(om2bs, Asking(i))
             y == Num(queue[a], Asking(i))
             y2 == Num(u.queue, Asking(i))
             z == Num(bs2om, Asking(i))
             z2 == Num(u.bs, Asking(i))
             k == Rest(d.queue, Len(d.queue), Asking(i))
  <2>1. y2 + z2 + k <= Num(d.queue, Asking(i)) + Num(d.bs, Asking(i))
    BY <1>12 DEF Restoring
  <2>2. Num(d.queue, Asking(i)) = y /\ Num(d.bs, Asking(i)) = z
    BY <1>10, <1>16
  <2>3. k = 0
    BY <1>10, <1>13, RestSteps
  <2>4. y2 \in Nat /\ z2 \in Nat
    BY <1>19, AtFields, WhereFinite
  <2>5. x \in Nat /\ y \in Nat /\ z \in Nat
    BY <1>13, <1>18, WhereFinite
  <2>6. Num(om2bs', Asking(i)) = x
    BY <1>11
  <2> HIDE DEF x, y, y2, z, z2, k
  <2>7. x + y2 + z2 <= x + y + z
    BY ONLY <2>1, <2>2, <2>3, <2>4, <2>5
  <2>8. QED BY <2>6, <2>7 DEF x, y, y2, z, z2
<1>21. \A k \in InFlight(u.queue) :
          k \in InFlight(queue[a]) \/ (k \in InFlight(om2bs) /\ k.acl = a)
  BY <1>10, <1>12 DEF Restoring
<1>22. \A k \in InFlight(u.bs) : k \in InFlight(bs2om) \/ Plain(k)
          \/ \E r \in InFlight(om2bs) \cup InFlight(queue[a]) : Answers(r, k)
  BY <1>10, <1>12, <1>14, <1>17 DEF Restoring
<1>23. om2bs' \in Seq(OmToBsMsgs) /\ InFlight(om2bs') \subseteq InFlight(om2bs)
  <2>1. Globals(Now) /\ Now.bs = om2bs
    BY DEF Core, Now
  <2>2. QED BY <1>11, <2>1, GlobalsParts
<1>24. QED BY <1>7, <1>11, <1>19, <1>20, <1>21, <1>22, <1>23, StackMoves

-----------------------------------------------------------------------------
(* The ids of new services. *)

(* Finitely many finite sets have finitely many members. *)
LEMMA UnionFinite ==
  ASSUME NEW S, IsFiniteSet(S), NEW f, f = [x \in S |-> f[x]], \A x \in S : IsFiniteSet(f[x])
  PROVE  IsFiniteSet(UNION {f[x] : x \in S})
<1>1. IsFiniteSet({f[x] : x \in S})
  BY ImageFinite
<1>2. \A T \in {f[x] : x \in S} : IsFiniteSet(T)
  OBVIOUS
<1>3. QED BY <1>1, <1>2, FS_UNION

(* A queue holds finitely many messages. *)
LEMMA InFlightFinite ==
  ASSUME NEW D, NEW q \in Seq(D)
  PROVE  IsFiniteSet(InFlight(q)) /\ InFlight(q) \subseteq D
<1>1. PICK f : f = [k \in 1 .. Len(q) |-> q[k]]
  OBVIOUS
<1>2. f = [k \in 1 .. Len(q) |-> f[k]] /\ \A k \in 1 .. Len(q) : f[k] = q[k] /\ q[k] \in D
  BY <1>1
<1>3. DOMAIN q = 1 .. Len(q) /\ Len(q) \in Nat
  OBVIOUS
<1>4. IsFiniteSet(1 .. Len(q))
  BY <1>3, FS_Interval
<1>5. IsFiniteSet({f[k] : k \in 1 .. Len(q)})
  BY <1>2, <1>4, ImageFinite
<1>6. InFlight(q) = {f[k] : k \in 1 .. Len(q)}
  BY <1>2, <1>3 DEF InFlight
<1>7. QED BY <1>2, <1>3, <1>5, <1>6 DEF InFlight

(* A message carries finitely many ids. *)
LEMMA IdsInFinite ==
  ASSUME NEW m, m.op = "DISABLE_REQ" => IsFiniteSet(m.ids)
  PROVE  IsFiniteSet(IdsIn(m))
<1>1. IsFiniteSet({m.offloadId}) /\ IsFiniteSet({})
  BY FS_Singleton, FS_EmptySet
<1>2. QED BY <1>1 DEF IdsIn

(* Finitely many ids are in use or on their way. *)
LEMMA TakenFinite ==
  ASSUME Core(Now, hal2om, bs2om), Around(hal2om, bs2om), StackOK,
         IsFiniteSet(Endpoints), IsFiniteSet(Acls)
  PROVE  IsFiniteSet(Taken)
<1>1. IsFiniteSet(UNION {{svc_list[e][k].offloadId : k \in SvcSlots(e)} : e \in Endpoints})
  <2>1. PICK f : f = [e \in Endpoints |-> {svc_list[e][k].offloadId : k \in SvcSlots(e)}]
    OBVIOUS
  <2>2. ASSUME NEW e \in Endpoints
        PROVE  IsFiniteSet(f[e])
    <3>1. PICK g : g = [k \in SvcSlots(e) |-> svc_list[e][k].offloadId]
      OBVIOUS
    <3>2. MaxServices[e] \in Nat
      BY ProfileAssumption
    <3>3. IsFiniteSet(SvcSlots(e))
      BY <3>2, FS_Interval DEF SvcSlots
    <3>4. g = [k \in SvcSlots(e) |-> g[k]]
      BY <3>1
    <3>5. IsFiniteSet({g[k] : k \in SvcSlots(e)})
      BY <3>3, <3>4, ImageFinite
    <3>6. f[e] = {g[k] : k \in SvcSlots(e)}
      BY <2>1, <3>1
    <3>7. QED BY <3>5, <3>6
  <2>3. f = [e \in Endpoints |-> f[e]]
    BY <2>1
  <2>4. IsFiniteSet(UNION {f[e] : e \in Endpoints})
    BY <2>2, <2>3, UnionFinite
  <2>5. {f[e] : e \in Endpoints}
          = {{svc_list[e][k].offloadId : k \in SvcSlots(e)} : e \in Endpoints}
    BY <2>1
  <2>6. QED BY <2>4, <2>5
<1>2. IsFiniteSet(UNION {{svc.id : svc \in svcs[a]} : a \in Acls})
  <2>1. PICK f : f = [a \in Acls |-> {svc.id : svc \in svcs[a]}]
    OBVIOUS
  <2>2. ASSUME NEW a \in Acls
        PROVE  IsFiniteSet(f[a])
    <3>1. PICK g : g = [svc \in svcs[a] |-> svc.id]
      OBVIOUS
    <3>2. IsFiniteSet(svcs[a])
      BY DEF StackOK
    <3>3. g = [svc \in svcs[a] |-> g[svc]]
      BY <3>1
    <3>4. IsFiniteSet({g[svc] : svc \in svcs[a]})
      BY <3>2, <3>3, ImageFinite
    <3>5. f[a] = {g[svc] : svc \in svcs[a]}
      BY <2>1, <3>1
    <3>6. QED BY <3>4, <3>5
  <2>3. f = [a \in Acls |-> f[a]]
    BY <2>1
  <2>4. IsFiniteSet(UNION {f[a] : a \in Acls})
    BY <2>2, <2>3, UnionFinite
  <2>5. {f[a] : a \in Acls} = {{svc.id : svc \in svcs[a]} : a \in Acls}
    BY <2>1
  <2>6. QED BY <2>4, <2>5
<1>3. PICK W : W = InFlight(om2bs) \cup InFlight(bs2om) \cup UNION {InFlight(queue[a]) : a \in Acls}
  OBVIOUS
<1>4. IsFiniteSet(UNION {IdsIn(m) : m \in W})
  <2>1. IsFiniteSet(InFlight(om2bs))
    <3>1. Globals(Now) /\ Now.bs = om2bs
      BY DEF Core, Now
    <3>2. om2bs \in Seq(OmToBsMsgs)
      BY <3>1, GlobalsParts
    <3>3. QED BY <3>2, InFlightFinite
  <2>2. IsFiniteSet(InFlight(bs2om)) /\ InFlight(bs2om) \subseteq BsToOmMsgs
    BY InFlightFinite DEF Around
  <2>3. IsFiniteSet(UNION {InFlight(queue[a]) : a \in Acls})
    <3>1. PICK f : f = [a \in Acls |-> InFlight(queue[a])]
      OBVIOUS
    <3>2. \A a \in Acls : queue[a] \in Seq(QueueReqs)
      BY DEF Around, Queues
    <3>3. \A a \in Acls : IsFiniteSet(f[a])
      BY <3>1, <3>2, InFlightFinite
    <3>4. f = [a \in Acls |-> f[a]]
      BY <3>1
    <3>5. IsFiniteSet(UNION {f[a] : a \in Acls})
      BY <3>3, <3>4, UnionFinite
    <3>6. {f[a] : a \in Acls} = {InFlight(queue[a]) : a \in Acls}
      BY <3>1
    <3>7. QED BY <3>5, <3>6
  <2>4. IsFiniteSet(W)
    <3>1. IsFiniteSet(InFlight(om2bs) \cup InFlight(bs2om))
      BY <2>1, <2>2, FS_Union
    <3>2. QED BY <1>3, <2>3, <3>1, FS_Union
  <2>5. ASSUME NEW m \in W
        PROVE  m.op = "DISABLE_REQ" => IsFiniteSet(m.ids)
    <3>1. CASE m \in InFlight(om2bs)
      <4>1. IdsFinite(om2bs)
        BY DEF Core, Now
      <4>2. QED BY <3>1, <4>1 DEF IdsFinite
    <3>2. CASE m \in InFlight(bs2om)
      BY <2>2, <3>2 DEF BsToOmMsgs
    <3>3. CASE \E a \in Acls : m \in InFlight(queue[a])
      BY <3>3 DEF StackOK, IdsFinite
    <3>4. QED BY <1>3, <3>1, <3>2, <3>3
  <2>6. \A m \in W : IsFiniteSet(IdsIn(m))
    BY <2>5, IdsInFinite
  <2>7. PICK f : f = [m \in W |-> IdsIn(m)]
    OBVIOUS
  <2>8. f = [m \in W |-> f[m]] /\ \A m \in W : IsFiniteSet(f[m])
    BY <2>6, <2>7
  <2>9. IsFiniteSet(UNION {f[m] : m \in W})
    BY <2>4, <2>8, UnionFinite
  <2>10. {f[m] : m \in W} = {IdsIn(m) : m \in W}
    BY <2>7
  <2>11. QED BY <2>9, <2>10
<1>5. PICK A : A = UNION {{svc_list[e][k].offloadId : k \in SvcSlots(e)} : e \in Endpoints}
  OBVIOUS
<1>6. PICK B : B = UNION {{svc.id : svc \in svcs[a]} : a \in Acls}
  OBVIOUS
<1>7. PICK C : C = UNION {IdsIn(m) : m \in W}
  OBVIOUS
<1>8. IsFiniteSet(A) /\ IsFiniteSet(B) /\ IsFiniteSet(C)
  BY <1>1, <1>2, <1>4, <1>5, <1>6, <1>7
<1>9. IsFiniteSet(A \cup B)
  BY ONLY <1>8, FS_Union
<1>10. IsFiniteSet(A \cup B \cup C)
  BY ONLY <1>8, <1>9, FS_Union
<1>11. Taken = A \cup B \cup C
  <2> DEFINE V == InFlight(om2bs) \cup InFlight(bs2om) \cup UNION {InFlight(queue[a]) : a \in Acls}
             X == UNION {{svc_list[e][k].offloadId : k \in SvcSlots(e)} : e \in Endpoints}
             Y == UNION {{svc.id : svc \in svcs[a]} : a \in Acls}
             Z == UNION {IdsIn(m) : m \in V}
  <2>1. Taken = X \cup Y \cup Z
    BY DEF Taken
  <2>2. W = V /\ A = X /\ B = Y
    BY ONLY <1>3, <1>5, <1>6
  <2>3. C = Z
    <3> HIDE DEF V
    <3>1. QED BY ONLY <1>7, <2>2
  <2> HIDE DEF X, Y, Z
  <2>4. QED BY ONLY <2>1, <2>2, <2>3
<1>12. QED BY <1>10, <1>11

(* So there is a new one, which is not zero. *)
LEMMA FreshIds ==
  ASSUME IsFiniteSet(Taken)
  PROVE  Fresh \in SUBSET OffloadIds
<1>1. PICK n : n = Cardinality(Taken)
  OBVIOUS
<1>2. n \in Nat
  BY <1>1, FS_CardinalityType
<1>3. IsFiniteSet(1 .. n + 1) /\ Cardinality(1 .. n + 1) = n + 1
  <2>1. 1 \in Int /\ n + 1 \in Int /\ 1 <= n + 1
    BY <1>2
  <2>2. IsFiniteSet(1 .. n + 1)
           /\ Cardinality(1 .. n + 1) = IF 1 > n + 1 THEN 0 ELSE (n + 1) - 1 + 1
    BY ONLY <2>1, FS_Interval
  <2>3. QED BY <1>2, <2>2
<1>4. ~(1 .. n + 1 \subseteq Taken)
  <2>1. SUFFICES ASSUME 1 .. n + 1 \subseteq Taken PROVE FALSE
    OBVIOUS
  <2>2. Cardinality(1 .. n + 1) <= n
    BY <1>1, <2>1, FS_Subset
  <2>3. QED BY <1>2, <1>3, <2>2
<1>5. PICK id : id = CHOOSE j \in 1 .. n + 1 : j \notin Taken
  OBVIOUS
<1>6. id \in 1 .. n + 1
  BY <1>4, <1>5
<1>7. id \in OffloadIds
  BY <1>2, <1>6 DEF OffloadIds
<1>8. Fresh = {id}
  BY <1>1, <1>5 DEF Fresh
<1>9. QED BY <1>7, <1>8

-----------------------------------------------------------------------------
(* The steps of the microapps. *)

(* What the microapps keep, and what they say. *)
AppsOK ==
  /\ awm2om \in Seq(AwmToOmMsgs)
  /\ activated \subseteq Endpoints
  /\ table = [e \in Endpoints |-> table[e]]
  /\ \A e \in Endpoints : table[e] \in [Places(e) -> Sessions \cup {NoSession}]
  /\ asked \in [Sessions -> Nat] /\ \A s \in Sessions : asked[s] <= reg[s].reads

(* None of that is the profile manager's, but the queue to the microapps. *)
LEMMA AppMoves ==
  ASSUME Core(Now, hal2om, bs2om), Around(hal2om, bs2om), om2awm' \in Seq(OmToAwmMsgs),
         UNCHANGED <<reg, failed, hal2om, om2hal, om2bs, bs2om, stateTable, instances, svc_list,
                     queue>>
  PROVE  Core(Now, hal2om, bs2om)' /\ Around(hal2om, bs2om)'
<1>1. PICK t : t = Now
  OBVIOUS
<1>2. PICK x : x = om2awm'
  OBVIOUS
<1>3. PICK t2 : t2 = [inst |-> t.inst, svcs |-> t.svcs, hal |-> t.hal, bs |-> t.bs, awm |-> x,
                      failed |-> t.failed]
  OBVIOUS
<1>4. Now' = t2
  BY <1>1, <1>2, <1>3 DEF Now
<1>5. Core(t, hal2om, bs2om) /\ Globals(t)
  BY <1>1 DEF Core
<1>6. x \in Seq(OmToAwmMsgs)
  BY <1>2
<1>7. Globals(t2)
  BY <1>3, <1>5, <1>6 DEF Globals
<1>8. t2.inst = t.inst /\ t2.svcs = t.svcs /\ t2.hal = t.hal /\ Told(t, t2)
  BY <1>3 DEF Told
<1>9. Core(t2, hal2om, bs2om)
  BY <1>5, <1>7, <1>8, CoreTold
<1>10. QED BY <1>4, <1>9, Primed

(* The queue to the microapps, and its head. *)
LEMMA ForApps ==
  ASSUME Core(Now, hal2om, bs2om)
  PROVE  /\ om2awm \in Seq(OmToAwmMsgs)
         /\ om2awm # <<>> => /\ Tail(om2awm) \in Seq(OmToAwmMsgs)
                             /\ Head(om2awm).id \in Sessions /\ Head(om2awm).ep \in Endpoints
<1>1. Globals(Now) /\ Now.awm = om2awm
  BY DEF Core, Now
<1>2. om2awm \in Seq(OmToAwmMsgs)
  BY <1>1, GlobalsParts
<1>3. om2awm # <<>> => Head(om2awm) \in OmToAwmMsgs /\ Tail(om2awm) \in Seq(OmToAwmMsgs)
  BY <1>2, HeadOf
<1>4. QED BY <1>2, <1>3 DEF OmToAwmMsgs

(* uapp_clear_session(). *)
LEMMA SessionCleared ==
  ASSUME AppsOK, NEW e \in Endpoints, NEW s, uapp_clear_session(e, s)
  PROVE  /\ table' = [c \in Endpoints |-> table'[c]]
         /\ \A c \in Endpoints : table'[c] \in [Places(c) -> Sessions \cup {NoSession}]
<1>1. PICK row : row = [k \in Places(e) |->
                          IF /\ k \in {j \in Places(e) : table[e][j] = s}
                             /\ \A l \in {j \in Places(e) : table[e][j] = s} : k <= l
                          THEN NoSession ELSE table[e][k]]
  OBVIOUS
<1>2. table' = [table EXCEPT ![e] = row]
  BY <1>1 DEF uapp_clear_session, AppsOK
<1>3. table[e] \in [Places(e) -> Sessions \cup {NoSession}]
  BY DEF AppsOK
<1>4. row \in [Places(e) -> Sessions \cup {NoSession}]
  BY <1>1, <1>3
<1>5. table = [c \in Endpoints |-> table[c]]
        /\ \A c \in Endpoints : table[c] \in [Places(c) -> Sessions \cup {NoSession}]
  BY DEF AppsOK
<1>6. /\ table' = [c \in Endpoints |-> IF c = e THEN row ELSE table[c]]
      /\ \A c \in Endpoints : table'[c] = IF c = e THEN row ELSE table[c]
  BY ONLY <1>2, <1>5
<1>7. table' = [c \in Endpoints |-> table'[c]]
  BY ONLY <1>6
<1>8. \A c \in Endpoints : table'[c] \in [Places(c) -> Sessions \cup {NoSession}]
  BY ONLY <1>4, <1>5, <1>6
<1>9. QED BY <1>7, <1>8

(* A session is no longer waited for. *)
LEMMA AskedLess ==
  ASSUME AppsOK, Around(hal2om, bs2om), UNCHANGED reg, NEW s \in Sessions, NEW n \in Nat,
         n <= reg[s].reads, asked' = [asked EXCEPT ![s] = n]
  PROVE  asked' \in [Sessions -> Nat] /\ \A u \in Sessions : asked'[u] <= reg'[u].reads
BY DEF AppsOK

(* gatt_app_mgr_cb(). *)
LEMMA AppHandles ==
  ASSUME AppsOK, Core(Now, hal2om, bs2om), Around(hal2om, bs2om), gatt_app_mgr_cb, UNCHANGED reg
  PROVE  AppsOK' /\ om2awm' \in Seq(OmToAwmMsgs)
<1>1. PICK s : s = Head(om2awm).id
  OBVIOUS
<1>2. PICK e : e = Head(om2awm).ep
  OBVIOUS
<1>3. om2awm # <<>> /\ om2awm' = Tail(om2awm) /\ activated' = activated
  BY DEF gatt_app_mgr_cb, RegisterServiceReq, UnregisterServiceReq, CharOperation, Next1
<1>4. s \in Sessions /\ e \in Endpoints /\ om2awm' \in Seq(OmToAwmMsgs)
  BY <1>1, <1>2, <1>3, ForApps
<1>5. /\ awm2om \in Seq(AwmToOmMsgs) /\ activated \subseteq Endpoints
      /\ table = [c \in Endpoints |-> table[c]]
      /\ \A c \in Endpoints : table[c] \in [Places(c) -> Sessions \cup {NoSession}]
      /\ asked \in [Sessions -> Nat] /\ \A u \in Sessions : asked[u] <= reg[u].reads
  BY DEF AppsOK
<1>6. reg[s].reads \in Nat
  BY <1>4, RegParts DEF Around
<1>7. CASE RegisterServiceReq
  <2>1. PICK row : row = [k \in DOMAIN table[e] |->
                            IF Decoded(s) /\ k \in Free(e) /\ \A l \in Free(e) : k <= l
                            THEN s ELSE table[e][k]]
    OBVIOUS
  <2>2. table' = [table EXCEPT ![e] = row]
    BY <1>1, <1>2, <1>4, <1>5, <1>7, <2>1 DEF RegisterServiceReq
  <2>3. row \in [Places(e) -> Sessions \cup {NoSession}]
    <3>1. table[e] \in [Places(e) -> Sessions \cup {NoSession}]
      BY <1>4, <1>5
    <3>2. QED BY ONLY <1>4, <2>1, <3>1
  <2>4. /\ table' = [c \in Endpoints |-> IF c = e THEN row ELSE table[c]]
        /\ \A c \in Endpoints : table'[c] = IF c = e THEN row ELSE table[c]
    BY ONLY <1>5, <2>2
  <2>5. table' = [c \in Endpoints |-> table'[c]]
    BY ONLY <2>4
  <2>6. \A c \in Endpoints : table'[c] \in [Places(c) -> Sessions \cup {NoSession}]
    BY ONLY <1>5, <2>3, <2>4
  <2>7. PICK ok \in BOOLEAN : ok = (Free(e) # {})
    OBVIOUS
  <2>8. PICK c : c = [op |-> "REGISTERED_RESP", id |-> s, ok |-> ok]
    OBVIOUS
  <2>9. c \in AwmToOmMsgs
    BY <1>4, <2>8 DEF AwmToOmMsgs
  <2>10. awm2om' = IF Decoded(s) THEN Append(awm2om, c) ELSE awm2om
    BY <1>1, <1>2, <1>7, <2>7, <2>8 DEF RegisterServiceReq
  <2>11. awm2om' \in Seq(AwmToOmMsgs)
    BY ONLY <1>5, <2>9, <2>10
  <2>12. asked' = asked
    BY <1>7 DEF RegisterServiceReq
  <2>13. QED BY <1>3, <1>4, <1>5, <2>5, <2>6, <2>11, <2>12 DEF AppsOK, Places
<1>8. CASE UnregisterServiceReq
  <2>1. uapp_clear_session(e, s) /\ StopsAsking(s) /\ Say([op |-> "UNREGISTERED_RESP", id |-> s])
    BY <1>1, <1>2, <1>8 DEF UnregisterServiceReq
  <2>2. asked' \in [Sessions -> Nat] /\ \A u \in Sessions : asked'[u] <= reg'[u].reads
    <3>1. 0 \in Nat /\ 0 <= reg[s].reads
      BY <1>6
    <3>2. asked' = [asked EXCEPT ![s] = 0]
      BY <2>1 DEF StopsAsking
    <3>3. QED BY <1>4, <3>1, <3>2, AskedLess
  <2>3. awm2om' \in Seq(AwmToOmMsgs)
    <3>1. [op |-> "UNREGISTERED_RESP", id |-> s] \in AwmToOmMsgs
      BY <1>4 DEF AwmToOmMsgs
    <3>2. QED BY <1>5, <2>1, <3>1 DEF Say
  <2>4. /\ table' = [c \in Endpoints |-> table'[c]]
        /\ \A c \in Endpoints : table'[c] \in [Places(c) -> Sessions \cup {NoSession}]
    BY <1>4, <2>1, SessionCleared
  <2>5. QED BY <1>3, <1>4, <1>5, <2>2, <2>3, <2>4 DEF AppsOK, Places
<1>9. CASE CharOperation
  <2>1. PICK n : n = IF asked[s] = 0 THEN 0 ELSE asked[s] - 1
    OBVIOUS
  <2>2. n \in Nat /\ n <= reg[s].reads
    BY <1>4, <1>5, <1>6, <2>1
  <2>3. asked' = [asked EXCEPT ![s] = n]
    BY <1>1, <1>4, <1>5, <1>9, <2>1 DEF CharOperation
  <2>4. asked' \in [Sessions -> Nat] /\ \A u \in Sessions : asked'[u] <= reg'[u].reads
    BY <1>4, <2>2, <2>3, AskedLess
  <2>5. awm2om' = awm2om /\ table' = table
    BY <1>9 DEF CharOperation
  <2>6. QED BY <1>3, <1>4, <1>5, <2>4, <2>5 DEF AppsOK, Places
<1>10. QED BY <1>7, <1>8, <1>9 DEF gatt_app_mgr_cb

(* The calls of the apps. *)
LEMMA AppCalls ==
  ASSUME AppsOK, Core(Now, hal2om, bs2om), Around(hal2om, bs2om), UNCHANGED reg,
         \/ \E e \in Endpoints : qapi_gatt_app_activate(e)
         \/ \E s \in Sessions : qapi_gatt_unregister_service(s)
         \/ \E s \in Sessions : qapi_gatt_client_read_char_req(s)
  PROVE  AppsOK' /\ om2awm' \in Seq(OmToAwmMsgs)
<1>1. om2awm' = om2awm /\ om2awm \in Seq(OmToAwmMsgs)
  BY ForApps DEF qapi_gatt_app_activate, qapi_gatt_unregister_service,
                 qapi_gatt_client_read_char_req
<1>2. /\ awm2om \in Seq(AwmToOmMsgs) /\ activated \subseteq Endpoints
      /\ table = [c \in Endpoints |-> table[c]]
      /\ \A c \in Endpoints : table[c] \in [Places(c) -> Sessions \cup {NoSession}]
      /\ asked \in [Sessions -> Nat] /\ \A u \in Sessions : asked[u] <= reg[u].reads
  BY DEF AppsOK
<1>3. ASSUME NEW e \in Endpoints, qapi_gatt_app_activate(e)
      PROVE  AppsOK'
  <2>1. [op |-> "APP_REG_REQ", ep |-> e] \in AwmToOmMsgs
    BY DEF AwmToOmMsgs
  <2>2. awm2om' \in Seq(AwmToOmMsgs) /\ activated' \subseteq Endpoints
    BY <1>2, <1>3, <2>1 DEF qapi_gatt_app_activate, Say
  <2>3. table' = table /\ asked' = asked
    BY <1>3 DEF qapi_gatt_app_activate
  <2>4. QED BY <1>2, <2>2, <2>3 DEF AppsOK, Places
<1>4. ASSUME NEW s \in Sessions, qapi_gatt_unregister_service(s)
      PROVE  AppsOK'
  <2>1. PICK e \in Endpoints :
          /\ uapp_clear_session(e, s) /\ StopsAsking(s)
          /\ Say([op |-> "UNREGISTERED_IND", id |-> s]) /\ activated' = activated
    BY <1>4 DEF qapi_gatt_unregister_service
  <2>2. asked' \in [Sessions -> Nat] /\ \A u \in Sessions : asked'[u] <= reg'[u].reads
    <3>1. reg[s].reads \in Nat
      BY RegParts DEF Around
    <3>2. 0 \in Nat /\ 0 <= reg[s].reads
      BY <3>1
    <3>3. asked' = [asked EXCEPT ![s] = 0]
      BY <2>1 DEF StopsAsking
    <3>4. QED BY <3>2, <3>3, AskedLess
  <2>3. awm2om' \in Seq(AwmToOmMsgs)
    <3>1. [op |-> "UNREGISTERED_IND", id |-> s] \in AwmToOmMsgs
      BY DEF AwmToOmMsgs
    <3>2. QED BY <1>2, <2>1, <3>1 DEF Say
  <2>4. /\ table' = [c \in Endpoints |-> table'[c]]
        /\ \A c \in Endpoints : table'[c] \in [Places(c) -> Sessions \cup {NoSession}]
    BY <2>1, SessionCleared
  <2>5. QED BY <1>2, <2>1, <2>2, <2>3, <2>4 DEF AppsOK, Places
<1>5. ASSUME NEW s \in Sessions, qapi_gatt_client_read_char_req(s)
      PROVE  AppsOK'
  <2>1. [op |-> "CHAR_REQ", id |-> s] \in AwmToOmMsgs
    BY DEF AwmToOmMsgs
  <2>2. awm2om' \in Seq(AwmToOmMsgs)
    BY <1>2, <1>5, <2>1 DEF qapi_gatt_client_read_char_req, Say
  <2>3. table' = table /\ activated' = activated
    BY <1>5 DEF qapi_gatt_client_read_char_req
  <2>4. reg[s].reads \in Nat
    BY RegParts DEF Around
  <2>5. PICK n : n = asked[s] + 1
    OBVIOUS
  <2>6. n \in Nat /\ n <= reg[s].reads
    BY <1>2, <1>5, <2>4, <2>5 DEF qapi_gatt_client_read_char_req
  <2>7. asked' = [asked EXCEPT ![s] = n]
    BY <1>2, <1>5, <2>5 DEF qapi_gatt_client_read_char_req
  <2>8. asked' \in [Sessions -> Nat] /\ \A u \in Sessions : asked'[u] <= reg'[u].reads
    BY <2>6, <2>7, AskedLess
  <2>9. QED BY <1>2, <2>2, <2>3, <2>8 DEF AppsOK, Places
<1>6. AppsOK'
  BY <1>3, <1>4, <1>5
<1>7. QED BY <1>1, <1>6

-----------------------------------------------------------------------------
(* The invariant. *)
GattInv ==
  /\ Core(Now, hal2om, bs2om) /\ Around(hal2om, bs2om) /\ StackOK /\ AppsOK
  /\ stateTable \in [Sessions -> HalStates]
  /\ gattId \in [Endpoints -> {"none", "waiting", "ready"}]

(* At the start nobody has asked for anything. *)
LEMMA GattStarts ==
  ASSUME Init, Acls # {}
  PROVE  GattInv
<1> USE DEF Init, ChannelsInit, HalInit, ProfileInit, StackInit, UappInit
<1>1. PICK t : t = Now
  OBVIOUS
<1>2. /\ t.inst = instances /\ t.svcs = svc_list /\ t.hal = <<>> /\ t.bs = <<>> /\ t.awm = <<>>
      /\ t.failed = FALSE /\ t = [inst |-> instances, svcs |-> svc_list, hal |-> <<>>, bs |-> <<>>,
                                  awm |-> <<>>, failed |-> FALSE]
  BY <1>1 DEF Now
<1>3. FreeService \in Service /\ \A x \in SesSlots : FreeService.sess[x].id = NoSession
  BY DEF FreeService, FreeSession, Service
<1>4. svc_list \in Lists
  <2>1. \A e \in Endpoints : svc_list[e] \in [SvcSlots(e) -> Service]
    BY <1>3
  <2>2. svc_list = [e \in Endpoints |-> svc_list[e]]
    OBVIOUS
  <2>3. \A e \in Endpoints : svc_list[e] \in UNION {[SvcSlots(c) -> Service] : c \in Endpoints}
    BY <2>1
  <2>4. svc_list \in [Endpoints -> UNION {[SvcSlots(c) -> Service] : c \in Endpoints}]
    BY ONLY <2>2, <2>3
  <2>5. QED BY <2>1, <2>4 DEF Lists
<1>5. \A i \in Slots : instances[i].state = "Idle" /\ instances[i].svc = 0
  OBVIOUS
<1>6. instances \in [Slots -> Instance]
  <2>1. [state |-> "Idle", ep |-> NoEndpoint, svc |-> 0, ses |-> 0] \in Instance
    BY DEF Instance, OffloadStates
  <2>2. QED BY <2>1
<1>7. Globals(t)
  <2>1. <<>> \in Seq(OmToHalMsgs) /\ <<>> \in Seq(OmToBsMsgs) /\ <<>> \in Seq(OmToAwmMsgs)
    OBVIOUS
  <2>2. QED BY <1>2, <1>4, <1>6, <2>1 DEF Globals
<1>8. Live(t) = {}
  BY <1>2, <1>5 DEF Live
<1>9. \A e \in Endpoints : \A k \in SvcSlots(e) :
         t.svcs[e][k] = FreeService /\ \A x \in SesSlots : Seat(t, e, k, x) = NoSession
  BY <1>2, <1>3 DEF Seat
<1>10. Owned(t) /\ Numbered(t)
  <2>1. \A i \in Slots : t.inst[i].state = "Idle" <=> t.inst[i].svc = 0
    BY <1>2, <1>5
  <2>2. QED BY <1>8, <1>9, <2>1 DEF Owned, Numbered
<1>11. \A s \in Sessions : ~Working(t, s) /\ ~Beginning(t, s)
  BY <1>8 DEF Working, Beginning
<1>12. /\ \A S : Where(<<>>, S) = {} /\ Num(<<>>, S) = 0
       /\ \A A, B : Before(<<>>, A, B)
       /\ InFlight(<<>>) = {}
  BY NumEmpty
<1>13. \A s \in Sessions : stateTable[s] = "CLOSED"
  OBVIOUS
<1>14. Ledger(t, hal2om, stateTable)
  <2>1. SUFFICES ASSUME NEW s \in Sessions
                 PROVE  /\ Tokens(t, hal2om, s) <= Count(stateTable[s] # "CLOSED")
                        /\ Starts(t, hal2om, s) <= Count(stateTable[s] = "OPENING")
                        /\ Before(t.hal, Yes(s), Gone(s))
    BY <1>13 DEF Ledger
  <2>2. Tokens(t, hal2om, s) = 0 /\ Starts(t, hal2om, s) = 0
    BY SMTT(30), <1>2, <1>11, <1>12 DEF Tokens, Starts, Count
  <2>3. QED BY <1>2, <1>12, <2>2 DEF Count
<1>15. \A a \in Acls : queue[a] = <<>> /\ svcs[a] = {} /\ reading[a] = <<>>
  OBVIOUS
<1>16. \A a \in Acls : ~BeingCleared(t, hal2om, queue, bs2om, a) /\ ~Emptied(t, queue, bs2om, a)
  BY <1>2, <1>12, <1>15 DEF BeingCleared, Emptied
<1>17. ClearsAlone(t, hal2om, queue, bs2om, stateTable)
  BY <1>2, <1>12, <1>16 DEF ClearsAlone
<1>18. OneAsk(t, queue, bs2om)
  BY <1>2, <1>12, <1>15 DEF OneAsk, AsksOf, Count
<1>19. AskSense(t, queue, bs2om) /\ IdsFinite(t.bs)
  BY <1>2, <1>12, <1>15 DEF AskSense, IdsFinite
<1>20. Core(Now, hal2om, bs2om)
  BY <1>1, <1>7, <1>10, <1>14, <1>17, <1>18, <1>19 DEF Core
<1>21. Around(hal2om, bs2om)
  <2>1. <<>> \in Seq(HalToOmMsgs) /\ <<>> \in Seq(BsToOmMsgs) /\ <<>> \in Seq(QueueReqs)
    OBVIOUS
  <2>2. queue \in Queues
    BY <2>1 DEF Queues
  <2>3. OneOpening(stateTable)
    BY <1>13 DEF OneOpening
  <2>4. QED BY <2>1, <2>2, <2>3 DEF Around
<1>22. StackOK
  <2>1. <<>> \in Seq(ReadReqs) /\ Len(<<>>) <= 1 /\ IsFiniteSet({}) /\ {} \in SUBSET Enabling
    BY FS_EmptySet
  <2>2. svcs \in [Acls -> SUBSET Enabling] /\ reading \in [Acls -> Seq(ReadReqs)]
    BY <2>1
  <2>3. \A a \in Acls : IdsFinite(queue[a]) /\ \A m \in InFlight(queue[a]) : m.acl = a
    BY <1>12, <1>15 DEF IdsFinite
  <2>4. QED BY <1>15, <2>1, <2>2, <2>3 DEF StackOK
<1>23. AppsOK
  <2>1. <<>> \in Seq(AwmToOmMsgs)
    OBVIOUS
  <2>2. asked \in [Sessions -> Nat] /\ \A s \in Sessions : asked[s] = 0
    OBVIOUS
  <2>3. \A s \in Sessions : reg[s].reads \in Nat
    BY RegParts
  <2>4. \A e \in Endpoints : table[e] \in [Places(e) -> Sessions \cup {NoSession}]
    OBVIOUS
  <2>5. QED BY <2>1, <2>2, <2>3, <2>4 DEF AppsOK
<1>24. QED BY <1>20, <1>21, <1>22, <1>23 DEF GattInv, HalStates

(* What the HAL does to its own table. *)
LEMMA TableTyped ==
  ASSUME stateTable \in [Sessions -> HalStates], Core(Now, hal2om, bs2om),
         \/ \E s \in Sessions : registerService(s) \/ unregisterService(s)
         \/ \E a \in Acls : clearServices(a)
         \/ processGattOffloadRx
  PROVE  stateTable' \in [Sessions -> HalStates]
<1>1. CASE \E s \in Sessions : registerService(s) \/ unregisterService(s)
  BY <1>1 DEF registerService, unregisterService, HalStates
<1>2. CASE \E a \in Acls : clearServices(a)
  BY <1>2 DEF clearServices
<1>3. CASE processGattOffloadRx
  <2>1. Globals(Now) /\ Now.hal = om2hal
    BY DEF Core, Now
  <2>2. Head(om2hal) \in OmToHalMsgs
    BY <1>3, <2>1, GlobalsParts, HeadOf DEF processGattOffloadRx
  <2>3. Head(om2hal).op \in {"REGISTER_RSP", "UNREGISTER_RSP", "CLEAR_RSP"}
    BY <2>2 DEF OmToHalMsgs
  <2>4. \A s : \A new \in HalStates : updateState(s, new) \in [Sessions -> HalStates]
    BY DEF updateState
  <2>5. "OPENED" \in HalStates /\ "CLOSED" \in HalStates
    BY DEF HalStates
  <2>6. CASE Head(om2hal).op = "CLEAR_RSP"
    BY <1>3, <2>5, <2>6 DEF processGattOffloadRx
  <2>7. CASE Head(om2hal).op = "UNREGISTER_RSP"
    BY <1>3, <2>4, <2>5, <2>7 DEF processGattOffloadRx
  <2>8. CASE Head(om2hal).op = "REGISTER_RSP"
    BY <1>3, <2>4, <2>5, <2>8 DEF processGattOffloadRx
  <2>9. QED BY <2>3, <2>6, <2>7, <2>8
<1>4. QED BY <1>1, <1>2, <1>3

(* A microapp's id is kept in one of three ways. *)
LEMMA IdsTyped ==
  ASSUME gattId \in [Endpoints -> {"none", "waiting", "ready"}],
         FromHal \/ microstack_gatt_cb \/ FromMicroapps
  PROVE  gattId' \in [Endpoints -> {"none", "waiting", "ready"}]
<1>1. gattId' = gattId \/ \E v \in {"waiting", "ready"} : \E e : gattId' = [gattId EXCEPT ![e] = v]
  BY DEF FromHal, hal_offload, hal_unoffload, hal_clear_service, microstack_gatt_cb, register_cfm,
         conn_info_cfm, enable_service_cfm, disable_service_cfm, read_cfm, FromMicroapps,
         uapp_register, session_registered_resp, session_unregistered, uapp_char_evt
<1>2. QED BY <1>1

(* Every step keeps it, as long as no registration is hurried and nothing is     *)
(* cleared in the middle of others' business.                              *)
LEMMA GattKept ==
  ASSUME IsFiniteSet(Sessions), Cardinality(Sessions) <= NumInstances,
         IsFiniteSet(Endpoints), IsFiniteSet(Acls), Acls # {},
         Adversities \cap {"registrations", "clear", "acls"} = {},
         GattInv, [Next]_vars
  PROVE  GattInv'
<1> DEFINE Ids == {"none", "waiting", "ready"}
<1>1. /\ Core(Now, hal2om, bs2om) /\ Around(hal2om, bs2om) /\ StackOK /\ AppsOK
      /\ stateTable \in [Sessions -> HalStates] /\ gattId \in [Endpoints -> Ids]
  BY DEF GattInv
<1> HIDE DEF Ids
<1>2. UNCHANGED stackVars => StackOK'
  BY <1>1 DEF StackOK, stackVars, IdsFinite, InFlight
<1>3. UNCHANGED <<reg, uappVars>> /\ awm2om' \in Seq(AwmToOmMsgs) => AppsOK'
  BY <1>1 DEF AppsOK, uappVars, Places
<1>4. awm2om \in Seq(AwmToOmMsgs)
  BY <1>1 DEF AppsOK
<1>5. ASSUME Core(Now, hal2om, bs2om)' /\ Around(hal2om, bs2om)',
             stateTable' \in [Sessions -> HalStates],
             UNCHANGED <<reg, awm2om, profileVars, stackVars, uappVars>>
      PROVE  GattInv'
  <2>1. StackOK' /\ AppsOK'
    BY <1>2, <1>3, <1>4, <1>5
  <2>2. gattId' \in [Endpoints -> Ids]
    BY <1>1, <1>5 DEF profileVars
  <2>3. QED BY <1>5, <2>1, <2>2 DEF GattInv, Ids
<1>6. ASSUME HalStep(\E s \in Sessions : MayRegister(s) /\ registerService(s))
      PROVE  GattInv'
  <2>1. UNCHANGED <<reg, failed, om2bs, bs2om, om2awm, awm2om, profileVars, stackVars, uappVars>>
    BY <1>6 DEF HalStep
  <2>2. PICK s \in Sessions : MayRegister(s) /\ registerService(s)
    BY <1>6 DEF HalStep
  <2>3. UNCHANGED <<Now, bs2om, queue, reg>>
    BY <2>1, <2>2 DEF registerService, Now, profileVars, stackVars
  <2>4. Core(Now, hal2om, bs2om)' /\ Around(hal2om, bs2om)'
    BY <1>1, <2>2, <2>3, RegisterStep
  <2>5. stateTable' \in [Sessions -> HalStates]
    BY <1>1, <2>2, TableTyped
  <2>6. QED BY <1>5, <2>1, <2>4, <2>5
<1>7. ASSUME HalStep(\E s \in Sessions : MayClose(s) /\ unregisterService(s))
      PROVE  GattInv'
  <2>1. UNCHANGED <<reg, failed, om2bs, bs2om, om2awm, awm2om, profileVars, stackVars, uappVars>>
    BY <1>7 DEF HalStep
  <2>2. PICK s \in Sessions : unregisterService(s)
    BY <1>7 DEF HalStep
  <2>3. UNCHANGED <<Now, bs2om, queue, reg>>
    BY <2>1, <2>2 DEF unregisterService, Now, profileVars, stackVars
  <2>4. Core(Now, hal2om, bs2om)' /\ Around(hal2om, bs2om)'
    BY <1>1, <2>2, <2>3, UnregisterStep
  <2>5. stateTable' \in [Sessions -> HalStates]
    BY <1>1, <2>2, TableTyped
  <2>6. QED BY <1>5, <2>1, <2>4, <2>5
<1>8. ASSUME HalStep(\E a \in Acls : MayClear(a) /\ clearServices(a))
      PROVE  GattInv'
  <2>1. UNCHANGED <<reg, failed, om2bs, bs2om, om2awm, awm2om, profileVars, stackVars, uappVars>>
    BY <1>8 DEF HalStep
  <2>2. PICK a \in Acls : MayClear(a) /\ clearServices(a)
    BY <1>8 DEF HalStep
  <2>3. UNCHANGED <<Now, bs2om, queue, reg>>
    BY <2>1, <2>2 DEF clearServices, Now, profileVars, stackVars
  <2>4. Core(Now, hal2om, bs2om)' /\ Around(hal2om, bs2om)'
    BY <1>1, <2>2, <2>3, ClearStep
  <2>5. stateTable' \in [Sessions -> HalStates]
    BY <1>1, <2>2, TableTyped
  <2>6. QED BY <1>5, <2>1, <2>4, <2>5
<1>9. ASSUME HalStep(processGattOffloadRx)
      PROVE  GattInv'
  <2>1. /\ UNCHANGED <<reg, failed, om2bs, bs2om, om2awm, awm2om, profileVars, stackVars, uappVars>>
        /\ processGattOffloadRx
    BY <1>9 DEF HalStep
  <2>2. UNCHANGED <<reg, failed, om2bs, bs2om, om2awm, instances, svc_list, queue>>
    BY <2>1 DEF profileVars, stackVars
  <2>3. Core(Now, hal2om, bs2om)' /\ Around(hal2om, bs2om)'
    BY <1>1, <2>1, <2>2, HearsStep
  <2>4. stateTable' \in [Sessions -> HalStates]
    BY <1>1, <2>1, TableTyped
  <2>5. QED BY <1>5, <2>1, <2>3, <2>4
<1>10. ASSUME OmStep(FromHal) \/ OmStep(microstack_gatt_cb) \/ OmStep(FromMicroapps)
       PROVE  GattInv'
  <2>1. /\ UNCHANGED <<reg, stateTable, stackVars, uappVars>>
        /\ FromHal \/ microstack_gatt_cb \/ FromMicroapps
    BY <1>10 DEF OmStep
  <2>2. UNCHANGED <<reg, stateTable, queue>>
    BY <2>1 DEF stackVars
  <2>3. Core(Now, hal2om, bs2om)' /\ Around(hal2om, bs2om)'
    BY <1>1, <1>4, <2>1, <2>2, FromHalStep, FromMicrostackStep, FromMicroappsStep
  <2>4. awm2om' \in Seq(AwmToOmMsgs)
    <3>1. awm2om' = awm2om \/ (awm2om # <<>> /\ awm2om' = Tail(awm2om))
      BY <2>1 DEF FromHal, hal_offload, hal_unoffload, hal_clear_service, microstack_gatt_cb,
                  register_cfm, conn_info_cfm, enable_service_cfm, disable_service_cfm, read_cfm,
                  FromMicroapps, uapp_register, session_registered_resp, session_unregistered,
                  uapp_char_evt, FromBs, FromAwm, Next1
    <3>2. QED BY <1>4, <3>1
  <2>5. gattId' \in [Endpoints -> Ids]
    BY <1>1, <2>1, IdsTyped DEF Ids
  <2>6. QED BY <1>1, <1>2, <1>3, <2>1, <2>3, <2>4, <2>5 DEF GattInv, Ids
<1>11. Fresh \in SUBSET OffloadIds
  BY <1>1, TakenFinite, FreshIds
<1>12. ASSUME \/ StackStep(Requests(Fresh)) \/ StackStep(\E a \in Acls : PeerAnswers(a, Fresh))
       PROVE  GattInv'
  <2>1. /\ UNCHANGED <<reg, hal2om, om2hal, om2awm, awm2om, stateTable, profileVars, uappVars>>
        /\ Requests(Fresh) \/ \E a \in Acls : PeerAnswers(a, Fresh)
    BY <1>12 DEF StackStep
  <2>2. UNCHANGED <<reg, hal2om, om2hal, om2awm, stateTable, instances, svc_list>>
    BY <2>1 DEF profileVars
  <2>3. PICK fresh \in SUBSET OffloadIds : fresh = Fresh
    BY <1>11
  <2>4. Core(Now, hal2om, bs2om)' /\ Around(hal2om, bs2om)' /\ StackOK'
    <3>1. CASE RegisterReq
      BY <1>1, <2>2, <3>1, RegisterReqStep
    <3>2. CASE ConnInfoReq
      BY <1>1, <2>2, <3>2, ConnInfoReqStep
    <3>3. CASE ChannelReq(Fresh)
      <4>1. ChannelReq(fresh)
        BY <2>3, <3>3
      <4>2. QED BY <1>1, <2>2, <4>1, ChannelReqStep
    <3>4. CASE \E a \in Acls : PeerAnswers(a, Fresh)
      <4>1. PICK a \in Acls : PeerAnswers(a, fresh)
        BY <2>3, <3>4
      <4>2. QED BY <1>1, <2>2, <4>1, PeerAnswersStep
    <3>5. QED BY <2>1, <3>1, <3>2, <3>3, <3>4 DEF Requests
  <2>5. AppsOK' /\ stateTable' = stateTable /\ gattId' = gattId
    BY <1>3, <1>4, <2>1 DEF profileVars
  <2>6. QED BY <1>1, <2>4, <2>5 DEF GattInv, Ids
<1>13. ASSUME \/ UappStep(gatt_app_mgr_cb)
              \/ UappStep(\E e \in Endpoints : qapi_gatt_app_activate(e))
              \/ UappStep(\E s \in Sessions : MayClose(s) /\ qapi_gatt_unregister_service(s))
              \/ UappStep(\E s \in Sessions : MayRead(s) /\ qapi_gatt_client_read_char_req(s))
       PROVE  GattInv'
  <2>1. /\ UNCHANGED <<reg, failed, hal2om, om2hal, om2bs, bs2om, stateTable, profileVars, stackVars>>
        /\ \/ gatt_app_mgr_cb
           \/ \E e \in Endpoints : qapi_gatt_app_activate(e)
           \/ \E s \in Sessions : qapi_gatt_unregister_service(s)
           \/ \E s \in Sessions : qapi_gatt_client_read_char_req(s)
    BY <1>13 DEF UappStep
  <2>2. UNCHANGED <<reg, failed, hal2om, om2hal, om2bs, bs2om, stateTable, instances, svc_list,
                    queue>>
    BY <2>1 DEF profileVars, stackVars
  <2>3. AppsOK' /\ om2awm' \in Seq(OmToAwmMsgs)
    BY <1>1, <2>1, AppHandles, AppCalls
  <2>4. Core(Now, hal2om, bs2om)' /\ Around(hal2om, bs2om)'
    BY <1>1, <2>2, <2>3, AppMoves
  <2>5. StackOK' /\ gattId' = gattId
    BY <1>2, <2>1 DEF profileVars
  <2>6. QED BY <1>1, <2>1, <2>3, <2>4, <2>5 DEF GattInv, Ids
<1>14. CASE UNCHANGED vars
  <2>1. UNCHANGED <<reg, failed, hal2om, om2hal, om2bs, bs2om, om2awm, awm2om, stateTable,
                    profileVars, stackVars, uappVars>>
    BY <1>14 DEF vars, channels
  <2>2. UNCHANGED <<reg, failed, hal2om, om2hal, om2bs, bs2om, stateTable, instances, svc_list,
                    queue>>
    BY <2>1 DEF profileVars, stackVars
  <2>3. om2awm' \in Seq(OmToAwmMsgs)
    BY <1>1, <2>1, ForApps
  <2>4. Core(Now, hal2om, bs2om)' /\ Around(hal2om, bs2om)'
    BY <1>1, <2>2, <2>3, AppMoves
  <2>5. StackOK' /\ AppsOK' /\ gattId' = gattId
    BY <1>2, <1>3, <1>4, <2>1 DEF profileVars
  <2>6. QED BY <1>1, <2>1, <2>4, <2>5 DEF GattInv, Ids
<1>15. CASE Next
  BY <1>6, <1>7, <1>8, <1>9, <1>10, <1>12, <1>13, <1>15 DEF Next
<1>16. QED BY <1>14, <1>15

-----------------------------------------------------------------------------
(* The theorems. *)

(* So it always holds, however many connections, microapps and sessions there     *)
(* are, as long as each session can have an instance.                      *)
LEMMA GattInvAlways ==
  ASSUME IsFiniteSet(Sessions), Cardinality(Sessions) <= NumInstances,
         IsFiniteSet(Endpoints), IsFiniteSet(Acls), Acls # {},
         Adversities \cap {"registrations", "clear", "acls"} = {}
  PROVE  Spec => []GattInv
<1>1. Init => GattInv
  BY GattStarts
<1>2. GattInv /\ [Next]_vars => GattInv'
  BY GattKept
<1>3. QED BY <1>1, <1>2, PTL DEF Spec

(* The types of the variables follow from it. *)
LEMMA GattTypes ==
  ASSUME GattInv
  PROVE  TypeOK
<1>1. /\ Core(Now, hal2om, bs2om) /\ Around(hal2om, bs2om) /\ StackOK /\ AppsOK
      /\ stateTable \in [Sessions -> HalStates]
      /\ gattId \in [Endpoints -> {"none", "waiting", "ready"}]
  BY DEF GattInv
<1>2. PICK t : t = Now
  OBVIOUS
<1>3. Globals(t) /\ Owned(t)
  BY <1>1, <1>2 DEF Core
<1>4. /\ t.inst = instances /\ t.svcs = svc_list /\ t.hal = om2hal /\ t.bs = om2bs
      /\ t.awm = om2awm /\ t.failed = failed
  BY <1>2 DEF Now
<1>5. t.failed \in BOOLEAN
  BY <1>3 DEF Globals
<1>6. /\ t.inst \in [Slots -> Instance] /\ t.svcs \in Lists
      /\ t.hal \in Seq(OmToHalMsgs) /\ t.bs \in Seq(OmToBsMsgs) /\ t.awm \in Seq(OmToAwmMsgs)
  BY <1>3, GlobalsParts
<1>7. ChannelsTypeOK
  BY <1>1, <1>4, <1>5, <1>6 DEF ChannelsTypeOK, Around, AppsOK
<1>8. HalTypeOK
  BY <1>1 DEF HalTypeOK
<1>9. ProfileTypeOK
  <2>1. ASSUME NEW i \in Slots, instances[i].svc # 0
        PROVE  instances[i].ep \in Endpoints /\ instances[i].svc \in SvcSlots(instances[i].ep)
    BY <1>3, <1>4, <2>1 DEF Owned, Live, Seated
  <2>2. \A e \in Endpoints : svc_list[e] \in [SvcSlots(e) -> Service]
    BY <1>4, <1>6 DEF Lists
  <2>3. instances \in [Slots -> Instance]
    BY <1>4, <1>6
  <2>4. QED BY <1>1, <2>1, <2>2, <2>3 DEF ProfileTypeOK, Instance, Service
<1>10. StackTypeOK
  <2>1. \A a \in Acls : queue[a] \in Seq(EnableReqs \cup DisableReqs \cup ReadReqs)
    BY <1>1 DEF Around, Queues, QueueReqs
  <2>2. /\ apps \subseteq Endpoints /\ conns \subseteq Acls
        /\ \A a \in Acls : svcs[a] \subseteq Enabling
        /\ \A a \in Acls : reading[a] \in Seq(ReadReqs) /\ Len(reading[a]) <= 1
    BY <1>1 DEF StackOK
  <2>3. QED BY <2>1, <2>2 DEF StackTypeOK, Enabling
<1>11. UappTypeOK
  <2>1. \A s \in Sessions : asked[s] \in Nat /\ asked[s] <= reg[s].reads
    BY <1>1 DEF AppsOK
  <2>2. \A s \in Sessions : reg[s].reads \in Nat
    BY <1>1, RegParts DEF Around
  <2>3. \A s \in Sessions : asked[s] \in 0 .. reg[s].reads
    BY ONLY <2>1, <2>2
  <2>4. QED BY <1>1, <2>3 DEF UappTypeOK, AppsOK
<1>12. QED BY <1>7, <1>8, <1>9, <1>10, <1>11 DEF TypeOK

(* Every variable of GATT offload keeps to its type: no request names an          *)
(* instance, a connection or a service id that there cannot be, and no     *)
(* pointer of an instance leaves its list.                                 *)
THEOREM GattTypeOKAlways ==
  ASSUME IsFiniteSet(Sessions), Cardinality(Sessions) <= NumInstances,
         IsFiniteSet(Endpoints), IsFiniteSet(Acls), Acls # {},
         Adversities \cap {"registrations", "clear", "acls"} = {}
  PROVE  Spec => []TypeOK
<1>1. GattInv => TypeOK
  BY GattTypes
<1>2. QED BY <1>1, GattInvAlways, PTL

(* The places of svc_list and the instances that point to them are in step. *)
LEMMA GattOwns ==
  ASSUME GattInv
  PROVE  SessionsOwned
<1>1. PICK t : t = Now
  OBVIOUS
<1>2. Globals(t) /\ Owned(t)
  BY <1>1 DEF GattInv, Core
<1>3. t.inst = instances /\ t.svcs = svc_list
  BY <1>1 DEF Now
<1>4. \A i \in Slots : instances[i].state = "Idle" <=> instances[i].svc = 0
  BY <1>2, <1>3 DEF Owned
<1>5. ASSUME NEW i \in Slots, NEW j \in Slots, instances[i].svc # 0, instances[j].svc # 0, i # j
      PROVE  SesOf(Now, i).id # SesOf(Now, j).id
  <2>1. i \in Live(t) /\ j \in Live(t)
    BY <1>3, <1>5 DEF Live
  <2>2. SesOf(t, i).id # SesOf(t, j).id
    BY <1>2, <1>5, <2>1 DEF Owned
  <2>3. QED BY <1>1, <2>2
<1>6. ASSUME NEW e \in Endpoints, NEW k \in SvcSlots(e), NEW x \in SesSlots
      PROVE  Cardinality(Pointing(e, k, x))
               = IF svc_list[e][k].sess[x].id = NoSession THEN 0 ELSE 1
  <2>1. Seat(t, e, k, x) = svc_list[e][k].sess[x].id
    BY <1>3 DEF Seat
  <2>2. k # 0
    BY DEF SvcSlots
  <2>3. \A i \in Pointing(e, k, x) :
          /\ i \in Live(t) /\ t.inst[i].ep = e /\ t.inst[i].svc = k /\ t.inst[i].ses = x
          /\ SesOf(t, i).id = Seat(t, e, k, x) /\ SesOf(t, i).id \in Sessions
    <3>1. SUFFICES ASSUME NEW i \in Pointing(e, k, x)
                   PROVE  /\ i \in Live(t) /\ t.inst[i].ep = e /\ t.inst[i].svc = k
                          /\ t.inst[i].ses = x /\ SesOf(t, i).id = Seat(t, e, k, x)
                          /\ SesOf(t, i).id \in Sessions
      OBVIOUS
    <3>2. /\ i \in Slots /\ t.inst[i].ep = e /\ t.inst[i].svc = k /\ t.inst[i].ses = x
      BY <1>3 DEF Pointing
    <3>3. i \in Live(t)
      BY <2>2, <3>2 DEF Live
    <3>4. SesOf(t, i).id \in Sessions
      BY <1>2, <3>3 DEF Owned, Seated
    <3>5. SesOf(t, i).id = Seat(t, e, k, x)
      BY <3>2 DEF SesOf, SvcOf, Seat
    <3>6. QED BY <3>2, <3>3, <3>4, <3>5
  <2>4. CASE Seat(t, e, k, x) = NoSession
    <3>1. Pointing(e, k, x) = {}
      BY <2>3, <2>4, GattMarksAssumption
    <3>2. QED BY <2>1, <2>4, <3>1, FS_EmptySet
  <2>5. CASE Seat(t, e, k, x) # NoSession
    <3>1. PICK i \in Live(t) : t.inst[i].ep = e /\ t.inst[i].svc = k /\ t.inst[i].ses = x
      BY <1>2, <2>5 DEF Owned
    <3>2. i \in Pointing(e, k, x)
      BY <1>3, <3>1 DEF Pointing, Live
    <3>3. \A j \in Pointing(e, k, x) : j = i
      BY <1>2, <2>3, <3>2 DEF Owned
    <3>4. Pointing(e, k, x) = {i}
      BY <3>2, <3>3
    <3>5. QED BY <2>1, <2>5, <3>4, FS_Singleton
  <2>6. QED BY <2>4, <2>5
<1>7. ASSUME NEW e \in Endpoints, NEW k \in SvcSlots(e), Users(svc_list[e][k]) = {}
      PROVE  svc_list[e][k] = FreeService
  <2>1. \A x \in SesSlots : Seat(t, e, k, x) = NoSession
    BY <1>3, <1>7 DEF Users, Seat
  <2>2. QED BY <1>2, <1>3, <2>1 DEF Owned
<1>8. QED BY <1>4, <1>5, <1>6, <1>7 DEF SessionsOwned

(* However registrations end, refused, closed by the stack or the microapp or by  *)
(* the loss of the link: every place taken has exactly one instance, no    *)
(* session has two, and a slot without sessions is clear.                  *)
THEOREM SessionsOwnedAlways ==
  ASSUME IsFiniteSet(Sessions), Cardinality(Sessions) <= NumInstances,
         IsFiniteSet(Endpoints), IsFiniteSet(Acls), Acls # {},
         Adversities \cap {"registrations", "clear", "acls"} = {}
  PROVE  Spec => []SessionsOwned
<1>1. GattInv => SessionsOwned
  BY GattOwns
<1>2. QED BY <1>1, GattInvAlways, PTL
=============================================================================
