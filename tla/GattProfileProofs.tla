-------------------------- MODULE GattProfileProofs --------------------------
(***************************************************************************)
(* What the profile manager's chains of calls do.                          *)
(*                                                                         *)
(* One message to the offload manager, or one element of the GATT layer's  *)
(* queue, makes the profile manager look up a service, take or free a      *)
(* place, move instances through the offload state machine and answer,     *)
(* often for several sessions in turn. The model writes such a chain as a  *)
(* record that is handed from operator to operator; here each operator of  *)
(* it gets a lemma that says what it does to the places, the instances and *)
(* the messages of any such record.                                        *)
(*                                                                         *)
(* What they keep is Core. Owned: the instances that work and the places   *)
(* taken in svc_list are one to one, of the same endpoint, connection and  *)
(* service. Numbered: a service without an id waits for its first session  *)
(* to be enabled. Ledger: a session that the HAL has no entry for is not   *)
(* asked for, worked for, or about to be refused or ended, and one that it *)
(* has an entry for is so at most once; this is why a session that         *)
(* registers has no place yet and no answer of an earlier life to come.    *)
(* ClearsAlone: a connection is cleared with nothing else underway, and    *)
(* nothing is worked for once its sessions are gone. OneAsk: an instance   *)
(* that waits for the Bluetooth stack has at most one request underway,    *)
(* and no other instance has one. AskSense: what a request says of its     *)
(* service is still so when it is read.                                    *)
(*                                                                         *)
(* First what is needed of queues: how many messages of a kind there are,  *)
(* and that those of one kind are all ahead of those of another.           *)
(***************************************************************************)
EXTENDS GattOffload, FiniteSetTheorems, FunctionTheorems, WellFoundedInduction, TLAPS

(* Where in a queue the messages of a set are, how many there are, and whether *)
(* those of one set are all ahead of those of another.                         *)
Where(q, S) == {k \in DOMAIN q : q[k] \in S}
Num(q, S) == Cardinality(Where(q, S))
Before(q, A, B) == \A k \in Where(q, A), l \in Where(q, B) : k < l
Count(b) == IF b THEN 1 ELSE 0

(* A non-empty set of natural numbers has a least one. *)
LEMMA LeastExists ==
  ASSUME NEW T \in SUBSET Nat, T # {}
  PROVE  \E i \in T : \A j \in T : i <= j
<1> DEFINE R == OpToRel(<, Nat)
<1>1. \E x \in T : \A y \in T : ~ (<<y, x>> \in R)
  <2>1. IsWellFoundedOn(R, Nat)
    BY NatLessThanWellFounded
  <2> HIDE DEF R
  <2>2. QED BY <2>1, WFMin
<1>2. \A x, y \in Nat : y < x => <<y, x>> \in R
  BY DEF OpToRel
<1>3. \E x \in T : \A y \in T : ~ (y < x)
  <2> HIDE DEF R
  <2>1. PICK x \in T : \A y \in T : ~ (<<y, x>> \in R)
    BY <1>1
  <2>2. \A y \in T : y < x => <<y, x>> \in R
    BY <1>2
  <2>3. QED BY <2>1, <2>2
<1>4. QED BY <1>3

(* First, behind every look-up in a table: 0, or the lowest slot found. *)
LEMMA FirstIsLeast ==
  ASSUME NEW found \in SUBSET Nat
  PROVE  IF found = {} THEN First(found) = 0
         ELSE First(found) \in found /\ \A j \in found : First(found) <= j
<1>1. CASE found = {}
  BY <1>1 DEF First
<1>2. CASE found # {}
  <2>1. \E i \in found : \A j \in found : i <= j
    BY <1>2, LeastExists
  <2>2. QED BY <1>2, <2>1 DEF First
<1>3. QED BY <1>1, <1>2

(* The positions of a set of messages are finitely many. *)
LEMMA WhereFinite ==
  ASSUME NEW D, NEW q \in Seq(D), NEW S
  PROVE  /\ IsFiniteSet(Where(q, S)) /\ Num(q, S) \in Nat
         /\ Num(q, S) = 0 <=> Where(q, S) = {}
<1>1. Where(q, S) \in SUBSET (1 .. Len(q))
  BY DEF Where
<1>2. IsFiniteSet(1 .. Len(q))
  BY FS_Interval
<1>3. IsFiniteSet(Where(q, S))
  BY <1>1, <1>2, FS_Subset
<1>4. QED BY <1>3, FS_CardinalityType, FS_EmptySet DEF Num

(* An append adds one of its own kind ... *)
LEMMA NumAppend ==
  ASSUME NEW D, NEW q \in Seq(D), NEW m \in D, NEW S
  PROVE  Num(Append(q, m), S) = Num(q, S) + Count(m \in S)
<1> DEFINE n == Len(q) + 1
<1>1. \A k \in 1 .. n : Append(q, m)[k] = IF k = n THEN m ELSE q[k]
  OBVIOUS
<1>2. DOMAIN Append(q, m) = 1 .. n /\ DOMAIN q = 1 .. Len(q) /\ Len(q) \in Nat
  OBVIOUS
<1>3. IsFiniteSet(Where(q, S)) /\ Num(q, S) \in Nat
  BY WhereFinite
<1>4. CASE m \in S
  <2>1. Where(Append(q, m), S) = Where(q, S) \cup {n}
    BY <1>1, <1>2, <1>4 DEF Where
  <2>2. n \notin Where(q, S)
    BY <1>2 DEF Where
  <2>3. Cardinality(Where(q, S) \cup {n}) = Cardinality(Where(q, S)) + 1
    BY <1>3, <2>2, FS_AddElement
  <2>4. QED BY <1>4, <2>1, <2>3 DEF Num, Count
<1>5. CASE m \notin S
  <2>1. Where(Append(q, m), S) = Where(q, S)
    BY <1>1, <1>2, <1>5 DEF Where
  <2>2. QED BY <1>3, <1>5, <2>1 DEF Num, Count
<1>6. QED BY <1>4, <1>5

(* ... and a take removes one of its own kind. *)
LEMMA NumTail ==
  ASSUME NEW D, NEW q \in Seq(D), q # <<>>, NEW S
  PROVE  Num(q, S) = Num(Tail(q), S) + Count(Head(q) \in S)
<1> DEFINE P == Where(Tail(q), S)
           R == Where(q, S) \ {1}
           f == [k \in P |-> k + 1]
<1>1. Len(q) \in Nat \ {0} /\ DOMAIN q = 1 .. Len(q) /\ DOMAIN Tail(q) = 1 .. (Len(q) - 1)
  OBVIOUS
<1>2. \A k \in 1 .. (Len(q) - 1) : Tail(q)[k] = q[k + 1]
  OBVIOUS
<1>3. Tail(q) \in Seq(D) /\ Head(q) = q[1]
  OBVIOUS
<1>4. ExistsBijection(P, R)
  <2>1. \A k \in P : k \in 1 .. (Len(q) - 1) /\ f[k] = k + 1 /\ q[k + 1] \in S
    BY <1>1, <1>2 DEF Where
  <2>2. f \in [P -> R]
    <3>1. \A k \in P : k + 1 \in R
      BY <1>1, <2>1 DEF Where
    <3>2. QED BY <3>1
  <2>3. \A a, b \in P : f[a] = f[b] => a = b
    BY <1>1, <2>1
  <2>4. \A t \in R : \E s \in P : f[s] = t
    <3>1. SUFFICES ASSUME NEW t \in R PROVE \E s \in P : f[s] = t
      OBVIOUS
    <3>2. t \in 2 .. Len(q) /\ q[t] \in S
      BY <1>1 DEF Where
    <3>3. t - 1 \in 1 .. (Len(q) - 1) /\ (t - 1) + 1 = t
      BY <1>1, <3>2
    <3>4. t - 1 \in P
      BY <1>1, <1>2, <3>2, <3>3 DEF Where
    <3>5. f[t - 1] = t
      BY <3>3, <3>4
    <3>6. QED BY <3>4, <3>5
  <2>5. f \in Bijection(P, R)
    BY <2>2, <2>3, <2>4, Fun_IsBij
  <2>6. QED BY <2>5, Fun_ExistsBij
<1>5. IsFiniteSet(P) /\ IsFiniteSet(Where(q, S)) /\ Num(q, S) \in Nat /\ Num(Tail(q), S) \in Nat
  BY <1>3, WhereFinite
<1>6. Cardinality(R) = Num(Tail(q), S)
  BY <1>4, <1>5, FS_Bijection DEF Num
<1>7. 1 \in Where(q, S) <=> Head(q) \in S
  BY <1>1, <1>3 DEF Where
<1>8. Cardinality(R) = IF 1 \in Where(q, S) THEN Num(q, S) - 1 ELSE Num(q, S)
  BY <1>5, FS_RemoveElement DEF Num
<1>9. QED BY <1>5, <1>6, <1>7, <1>8 DEF Count

(* Two kinds stay in order when nothing of the first is appended behind the second, *)
LEMMA BeforeAppend ==
  ASSUME NEW D, NEW q \in Seq(D), NEW m \in D, NEW A, NEW B, A \cap B = {},
         Before(q, A, B), m \notin A \/ Where(q, B) = {}
  PROVE  Before(Append(q, m), A, B)
<1> DEFINE n == Len(q) + 1
<1>1. \A k \in 1 .. n : Append(q, m)[k] = IF k = n THEN m ELSE q[k]
  OBVIOUS
<1>2. DOMAIN Append(q, m) = 1 .. n /\ DOMAIN q = 1 .. Len(q) /\ Len(q) \in Nat
  OBVIOUS
<1>3. SUFFICES ASSUME NEW k \in Where(Append(q, m), A), NEW l \in Where(Append(q, m), B)
               PROVE  k < l
  BY DEF Before
<1>4. k \in 1 .. n /\ l \in 1 .. n /\ Append(q, m)[k] \in A /\ Append(q, m)[l] \in B
  BY <1>2 DEF Where
<1>5. CASE l = n
  BY <1>1, <1>2, <1>4, <1>5
<1>6. CASE l # n
  <2>1. l \in Where(q, B)
    BY <1>1, <1>2, <1>4, <1>6 DEF Where
  <2>2. k # n
    BY <1>1, <1>4, <2>1
  <2>3. k \in Where(q, A)
    BY <1>1, <1>2, <1>4, <2>2 DEF Where
  <2>4. QED BY <2>1, <2>3 DEF Before
<1>7. QED BY <1>5, <1>6

(* they stay in order when the head is taken, *)
LEMMA BeforeTail ==
  ASSUME NEW D, NEW q \in Seq(D), q # <<>>, NEW A, NEW B, Before(q, A, B)
  PROVE  Before(Tail(q), A, B)
<1>1. Len(q) \in Nat \ {0} /\ DOMAIN q = 1 .. Len(q) /\ DOMAIN Tail(q) = 1 .. (Len(q) - 1)
  OBVIOUS
<1>2. \A k \in 1 .. (Len(q) - 1) : Tail(q)[k] = q[k + 1]
  OBVIOUS
<1>3. SUFFICES ASSUME NEW k \in Where(Tail(q), A), NEW l \in Where(Tail(q), B)
               PROVE  k < l
  BY DEF Before
<1>4. k \in 1 .. (Len(q) - 1) /\ l \in 1 .. (Len(q) - 1)
  BY <1>1 DEF Where
<1>5. k + 1 \in Where(q, A) /\ l + 1 \in Where(q, B)
  BY <1>1, <1>2, <1>4 DEF Where
<1>6. k + 1 < l + 1
  BY <1>5 DEF Before
<1>7. QED BY <1>4, <1>6

(* and the second is at the head only when none of the first is left. *)
LEMMA BeforeHead ==
  ASSUME NEW D, NEW q \in Seq(D), q # <<>>, NEW A, NEW B, Before(q, A, B), Head(q) \in B
  PROVE  Where(q, A) = {}
<1>1. Len(q) \in Nat \ {0} /\ DOMAIN q = 1 .. Len(q) /\ Head(q) = q[1]
  OBVIOUS
<1>2. 1 \in Where(q, B)
  BY <1>1 DEF Where
<1>3. \A k \in Where(q, A) : k < 1 /\ k \in 1 .. Len(q)
  BY <1>1, <1>2 DEF Before, Where
<1>4. QED BY <1>1, <1>3

-----------------------------------------------------------------------------
(* All of it, for a queue q with m appended, ... *)
LEMMA Appended ==
  ASSUME NEW D, NEW q \in Seq(D), NEW m \in D
  PROVE  /\ Append(q, m) \in Seq(D) /\ InFlight(Append(q, m)) = InFlight(q) \cup {m}
         /\ \A S : Num(q, S) \in Nat /\ Num(Append(q, m), S) = Num(q, S) + Count(m \in S)
         /\ \A A, B : A \cap B = {} /\ Before(q, A, B) /\ (m \notin A \/ Where(q, B) = {})
              => Before(Append(q, m), A, B)
<1> DEFINE r == Append(q, m)
<1>1. \A k \in 1 .. Len(q) + 1 : r[k] = IF k = Len(q) + 1 THEN m ELSE q[k]
  OBVIOUS
<1>2. DOMAIN r = 1 .. Len(q) + 1 /\ DOMAIN q = 1 .. Len(q) /\ Len(q) \in Nat
  OBVIOUS
<1>3. InFlight(r) = InFlight(q) \cup {m}
  <2> HIDE DEF r
  <2>1. QED BY <1>1, <1>2 DEF InFlight
<1>4. \A S : Num(q, S) \in Nat /\ Num(r, S) = Num(q, S) + Count(m \in S)
  BY WhereFinite, NumAppend
<1>5. \A A, B : A \cap B = {} /\ Before(q, A, B) /\ (m \notin A \/ Where(q, B) = {})
        => Before(r, A, B)
  BY BeforeAppend
<1>6. QED BY <1>3, <1>4, <1>5

(* ... and for q without its head. *)
LEMMA Taken1 ==
  ASSUME NEW D, NEW q \in Seq(D), q # <<>>
  PROVE  /\ Tail(q) \in Seq(D) /\ Head(q) \in D
         /\ InFlight(Tail(q)) \subseteq InFlight(q) /\ Head(q) \in InFlight(q)
         /\ \A S : /\ Num(q, S) \in Nat /\ Num(Tail(q), S) \in Nat
                  /\ Num(q, S) = Num(Tail(q), S) + Count(Head(q) \in S)
         /\ \A A, B : Before(q, A, B) =>
              Before(Tail(q), A, B) /\ (Head(q) \in B => Num(q, A) = 0)
<1> DEFINE r == Tail(q)
<1>1. Len(q) \in Nat \ {0} /\ DOMAIN q = 1 .. Len(q) /\ DOMAIN r = 1 .. (Len(q) - 1)
        /\ r \in Seq(D) /\ Head(q) \in D /\ Head(q) = q[1]
  OBVIOUS
<1>2. \A k \in 1 .. (Len(q) - 1) : r[k] = q[k + 1]
  OBVIOUS
<1>3. InFlight(r) \subseteq InFlight(q) /\ Head(q) \in InFlight(q)
  <2> HIDE DEF r
  <2>1. ASSUME NEW m \in InFlight(r) PROVE m \in InFlight(q)
    <3>1. PICK k \in 1 .. (Len(q) - 1) : m = r[k]
      BY <1>1 DEF InFlight
    <3>2. m = q[k + 1]
      BY ONLY <1>2, <3>1
    <3>3. k + 1 \in DOMAIN q
      BY ONLY <1>1, <3>1
    <3>4. QED BY <3>2, <3>3 DEF InFlight
  <2>2. 1 \in DOMAIN q /\ Head(q) = q[1]
    BY ONLY <1>1
  <2>3. QED BY <2>1, <2>2 DEF InFlight
<1>4. \A S : /\ Num(q, S) \in Nat /\ Num(r, S) \in Nat
            /\ Num(q, S) = Num(r, S) + Count(Head(q) \in S)
  BY <1>1, WhereFinite, NumTail
<1>5. \A A, B : Before(q, A, B) => Before(r, A, B) /\ (Head(q) \in B => Num(q, A) = 0)
  BY WhereFinite, BeforeTail, BeforeHead
<1>6. QED BY <1>1, <1>3, <1>4, <1>5

(* A message is in a queue exactly when its number is not zero. *)
LEMMA Present ==
  ASSUME NEW D, NEW q \in Seq(D), NEW m
  PROVE  m \in InFlight(q) <=> Num(q, {m}) # 0
<1>1. Num(q, {m}) # 0 <=> Where(q, {m}) # {}
  BY WhereFinite
<1>2. QED BY <1>1 DEF Where, InFlight

(* An empty queue holds nothing. *)
LEMMA NumEmpty ==
  /\ \A S : Where(<<>>, S) = {} /\ Num(<<>>, S) = 0
  /\ \A A, B : Before(<<>>, A, B)
  /\ InFlight(<<>>) = {}
<1>1. \A S : Where(<<>>, S) = {}
  BY DEF Where
<1>2. \A S : Num(<<>>, S) = 0
  BY <1>1, FS_EmptySet, Zenon DEF Num
<1>3. \A A, B : Before(<<>>, A, B)
  BY <1>1, Zenon DEF Before
<1>4. InFlight(<<>>) = {}
  BY DEF InFlight
<1>5. QED BY <1>1, <1>2, <1>3, <1>4

-----------------------------------------------------------------------------
(* The globals that the chains of calls of the profile manager work on, and     *)
(* their types.                                                            *)
Service ==
  [acl : Acls \cup {NoAcl}, service : Services \cup {NoService}, conn : BOOLEAN, offloadId : Nat,
   buf : Sessions \cup {NoSession},
   sess : [SesSlots -> [id : Sessions \cup {NoSession}, pending : BOOLEAN]]]

Instance ==
  [state : OffloadStates, ep : Endpoints \cup {NoEndpoint}, svc : Nat, ses : {0} \cup SesSlots]

Lists ==
  {f \in [Endpoints -> UNION {[SvcSlots(e) -> Service] : e \in Endpoints}] :
     \A e \in Endpoints : f[e] \in [SvcSlots(e) -> Service]}

Globals(t) ==
  t \in [inst : [Slots -> Instance], svcs : Lists, hal : Seq(OmToHalMsgs), bs : Seq(OmToBsMsgs),
         awm : Seq(OmToAwmMsgs), failed : BOOLEAN]

(* The states of an instance that has not been answered yet. *)
Starting == {"OffloadReq", "OffloadToMicrostackSuccess", "OffloadToMicroappFailure"}

Live(t) == {i \in Slots : t.inst[i].svc # 0}
Seat(t, e, k, x) == t.svcs[e][k].sess[x].id

(* The pointers of instance i lead to the place of a session. *)
Seated(t, i) ==
  /\ i \in Slots
  /\ t.inst[i].ep \in Endpoints /\ t.inst[i].svc \in SvcSlots(t.inst[i].ep)
  /\ t.inst[i].ses \in SesSlots
  /\ SesOf(t, i).id \in Sessions

(* The instances and the places in svc_list are in step: SessionsOwned with the *)
(* service that a place is of.                                             *)
Owned(t) ==
  /\ \A i \in Slots : t.inst[i].state = "Idle" <=> t.inst[i].svc = 0
  /\ \A i \in Live(t) : Seated(t, i)
  /\ \A i, j \in Live(t) : SesOf(t, i).id = SesOf(t, j).id => i = j
  /\ \A e \in Endpoints : \A k \in SvcSlots(e) : \A x \in SesSlots :
        Seat(t, e, k, x) # NoSession =>
          /\ \E i \in Live(t) : t.inst[i].ep = e /\ t.inst[i].svc = k /\ t.inst[i].ses = x
          /\ reg[Seat(t, e, k, x)].ep = e
          /\ reg[Seat(t, e, k, x)].acl = t.svcs[e][k].acl
          /\ reg[Seat(t, e, k, x)].service = t.svcs[e][k].service
  /\ \A e \in Endpoints : \A k \in SvcSlots(e) :
        (\A x \in SesSlots : Seat(t, e, k, x) = NoSession) => t.svcs[e][k] = FreeService

(* What a call made for instance i may do to the places, ...                   *)
SeatsKept(t, t2, i) ==
  \A e \in Endpoints : \A k \in SvcSlots(e) :
     IF e = t.inst[i].ep /\ k = t.inst[i].svc
     THEN /\ t2.svcs[e][k].acl = t.svcs[e][k].acl
          /\ t2.svcs[e][k].service = t.svcs[e][k].service
          /\ \A x \in SesSlots : Seat(t2, e, k, x) = Seat(t, e, k, x)
     ELSE t2.svcs[e][k] = t.svcs[e][k]

(* ... when it only moves the instance on, ...                                 *)
Moves(t, t2, i, new) ==
  /\ Globals(t2) /\ t2.failed = t.failed
  /\ t2.inst = [t.inst EXCEPT ![i] = [@ EXCEPT !.state = new]]
  /\ SeatsKept(t, t2, i)

(* ... and when it gives it back. *)
Frees(t, t2, i) ==
  /\ Globals(t2) /\ t2.failed = t.failed /\ t2.bs = t.bs /\ t2.awm = t.awm
  /\ t2.inst = [t.inst EXCEPT ![i] = [state |-> "Idle", ep |-> t.inst[i].ep, svc |-> 0, ses |-> 0]]
  /\ \A e \in Endpoints : \A k \in SvcSlots(e) :
        IF e = t.inst[i].ep /\ k = t.inst[i].svc
        THEN IF \E x \in SesSlots \ {t.inst[i].ses} : Seat(t, e, k, x) # NoSession
             THEN /\ t2.svcs[e][k].acl = t.svcs[e][k].acl
                  /\ t2.svcs[e][k].service = t.svcs[e][k].service
                  /\ t2.svcs[e][k].offloadId = t.svcs[e][k].offloadId
                  /\ \A x \in SesSlots : Seat(t2, e, k, x) =
                        IF x = t.inst[i].ses THEN NoSession ELSE Seat(t, e, k, x)
             ELSE t2.svcs[e][k] = FreeService
        ELSE t2.svcs[e][k] = t.svcs[e][k]

(* A cleared service is a service. *)
LEMMA FreeServiceType ==
  FreeService \in Service /\ FreeSession \in [id : Sessions \cup {NoSession}, pending : BOOLEAN]
BY DEF FreeService, FreeSession, Service

(* Which lists there are. *)
LEMMA InLists ==
  /\ \A f \in Lists : /\ f = [e \in Endpoints |-> f[e]]
                      /\ \A e \in Endpoints : f[e] \in [SvcSlots(e) -> Service]
  /\ \A f : /\ f = [e \in Endpoints |-> f[e]]
            /\ \A e \in Endpoints : f[e] \in [SvcSlots(e) -> Service]
            => f \in Lists
<1>1. ASSUME NEW f, f = [e \in Endpoints |-> f[e]],
             \A e \in Endpoints : f[e] \in [SvcSlots(e) -> Service]
      PROVE  f \in Lists
  <2>1. \A e \in Endpoints : f[e] \in UNION {[SvcSlots(d) -> Service] : d \in Endpoints}
    BY <1>1
  <2>2. f \in [Endpoints -> UNION {[SvcSlots(d) -> Service] : d \in Endpoints}]
    BY <1>1, <2>1
  <2>3. QED BY <1>1, <2>2 DEF Lists
<1>2. ASSUME NEW f \in Lists
      PROVE  /\ f = [e \in Endpoints |-> f[e]]
             /\ \A e \in Endpoints : f[e] \in [SvcSlots(e) -> Service]
  BY <1>2 DEF Lists
<1>3. QED BY <1>1, <1>2

(* A new state for an instance. *)
WithState(t, i, new) == [t EXCEPT !.inst[i].state = new]
(* What a new state of an instance changes, and what not. *)
LEMMA StateFields ==
  ASSUME NEW t, Globals(t), NEW i \in Slots, NEW new \in OffloadStates
  PROVE  /\ Globals(WithState(t, i, new))
         /\ WithState(t, i, new).inst = [t.inst EXCEPT ![i] = [@ EXCEPT !.state = new]]
         /\ WithState(t, i, new).svcs = t.svcs /\ WithState(t, i, new).hal = t.hal
         /\ WithState(t, i, new).bs = t.bs /\ WithState(t, i, new).awm = t.awm
         /\ WithState(t, i, new).failed = t.failed
         /\ \A j \in Slots :
              /\ WithState(t, i, new).inst[j].ep = t.inst[j].ep
              /\ WithState(t, i, new).inst[j].svc = t.inst[j].svc
              /\ WithState(t, i, new).inst[j].ses = t.inst[j].ses
              /\ WithState(t, i, new).inst[j].state = IF j = i THEN new ELSE t.inst[j].state
<1> DEFINE g == [t.inst EXCEPT ![i] = [@ EXCEPT !.state = new]]
           t2 == WithState(t, i, new)
<1>1. t.inst \in [Slots -> Instance]
  BY DEF Globals
<1>2. g \in [Slots -> Instance]
  BY <1>1 DEF Instance
<1>3. t2 = [t EXCEPT !.inst = g]
  BY DEF WithState
<1>4. \A j \in Slots : /\ g[j].ep = t.inst[j].ep /\ g[j].svc = t.inst[j].svc
                       /\ g[j].ses = t.inst[j].ses
                       /\ g[j].state = IF j = i THEN new ELSE t.inst[j].state
  BY <1>1 DEF Instance
<1> HIDE DEF g, t2
<1>5. /\ Globals(t2) /\ t2.inst = g /\ t2.svcs = t.svcs /\ t2.hal = t.hal /\ t2.bs = t.bs
      /\ t2.awm = t.awm /\ t2.failed = t.failed
  BY <1>2, <1>3 DEF Globals
<1>6. QED BY ONLY <1>4, <1>5 DEF g, t2

(* A new value for the service of an instance. *)
LEMMA ServiceFields ==
  ASSUME NEW t, Globals(t), NEW i \in Slots, t.inst[i].ep \in Endpoints,
         t.inst[i].svc \in SvcSlots(t.inst[i].ep), NEW svc \in Service
  PROVE  /\ Globals(WithSvc(t, i, svc))
         /\ \A e \in Endpoints : \A k \in SvcSlots(e) :
               WithSvc(t, i, svc).svcs[e][k] =
                 IF e = t.inst[i].ep /\ k = t.inst[i].svc THEN svc ELSE t.svcs[e][k]
         /\ WithSvc(t, i, svc).inst = t.inst /\ WithSvc(t, i, svc).hal = t.hal
         /\ WithSvc(t, i, svc).bs = t.bs /\ WithSvc(t, i, svc).awm = t.awm
         /\ WithSvc(t, i, svc).failed = t.failed
<1> DEFINE t2 == WithSvc(t, i, svc)
           f == t.inst[i].ep
           l == t.inst[i].svc
           g == [t.svcs EXCEPT ![f] = [@ EXCEPT ![l] = svc]]
<1>1. t.svcs \in Lists
  BY DEF Globals
<1>2. f \in Endpoints /\ l \in SvcSlots(f)
  OBVIOUS
<1>3. t2 = [t EXCEPT !.svcs = g]
  BY DEF WithSvc
<1> HIDE DEF f, l, t2
<1>4. g = [e \in Endpoints |-> IF e = f THEN [t.svcs[f] EXCEPT ![l] = svc] ELSE t.svcs[e]]
  BY <1>1, <1>2, InLists
<1>5. /\ \A e \in Endpoints : g[e] \in [SvcSlots(e) -> Service]
      /\ g = [e \in Endpoints |-> g[e]]
      /\ \A e \in Endpoints : \A k \in SvcSlots(e) :
               g[e][k] = IF e = f /\ k = l THEN svc ELSE t.svcs[e][k]
  BY <1>1, <1>2, <1>4, InLists
<1>6. g \in Lists
  <2> HIDE DEF g
  <2>1. QED BY <1>5, InLists
<1> HIDE DEF g
<1>7. /\ t2.svcs = g /\ Globals(t2)
      /\ t2.inst = t.inst /\ t2.hal = t.hal /\ t2.bs = t.bs /\ t2.awm = t.awm
      /\ t2.failed = t.failed
  BY <1>3, <1>6 DEF Globals
<1>8. QED BY <1>5, <1>7 DEF f, l, t2

(* A message for a party. *)
LEMMA QueueFields ==
  ASSUME NEW t, Globals(t)
  PROVE  /\ \A m \in OmToHalMsgs :
              /\ Globals(ToHal(t, m)) /\ ToHal(t, m).inst = t.inst /\ ToHal(t, m).svcs = t.svcs
              /\ ToHal(t, m).hal = Append(t.hal, m) /\ ToHal(t, m).bs = t.bs
              /\ ToHal(t, m).awm = t.awm /\ ToHal(t, m).failed = t.failed
         /\ \A m \in OmToBsMsgs :
              /\ Globals(ToBs(t, m)) /\ ToBs(t, m).inst = t.inst /\ ToBs(t, m).svcs = t.svcs
              /\ ToBs(t, m).hal = t.hal /\ ToBs(t, m).bs = Append(t.bs, m)
              /\ ToBs(t, m).awm = t.awm /\ ToBs(t, m).failed = t.failed
         /\ \A m \in OmToAwmMsgs :
              /\ Globals(ToAwm(t, m)) /\ ToAwm(t, m).inst = t.inst /\ ToAwm(t, m).svcs = t.svcs
              /\ ToAwm(t, m).hal = t.hal /\ ToAwm(t, m).bs = t.bs
              /\ ToAwm(t, m).awm = Append(t.awm, m) /\ ToAwm(t, m).failed = t.failed
<1>1. /\ \A m \in OmToHalMsgs : Append(t.hal, m) \in Seq(OmToHalMsgs)
      /\ \A m \in OmToBsMsgs : Append(t.bs, m) \in Seq(OmToBsMsgs)
      /\ \A m \in OmToAwmMsgs : Append(t.awm, m) \in Seq(OmToAwmMsgs)
  BY DEF Globals
<1>2. QED BY <1>1 DEF Globals, ToHal, ToBs, ToAwm

(* What the globals' type says of one instance and of one place. *)
LEMMA GlobalsParts ==
  ASSUME NEW t, Globals(t)
  PROVE  /\ t.inst \in [Slots -> Instance] /\ t.svcs \in Lists
         /\ t.hal \in Seq(OmToHalMsgs) /\ t.bs \in Seq(OmToBsMsgs) /\ t.awm \in Seq(OmToAwmMsgs)
         /\ \A i \in Slots : /\ t.inst[i] \in Instance
                             /\ t.inst[i].state \in OffloadStates
         /\ \A e \in Endpoints : \A k \in SvcSlots(e) :
               /\ t.svcs[e][k] \in Service
               /\ \A x \in SesSlots : Seat(t, e, k, x) \in Sessions \cup {NoSession}
<1>1. /\ t.inst \in [Slots -> Instance] /\ t.svcs \in Lists
      /\ t.hal \in Seq(OmToHalMsgs) /\ t.bs \in Seq(OmToBsMsgs) /\ t.awm \in Seq(OmToAwmMsgs)
  BY DEF Globals
<1>2. \A i \in Slots : t.inst[i] \in Instance /\ t.inst[i].state \in OffloadStates
  BY <1>1 DEF Instance
<1>3. \A e \in Endpoints : \A k \in SvcSlots(e) : t.svcs[e][k] \in Service
  BY <1>1, InLists
<1>4. \A e \in Endpoints : \A k \in SvcSlots(e) : \A x \in SesSlots :
        Seat(t, e, k, x) \in Sessions \cup {NoSession}
  BY <1>3 DEF Service, Seat
<1>5. QED BY <1>1, <1>2, <1>3, <1>4

(* The parts of a service. *)
LEMMA ServiceParts ==
  ASSUME NEW svc \in Service
  PROVE  /\ svc.acl \in Acls \cup {NoAcl} /\ svc.service \in Services \cup {NoService}
         /\ svc.conn \in BOOLEAN /\ svc.offloadId \in Nat /\ svc.buf \in Sessions \cup {NoSession}
         /\ svc.sess \in [SesSlots -> [id : Sessions \cup {NoSession}, pending : BOOLEAN]]
         /\ btConnId(svc) \in Acls \cup {NoAcl} /\ btConnId(svc) \in {svc.acl, NoAcl}
         /\ Users(svc) \subseteq Sessions
BY DEF Service, btConnId, Users

(* What a seated instance points to. *)
LEMMA SeatedParts ==
  ASSUME NEW t, Globals(t), NEW i, Seated(t, i)
  PROVE  /\ i \in Slots /\ t.inst[i].ep \in Endpoints /\ t.inst[i].svc \in SvcSlots(t.inst[i].ep)
         /\ t.inst[i].ses \in SesSlots /\ SvcOf(t, i) \in Service
         /\ SvcOf(t, i) = t.svcs[t.inst[i].ep][t.inst[i].svc]
         /\ SesOf(t, i) \in [id : Sessions \cup {NoSession}, pending : BOOLEAN]
         /\ SesOf(t, i).id = Seat(t, t.inst[i].ep, t.inst[i].svc, t.inst[i].ses)
         /\ SesOf(t, i).id \in Sessions /\ SesOf(t, i).id # NoSession
<1>1. /\ i \in Slots /\ t.inst[i].ep \in Endpoints /\ t.inst[i].svc \in SvcSlots(t.inst[i].ep)
      /\ t.inst[i].ses \in SesSlots /\ SesOf(t, i).id \in Sessions
  BY DEF Seated
<1>2. SvcOf(t, i) \in Service /\ SvcOf(t, i) = t.svcs[t.inst[i].ep][t.inst[i].svc]
  BY <1>1, GlobalsParts DEF SvcOf
<1>3. SesOf(t, i) \in [id : Sessions \cup {NoSession}, pending : BOOLEAN]
  BY <1>1, <1>2, ServiceParts DEF SesOf
<1>4. SesOf(t, i).id = Seat(t, t.inst[i].ep, t.inst[i].svc, t.inst[i].ses)
  BY DEF SesOf, SvcOf, Seat
<1>5. QED BY <1>1, <1>2, <1>3, <1>4, GattMarksAssumption

(* A live instance is not idle, and its session is of its place. *)
LEMMA LiveParts ==
  ASSUME NEW t, Globals(t), Owned(t), NEW i \in Live(t)
  PROVE  /\ Seated(t, i) /\ i \in Slots /\ t.inst[i].state # "Idle"
         /\ reg[SesOf(t, i).id].ep = t.inst[i].ep
         /\ reg[SesOf(t, i).id].acl = SvcOf(t, i).acl
         /\ reg[SesOf(t, i).id].service = SvcOf(t, i).service
<1>1. Seated(t, i) /\ i \in Slots /\ t.inst[i].state # "Idle"
  BY DEF Owned, Live
<1>2. QED BY <1>1, SeatedParts DEF Owned

(* Moving an instance on leaves every place with its session. *)
LEMMA OwnedMoves ==
  ASSUME NEW t, Globals(t), Owned(t), NEW i \in Live(t), NEW new \in OffloadStates, new # "Idle",
         NEW t2, Moves(t, t2, i, new)
  PROVE  /\ Owned(t2) /\ Live(t2) = Live(t)
         /\ \A j \in Live(t) : /\ SesOf(t2, j).id = SesOf(t, j).id
                               /\ t2.inst[j].ep = t.inst[j].ep /\ t2.inst[j].svc = t.inst[j].svc
                               /\ t2.inst[j].ses = t.inst[j].ses
                               /\ SvcOf(t2, j).acl = SvcOf(t, j).acl
                               /\ t2.inst[j].state = IF j = i THEN new ELSE t.inst[j].state
<1>1. /\ t.inst \in [Slots -> Instance] /\ i \in Slots /\ Globals(t2) /\ SeatsKept(t, t2, i)
      /\ Seated(t, i) /\ t.inst[i].state # "Idle"
  BY GlobalsParts, LiveParts DEF Moves
<1>2. \A j \in Slots : /\ t2.inst[j].ep = t.inst[j].ep /\ t2.inst[j].svc = t.inst[j].svc
                       /\ t2.inst[j].ses = t.inst[j].ses
                       /\ t2.inst[j].state = IF j = i THEN new ELSE t.inst[j].state
  BY <1>1 DEF Moves, Instance
<1>3. Live(t2) = Live(t) /\ Live(t) \subseteq Slots
  BY <1>2 DEF Live
<1>4. \A e \in Endpoints : \A k \in SvcSlots(e) :
        /\ t2.svcs[e][k].acl = t.svcs[e][k].acl
        /\ t2.svcs[e][k].service = t.svcs[e][k].service
        /\ \A x \in SesSlots : Seat(t2, e, k, x) = Seat(t, e, k, x)
  BY <1>1 DEF SeatsKept, Seat
<1>5. \A j \in Live(t) : SesOf(t2, j).id = SesOf(t, j).id /\ SvcOf(t2, j).acl = SvcOf(t, j).acl
  <2> SUFFICES ASSUME NEW j \in Live(t)
               PROVE  SesOf(t2, j).id = SesOf(t, j).id /\ SvcOf(t2, j).acl = SvcOf(t, j).acl
    OBVIOUS
  <2>1. Seated(t, j) /\ j \in Slots
    BY LiveParts
  <2>2. QED BY ZenonT(60), <1>2, <1>4, <2>1 DEF Seated, Seat, SesOf, SvcOf
<1>6. \A j \in Slots : t2.inst[j].state = "Idle" <=> t2.inst[j].svc = 0
  BY <1>1, <1>2 DEF Owned
<1>7. \A j \in Live(t2) : Seated(t2, j)
  BY <1>2, <1>3, <1>5 DEF Owned, Seated
<1>8. \A j, l \in Live(t2) : SesOf(t2, j).id = SesOf(t2, l).id => j = l
  BY <1>3, <1>5 DEF Owned
<1>9. \A e \in Endpoints : \A k \in SvcSlots(e) : \A x \in SesSlots :
        Seat(t2, e, k, x) # NoSession =>
          /\ \E j \in Live(t2) : t2.inst[j].ep = e /\ t2.inst[j].svc = k /\ t2.inst[j].ses = x
          /\ reg[Seat(t2, e, k, x)].ep = e
          /\ reg[Seat(t2, e, k, x)].acl = t2.svcs[e][k].acl
          /\ reg[Seat(t2, e, k, x)].service = t2.svcs[e][k].service
  <2> SUFFICES ASSUME NEW e \in Endpoints, NEW k \in SvcSlots(e), NEW x \in SesSlots,
                      Seat(t2, e, k, x) # NoSession
               PROVE  /\ \E j \in Live(t2) : /\ t2.inst[j].ep = e /\ t2.inst[j].svc = k
                                             /\ t2.inst[j].ses = x
                      /\ reg[Seat(t2, e, k, x)].ep = e
                      /\ reg[Seat(t2, e, k, x)].acl = t2.svcs[e][k].acl
                      /\ reg[Seat(t2, e, k, x)].service = t2.svcs[e][k].service
    OBVIOUS
  <2>1. Seat(t, e, k, x) # NoSession /\ Seat(t2, e, k, x) = Seat(t, e, k, x)
    BY <1>4
  <2>2. PICK j \in Live(t) : t.inst[j].ep = e /\ t.inst[j].svc = k /\ t.inst[j].ses = x
    BY <2>1 DEF Owned
  <2>3. t2.inst[j].ep = e /\ t2.inst[j].svc = k /\ t2.inst[j].ses = x
    BY <1>2, <1>3, <2>2
  <2>4. QED BY <1>3, <1>4, <2>1, <2>3 DEF Owned
<1>10. \A e \in Endpoints : \A k \in SvcSlots(e) :
         (\A x \in SesSlots : Seat(t2, e, k, x) = NoSession) => t2.svcs[e][k] = FreeService
  <2> SUFFICES ASSUME NEW e \in Endpoints, NEW k \in SvcSlots(e),
                      \A x \in SesSlots : Seat(t2, e, k, x) = NoSession
               PROVE  t2.svcs[e][k] = FreeService
    OBVIOUS
  <2>1. t.svcs[e][k] = FreeService /\ \A x \in SesSlots : Seat(t, e, k, x) = NoSession
    BY <1>4 DEF Owned
  <2>2. ~(e = t.inst[i].ep /\ k = t.inst[i].svc)
    BY <1>1, <2>1, SeatedParts
  <2>3. QED BY <1>1, <2>1, <2>2 DEF SeatsKept
<1>11. Owned(t2)
  BY <1>6, <1>7, <1>8, <1>9, <1>10 DEF Owned
<1>12. QED BY <1>2, <1>3, <1>5, <1>11

(* Giving an instance back takes its session out of its place, and nobody else's. *)
LEMMA OwnedFrees ==
  ASSUME NEW t, Globals(t), Owned(t), NEW i \in Live(t), NEW t2, Frees(t, t2, i)
  PROVE  /\ Owned(t2) /\ Live(t2) = Live(t) \ {i}
         /\ t2.inst[i].state = "Idle"
         /\ \A j \in Live(t2) : /\ SesOf(t2, j).id = SesOf(t, j).id
                                /\ t2.inst[j] = t.inst[j]
                                /\ SvcOf(t2, j).acl = SvcOf(t, j).acl
                                /\ SvcOf(t2, j).offloadId = SvcOf(t, j).offloadId
                                /\ t2.inst[j].ep # t.inst[i].ep => SvcOf(t2, j) = SvcOf(t, j)
<1>1. /\ t.inst \in [Slots -> Instance] /\ i \in Slots /\ Globals(t2)
      /\ Seated(t, i) /\ t.inst[i].state # "Idle"
  BY GlobalsParts, LiveParts DEF Frees
<1> DEFINE f == t.inst[i].ep
           l == t.inst[i].svc
           y == t.inst[i].ses
           Rest == \E x \in SesSlots \ {y} : Seat(t, f, l, x) # NoSession
<1>2. /\ \A j \in Slots \ {i} : t2.inst[j] = t.inst[j]
      /\ t2.inst[i].state = "Idle" /\ t2.inst[i].svc = 0
  BY <1>1 DEF Frees
<1>3. Live(t2) = Live(t) \ {i}
  BY <1>2 DEF Live
<1>4. /\ \A e \in Endpoints : \A k \in SvcSlots(e) :
           ~(e = f /\ k = l) => t2.svcs[e][k] = t.svcs[e][k]
      /\ Rest => /\ t2.svcs[f][l].acl = t.svcs[f][l].acl
                 /\ t2.svcs[f][l].service = t.svcs[f][l].service
                 /\ t2.svcs[f][l].offloadId = t.svcs[f][l].offloadId
                 /\ \A x \in SesSlots : Seat(t2, f, l, x) =
                       IF x = y THEN NoSession ELSE Seat(t, f, l, x)
      /\ ~Rest => t2.svcs[f][l] = FreeService
  BY <1>1 DEF Frees, Seated
<1>5. f \in Endpoints /\ l \in SvcSlots(f) /\ y \in SesSlots
  BY <1>1 DEF Seated
<1>6. \A x \in SesSlots : FreeService.sess[x].id = NoSession
  BY DEF FreeService, FreeSession
<1>7. \A e \in Endpoints : \A k \in SvcSlots(e) : \A x \in SesSlots :
        Seat(t2, e, k, x) = IF e = f /\ k = l /\ x = y THEN NoSession ELSE Seat(t, e, k, x)
  <2> SUFFICES ASSUME NEW e \in Endpoints, NEW k \in SvcSlots(e), NEW x \in SesSlots
               PROVE  Seat(t2, e, k, x) =
                        IF e = f /\ k = l /\ x = y THEN NoSession ELSE Seat(t, e, k, x)
    OBVIOUS
  <2>1. CASE ~(e = f /\ k = l)
    BY <1>4, <2>1 DEF Seat
  <2>2. CASE e = f /\ k = l /\ Rest
    BY <1>4, <2>2
  <2>3. CASE e = f /\ k = l /\ ~Rest
    <3>1. Seat(t2, e, k, x) = NoSession
      BY <1>4, <1>6, <2>3 DEF Seat
    <3>2. x # y => Seat(t, e, k, x) = NoSession
      BY <2>3
    <3>3. QED BY <2>3, <3>1, <3>2
  <2>4. QED BY <2>1, <2>2, <2>3
<1> HIDE DEF f, l, y
<1>8. \A j \in Live(t2) : /\ Seated(t, j) /\ j \in Slots /\ j # i /\ t2.inst[j] = t.inst[j]
                          /\ ~(t.inst[j].ep = f /\ t.inst[j].svc = l /\ t.inst[j].ses = y)
  <2> SUFFICES ASSUME NEW j \in Live(t2)
               PROVE  /\ Seated(t, j) /\ j \in Slots /\ j # i /\ t2.inst[j] = t.inst[j]
                      /\ ~(t.inst[j].ep = f /\ t.inst[j].svc = l /\ t.inst[j].ses = y)
    OBVIOUS
  <2>1. Seated(t, j) /\ j \in Slots /\ j # i /\ t2.inst[j] = t.inst[j]
    BY <1>2, <1>3, LiveParts
  <2>2. SesOf(t, j).id # SesOf(t, i).id
    BY <1>3, <2>1 DEF Owned
  <2>3. QED BY <2>1, <2>2 DEF SesOf, SvcOf, f, l, y
<1>9. \A j \in Live(t2) : /\ SesOf(t2, j).id = SesOf(t, j).id
                          /\ SvcOf(t2, j).acl = SvcOf(t, j).acl
                          /\ SvcOf(t2, j).offloadId = SvcOf(t, j).offloadId
                          /\ t2.inst[j].ep # f => SvcOf(t2, j) = SvcOf(t, j)
  <2> SUFFICES ASSUME NEW j \in Live(t2)
               PROVE  /\ SesOf(t2, j).id = SesOf(t, j).id
                      /\ SvcOf(t2, j).acl = SvcOf(t, j).acl
                      /\ SvcOf(t2, j).offloadId = SvcOf(t, j).offloadId
                      /\ t2.inst[j].ep # f => SvcOf(t2, j) = SvcOf(t, j)
    OBVIOUS
  <2>1. /\ t.inst[j].ep \in Endpoints /\ t.inst[j].svc \in SvcSlots(t.inst[j].ep)
        /\ t.inst[j].ses \in SesSlots /\ t2.inst[j] = t.inst[j]
        /\ ~(t.inst[j].ep = f /\ t.inst[j].svc = l /\ t.inst[j].ses = y)
    BY <1>8 DEF Seated
  <2>2. SesOf(t2, j).id = SesOf(t, j).id
    BY ZenonT(60), <1>7, <2>1 DEF SesOf, SvcOf, Seat
  <2>3. CASE ~(t.inst[j].ep = f /\ t.inst[j].svc = l)
    <3>1. SvcOf(t2, j) = SvcOf(t, j)
      BY <1>4, <2>1, <2>3 DEF SvcOf
    <3>2. QED BY <2>2, <3>1
  <2>4. CASE t.inst[j].ep = f /\ t.inst[j].svc = l
    <3>1. Seat(t, f, l, t.inst[j].ses) # NoSession
      BY <1>1, <1>8, <2>4, SeatedParts
    <3>2. Rest
      BY <2>1, <2>4, <3>1
    <3>3. QED BY <1>4, <2>1, <2>2, <2>4, <3>2 DEF SvcOf
  <2>5. QED BY <2>3, <2>4
<1>10. \A j \in Slots : t2.inst[j].state = "Idle" <=> t2.inst[j].svc = 0
  BY <1>2 DEF Owned
<1>11. \A j \in Live(t2) : Seated(t2, j)
  BY <1>8, <1>9 DEF Seated
<1>12. \A j, k \in Live(t2) : SesOf(t2, j).id = SesOf(t2, k).id => j = k
  BY <1>3, <1>9 DEF Owned
<1>13. \A e \in Endpoints : \A k \in SvcSlots(e) : \A x \in SesSlots :
        Seat(t2, e, k, x) # NoSession =>
          /\ \E j \in Live(t2) : t2.inst[j].ep = e /\ t2.inst[j].svc = k /\ t2.inst[j].ses = x
          /\ reg[Seat(t2, e, k, x)].ep = e
          /\ reg[Seat(t2, e, k, x)].acl = t2.svcs[e][k].acl
          /\ reg[Seat(t2, e, k, x)].service = t2.svcs[e][k].service
  <2> SUFFICES ASSUME NEW e \in Endpoints, NEW k \in SvcSlots(e), NEW x \in SesSlots,
                      Seat(t2, e, k, x) # NoSession
               PROVE  /\ \E j \in Live(t2) : /\ t2.inst[j].ep = e /\ t2.inst[j].svc = k
                                             /\ t2.inst[j].ses = x
                      /\ reg[Seat(t2, e, k, x)].ep = e
                      /\ reg[Seat(t2, e, k, x)].acl = t2.svcs[e][k].acl
                      /\ reg[Seat(t2, e, k, x)].service = t2.svcs[e][k].service
    OBVIOUS
  <2>1. /\ ~(e = f /\ k = l /\ x = y) /\ Seat(t, e, k, x) # NoSession
        /\ Seat(t2, e, k, x) = Seat(t, e, k, x)
    BY <1>7
  <2>2. PICK j \in Live(t) : t.inst[j].ep = e /\ t.inst[j].svc = k /\ t.inst[j].ses = x
    BY <2>1 DEF Owned
  <2>3. j # i
    BY <2>1, <2>2 DEF f, l, y
  <2>4. t2.inst[j] = t.inst[j] /\ j \in Live(t2)
    BY <1>2, <1>3, <2>3 DEF Live
  <2>5. t2.svcs[e][k].acl = t.svcs[e][k].acl /\ t2.svcs[e][k].service = t.svcs[e][k].service
    BY <1>4, <2>1
  <2>6. QED BY <2>1, <2>2, <2>4, <2>5 DEF Owned
<1>14. \A e \in Endpoints : \A k \in SvcSlots(e) :
         (\A x \in SesSlots : Seat(t2, e, k, x) = NoSession) => t2.svcs[e][k] = FreeService
  <2> SUFFICES ASSUME NEW e \in Endpoints, NEW k \in SvcSlots(e),
                      \A x \in SesSlots : Seat(t2, e, k, x) = NoSession
               PROVE  t2.svcs[e][k] = FreeService
    OBVIOUS
  <2>1. CASE e = f /\ k = l
    <3>1. ~Rest
      BY <1>7, <2>1
    <3>2. QED BY <1>4, <2>1, <3>1
  <2>2. CASE ~(e = f /\ k = l)
    BY <1>4, <1>7, <2>2 DEF Owned
  <2>3. QED BY <2>1, <2>2
<1>15. Owned(t2)
  BY <1>10, <1>11, <1>12, <1>13, <1>14 DEF Owned
<1>16. QED BY <1>2, <1>3, <1>8, <1>9, <1>15 DEF f

(* Two instances with the same members are the same. *)
LEMMA InstanceEq ==
  ASSUME NEW v \in Instance, NEW w \in Instance,
         v.state = w.state, v.ep = w.ep, v.svc = w.svc, v.ses = w.ses
  PROVE  v = w
BY DEF Instance

(* An instance without its pointers. *)
LEMMA Cleared0 ==
  ASSUME NEW v \in Instance
  PROVE  [[v EXCEPT !.svc = 0] EXCEPT !.ses = 0]
           = [state |-> v.state, ep |-> v.ep, svc |-> 0, ses |-> 0]
<1> DEFINE a == [v EXCEPT !.svc = 0]
           b == [a EXCEPT !.ses = 0]
<1>1. a \in Instance /\ a.state = v.state /\ a.ep = v.ep /\ a.svc = 0
  BY DEF Instance
<1> HIDE DEF a
<1>2. b \in Instance /\ b.state = v.state /\ b.ep = v.ep /\ b.svc = 0 /\ b.ses = 0
  BY <1>1 DEF Instance
<1> DEFINE w == [state |-> v.state, ep |-> v.ep, svc |-> 0, ses |-> 0]
<1>3. w \in Instance /\ w.state = v.state /\ w.ep = v.ep /\ w.svc = 0 /\ w.ses = 0
  BY DEF Instance
<1> HIDE DEF b, w
<1>4. b = w
  BY <1>2, <1>3, InstanceEq
<1>5. QED BY <1>4 DEF a, b, w

-----------------------------------------------------------------------------
(* The rows of the table, event by event. *)
LEMMA RowsOf ==
  ASSUME NEW st
  PROVE  /\ Rows("Idle", "OFFLOAD_REQ") = {<<"Idle", "OFFLOAD_REQ", "OffloadReq">>}
         /\ st # "OffloadReq" =>
              /\ Rows(st, "OFFLOAD_TO_MICROSTACK_SUCCESS") = {}
              /\ Rows(st, "OFFLOAD_TO_MICROSTACK_FAILURE") = {}
         /\ Rows("OffloadReq", "OFFLOAD_TO_MICROSTACK_SUCCESS") =
              {<<"OffloadReq", "OFFLOAD_TO_MICROSTACK_SUCCESS", "OffloadToMicrostackSuccess">>}
         /\ Rows("OffloadReq", "OFFLOAD_TO_MICROSTACK_FAILURE") =
              {<<"OffloadReq", "OFFLOAD_TO_MICROSTACK_FAILURE", "OffloadFailure">>}
         /\ st # "OffloadToMicrostackSuccess" =>
              /\ Rows(st, "OFFLOAD_TO_MICROAPP_SUCCESS") = {}
              /\ Rows(st, "OFFLOAD_TO_MICROAPP_FAILURE") = {}
         /\ Rows("OffloadToMicrostackSuccess", "OFFLOAD_TO_MICROAPP_SUCCESS") =
              {<<"OffloadToMicrostackSuccess", "OFFLOAD_TO_MICROAPP_SUCCESS",
                 "OffloadToMicroappSuccess">>}
         /\ Rows("OffloadToMicrostackSuccess", "OFFLOAD_TO_MICROAPP_FAILURE") =
              {<<"OffloadToMicrostackSuccess", "OFFLOAD_TO_MICROAPP_FAILURE",
                 "OffloadToMicroappFailure">>}
         /\ st \notin {"OffloadToMicroappSuccess", "UnOffloadReqFromHAL"} =>
              Rows(st, "UNOFFLOAD_FROM_MICROAPP_SUCCESS") = {}
         /\ st \in {"OffloadToMicroappSuccess", "UnOffloadReqFromHAL"} =>
              Rows(st, "UNOFFLOAD_FROM_MICROAPP_SUCCESS") =
                {<<st, "UNOFFLOAD_FROM_MICROAPP_SUCCESS", "UnOffloadReqToMicrostack">>}
         /\ st \notin {"OffloadToMicroappFailure", "UnOffloadReqToMicrostack"} =>
              Rows(st, "UNOFFLOAD_FROM_MICROSTACK_SUCCESS") = {}
         /\ Rows("OffloadToMicroappFailure", "UNOFFLOAD_FROM_MICROSTACK_SUCCESS") =
              {<<"OffloadToMicroappFailure", "UNOFFLOAD_FROM_MICROSTACK_SUCCESS", "OffloadFailure">>}
         /\ Rows("UnOffloadReqToMicrostack", "UNOFFLOAD_FROM_MICROSTACK_SUCCESS") =
              {<<"UnOffloadReqToMicrostack", "UNOFFLOAD_FROM_MICROSTACK_SUCCESS",
                 "UnoffloadSuccess">>}
         /\ st \notin Starting \cup {"OffloadToMicroappSuccess"} => Rows(st, "UNOFFLOAD_REQ") = {}
         /\ Rows("OffloadToMicroappSuccess", "UNOFFLOAD_REQ") =
              {<<"OffloadToMicroappSuccess", "UNOFFLOAD_REQ", "UnOffloadReqFromHAL">>}
<1>1. Rows("Idle", "OFFLOAD_REQ") = {<<"Idle", "OFFLOAD_REQ", "OffloadReq">>}
  BY DEF Rows, offload_mgr_state_table, Starting
<1>2. st # "OffloadReq" =>
          /\ Rows(st, "OFFLOAD_TO_MICROSTACK_SUCCESS") = {}
          /\ Rows(st, "OFFLOAD_TO_MICROSTACK_FAILURE") = {}
  BY DEF Rows, offload_mgr_state_table, Starting
<1>3. Rows("OffloadReq", "OFFLOAD_TO_MICROSTACK_SUCCESS") =
          {<<"OffloadReq", "OFFLOAD_TO_MICROSTACK_SUCCESS", "OffloadToMicrostackSuccess">>}
  BY DEF Rows, offload_mgr_state_table, Starting
<1>4. Rows("OffloadReq", "OFFLOAD_TO_MICROSTACK_FAILURE") =
          {<<"OffloadReq", "OFFLOAD_TO_MICROSTACK_FAILURE", "OffloadFailure">>}
  BY DEF Rows, offload_mgr_state_table, Starting
<1>5. st # "OffloadToMicrostackSuccess" =>
          /\ Rows(st, "OFFLOAD_TO_MICROAPP_SUCCESS") = {}
          /\ Rows(st, "OFFLOAD_TO_MICROAPP_FAILURE") = {}
  BY DEF Rows, offload_mgr_state_table, Starting
<1>6. Rows("OffloadToMicrostackSuccess", "OFFLOAD_TO_MICROAPP_SUCCESS") =
          {<<"OffloadToMicrostackSuccess", "OFFLOAD_TO_MICROAPP_SUCCESS",
             "OffloadToMicroappSuccess">>}
  BY DEF Rows, offload_mgr_state_table, Starting
<1>7. Rows("OffloadToMicrostackSuccess", "OFFLOAD_TO_MICROAPP_FAILURE") =
          {<<"OffloadToMicrostackSuccess", "OFFLOAD_TO_MICROAPP_FAILURE",
             "OffloadToMicroappFailure">>}
  BY DEF Rows, offload_mgr_state_table, Starting
<1>8. st \notin {"OffloadToMicroappSuccess", "UnOffloadReqFromHAL"} =>
          Rows(st, "UNOFFLOAD_FROM_MICROAPP_SUCCESS") = {}
  BY DEF Rows, offload_mgr_state_table, Starting
<1>9. st \in {"OffloadToMicroappSuccess", "UnOffloadReqFromHAL"} =>
          Rows(st, "UNOFFLOAD_FROM_MICROAPP_SUCCESS") =
            {<<st, "UNOFFLOAD_FROM_MICROAPP_SUCCESS", "UnOffloadReqToMicrostack">>}
  BY DEF Rows, offload_mgr_state_table, Starting
<1>10. st \notin {"OffloadToMicroappFailure", "UnOffloadReqToMicrostack"} =>
          Rows(st, "UNOFFLOAD_FROM_MICROSTACK_SUCCESS") = {}
  BY DEF Rows, offload_mgr_state_table, Starting
<1>11. Rows("OffloadToMicroappFailure", "UNOFFLOAD_FROM_MICROSTACK_SUCCESS") =
          {<<"OffloadToMicroappFailure", "UNOFFLOAD_FROM_MICROSTACK_SUCCESS", "OffloadFailure">>}
  BY DEF Rows, offload_mgr_state_table, Starting
<1>12. Rows("UnOffloadReqToMicrostack", "UNOFFLOAD_FROM_MICROSTACK_SUCCESS") =
          {<<"UnOffloadReqToMicrostack", "UNOFFLOAD_FROM_MICROSTACK_SUCCESS",
             "UnoffloadSuccess">>}
  BY DEF Rows, offload_mgr_state_table, Starting
<1>13. st \notin Starting \cup {"OffloadToMicroappSuccess"} => Rows(st, "UNOFFLOAD_REQ") = {}
  BY DEF Rows, offload_mgr_state_table, Starting
<1>14. Rows("OffloadToMicroappSuccess", "UNOFFLOAD_REQ") =
          {<<"OffloadToMicroappSuccess", "UNOFFLOAD_REQ", "UnOffloadReqFromHAL">>}
  BY DEF Rows, offload_mgr_state_table, Starting
<1>15. QED BY <1>1, <1>2, <1>3, <1>4, <1>5, <1>6, <1>7, <1>8, <1>9, <1>10, <1>11, <1>12, <1>13, <1>14

(* A state with one row for an event is left as the row says, ... *)
LEMMA OnlyRow ==
  ASSUME NEW t, NEW i, NEW evt, NEW new,
         Rows(t.inst[i].state, evt) = {<<t.inst[i].state, evt, new>>}
  PROVE  Event(t, i, evt) = Entered([t EXCEPT !.inst[i].state = new], i, new)
<1> DEFINE row == <<t.inst[i].state, evt, new>>
<1>1. (CHOOSE r \in {row} : TRUE) = row /\ row[3] = new
  OBVIOUS
<1>2. NextState(t.inst[i].state, evt) = new
  BY <1>1 DEF NextState
<1>3. QED BY <1>2 DEF Event

(* ... and one without is not left. *)
LEMMA NoRow ==
  ASSUME NEW t, NEW i, NEW evt, Rows(t.inst[i].state, evt) = {}
  PROVE  Event(t, i, evt) = t
BY DEF Event

(* A call that leaves svc_list alone keeps every place; so does one that    *)
(* changes other parts of the instance's service.                          *)
LEMMA SameServices ==
  ASSUME NEW t, NEW t2, NEW i, t2.svcs = t.svcs
  PROVE  SeatsKept(t, t2, i)
BY DEF SeatsKept, Seat

(* The service of an instance, changed in parts that are not about its places. *)
LEMMA ServiceChanged ==
  ASSUME NEW t, Globals(t), NEW i, Seated(t, i), NEW v \in Service,
         v.acl = SvcOf(t, i).acl, v.service = SvcOf(t, i).service,
         \A x \in SesSlots : v.sess[x].id = SvcOf(t, i).sess[x].id,
         NEW t2, t2 = WithSvc(t, i, v)
  PROVE  /\ Globals(t2) /\ SeatsKept(t, t2, i) /\ Seated(t2, i)
         /\ t2.inst = t.inst /\ t2.hal = t.hal /\ t2.bs = t.bs /\ t2.awm = t.awm
         /\ t2.failed = t.failed
         /\ SvcOf(t2, i) = v /\ SesOf(t2, i).id = SesOf(t, i).id
         /\ \A e \in Endpoints : \A k \in SvcSlots(e) :
               t2.svcs[e][k] = IF e = t.inst[i].ep /\ k = t.inst[i].svc THEN v ELSE t.svcs[e][k]
<1>1. /\ i \in Slots /\ t.inst[i].ep \in Endpoints /\ t.inst[i].svc \in SvcSlots(t.inst[i].ep)
      /\ t.inst[i].ses \in SesSlots /\ SvcOf(t, i) = t.svcs[t.inst[i].ep][t.inst[i].svc]
      /\ SesOf(t, i).id \in Sessions
  BY SeatedParts
<1>2. /\ Globals(t2)
      /\ \A e \in Endpoints : \A k \in SvcSlots(e) :
            t2.svcs[e][k] = IF e = t.inst[i].ep /\ k = t.inst[i].svc THEN v ELSE t.svcs[e][k]
      /\ t2.inst = t.inst /\ t2.hal = t.hal /\ t2.bs = t.bs /\ t2.awm = t.awm
      /\ t2.failed = t.failed
  <2>1. Globals(t) /\ v \in Service /\ t2 = WithSvc(t, i, v)
    OBVIOUS
  <2>2. QED BY ONLY <1>1, <2>1, ServiceFields
<1>h. v.acl = SvcOf(t, i).acl /\ v.service = SvcOf(t, i).service /\
         \A x \in SesSlots : v.sess[x].id = SvcOf(t, i).sess[x].id
  OBVIOUS
<1>3. SeatsKept(t, t2, i)
  BY ONLY <1>h, <1>1, <1>2 DEF SeatsKept, Seat, SvcOf
<1>4. SvcOf(t2, i) = v
  BY ONLY <1>1, <1>2 DEF SvcOf
<1>41. SesOf(t2, i).id = SesOf(t, i).id
  BY ONLY <1>h, <1>1, <1>4, <1>2 DEF SesOf
<1>5. Seated(t2, i)
  BY <1>1, <1>2, <1>41 DEF Seated
<1>6. QED BY <1>2, <1>3, <1>4, <1>41, <1>5

(* The answer of an open leaves the places alone and forgets the request.      *)
LEMMA OpenAnswer ==
  ASSUME NEW t, Globals(t), NEW i, Seated(t, i), NEW ok \in BOOLEAN,
         NEW t2, t2 = hal_offload_rsp(t, i, ok)
  PROVE  /\ Globals(t2) /\ SeatsKept(t, t2, i) /\ Seated(t2, i)
         /\ t2.inst = t.inst /\ t2.bs = t.bs /\ t2.awm = t.awm /\ t2.failed = t.failed
         /\ t2.hal = Append(t.hal, [op |-> "REGISTER_RSP", id |-> SesOf(t, i).id, ok |-> ok])
         /\ SesOf(t2, i).id = SesOf(t, i).id
         /\ \A e \in Endpoints : \A k \in SvcSlots(e) :
               t2.svcs[e][k] = IF e = t.inst[i].ep /\ k = t.inst[i].svc
                               THEN [t.svcs[e][k] EXCEPT !.buf = NoSession] ELSE t.svcs[e][k]
<1> DEFINE m == [op |-> "REGISTER_RSP", id |-> SesOf(t, i).id, ok |-> ok]
           t1 == ToHal(t, m)
           svc == [SvcOf(t, i) EXCEPT !.buf = NoSession]
           kept == [t.svcs[t.inst[i].ep][t.inst[i].svc] EXCEPT !.buf = NoSession]
<1>1. /\ i \in Slots /\ SvcOf(t, i) \in Service /\ SesOf(t, i).id \in Sessions
      /\ SvcOf(t, i) = t.svcs[t.inst[i].ep][t.inst[i].svc]
  BY SeatedParts
<1>2. m \in OmToHalMsgs
  BY <1>1 DEF OmToHalMsgs
<1>3. /\ Globals(t1) /\ t1.inst = t.inst /\ t1.svcs = t.svcs /\ t1.hal = Append(t.hal, m)
      /\ t1.bs = t.bs /\ t1.awm = t.awm /\ t1.failed = t.failed
  <2> HIDE DEF m
  <2>1. QED BY <1>2, QueueFields
<1>4. /\ svc \in Service /\ svc.acl = SvcOf(t, i).acl /\ svc.service = SvcOf(t, i).service
      /\ \A x \in SesSlots : svc.sess[x].id = SvcOf(t, i).sess[x].id
  <2>1. QED BY <1>1 DEF Service
<1>5. t2 = WithSvc(t1, i, svc)
  BY DEF hal_offload_rsp
<1> HIDE DEF t1
<1>6. Seated(t1, i) /\ SvcOf(t1, i) = SvcOf(t, i) /\ SesOf(t1, i) = SesOf(t, i)
  BY <1>3 DEF Seated, SesOf, SvcOf
<1> HIDE DEF svc
<1>7. /\ Globals(t2) /\ SeatsKept(t1, t2, i) /\ Seated(t2, i)
      /\ t2.inst = t1.inst /\ t2.hal = t1.hal /\ t2.bs = t1.bs /\ t2.awm = t1.awm
      /\ t2.failed = t1.failed
      /\ SesOf(t2, i).id = SesOf(t1, i).id
      /\ \A e \in Endpoints : \A k \in SvcSlots(e) :
            t2.svcs[e][k] = IF e = t1.inst[i].ep /\ k = t1.inst[i].svc THEN svc ELSE t1.svcs[e][k]
  BY SMTT(30), <1>3, <1>4, <1>5, <1>6, ServiceChanged
<1>8. SeatsKept(t, t2, i)
  BY <1>3, <1>7 DEF SeatsKept, Seat
<1>9. \A e \in Endpoints : \A k \in SvcSlots(e) :
        t2.svcs[e][k] = IF e = t.inst[i].ep /\ k = t.inst[i].svc
                        THEN [t.svcs[e][k] EXCEPT !.buf = NoSession] ELSE t.svcs[e][k]
  <2>1. svc = kept
    BY <1>1 DEF svc
  <2> HIDE DEF kept
  <2>2. \A e \in Endpoints : \A k \in SvcSlots(e) :
          t2.svcs[e][k] = IF e = t.inst[i].ep /\ k = t.inst[i].svc THEN kept ELSE t.svcs[e][k]
    BY ONLY <1>3, <1>7, <2>1
  <2>3. QED BY ONLY <2>2 DEF kept
<1>10. /\ Globals(t2) /\ Seated(t2, i) /\ SesOf(t2, i).id = SesOf(t, i).id
       /\ t2.inst = t.inst /\ t2.bs = t.bs /\ t2.awm = t.awm /\ t2.failed = t.failed
       /\ t2.hal = Append(t.hal, m)
  BY ONLY <1>3, <1>6, <1>7
<1>11. QED BY <1>8, <1>9, <1>10

(* A place is empty exactly when it counts for nothing. *)
LEMMA NoSessions ==
  ASSUME NEW svc \in Service
  PROVE  fetch_num_sessions_in_svc(svc) = 0 <=> \A x \in SesSlots : svc.sess[x].id = NoSession
<1> DEFINE S == {k \in SesSlots : svc.sess[k].id # NoSession}
<1>1. S \in SUBSET (1 .. MaxSessions) /\ MaxSessions \in Int
  BY ProfileAssumption DEF SesSlots
<1>2. IsFiniteSet(S)
  <2>1. IsFiniteSet(1 .. MaxSessions)
    BY <1>1, FS_Interval
  <2>2. QED BY <1>1, <2>1, FS_Subset
<1>3. Cardinality(S) = 0 <=> S = {}
  BY <1>2, FS_EmptySet
<1>4. QED BY <1>3 DEF fetch_num_sessions_in_svc

(* clear_offload_data() behind the state Idle gives an instance back. *)
LEMMA IdledFrees ==
  ASSUME NEW t, Globals(t), NEW i, Seated(t, i), NEW t2, t2 = Idled(t, i)
  PROVE  Frees(t, t2, i) /\ t2.hal = t.hal
<1> DEFINE t1 == WithState(t, i, "Idle")
           y == t.inst[i].ses
           old == SvcOf(t, i)
           svc == [old EXCEPT !.sess[y] = FreeSession]
           new == IF fetch_num_sessions_in_svc(svc) = 0 THEN FreeService ELSE svc
           t3 == WithSvc(t1, i, new)
<1>1. /\ i \in Slots /\ t.inst[i].ep \in Endpoints /\ t.inst[i].svc \in SvcSlots(t.inst[i].ep)
      /\ y \in SesSlots /\ old \in Service
      /\ old = t.svcs[t.inst[i].ep][t.inst[i].svc] /\ t.inst[i] \in Instance
  BY SeatedParts, GlobalsParts
<1>2. "Idle" \in OffloadStates
  BY DEF OffloadStates
<1>3. /\ Globals(t1)
      /\ t1.inst = [t.inst EXCEPT ![i] = [@ EXCEPT !.state = "Idle"]]
      /\ t1.svcs = t.svcs /\ t1.hal = t.hal /\ t1.bs = t.bs /\ t1.awm = t.awm
      /\ t1.failed = t.failed
  BY <1>1, <1>2, StateFields
<1> HIDE DEF t1
<1>4. t.inst \in [Slots -> Instance]
  BY GlobalsParts
<1>5. /\ t1.inst[i].ep = t.inst[i].ep /\ t1.inst[i].svc = t.inst[i].svc
      /\ t1.inst[i].ses = t.inst[i].ses /\ t1.inst[i].state = "Idle"
      /\ SvcOf(t1, i) = old
  BY <1>1, <1>3, <1>4 DEF Instance, SvcOf
<1>6. /\ svc \in Service /\ svc.acl = old.acl /\ svc.service = old.service
      /\ svc.offloadId = old.offloadId
      /\ \A x \in SesSlots : svc.sess[x].id = IF x = y THEN NoSession ELSE old.sess[x].id
  <2>1. FreeSession \in [id : Sessions \cup {NoSession}, pending : BOOLEAN]
    BY FreeServiceType
  <2>2. FreeSession.id = NoSession
    BY DEF FreeSession
  <2> HIDE DEF old
  <2>3. QED BY <1>1, <2>1, <2>2 DEF Service
<1>7. t2 = [t3 EXCEPT !.inst[i].svc = 0, !.inst[i].ses = 0]
  BY ZenonT(60), <1>5 DEF Idled, clear_offload_data, t1, WithState
<1> HIDE DEF old
<1>8. new \in Service
  BY <1>6, FreeServiceType
<1>9. (fetch_num_sessions_in_svc(svc) = 0) <=> \A x \in SesSlots : svc.sess[x].id = NoSession
  BY <1>6, NoSessions
<1> HIDE DEF new, svc
<1>10. /\ Globals(t3)
       /\ \A e \in Endpoints : \A k \in SvcSlots(e) :
             t3.svcs[e][k] = IF e = t.inst[i].ep /\ k = t.inst[i].svc THEN new ELSE t.svcs[e][k]
       /\ t3.inst = t1.inst /\ t3.hal = t.hal /\ t3.bs = t.bs /\ t3.awm = t.awm
       /\ t3.failed = t.failed
  <2>1. t1.inst[i].ep \in Endpoints /\ t1.inst[i].svc \in SvcSlots(t1.inst[i].ep)
    BY ONLY <1>1, <1>5
  <2>2. /\ Globals(t3)
        /\ \A e \in Endpoints : \A k \in SvcSlots(e) :
              t3.svcs[e][k] = IF e = t1.inst[i].ep /\ k = t1.inst[i].svc
                              THEN new ELSE t1.svcs[e][k]
        /\ t3.inst = t1.inst /\ t3.hal = t1.hal /\ t3.bs = t1.bs /\ t3.awm = t1.awm
        /\ t3.failed = t1.failed
    <3>1. t3 = WithSvc(t1, i, new)
      OBVIOUS
    <3> HIDE DEF t3
    <3>2. Globals(t1) /\ i \in Slots
      BY <1>1, <1>3
    <3>3. QED BY ONLY <1>8, <2>1, <3>1, <3>2, ServiceFields
  <2>3. QED BY ONLY <1>3, <1>5, <2>2
<1> HIDE DEF t3
<1>11. /\ t3.inst \in [Slots -> Instance] /\ t3.inst[i].state = "Idle"
       /\ t3.inst[i].ep = t.inst[i].ep
       /\ \A j \in Slots \ {i} : t3.inst[j] = t.inst[j]
  <2>1. t3.inst \in [Slots -> Instance]
    BY ONLY <1>10, GlobalsParts
  <2>2. \A j \in Slots \ {i} : t1.inst[j] = t.inst[j]
    BY ONLY <1>1, <1>3, <1>4
  <2>3. QED BY ONLY <1>5, <1>10, <2>1, <2>2
<1> DEFINE idle == [state |-> "Idle", ep |-> t.inst[i].ep, svc |-> 0, ses |-> 0]
<1>12. [t3.inst EXCEPT ![i] = [[@ EXCEPT !.svc = 0] EXCEPT !.ses = 0]] = [t.inst EXCEPT ![i] = idle]
  <2> DEFINE last == [[t3.inst[i] EXCEPT !.svc = 0] EXCEPT !.ses = 0]
  <2>1. last = idle
    <3>1. t3.inst[i] \in Instance
      BY ONLY <1>1, <1>11
    <3>2. last = [state |-> t3.inst[i].state, ep |-> t3.inst[i].ep, svc |-> 0, ses |-> 0]
      BY <3>1, Cleared0
    <3>3. QED BY ONLY <1>11, <3>1, <3>2
  <2>2. [t3.inst EXCEPT ![i] = [[@ EXCEPT !.svc = 0] EXCEPT !.ses = 0]]
          = [t3.inst EXCEPT ![i] = last]
    OBVIOUS
  <2> HIDE DEF idle, last
  <2>3. [t3.inst EXCEPT ![i] = last] = [t.inst EXCEPT ![i] = idle]
    BY ONLY <1>1, <1>4, <1>11, <2>1
  <2>4. QED BY ONLY <2>2, <2>3
<1>13. [t.inst EXCEPT ![i] = idle] \in [Slots -> Instance]
  <2>1. idle \in Instance
    BY <1>1, <1>2 DEF Instance
  <2> HIDE DEF idle
  <2>2. QED BY <1>4, <2>1
<1> HIDE DEF idle
<1>14. t2 = [t3 EXCEPT !.inst = [t.inst EXCEPT ![i] = idle]]
  <2> DEFINE u == [t3.inst EXCEPT ![i] = [[@ EXCEPT !.svc = 0] EXCEPT !.ses = 0]]
  <2>1. [t3 EXCEPT !.inst[i].svc = 0, !.inst[i].ses = 0] = [t3 EXCEPT !.inst = u]
    BY ONLY <1>1, <1>10, <1>11 DEF Globals
  <2> HIDE DEF u
  <2>2. QED BY ONLY <1>7, <1>12, <2>1 DEF u
<1>15. /\ Globals(t2) /\ t2.failed = t.failed /\ t2.bs = t.bs /\ t2.awm = t.awm /\ t2.hal = t.hal
       /\ t2.inst = [t.inst EXCEPT ![i] = idle] /\ t2.svcs = t3.svcs
  BY <1>10, <1>13, <1>14 DEF Globals
<1>16. ASSUME NEW e \in Endpoints, NEW k \in SvcSlots(e)
       PROVE  IF e = t.inst[i].ep /\ k = t.inst[i].svc
              THEN IF \E x \in SesSlots \ {t.inst[i].ses} : Seat(t, e, k, x) # NoSession
                   THEN /\ t2.svcs[e][k].acl = t.svcs[e][k].acl
                        /\ t2.svcs[e][k].service = t.svcs[e][k].service
                        /\ t2.svcs[e][k].offloadId = t.svcs[e][k].offloadId
                        /\ \A x \in SesSlots : Seat(t2, e, k, x) =
                              IF x = t.inst[i].ses THEN NoSession ELSE Seat(t, e, k, x)
                   ELSE t2.svcs[e][k] = FreeService
              ELSE t2.svcs[e][k] = t.svcs[e][k]
  <2>1. CASE ~(e = t.inst[i].ep /\ k = t.inst[i].svc)
    BY <1>10, <1>15, <2>1
  <2>2. CASE e = t.inst[i].ep /\ k = t.inst[i].svc
    <3>1. t2.svcs[e][k] = new /\ t.svcs[e][k] = old
      BY <1>1, <1>10, <1>15, <2>2
    <3>2. CASE \E x \in SesSlots \ {y} : Seat(t, e, k, x) # NoSession
      <4>1. new = svc
        BY <1>6, <1>9, <3>1, <3>2 DEF Seat, new
      <4>2. QED BY <1>6, <2>2, <3>1, <3>2, <4>1 DEF Seat
    <3>3. CASE ~\E x \in SesSlots \ {y} : Seat(t, e, k, x) # NoSession
      <4>1. new = FreeService
        BY <1>6, <1>9, <3>1, <3>3 DEF Seat, new
      <4>2. QED BY <2>2, <3>1, <3>3, <4>1
    <3>4. QED BY <3>2, <3>3
  <2>3. QED BY <2>1, <2>2
<1>17. QED BY <1>15, <1>16 DEF Frees, idle

-----------------------------------------------------------------------------
(* What the HAL and the profile manager say of one session to each other.      *)
Reg(s) == {[op |-> "REGISTER", id |-> s]}
Unreg(s) == {[op |-> "UNREGISTER", id |-> s]}
Yes(s) == {[op |-> "REGISTER_RSP", id |-> s, ok |-> TRUE]}
No(s) == {[op |-> "REGISTER_RSP", id |-> s, ok |-> FALSE]}
Gone(s) == {[op |-> "UNREGISTER_RSP", id |-> s]}
Cleared(a) == {[op |-> "CLEAR_RSP", acl |-> a]}

(* An instance works for the session; it has not answered its registration yet. *)
Working(t, s) == \E i \in Live(t) : SesOf(t, i).id = s
Beginning(t, s) == \E i \in Live(t) : SesOf(t, i).id = s /\ t.inst[i].state \in Starting

(* A session that the HAL has an entry for is, at most once, asked for, worked   *)
(* for or refused or ended by an answer on its way; and while it is being       *)
(* opened, at most once asked for, worked on or answered.  Both hold of a t,    *)
(* with the requests h and the table st of the HAL.                             *)
Tokens(t, h, s) ==
  Num(h, Reg(s)) + Count(Working(t, s)) + Num(t.hal, No(s)) + Num(t.hal, Gone(s))
Starts(t, h, s) ==
  Num(h, Reg(s)) + Count(Beginning(t, s)) + Num(t.hal, No(s)) + Num(t.hal, Yes(s))

Ledger(t, h, st) ==
  \A s \in Sessions :
     /\ Tokens(t, h, s) <= Count(st[s] # "CLOSED")
     /\ Starts(t, h, s) <= Count(st[s] = "OPENING")
     /\ Before(t.hal, Yes(s), Gone(s))
     /\ st[s] = "OPENING" =>
          \A l \in Where(h, Unreg(s)) : \E k \in Where(h, Reg(s)) : l < k
     /\ st[s] = "OPENED" => Where(h, Unreg(s)) = {}

(* No two registrations for an endpoint are open at a time. *)
OneOpening(st) ==
  \A s, u \in Sessions :
     st[s] = "OPENING" /\ st[u] = "OPENING" /\ reg[s].ep = reg[u].ep => s = u

(* The messages of these kinds are what the queues hold, and differ. *)
LEMMA HalMessages ==
  /\ \A s \in Sessions : /\ Reg(s) \subseteq HalToOmMsgs /\ Unreg(s) \subseteq HalToOmMsgs
                         /\ Yes(s) \subseteq OmToHalMsgs /\ No(s) \subseteq OmToHalMsgs
                         /\ Gone(s) \subseteq OmToHalMsgs
  /\ \A a \in Acls : Cleared(a) \subseteq OmToHalMsgs
  /\ \A s, u : /\ Yes(s) \cap No(u) = {} /\ Yes(s) \cap Gone(u) = {} /\ No(s) \cap Gone(u) = {}
               /\ Reg(s) \cap Unreg(u) = {}
               /\ s # u => /\ Reg(s) \cap Reg(u) = {} /\ Unreg(s) \cap Unreg(u) = {}
                           /\ Yes(s) \cap Yes(u) = {} /\ No(s) \cap No(u) = {}
                           /\ Gone(s) \cap Gone(u) = {}
  /\ \A s, a : /\ Yes(s) \cap Cleared(a) = {} /\ No(s) \cap Cleared(a) = {}
               /\ Gone(s) \cap Cleared(a) = {}
<1>1. /\ \A s \in Sessions : /\ Reg(s) \subseteq HalToOmMsgs /\ Unreg(s) \subseteq HalToOmMsgs
                             /\ Yes(s) \subseteq OmToHalMsgs /\ No(s) \subseteq OmToHalMsgs
                             /\ Gone(s) \subseteq OmToHalMsgs
      /\ \A a \in Acls : Cleared(a) \subseteq OmToHalMsgs
  BY DEF Reg, Unreg, Yes, No, Gone, Cleared, HalToOmMsgs, OmToHalMsgs
<1>2. \A s, u : /\ Yes(s) \cap No(u) = {} /\ Yes(s) \cap Gone(u) = {} /\ No(s) \cap Gone(u) = {}
                /\ Reg(s) \cap Unreg(u) = {}
  BY DEF Reg, Unreg, Yes, No, Gone
<1>3. \A s, u : s # u => /\ Reg(s) \cap Reg(u) = {} /\ Unreg(s) \cap Unreg(u) = {}
                         /\ Yes(s) \cap Yes(u) = {} /\ No(s) \cap No(u) = {}
                         /\ Gone(s) \cap Gone(u) = {}
  BY DEF Reg, Unreg, Yes, No, Gone
<1>4. \A s, a : /\ Yes(s) \cap Cleared(a) = {} /\ No(s) \cap Cleared(a) = {}
                /\ Gone(s) \cap Cleared(a) = {}
  BY DEF Yes, No, Gone, Cleared
<1>5. QED BY <1>1, <1>2, <1>3, <1>4

(* Who is worked for when an instance moves on ... *)
LEMMA WorkMoves ==
  ASSUME NEW t, Globals(t), Owned(t), NEW i \in Live(t), NEW new \in OffloadStates, new # "Idle",
         NEW t2, Moves(t, t2, i, new)
  PROVE  \A s : /\ Working(t2, s) <=> Working(t, s)
                /\ Beginning(t2, s) <=> IF s = SesOf(t, i).id THEN new \in Starting
                                        ELSE Beginning(t, s)
<1>1. /\ Live(t2) = Live(t)
      /\ \A j \in Live(t) : /\ SesOf(t2, j).id = SesOf(t, j).id
                            /\ t2.inst[j].state = IF j = i THEN new ELSE t.inst[j].state
  BY OwnedMoves
<1>2. \A j \in Live(t) : SesOf(t, j).id = SesOf(t, i).id => j = i
  BY DEF Owned
<1>3. QED BY <1>1, <1>2 DEF Working, Beginning

(* ... and when one is given back. *)
LEMMA WorkFrees ==
  ASSUME NEW t, Globals(t), Owned(t), NEW i \in Live(t), NEW t2, Frees(t, t2, i)
  PROVE  \A s : /\ Working(t2, s) <=> Working(t, s) /\ s # SesOf(t, i).id
                /\ Beginning(t2, s) <=> Beginning(t, s) /\ s # SesOf(t, i).id
<1>1. /\ Live(t2) = Live(t) \ {i}
      /\ \A j \in Live(t2) : SesOf(t2, j).id = SesOf(t, j).id /\ t2.inst[j] = t.inst[j]
  BY OwnedFrees
<1>2. \A j \in Live(t) : SesOf(t, j).id = SesOf(t, i).id => j = i
  BY DEF Owned
<1>3. QED BY <1>1, <1>2 DEF Working, Beginning

(* The counts are numbers. *)
LEMMA LedgerNumbers ==
  ASSUME NEW t, Globals(t), NEW h \in Seq(HalToOmMsgs)
  PROVE  /\ \A S : Num(h, S) \in Nat /\ Num(t.hal, S) \in Nat
         /\ \A S : (Num(h, S) = 0 <=> Where(h, S) = {}) /\ (Num(t.hal, S) = 0 <=> Where(t.hal, S) = {})
         /\ \A b : Count(b) \in {0, 1} /\ (b = TRUE => Count(b) = 1) /\ (b = FALSE => Count(b) = 0)
<1>1. \A S : Num(h, S) \in Nat /\ (Num(h, S) = 0 <=> Where(h, S) = {})
  BY WhereFinite
<1>2. \A S : Num(t.hal, S) \in Nat /\ (Num(t.hal, S) = 0 <=> Where(t.hal, S) = {})
  BY WhereFinite, GlobalsParts
<1>3. QED BY <1>1, <1>2 DEF Count

(* A session that is worked for has an entry; one that is being opened is      *)
(* OPENING.                                                                    *)
LEMMA EntryOf ==
  ASSUME NEW t, Globals(t), NEW h \in Seq(HalToOmMsgs), NEW st, Ledger(t, h, st),
         NEW s \in Sessions
  PROVE  /\ Working(t, s) => /\ st[s] # "CLOSED" /\ Num(h, Reg(s)) = 0
                             /\ Num(t.hal, No(s)) = 0 /\ Num(t.hal, Gone(s)) = 0
         /\ Beginning(t, s) => /\ st[s] = "OPENING" /\ Num(t.hal, Yes(s)) = 0
         /\ Beginning(t, s) => Working(t, s)
         /\ Num(h, Reg(s)) # 0 => /\ st[s] = "OPENING" /\ ~Working(t, s)
                                  /\ Num(t.hal, No(s)) = 0 /\ Num(t.hal, Yes(s)) = 0
                                  /\ Num(t.hal, Gone(s)) = 0 /\ Num(h, Reg(s)) = 1
<1> DEFINE R == Num(h, Reg(s))
           N == Num(t.hal, No(s))
           Y == Num(t.hal, Yes(s))
           G == Num(t.hal, Gone(s))
           W == Count(Working(t, s))
           B == Count(Beginning(t, s))
           C == Count(st[s] # "CLOSED")
           O == Count(st[s] = "OPENING")
<1>1. R \in Nat /\ N \in Nat /\ Y \in Nat /\ G \in Nat
  BY LedgerNumbers
<1>2. R + W + N + G <= C /\ R + B + N + Y <= O
  BY DEF Ledger, Tokens, Starts
<1>3. Beginning(t, s) => Working(t, s)
  BY DEF Beginning, Working
<1>4. /\ W = IF Working(t, s) THEN 1 ELSE 0
      /\ B = IF Beginning(t, s) THEN 1 ELSE 0
      /\ C = IF st[s] # "CLOSED" THEN 1 ELSE 0
      /\ O = IF st[s] = "OPENING" THEN 1 ELSE 0
  BY DEF Count
<1> HIDE DEF R, N, Y, G, W, B, C, O
<1>5. /\ Working(t, s) => st[s] # "CLOSED" /\ R = 0 /\ N = 0 /\ G = 0
      /\ Beginning(t, s) => st[s] = "OPENING" /\ Y = 0
      /\ R # 0 => st[s] = "OPENING" /\ ~Working(t, s) /\ N = 0 /\ Y = 0 /\ G = 0 /\ R = 1
  BY ONLY <1>1, <1>2, <1>3, <1>4
<1>6. QED BY <1>3, <1>5 DEF R, N, Y, G

(* What each of these messages is, by its kind. *)
LEMMA OneEach ==
  ASSUME NEW s, NEW u, NEW m
  PROVE  /\ m \in Yes(s) => m \notin No(u) /\ m \notin Gone(u) /\ (s # u => m \notin Yes(u))
         /\ m \in No(s) => m \notin Yes(u) /\ m \notin Gone(u) /\ (s # u => m \notin No(u))
         /\ m \in Gone(s) => m \notin Yes(u) /\ m \notin No(u) /\ (s # u => m \notin Gone(u))
         /\ m \in Reg(s) => m \notin Unreg(u) /\ (s # u => m \notin Reg(u))
         /\ m \in Unreg(s) => m \notin Reg(u) /\ (s # u => m \notin Unreg(u))
<1>1. \A v, w : /\ Yes(v) \cap No(w) = {} /\ Yes(v) \cap Gone(w) = {} /\ No(v) \cap Gone(w) = {}
                /\ Reg(v) \cap Unreg(w) = {}
                /\ v # w => /\ Reg(v) \cap Reg(w) = {} /\ Unreg(v) \cap Unreg(w) = {}
                            /\ Yes(v) \cap Yes(w) = {} /\ No(v) \cap No(w) = {}
                            /\ Gone(v) \cap Gone(w) = {}
  BY HalMessages
<1>2. QED BY <1>1

(* A call that nobody answers for adds nothing to the counts, ...              *)
LEMMA LedgerKept ==
  ASSUME NEW t, Globals(t), NEW h \in Seq(HalToOmMsgs), NEW st, Ledger(t, h, st), NEW t2,
         t2.hal = t.hal,
         \A s : (Working(t2, s) => Working(t, s)) /\ (Beginning(t2, s) => Beginning(t, s))
  PROVE  Ledger(t2, h, st)
<1> SUFFICES ASSUME NEW s \in Sessions
             PROVE  Tokens(t2, h, s) <= Tokens(t, h, s) /\ Starts(t2, h, s) <= Starts(t, h, s)
                      /\ Tokens(t2, h, s) \in Nat /\ Starts(t2, h, s) \in Nat
                      /\ Tokens(t, h, s) \in Nat /\ Starts(t, h, s) \in Nat
                      /\ Count(st[s] # "CLOSED") \in Nat /\ Count(st[s] = "OPENING") \in Nat
  BY DEF Ledger
<1>1. /\ Num(h, Reg(s)) \in Nat /\ Num(t.hal, No(s)) \in Nat /\ Num(t.hal, Gone(s)) \in Nat
      /\ Num(t.hal, Yes(s)) \in Nat
  BY LedgerNumbers
<1>2. /\ Count(Working(t2, s)) \in Nat /\ Count(Working(t, s)) \in Nat
      /\ Count(Beginning(t2, s)) \in Nat /\ Count(Beginning(t, s)) \in Nat
      /\ Count(Working(t2, s)) <= Count(Working(t, s))
      /\ Count(Beginning(t2, s)) <= Count(Beginning(t, s))
      /\ Count(st[s] # "CLOSED") \in Nat /\ Count(st[s] = "OPENING") \in Nat
  BY DEF Count
<1>3. /\ Tokens(t2, h, s)
           = Num(h, Reg(s)) + Count(Working(t2, s)) + Num(t.hal, No(s)) + Num(t.hal, Gone(s))
      /\ Starts(t2, h, s)
           = Num(h, Reg(s)) + Count(Beginning(t2, s)) + Num(t.hal, No(s)) + Num(t.hal, Yes(s))
  BY DEF Tokens, Starts
<1>4. /\ Tokens(t, h, s)
           = Num(h, Reg(s)) + Count(Working(t, s)) + Num(t.hal, No(s)) + Num(t.hal, Gone(s))
      /\ Starts(t, h, s)
           = Num(h, Reg(s)) + Count(Beginning(t, s)) + Num(t.hal, No(s)) + Num(t.hal, Yes(s))
  BY DEF Tokens, Starts
<1> DEFINE R == Num(h, Reg(s))
           N == Num(t.hal, No(s))
           G == Num(t.hal, Gone(s))
           Y == Num(t.hal, Yes(s))
           W == Count(Working(t, s))
           W2 == Count(Working(t2, s))
           B == Count(Beginning(t, s))
           B2 == Count(Beginning(t2, s))
<1>5. /\ R \in Nat /\ N \in Nat /\ G \in Nat /\ Y \in Nat /\ W \in Nat /\ W2 \in Nat /\ B \in Nat
      /\ B2 \in Nat /\ W2 <= W /\ B2 <= B
      /\ Tokens(t2, h, s) = R + W2 + N + G /\ Starts(t2, h, s) = R + B2 + N + Y
      /\ Tokens(t, h, s) = R + W + N + G /\ Starts(t, h, s) = R + B + N + Y
  BY <1>1, <1>2, <1>3, <1>4
<1> HIDE DEF R, N, G, Y, W, W2, B, B2
<1>6. /\ Tokens(t2, h, s) <= Tokens(t, h, s) /\ Starts(t2, h, s) <= Starts(t, h, s)
      /\ Tokens(t2, h, s) \in Nat /\ Starts(t2, h, s) \in Nat
      /\ Tokens(t, h, s) \in Nat /\ Starts(t, h, s) \in Nat
  BY ONLY <1>5
<1>7. QED BY <1>2, <1>6

(* ... and one that answers moves a session from one count to another. *)
LEMMA LedgerAnswer ==
  ASSUME NEW t, Globals(t), NEW h \in Seq(HalToOmMsgs), NEW st, Ledger(t, h, st), NEW t2,
         NEW s \in Sessions, NEW m \in OmToHalMsgs,
         \/ m \in Yes(s) /\ Beginning(t, s) /\ ~Beginning(t2, s)
         \/ m \in No(s) /\ Beginning(t, s) /\ ~Working(t2, s)
         \/ m \in Gone(s) /\ Working(t, s) /\ ~Working(t2, s),
         t2.hal = Append(t.hal, m),
         \A u : (Working(t2, u) => Working(t, u)) /\ (Beginning(t2, u) => Beginning(t, u))
  PROVE  Ledger(t2, h, st)
<1>1. /\ \A S : Num(h, S) \in Nat /\ Num(t.hal, S) \in Nat
      /\ \A S : Num(t2.hal, S) = Num(t.hal, S) + Count(m \in S)
      /\ \A A, B : A \cap B = {} /\ Before(t.hal, A, B) /\ (m \notin A \/ Where(t.hal, B) = {})
              => Before(t2.hal, A, B)
  <2>1. \A S : Num(h, S) \in Nat /\ Num(t.hal, S) \in Nat
    BY LedgerNumbers
  <2>2. t.hal \in Seq(OmToHalMsgs)
    BY GlobalsParts
  <2>3. /\ \A S : Num(t2.hal, S) = Num(t.hal, S) + Count(m \in S)
        /\ \A A, B : A \cap B = {} /\ Before(t.hal, A, B) /\ (m \notin A \/ Where(t.hal, B) = {})
                => Before(t2.hal, A, B)
    BY <2>2, Appended
  <2>4. QED BY <2>1, <2>3
<1> SUFFICES ASSUME NEW u \in Sessions
             PROVE  /\ Tokens(t2, h, u) <= Count(st[u] # "CLOSED")
                    /\ Starts(t2, h, u) <= Count(st[u] = "OPENING")
                    /\ Before(t2.hal, Yes(u), Gone(u))
  BY DEF Ledger
<1>2. /\ Tokens(t, h, u) <= Count(st[u] # "CLOSED") /\ Starts(t, h, u) <= Count(st[u] = "OPENING")
      /\ Before(t.hal, Yes(u), Gone(u))
  BY DEF Ledger
<1>3. /\ \A v : Beginning(t2, v) => Working(t2, v)
      /\ \A v : Beginning(t, v) => Working(t, v)
  BY DEF Beginning, Working
<1>4. /\ m \in Yes(s) => m \notin No(u) /\ m \notin Gone(u) /\ (s # u => m \notin Yes(u))
      /\ m \in No(s) => m \notin Yes(u) /\ m \notin Gone(u) /\ (s # u => m \notin No(u))
      /\ m \in Gone(s) => m \notin Yes(u) /\ m \notin No(u) /\ (s # u => m \notin Gone(u))
  BY OneEach
<1>5. Before(t2.hal, Yes(u), Gone(u))
  <2>1. Yes(u) \cap Gone(u) = {}
    BY HalMessages
  <2>2. m \in Yes(u) => u = s /\ Beginning(t, s)
    BY <1>4
  <2>3. Beginning(t, s) => Where(t.hal, Gone(s)) = {}
    <3>1. Beginning(t, s) => Num(t.hal, Gone(s)) = 0
      BY EntryOf
    <3>2. QED BY <3>1, LedgerNumbers
  <2>4. QED BY <1>1, <1>2, <2>1, <2>2, <2>3
<1> DEFINE N == Count(m \in No(u))
           G == Count(m \in Gone(u))
           Y == Count(m \in Yes(u))
<1>6. /\ Count(Working(t2, u)) + N + G <= Count(Working(t, u))
      /\ Count(Beginning(t2, u)) + N + Y <= Count(Beginning(t, u))
      /\ Count(Working(t2, u)) \in Nat /\ Count(Working(t, u)) \in Nat
      /\ Count(Beginning(t2, u)) \in Nat /\ Count(Beginning(t, u)) \in Nat
      /\ N \in Nat /\ G \in Nat /\ Y \in Nat
  <2>1. CASE u = s
    BY <1>3, <1>4, <2>1 DEF Count
  <2>2. CASE u # s
    BY <1>4, <2>2 DEF Count
  <2>3. QED BY <2>1, <2>2
<1>7. /\ Num(t2.hal, No(u)) = Num(t.hal, No(u)) + N
      /\ Num(t2.hal, Gone(u)) = Num(t.hal, Gone(u)) + G
      /\ Num(t2.hal, Yes(u)) = Num(t.hal, Yes(u)) + Y
  BY <1>1
<1> HIDE DEF N, G, Y
<1>8. /\ Count(st[u] # "CLOSED") \in Nat /\ Count(st[u] = "OPENING") \in Nat
  BY DEF Count
<1>9. /\ Tokens(t2, h, u) <= Count(st[u] # "CLOSED")
      /\ Starts(t2, h, u) <= Count(st[u] = "OPENING")
  <2>1. /\ Num(h, Reg(u)) \in Nat /\ Num(t.hal, No(u)) \in Nat /\ Num(t.hal, Gone(u)) \in Nat
        /\ Num(t.hal, Yes(u)) \in Nat
    BY <1>1
  <2> DEFINE R == Num(h, Reg(u))
             n == Num(t.hal, No(u))
             g == Num(t.hal, Gone(u))
             y == Num(t.hal, Yes(u))
             W == Count(Working(t, u))
             W2 == Count(Working(t2, u))
             B == Count(Beginning(t, u))
             B2 == Count(Beginning(t2, u))
             C == Count(st[u] # "CLOSED")
             O == Count(st[u] = "OPENING")
  <2>2. /\ R + W + n + g <= C /\ R + B + n + y <= O
        /\ Tokens(t2, h, u) = R + W2 + (n + N) + (g + G)
        /\ Starts(t2, h, u) = R + B2 + (n + N) + (y + Y)
    BY <1>2, <1>7 DEF Tokens, Starts
  <2>3. /\ R \in Nat /\ n \in Nat /\ g \in Nat /\ y \in Nat /\ C \in Nat /\ O \in Nat
        /\ W \in Nat /\ W2 \in Nat /\ B \in Nat /\ B2 \in Nat
        /\ W2 + N + G <= W /\ B2 + N + Y <= B /\ N \in Nat /\ G \in Nat /\ Y \in Nat
    BY <1>6, <1>8, <2>1
  <2> HIDE DEF R, n, g, y, W, W2, B, B2, C, O
  <2>4. R + W2 + (n + N) + (g + G) <= C /\ R + B2 + (n + N) + (y + Y) <= O
    BY ONLY <2>2, <2>3
  <2>5. QED BY <2>2, <2>4 DEF C, O
<1>10. QED BY <1>5, <1>9

(* A queue without its head keeps one kind behind another. *)
LEMMA BehindTail ==
  ASSUME NEW D, NEW q \in Seq(D), q # <<>>, NEW A, NEW B, Head(q) \notin B,
         \A l \in Where(q, A) : \E k \in Where(q, B) : l < k
  PROVE  \A l \in Where(Tail(q), A) : \E k \in Where(Tail(q), B) : l < k
<1>1. Len(q) \in Nat \ {0} /\ DOMAIN q = 1 .. Len(q) /\ DOMAIN Tail(q) = 1 .. (Len(q) - 1)
        /\ Head(q) = q[1]
  OBVIOUS
<1>2. \A k \in 1 .. (Len(q) - 1) : Tail(q)[k] = q[k + 1]
  OBVIOUS
<1> TAKE l \in Where(Tail(q), A)
<1>3. l \in 1 .. (Len(q) - 1) /\ l + 1 \in Where(q, A)
  BY <1>1, <1>2 DEF Where
<1>4. PICK k \in Where(q, B) : l + 1 < k
  BY <1>3
<1>5. k \in 1 .. Len(q) /\ q[k] \in B
  BY <1>1 DEF Where
<1>6. k - 1 \in 1 .. (Len(q) - 1) /\ (k - 1) + 1 = k
  BY <1>1, <1>3, <1>4, <1>5
<1>7. k - 1 \in Where(Tail(q), B)
  BY <1>1, <1>2, <1>5, <1>6 DEF Where
<1>8. l < k - 1
  BY <1>3, <1>4, <1>5
<1>9. QED BY <1>7, <1>8

(* A request that is not a registration leaves the HAL's queue unnoticed. *)
LEMMA LedgerTail ==
  ASSUME NEW t, Globals(t), NEW h \in Seq(HalToOmMsgs), h # <<>>, NEW st, Ledger(t, h, st),
         \A s : Head(h) \notin Reg(s)
  PROVE  Ledger(t, Tail(h), st)
<1>1. \A S : Num(Tail(h), S) \in Nat /\ Num(h, S) = Num(Tail(h), S) + Count(Head(h) \in S)
  BY Taken1
<1>2. \A s : Num(Tail(h), Reg(s)) = Num(h, Reg(s))
  BY <1>1 DEF Count
<1>3. ASSUME NEW s \in Sessions
      PROVE  /\ st[s] = "OPENING" =>
                  \A l \in Where(Tail(h), Unreg(s)) : \E k \in Where(Tail(h), Reg(s)) : l < k
             /\ st[s] = "OPENED" => Where(Tail(h), Unreg(s)) = {}
  <2>1. CASE st[s] = "OPENING"
    <3>1. \A l \in Where(h, Unreg(s)) : \E k \in Where(h, Reg(s)) : l < k
      BY <2>1 DEF Ledger
    <3>2. \A l \in Where(Tail(h), Unreg(s)) : \E k \in Where(Tail(h), Reg(s)) : l < k
      BY <3>1, BehindTail
    <3>3. QED BY <2>1, <3>2
  <2>2. CASE st[s] = "OPENED"
    <3>1. Where(h, Unreg(s)) = {}
      BY <2>2 DEF Ledger
    <3>2. Num(Tail(h), Unreg(s)) = 0
      <4>1. Num(h, Unreg(s)) = 0
        BY <3>1, WhereFinite
      <4>2. Num(h, Unreg(s)) = Num(Tail(h), Unreg(s)) + Count(Head(h) \in Unreg(s))
              /\ Num(Tail(h), Unreg(s)) \in Nat
        BY <1>1
      <4>3. QED BY <4>1, <4>2 DEF Count
    <3>3. Where(Tail(h), Unreg(s)) = {}
      <4>1. Tail(h) \in Seq(HalToOmMsgs)
        OBVIOUS
      <4>2. QED BY <3>2, <4>1, WhereFinite
    <3>4. QED BY <2>2, <3>3
  <2>3. QED BY <2>1, <2>2
<1>4. QED BY <1>2, <1>3 DEF Ledger, Tokens, Starts

(* A registration that is taken is worked for, refused or dropped. *)
LEMMA LedgerRegisters ==
  ASSUME NEW t, Globals(t), NEW h \in Seq(HalToOmMsgs), h # <<>>, NEW st, Ledger(t, h, st),
         NEW s \in Sessions, Head(h) \in Reg(s), NEW t2,
         \/ /\ t2.hal = t.hal
            /\ \A u : (Working(t2, u) => Working(t, u) \/ u = s)
                        /\ (Beginning(t2, u) => Beginning(t, u) \/ u = s)
         \/ /\ \E m \in No(s) : t2.hal = Append(t.hal, m)
            /\ \A u : (Working(t2, u) => Working(t, u)) /\ (Beginning(t2, u) => Beginning(t, u))
  PROVE  Ledger(t2, Tail(h), st)
<1>1. /\ \A S : Num(Tail(h), S) \in Nat /\ Num(h, S) = Num(Tail(h), S) + Count(Head(h) \in S)
      /\ Tail(h) \in Seq(HalToOmMsgs)
  BY Taken1
<1>2. \A S : Num(t.hal, S) \in Nat
  BY LedgerNumbers
<1>3. /\ Head(h) \in Reg(s) /\ \A u : Head(h) \notin Unreg(u)
      /\ \A u : u # s => Head(h) \notin Reg(u)
  BY OneEach
<1>4. /\ Num(h, Reg(s)) = Num(Tail(h), Reg(s)) + 1
      /\ \A u : u # s => Num(Tail(h), Reg(u)) = Num(h, Reg(u))
  <2>1. Num(h, Reg(s)) = Num(Tail(h), Reg(s)) + 1
    BY <1>1, <1>3 DEF Count
  <2>2. ASSUME NEW u, u # s PROVE Num(Tail(h), Reg(u)) = Num(h, Reg(u))
    BY <1>1, <1>3, <2>2 DEF Count
  <2>3. QED BY <2>1, <2>2
<1>5. /\ st[s] = "OPENING" /\ ~Working(t, s) /\ ~Beginning(t, s) /\ Num(t.hal, No(s)) = 0
      /\ Num(t.hal, Yes(s)) = 0 /\ Num(t.hal, Gone(s)) = 0 /\ Num(h, Reg(s)) = 1
  BY <1>1, <1>4, EntryOf
<1>6. ASSUME NEW u \in Sessions
      PROVE  /\ st[u] = "OPENING" =>
                  \A l \in Where(Tail(h), Unreg(u)) : \E k \in Where(Tail(h), Reg(u)) : l < k
             /\ st[u] = "OPENED" => Where(Tail(h), Unreg(u)) = {}
  <2>1. CASE u = s
    <3>1. \A l \in Where(h, Unreg(s)) : \E k \in Where(h, Reg(s)) : l < k
      BY <1>5 DEF Ledger
    <3>2. Num(h, Reg(s)) = Num(Tail(h), Reg(s)) + 1 /\ Num(h, Reg(s)) = 1
      BY <1>4, <1>5
    <3>3. Num(Tail(h), Reg(s)) = 0
      BY <1>1, <3>2
    <3>4. Where(Tail(h), Reg(s)) = {}
      BY <1>1, <3>3, WhereFinite
    <3>5. \A k \in Where(h, Reg(s)) : k = 1
      <4>1. Len(h) \in Nat \ {0} /\ DOMAIN h = 1 .. Len(h) /\ DOMAIN Tail(h) = 1 .. (Len(h) - 1)
        OBVIOUS
      <4>2. \A k \in 1 .. (Len(h) - 1) : Tail(h)[k] = h[k + 1]
        OBVIOUS
      <4>3. SUFFICES ASSUME NEW k \in Where(h, Reg(s)), k # 1 PROVE FALSE
        OBVIOUS
      <4>4. k \in 2 .. Len(h) /\ h[k] \in Reg(s)
        BY <4>1, <4>3 DEF Where
      <4>5. k - 1 \in 1 .. (Len(h) - 1) /\ (k - 1) + 1 = k
        BY <4>1, <4>4
      <4>6. k - 1 \in Where(Tail(h), Reg(s))
        BY <4>1, <4>2, <4>4, <4>5 DEF Where
      <4>7. QED BY <3>4, <4>6
    <3>6. Where(h, Unreg(s)) = {}
      <4>1. \A l \in Where(h, Unreg(s)) : l \in 1 .. Len(h) /\ l < 1
        BY <3>1, <3>5 DEF Where
      <4>2. QED BY <4>1
    <3>7. Num(h, Unreg(s)) = 0
      BY <3>6, WhereFinite
    <3>8. Num(Tail(h), Unreg(s)) = 0
      <4>1. Num(h, Unreg(s)) = Num(Tail(h), Unreg(s)) + Count(Head(h) \in Unreg(s))
              /\ Num(Tail(h), Unreg(s)) \in Nat
        BY <1>1
      <4>2. QED BY <3>7, <4>1 DEF Count
    <3>9. Where(Tail(h), Unreg(s)) = {}
      BY <1>1, <3>8, WhereFinite
    <3>10. QED BY <2>1, <3>9
  <2>2. CASE u # s /\ st[u] = "OPENING"
    <3>1. \A l \in Where(h, Unreg(u)) : \E k \in Where(h, Reg(u)) : l < k
      BY <2>2 DEF Ledger
    <3>2. Head(h) \notin Reg(u)
      BY <1>3, <2>2
    <3>3. \A l \in Where(Tail(h), Unreg(u)) : \E k \in Where(Tail(h), Reg(u)) : l < k
      BY <3>1, <3>2, BehindTail
    <3>4. QED BY <2>2, <3>3
  <2>3. CASE u # s /\ st[u] = "OPENED"
    <3>1. Where(h, Unreg(u)) = {}
      BY <2>3 DEF Ledger
    <3>2. Num(h, Unreg(u)) = 0
      BY <3>1, WhereFinite
    <3>3. Num(Tail(h), Unreg(u)) = 0
      <4>1. Num(h, Unreg(u)) = Num(Tail(h), Unreg(u)) + Count(Head(h) \in Unreg(u))
              /\ Num(Tail(h), Unreg(u)) \in Nat
        BY <1>1
      <4>2. QED BY <3>2, <4>1 DEF Count
    <3>4. Where(Tail(h), Unreg(u)) = {}
      BY <1>1, <3>3, WhereFinite
    <3>5. QED BY <2>3, <3>4
  <2>4. QED BY <2>1, <2>2, <2>3
<1>7. ASSUME NEW u \in Sessions
      PROVE  /\ Tokens(t2, Tail(h), u) <= Count(st[u] # "CLOSED")
             /\ Starts(t2, Tail(h), u) <= Count(st[u] = "OPENING")
             /\ Before(t2.hal, Yes(u), Gone(u))
  <2>1. /\ Tokens(t, h, u) <= Count(st[u] # "CLOSED")
        /\ Starts(t, h, u) <= Count(st[u] = "OPENING")
        /\ Before(t.hal, Yes(u), Gone(u))
    BY DEF Ledger
  <2>2. CASE t2.hal = t.hal /\ \A v : (Working(t2, v) => Working(t, v) \/ v = s)
                                        /\ (Beginning(t2, v) => Beginning(t, v) \/ v = s)
    <3>1. /\ Count(Working(t2, u)) + Num(Tail(h), Reg(u))
               <= Count(Working(t, u)) + Num(h, Reg(u))
          /\ Count(Beginning(t2, u)) + Num(Tail(h), Reg(u))
               <= Count(Beginning(t, u)) + Num(h, Reg(u))
      <4>1. CASE u = s
        <5>1. Num(h, Reg(u)) = Num(Tail(h), Reg(u)) + 1 /\ Num(Tail(h), Reg(u)) \in Nat
          BY <1>1, <1>4, <4>1
        <5>2. QED BY <5>1 DEF Count
      <4>2. CASE u # s
        <5>1. Num(h, Reg(u)) = Num(Tail(h), Reg(u)) /\ Num(Tail(h), Reg(u)) \in Nat
          BY <1>1, <1>4, <4>2
        <5>2. QED BY <2>2, <4>2, <5>1 DEF Count
      <4>3. QED BY <4>1, <4>2
    <3>2. /\ Count(Working(t2, u)) \in Nat /\ Count(Working(t, u)) \in Nat
          /\ Count(Beginning(t2, u)) \in Nat /\ Count(Beginning(t, u)) \in Nat
          /\ Count(st[u] # "CLOSED") \in Nat /\ Count(st[u] = "OPENING") \in Nat
          /\ Num(h, Reg(u)) \in Nat /\ Num(Tail(h), Reg(u)) \in Nat
      <4>1. \A b : Count(b) \in Nat
        BY DEF Count
      <4>2. QED BY <1>1, <4>1, WhereFinite
    <3>3. /\ Num(t.hal, No(u)) \in Nat /\ Num(t.hal, Gone(u)) \in Nat /\ Num(t.hal, Yes(u)) \in Nat
          /\ t2.hal = t.hal
      BY <1>2, <2>2
    <3> DEFINE R == Num(h, Reg(u))
               R2 == Num(Tail(h), Reg(u))
               N == Num(t.hal, No(u))
               G == Num(t.hal, Gone(u))
               Y == Num(t.hal, Yes(u))
               W == Count(Working(t, u))
               W2 == Count(Working(t2, u))
               B == Count(Beginning(t, u))
               B2 == Count(Beginning(t2, u))
               C == Count(st[u] # "CLOSED")
               O == Count(st[u] = "OPENING")
    <3>4. /\ R + W + N + G <= C /\ R + B + N + Y <= O
          /\ Tokens(t2, Tail(h), u) = R2 + W2 + N + G
          /\ Starts(t2, Tail(h), u) = R2 + B2 + N + Y
      BY <2>1, <3>3 DEF Tokens, Starts
    <3>5. /\ R \in Nat /\ R2 \in Nat /\ N \in Nat /\ G \in Nat /\ Y \in Nat /\ C \in Nat
          /\ O \in Nat /\ W \in Nat /\ W2 \in Nat /\ B \in Nat /\ B2 \in Nat
          /\ W2 + R2 <= W + R /\ B2 + R2 <= B + R
      BY <3>1, <3>2, <3>3
    <3> HIDE DEF R, R2, N, G, Y, W, W2, B, B2, C, O
    <3>6. R2 + W2 + N + G <= C /\ R2 + B2 + N + Y <= O
      BY ONLY <3>4, <3>5
    <3>7. QED BY <2>1, <3>3, <3>4, <3>6 DEF C, O
  <2>3. CASE /\ \E m \in No(s) : t2.hal = Append(t.hal, m)
             /\ \A v : (Working(t2, v) => Working(t, v)) /\ (Beginning(t2, v) => Beginning(t, v))
    <3>1. PICK m \in No(s) : t2.hal = Append(t.hal, m)
      BY <2>3
    <3>2. m \in OmToHalMsgs
      BY <3>1, HalMessages
    <3>3. /\ \A S : Num(t2.hal, S) = Num(t.hal, S) + Count(m \in S)
          /\ \A A, B : A \cap B = {} /\ Before(t.hal, A, B) /\ (m \notin A \/ Where(t.hal, B) = {})
                  => Before(t2.hal, A, B)
      <4>1. t.hal \in Seq(OmToHalMsgs)
        BY GlobalsParts
      <4>2. QED BY <3>1, <3>2, <4>1, Appended
    <3>4. m \notin Yes(u) /\ m \notin Gone(u) /\ (s # u => m \notin No(u))
      BY <3>1, OneEach
    <3>5. Before(t2.hal, Yes(u), Gone(u))
      <4>1. Yes(u) \cap Gone(u) = {}
        BY HalMessages
      <4>2. QED BY <2>1, <3>3, <3>4, <4>1
    <3>6. /\ Num(t2.hal, Yes(u)) = Num(t.hal, Yes(u)) /\ Num(t2.hal, Gone(u)) = Num(t.hal, Gone(u))
          /\ Num(t2.hal, No(u)) + Num(Tail(h), Reg(u)) <= Num(t.hal, No(u)) + Num(h, Reg(u))
          /\ Num(t2.hal, No(u)) \in Nat
      <4>1. /\ Num(t.hal, Yes(u)) \in Nat /\ Num(t.hal, Gone(u)) \in Nat /\ Num(t.hal, No(u)) \in Nat
            /\ Num(t2.hal, Yes(u)) = Num(t.hal, Yes(u)) + Count(m \in Yes(u))
            /\ Num(t2.hal, Gone(u)) = Num(t.hal, Gone(u)) + Count(m \in Gone(u))
            /\ Num(t2.hal, No(u)) = Num(t.hal, No(u)) + Count(m \in No(u))
        BY <1>2, <3>3
      <4>2. CASE u = s
        <5>1. Num(h, Reg(u)) = Num(Tail(h), Reg(u)) + 1 /\ Num(Tail(h), Reg(u)) \in Nat
          BY <1>1, <1>4, <4>2
        <5>2. QED BY <3>4, <4>1, <5>1 DEF Count
      <4>3. CASE u # s
        <5>1. Num(h, Reg(u)) = Num(Tail(h), Reg(u)) /\ Num(Tail(h), Reg(u)) \in Nat
          BY <1>1, <1>4, <4>3
        <5>2. QED BY <3>4, <4>1, <4>3, <5>1 DEF Count
      <4>4. QED BY <4>2, <4>3
    <3>7. /\ Count(Working(t2, u)) \in Nat /\ Count(Working(t, u)) \in Nat
          /\ Count(Beginning(t2, u)) \in Nat /\ Count(Beginning(t, u)) \in Nat
          /\ Count(Working(t2, u)) <= Count(Working(t, u))
          /\ Count(Beginning(t2, u)) <= Count(Beginning(t, u))
          /\ Count(st[u] # "CLOSED") \in Nat /\ Count(st[u] = "OPENING") \in Nat
      BY <2>3 DEF Count
    <3>8. Num(h, Reg(u)) \in Nat /\ Num(Tail(h), Reg(u)) \in Nat
      BY <1>1, WhereFinite
    <3>9. /\ Num(t.hal, No(u)) \in Nat /\ Num(t.hal, Gone(u)) \in Nat /\ Num(t.hal, Yes(u)) \in Nat
      BY <1>2
    <3> DEFINE R == Num(h, Reg(u))
               R2 == Num(Tail(h), Reg(u))
               N == Num(t.hal, No(u))
               N2 == Num(t2.hal, No(u))
               G == Num(t.hal, Gone(u))
               Y == Num(t.hal, Yes(u))
               W == Count(Working(t, u))
               W2 == Count(Working(t2, u))
               B == Count(Beginning(t, u))
               B2 == Count(Beginning(t2, u))
               C == Count(st[u] # "CLOSED")
               O == Count(st[u] = "OPENING")
    <3>10. /\ R + W + N + G <= C /\ R + B + N + Y <= O
           /\ Tokens(t2, Tail(h), u) = R2 + W2 + N2 + G
           /\ Starts(t2, Tail(h), u) = R2 + B2 + N2 + Y
      BY <2>1, <3>6 DEF Tokens, Starts
    <3>11. /\ R \in Nat /\ R2 \in Nat /\ N \in Nat /\ G \in Nat /\ Y \in Nat /\ C \in Nat
           /\ O \in Nat /\ W \in Nat /\ W2 \in Nat /\ B \in Nat /\ B2 \in Nat /\ N2 \in Nat
           /\ W2 <= W /\ B2 <= B /\ N2 + R2 <= N + R
      BY <3>6, <3>7, <3>8, <3>9
    <3> HIDE DEF R, R2, N, N2, G, Y, W, W2, B, B2, C, O
    <3>12. R2 + W2 + N2 + G <= C /\ R2 + B2 + N2 + Y <= O
      BY ONLY <3>10, <3>11
    <3>13. QED BY <3>5, <3>10, <3>12 DEF C, O
  <2>4. QED BY <2>2, <2>3
<1>8. QED BY <1>6, <1>7 DEF Ledger

-----------------------------------------------------------------------------
(* What the microstack is asked on the way to an offload, for instance i, and   *)
(* what it says to that.                                                   *)
Enables(m) == m.op \in {"ENABLE_REQ", "ENABLE_CFM"} /\ m.why = "ENABLE"
Asks(m, i) ==
  /\ \/ m.op \in {"CONN_INFO_REQ", "CONN_INFO_CFM"}
     \/ Enables(m)
  /\ m.inst = i
Asking(i) == {m \in OmToBsMsgs \cup BsToOmMsgs : Asks(m, i)}

QueueReqs == EnableReqs \cup DisableReqs \cup ReadReqs
Queues == [Acls -> Seq(QueueReqs)]

(* How many such messages there are in the queues, that of connection a for    *)
(* the microstack's; and an instance that waits for none.                  *)
AsksOf(t, q, b, i, a) == Num(t.bs, Asking(i)) + Num(q[a], Asking(i)) + Num(b, Asking(i))
Calm(t, q, b, i) == \A a \in Acls : AsksOf(t, q, b, i, a) = 0

OneAsk(t, q, b) ==
  \A i \in Slots, a \in Acls : AsksOf(t, q, b, i, a) <= Count(t.inst[i].state = "OffloadReq")

(* What such a message says of its service is still so when it is read. *)
AskSense(t, q, b) ==
  /\ \A m \in InFlight(t.bs) : Enables(m) =>
        /\ m.offloadId = SvcOf(t, m.inst).offloadId
        /\ m.acl \in {SvcOf(t, m.inst).acl, NoAcl}
  /\ \A a \in Acls : \A m \in InFlight(q[a]) : Enables(m) =>
        /\ m.offloadId = SvcOf(t, m.inst).offloadId
        /\ SvcOf(t, m.inst).acl = a
  /\ \A m \in InFlight(b) : Enables(m) =>
        IF m.ok THEN m.offloadId # 0 ELSE m.offloadId = SvcOf(t, m.inst).offloadId

(* A service without an id waits for its first session to be enabled. *)
Numbered(t) == \A i \in Live(t) : SvcOf(t, i).offloadId = 0 => t.inst[i].state = "OffloadReq"

(* A connection is cleared with no session of another one about, and from the   *)
(* moment its sessions are gone nothing is worked for.                     *)
ClearMsg(m, a) == m.op \in {"DISABLE_REQ", "DISABLE_CFM"} /\ m.why = "CLEAR" /\ m.acl = a
Emptied(t, q, b, a) ==
  \/ [op |-> "CLEAR_RSP", acl |-> a] \in InFlight(t.hal)
  \/ \E m \in InFlight(t.bs) \cup InFlight(q[a]) \cup InFlight(b) : ClearMsg(m, a)
BeingCleared(t, h, q, b, a) ==
  [op |-> "CLEAR", acl |-> a] \in InFlight(h) \/ Emptied(t, q, b, a)

ClearsAlone(t, h, q, b, st) ==
  /\ \A a \in Acls : BeingCleared(t, h, q, b, a) =>
        \A s \in Sessions : st[s] # "OPENING" /\ (st[s] # "CLOSED" => reg[s].acl = a)
  /\ \A a \in Acls : Emptied(t, q, b, a) => Live(t) = {}
  /\ \A s \in Sessions, a \in Acls : Before(t.hal, Gone(s), Cleared(a))

(* A request names finitely many services. *)
IdsFinite(q) == \A m \in InFlight(q) : m.op = "DISABLE_REQ" => IsFiniteSet(m.ids)

(* All of what a handler of the profile manager finds, and leaves. *)
Core(t, h, b) ==
  /\ Globals(t) /\ Owned(t) /\ Numbered(t)
  /\ Ledger(t, h, stateTable)
  /\ ClearsAlone(t, h, queue, b, stateTable)
  /\ OneAsk(t, queue, b) /\ AskSense(t, queue, b) /\ IdsFinite(t.bs)

(* ... with what it does not change. *)
Around(h, b) ==
  /\ h \in Seq(HalToOmMsgs) /\ b \in Seq(BsToOmMsgs) /\ queue \in Queues
  /\ reg \in Registrations /\ OneOpening(stateTable) /\ Acls # {}

(* A registration has its members. *)
LEMMA RegParts ==
  ASSUME reg \in Registrations, NEW s \in Sessions
  PROVE  /\ reg[s].ep \in Endpoints /\ reg[s].acl \in Acls /\ reg[s].service \in Services
         /\ reg[s].chars \in Nat /\ reg[s].reads \in Nat
<1>1. reg \in [Sessions -> [ep : Endpoints, acl : Acls, service : Services, chars : Nat \ {0},
                            reads : Nat]]
  BY RegistrationsAssumption
<1>2. QED BY <1>1

(* The counts of questions are numbers. *)
LEMMA AskNumbers ==
  ASSUME NEW t, Globals(t), NEW b \in Seq(BsToOmMsgs), NEW q \in Queues
  PROVE  \A S : \A a \in Acls : /\ Num(t.bs, S) \in Nat /\ Num(q[a], S) \in Nat /\ Num(b, S) \in Nat
<1>1. \A S : Num(t.bs, S) \in Nat
  BY WhereFinite, GlobalsParts
<1>2. \A S : Num(b, S) \in Nat
  BY WhereFinite
<1>3. \A a \in Acls : q[a] \in Seq(QueueReqs)
  BY DEF Queues
<1>4. \A S : \A a \in Acls : Num(q[a], S) \in Nat
  BY <1>3, WhereFinite
<1>5. QED BY <1>1, <1>2, <1>4

(* A message of a queue counts. *)
LEMMA Counted ==
  ASSUME NEW D, NEW q \in Seq(D), NEW m \in InFlight(q), NEW S, m \in S
  PROVE  Num(q, S) # 0 /\ m \in D
<1>1. PICK k \in DOMAIN q : m = q[k]
  BY DEF InFlight
<1>2. k \in Where(q, S)
  BY <1>1 DEF Where
<1>3. m \in D
  BY <1>1
<1>4. QED BY <1>2, <1>3, WhereFinite

(* An instance that is asked for waits for the answer, and nothing else. *)
LEMMA AskerWaits ==
  ASSUME NEW t, Globals(t), Owned(t), NEW b \in Seq(BsToOmMsgs), NEW q \in Queues,
         OneAsk(t, q, b), NEW i, NEW a \in Acls, NEW m, Asks(m, i),
         m \in InFlight(t.bs) \cup InFlight(q[a]) \cup InFlight(b)
  PROVE  /\ i \in Live(t) /\ t.inst[i].state = "OffloadReq" /\ m \in Asking(i)
         /\ AsksOf(t, q, b, i, a) = 1
<1>1. t.bs \in Seq(OmToBsMsgs) /\ q[a] \in Seq(QueueReqs)
  BY GlobalsParts DEF Queues
<1>2. QueueReqs \subseteq OmToBsMsgs
  BY DEF QueueReqs, OmToBsMsgs
<1>3. m \in OmToBsMsgs \cup BsToOmMsgs
  <2>1. m \in InFlight(t.bs) => m \in OmToBsMsgs
    BY <1>1 DEF InFlight
  <2>2. m \in InFlight(q[a]) => m \in OmToBsMsgs
    BY <1>1, <1>2 DEF InFlight
  <2>3. m \in InFlight(b) => m \in BsToOmMsgs
    BY DEF InFlight
  <2>4. QED BY <2>1, <2>2, <2>3
<1>4. m \in Asking(i)
  BY <1>3 DEF Asking
<1>5. i \in Slots
  BY <1>3 DEF Asks, Enables, OmToBsMsgs, BsToOmMsgs, EnableReqs, DisableReqs, ReadReqs
<1>6. \/ Num(t.bs, Asking(i)) # 0
      \/ Num(q[a], Asking(i)) # 0
      \/ Num(b, Asking(i)) # 0
  <2>1. m \in InFlight(t.bs) => Num(t.bs, Asking(i)) # 0
    BY <1>1, <1>4, Counted
  <2>2. m \in InFlight(q[a]) => Num(q[a], Asking(i)) # 0
    BY <1>1, <1>4, Counted
  <2>3. m \in InFlight(b) => Num(b, Asking(i)) # 0
    BY <1>4, Counted
  <2>4. QED BY <2>1, <2>2, <2>3
<1> DEFINE x == Num(t.bs, Asking(i))
           y == Num(q[a], Asking(i))
           z == Num(b, Asking(i))
<1>7. x \in Nat /\ y \in Nat /\ z \in Nat
  BY AskNumbers
<1>8. AsksOf(t, q, b, i, a) = x + y + z
  BY DEF AsksOf
<1>9. AsksOf(t, q, b, i, a) <= IF t.inst[i].state = "OffloadReq" THEN 1 ELSE 0
  BY <1>5 DEF OneAsk, Count
<1> HIDE DEF x, y, z
<1>10. x # 0 \/ y # 0 \/ z # 0
  BY <1>6 DEF x, y, z
<1>11. t.inst[i].state = "OffloadReq" /\ AsksOf(t, q, b, i, a) = 1
  BY ONLY <1>7, <1>8, <1>9, <1>10
<1>12. i \in Live(t)
  BY <1>5, <1>11 DEF Owned, Live
<1>13. QED BY <1>4, <1>11, <1>12

-----------------------------------------------------------------------------
(* What does not add to the clears keeps them alone. *)
LEMMA ClearsKept ==
  ASSUME NEW t, NEW h, NEW q, NEW b, NEW st, ClearsAlone(t, h, q, b, st), NEW t2, NEW h2, NEW b2,
         InFlight(h2) \subseteq InFlight(h),
         \A m \in InFlight(b2) \cup InFlight(t2.bs) : \A a \in Acls :
            ClearMsg(m, a) => m \in InFlight(b) \cup InFlight(t.bs),
         \A a \in Acls : [op |-> "CLEAR_RSP", acl |-> a] \in InFlight(t2.hal)
                           => [op |-> "CLEAR_RSP", acl |-> a] \in InFlight(t.hal),
         Live(t2) \subseteq Live(t),
         \A s \in Sessions, a \in Acls : Before(t2.hal, Gone(s), Cleared(a))
  PROVE  ClearsAlone(t2, h2, q, b2, st)
<1>1. \A a \in Acls : Emptied(t2, q, b2, a) => Emptied(t, q, b, a)
  BY DEF Emptied
<1>2. \A a \in Acls : BeingCleared(t2, h2, q, b2, a) => BeingCleared(t, h, q, b, a)
  BY <1>1 DEF BeingCleared
<1>3. QED BY <1>1, <1>2 DEF ClearsAlone

(* A message that is taken is missed by nobody. *)
LEMMA CoreTakesB ==
  ASSUME NEW t, NEW h, NEW b, Core(t, h, b), Around(h, b), b # <<>>
  PROVE  /\ Core(t, h, Tail(b)) /\ Around(h, Tail(b))
         /\ \A i : Asks(Head(b), i) => Calm(t, queue, Tail(b), i)
         /\ Head(b) \in BsToOmMsgs /\ Head(b) \in InFlight(b)
<1>1. Globals(t) /\ b \in Seq(BsToOmMsgs) /\ queue \in Queues /\ OneAsk(t, queue, b) /\ Owned(t)
        /\ ClearsAlone(t, h, queue, b, stateTable) /\ AskSense(t, queue, b)
  BY DEF Core, Around
<1>2. /\ Tail(b) \in Seq(BsToOmMsgs) /\ Head(b) \in BsToOmMsgs
      /\ InFlight(Tail(b)) \subseteq InFlight(b) /\ Head(b) \in InFlight(b)
      /\ \A S : /\ Num(b, S) \in Nat /\ Num(Tail(b), S) \in Nat
                /\ Num(b, S) = Num(Tail(b), S) + Count(Head(b) \in S)
  BY <1>1, Taken1
<1>3. ClearsAlone(t, h, queue, Tail(b), stateTable)
  <2>1. \A s \in Sessions, a \in Acls : Before(t.hal, Gone(s), Cleared(a))
    BY <1>1 DEF ClearsAlone
  <2>2. QED BY <1>1, <1>2, <2>1, ClearsKept
<1>4. ASSUME NEW i \in Slots, NEW a \in Acls
      PROVE  /\ AsksOf(t, queue, Tail(b), i, a) \in Nat
             /\ AsksOf(t, queue, b, i, a)
                  = AsksOf(t, queue, Tail(b), i, a) + Count(Head(b) \in Asking(i))
  <2>1. Num(t.bs, Asking(i)) \in Nat /\ Num(queue[a], Asking(i)) \in Nat
    BY <1>1, AskNumbers
  <2>2. /\ Num(Tail(b), Asking(i)) \in Nat
        /\ Num(b, Asking(i)) = Num(Tail(b), Asking(i)) + Count(Head(b) \in Asking(i))
    BY <1>2
  <2>3. Count(Head(b) \in Asking(i)) \in Nat
    BY DEF Count
  <2>4. QED BY ONLY <2>1, <2>2, <2>3 DEF AsksOf
<1>5. OneAsk(t, queue, Tail(b))
  <2> SUFFICES ASSUME NEW i \in Slots, NEW a \in Acls
               PROVE  AsksOf(t, queue, Tail(b), i, a) <= Count(t.inst[i].state = "OffloadReq")
    BY DEF OneAsk
  <2>1. AsksOf(t, queue, b, i, a) <= Count(t.inst[i].state = "OffloadReq")
    BY <1>1 DEF OneAsk
  <2>2. Count(t.inst[i].state = "OffloadReq") \in Nat /\ Count(Head(b) \in Asking(i)) \in Nat
    BY DEF Count
  <2>3. /\ AsksOf(t, queue, Tail(b), i, a) \in Nat
        /\ AsksOf(t, queue, b, i, a)
             = AsksOf(t, queue, Tail(b), i, a) + Count(Head(b) \in Asking(i))
    BY <1>4
  <2>4. QED BY ONLY <2>1, <2>2, <2>3
<1>6. AskSense(t, queue, Tail(b))
  BY <1>1, <1>2 DEF AskSense
<1>7. ASSUME NEW i, Asks(Head(b), i) PROVE Calm(t, queue, Tail(b), i)
  <2> SUFFICES ASSUME NEW a \in Acls PROVE AsksOf(t, queue, Tail(b), i, a) = 0
    BY DEF Calm
  <2>1. i \in Live(t) /\ Head(b) \in Asking(i) /\ AsksOf(t, queue, b, i, a) = 1
    BY <1>1, <1>2, <1>7, AskerWaits
  <2>2. i \in Slots
    BY <2>1 DEF Live
  <2>3. /\ AsksOf(t, queue, Tail(b), i, a) \in Nat
        /\ AsksOf(t, queue, b, i, a)
             = AsksOf(t, queue, Tail(b), i, a) + Count(Head(b) \in Asking(i))
    BY <1>4, <2>2
  <2>4. Count(Head(b) \in Asking(i)) = 1
    BY <2>1 DEF Count
  <2>5. QED BY ONLY <2>1, <2>3, <2>4
<1>8. QED BY <1>2, <1>3, <1>5, <1>6, <1>7 DEF Core, Around

(* A request that is not a registration is taken likewise. *)
LEMMA CoreTakesH ==
  ASSUME NEW t, NEW h, NEW b, Core(t, h, b), Around(h, b), h # <<>>,
         Head(h).op # "REGISTER"
  PROVE  Core(t, Tail(h), b) /\ Around(Tail(h), b)
<1>1. Globals(t) /\ h \in Seq(HalToOmMsgs) /\ Ledger(t, h, stateTable)
        /\ ClearsAlone(t, h, queue, b, stateTable)
  BY DEF Core, Around
<1>2. Tail(h) \in Seq(HalToOmMsgs) /\ InFlight(Tail(h)) \subseteq InFlight(h)
  BY <1>1, Taken1
<1>3. \A s : Head(h) \notin Reg(s)
  BY DEF Reg
<1>4. Ledger(t, Tail(h), stateTable)
  BY <1>1, <1>3, LedgerTail
<1>5. ClearsAlone(t, Tail(h), queue, b, stateTable)
  <2>1. \A s \in Sessions, a \in Acls : Before(t.hal, Gone(s), Cleared(a))
    BY <1>1 DEF ClearsAlone
  <2>2. QED BY <1>1, <1>2, <2>1, ClearsKept
<1>6. QED BY <1>2, <1>4, <1>5 DEF Core, Around

(* Two instances that have not been answered are not for one endpoint. *)
LEMMA OnlyBeginner ==
  ASSUME NEW t, NEW h, NEW b, Core(t, h, b), Around(h, b), NEW i \in Live(t), NEW j \in Live(t),
         t.inst[i].state \in Starting, t.inst[j].state \in Starting, t.inst[i].ep = t.inst[j].ep
  PROVE  i = j
<1>1. Globals(t) /\ Owned(t) /\ h \in Seq(HalToOmMsgs) /\ Ledger(t, h, stateTable)
        /\ OneOpening(stateTable)
  BY DEF Core, Around
<1> DEFINE s == SesOf(t, i).id
           u == SesOf(t, j).id
<1>2. /\ s \in Sessions /\ u \in Sessions
      /\ reg[s].ep = t.inst[i].ep /\ reg[u].ep = t.inst[j].ep
  BY <1>1, LiveParts DEF Seated
<1>3. Beginning(t, s) /\ Beginning(t, u)
  BY DEF Beginning
<1> HIDE DEF s, u
<1>4. stateTable[s] = "OPENING" /\ stateTable[u] = "OPENING"
  BY <1>1, <1>2, <1>3, EntryOf
<1>5. s = u
  BY <1>1, <1>2, <1>4 DEF OneOpening
<1>6. QED BY <1>1, <1>5 DEF Owned, s, u

(* A live instance belongs to no clear that has been carried out. *)
LEMMA LiveNotCleared ==
  ASSUME NEW t, NEW h, NEW q, NEW b, NEW st, Globals(t), ClearsAlone(t, h, q, b, st),
         Live(t) # {}, NEW a \in Acls
  PROVE  /\ ~Emptied(t, q, b, a) /\ Where(t.hal, Cleared(a)) = {}
         /\ [op |-> "CLEAR_RSP", acl |-> a] \notin InFlight(t.hal)
<1>1. ~Emptied(t, q, b, a)
  BY DEF ClearsAlone
<1>2. [op |-> "CLEAR_RSP", acl |-> a] \notin InFlight(t.hal)
  BY <1>1 DEF Emptied
<1>3. Where(t.hal, Cleared(a)) = {}
  BY <1>2 DEF Where, Cleared, InFlight
<1>4. QED BY <1>1, <1>2, <1>3

(* An answer about a session, given while it is worked for, is ahead of no clear. *)
LEMMA ClearsAnswered ==
  ASSUME NEW t, NEW h, NEW q, NEW b, NEW st, Globals(t), ClearsAlone(t, h, q, b, st),
         Live(t) # {}, NEW t2, NEW m \in OmToHalMsgs, m.op # "CLEAR_RSP",
         t2.hal = Append(t.hal, m)
  PROVE  /\ \A a \in Acls : [op |-> "CLEAR_RSP", acl |-> a] \in InFlight(t2.hal)
                           => [op |-> "CLEAR_RSP", acl |-> a] \in InFlight(t.hal)
         /\ \A s \in Sessions, a \in Acls : Before(t2.hal, Gone(s), Cleared(a))
<1>1. t.hal \in Seq(OmToHalMsgs)
  BY GlobalsParts
<1>2. /\ InFlight(t2.hal) = InFlight(t.hal) \cup {m}
      /\ \A A, B : A \cap B = {} /\ Before(t.hal, A, B) /\ (m \notin A \/ Where(t.hal, B) = {})
                => Before(t2.hal, A, B)
  BY <1>1, Appended
<1>3. ASSUME NEW s \in Sessions, NEW a \in Acls
      PROVE  Before(t2.hal, Gone(s), Cleared(a))
  <2>1. Where(t.hal, Cleared(a)) = {}
    BY LiveNotCleared
  <2>2. Gone(s) \cap Cleared(a) = {}
    BY HalMessages
  <2>3. Before(t.hal, Gone(s), Cleared(a))
    BY DEF ClearsAlone
  <2>4. QED BY <1>2, <2>1, <2>2, <2>3
<1>4. QED BY <1>2, <1>3

-----------------------------------------------------------------------------
(* A message for the microstack that asks for nothing and clears nothing, and    *)
(* a call that sends one at most.                                          *)
Harmless(m) ==
  /\ m \in OmToBsMsgs /\ (\A j : ~Asks(m, j)) /\ (\A a \in Acls : ~ClearMsg(m, a))
  /\ m.op = "DISABLE_REQ" => IsFiniteSet(m.ids)
Told(t, t2) == t2.bs = t.bs \/ \E m : Harmless(m) /\ t2.bs = Append(t.bs, m)

(* Such a call leaves the questions on their way as they were. *)
LEMMA ToldKeeps ==
  ASSUME NEW t, Globals(t), IdsFinite(t.bs), NEW t2, Told(t, t2)
  PROVE  /\ \A j : Num(t2.bs, Asking(j)) = Num(t.bs, Asking(j))
         /\ \A m \in InFlight(t2.bs) : Enables(m) => m \in InFlight(t.bs)
         /\ \A m \in InFlight(t2.bs) : \A a \in Acls : ClearMsg(m, a) => m \in InFlight(t.bs)
         /\ IdsFinite(t2.bs)
<1>1. t.bs \in Seq(OmToBsMsgs)
  BY GlobalsParts
<1>2. CASE t2.bs = t.bs
  BY <1>2
<1>3. ASSUME NEW m, Harmless(m), t2.bs = Append(t.bs, m)
      PROVE  /\ \A j : Num(t2.bs, Asking(j)) = Num(t.bs, Asking(j))
             /\ \A l \in InFlight(t2.bs) : Enables(l) => l \in InFlight(t.bs)
             /\ \A l \in InFlight(t2.bs) : \A a \in Acls : ClearMsg(l, a) => l \in InFlight(t.bs)
             /\ IdsFinite(t2.bs)
  <2>1. m \in OmToBsMsgs
    BY <1>3 DEF Harmless
  <2>2. /\ InFlight(t2.bs) = InFlight(t.bs) \cup {m}
        /\ \A S : Num(t.bs, S) \in Nat /\ Num(t2.bs, S) = Num(t.bs, S) + Count(m \in S)
    BY <1>1, <1>3, <2>1, Appended
  <2>3. ~Enables(m) /\ \A j : m \notin Asking(j)
    BY <1>3 DEF Harmless, Asks, Asking
  <2>4. ASSUME NEW j PROVE Num(t2.bs, Asking(j)) = Num(t.bs, Asking(j))
    BY <2>2, <2>3 DEF Count
  <2>5. IdsFinite(t2.bs)
    BY <1>3, <2>2 DEF Harmless, IdsFinite
  <2>6. \A l \in InFlight(t2.bs) : \A a \in Acls : ClearMsg(l, a) => l \in InFlight(t.bs)
    BY <1>3, <2>2 DEF Harmless
  <2>7. QED BY <2>2, <2>3, <2>4, <2>5, <2>6
<1>4. QED BY <1>2, <1>3 DEF Told

(* The questions are for the same instances as before, each still waiting. *)
LEMMA AsksKept ==
  ASSUME NEW t, Globals(t), NEW b \in Seq(BsToOmMsgs), NEW q \in Queues, OneAsk(t, q, b), NEW t2,
         \A j : Num(t2.bs, Asking(j)) = Num(t.bs, Asking(j)),
         \A j \in Slots : t.inst[j].state = "OffloadReq" =>
                            t2.inst[j].state = "OffloadReq" \/ Calm(t, q, b, j)
  PROVE  OneAsk(t2, q, b)
<1> SUFFICES ASSUME NEW j \in Slots, NEW a \in Acls
             PROVE  AsksOf(t2, q, b, j, a) <= Count(t2.inst[j].state = "OffloadReq")
  BY DEF OneAsk
<1>1. AsksOf(t2, q, b, j, a) = AsksOf(t, q, b, j, a)
  BY DEF AsksOf
<1>2. AsksOf(t, q, b, j, a) <= Count(t.inst[j].state = "OffloadReq")
  BY DEF OneAsk
<1>3. /\ AsksOf(t, q, b, j, a) \in Nat
  BY AskNumbers DEF AsksOf
<1>4. CASE t.inst[j].state = "OffloadReq" /\ t2.inst[j].state # "OffloadReq"
  <2>1. AsksOf(t, q, b, j, a) = 0
    BY <1>4 DEF Calm
  <2>2. QED BY <1>1, <2>1 DEF Count
<1>5. CASE ~(t.inst[j].state = "OffloadReq" /\ t2.inst[j].state # "OffloadReq")
  BY ONLY <1>1, <1>2, <1>3, <1>5 DEF Count
<1>6. QED BY <1>4, <1>5

(* What a question says stays so while its service keeps id and connection. *)
LEMMA SenseKept ==
  ASSUME NEW t, Globals(t), Owned(t), NEW b \in Seq(BsToOmMsgs), NEW q \in Queues,
         OneAsk(t, q, b), AskSense(t, q, b), NEW t2, Acls # {},
         \A m \in InFlight(t2.bs) : Enables(m) => m \in InFlight(t.bs),
         \A j \in Live(t) : t.inst[j].state = "OffloadReq" /\ ~Calm(t, q, b, j) =>
            SvcOf(t2, j).offloadId = SvcOf(t, j).offloadId /\ SvcOf(t2, j).acl = SvcOf(t, j).acl
  PROVE  AskSense(t2, q, b)
<1>1. ASSUME NEW a \in Acls, NEW m \in InFlight(t.bs) \cup InFlight(q[a]) \cup InFlight(b), Enables(m)
      PROVE  /\ SvcOf(t2, m.inst).offloadId = SvcOf(t, m.inst).offloadId
             /\ SvcOf(t2, m.inst).acl = SvcOf(t, m.inst).acl
  <2>1. Asks(m, m.inst)
    BY <1>1 DEF Asks
  <2>2. /\ m.inst \in Live(t) /\ t.inst[m.inst].state = "OffloadReq"
        /\ AsksOf(t, q, b, m.inst, a) = 1
    BY <2>1, AskerWaits
  <2>3. ~Calm(t, q, b, m.inst)
    BY <2>2 DEF Calm
  <2>4. QED BY <2>2, <2>3
<1>2. \A a \in Acls : \A m \in InFlight(q[a]) : Enables(m) =>
        /\ m.offloadId = SvcOf(t2, m.inst).offloadId
        /\ SvcOf(t2, m.inst).acl = a
  BY <1>1 DEF AskSense
<1>3. PICK a \in Acls : TRUE
  OBVIOUS
<1>4. \A m \in InFlight(t2.bs) : Enables(m) =>
        /\ m.offloadId = SvcOf(t2, m.inst).offloadId
        /\ m.acl \in {SvcOf(t2, m.inst).acl, NoAcl}
  BY <1>1, <1>3 DEF AskSense
<1>5. \A m \in InFlight(b) : Enables(m) =>
        IF m.ok THEN m.offloadId # 0 ELSE m.offloadId = SvcOf(t2, m.inst).offloadId
  BY <1>1, <1>3 DEF AskSense
<1>6. QED BY <1>2, <1>4, <1>5 DEF AskSense

(* An instance moves on, or has its service changed, and answers its session or *)
(* does not.                                                               *)
LEMMA CoreMoves ==
  ASSUME NEW t, NEW h, NEW b, Core(t, h, b), Around(h, b), NEW i \in Live(t),
         NEW new \in OffloadStates, new # "Idle", NEW t2, Moves(t, t2, i, new),
         \/ new = t.inst[i].state
         \/ new # "OffloadReq" /\ Calm(t, queue, b, i) /\ SvcOf(t, i).offloadId # 0,
         \A e \in Endpoints : \A k \in SvcSlots(e) :
            t2.svcs[e][k].offloadId = t.svcs[e][k].offloadId,
         \/ t2.hal = t.hal /\ (new \in Starting => t.inst[i].state \in Starting)
         \/ /\ \E m \in Yes(SesOf(t, i).id) : t2.hal = Append(t.hal, m)
            /\ new \notin Starting /\ t.inst[i].state \in Starting,
         Told(t, t2)
  PROVE  Core(t2, h, b)
<1>1. /\ Globals(t) /\ Owned(t) /\ Numbered(t) /\ Ledger(t, h, stateTable)
      /\ ClearsAlone(t, h, queue, b, stateTable)
      /\ OneAsk(t, queue, b) /\ AskSense(t, queue, b) /\ IdsFinite(t.bs)
      /\ h \in Seq(HalToOmMsgs) /\ b \in Seq(BsToOmMsgs) /\ queue \in Queues /\ Acls # {}
  BY DEF Core, Around
<1>2. /\ Owned(t2) /\ Live(t2) = Live(t)
      /\ \A j \in Live(t) : /\ SesOf(t2, j).id = SesOf(t, j).id
                            /\ t2.inst[j].ep = t.inst[j].ep /\ t2.inst[j].svc = t.inst[j].svc
                            /\ SvcOf(t2, j).acl = SvcOf(t, j).acl
                            /\ t2.inst[j].state = IF j = i THEN new ELSE t.inst[j].state
  BY <1>1, OwnedMoves
<1>3. \A j \in Live(t) : SvcOf(t2, j).offloadId = SvcOf(t, j).offloadId
  <2> SUFFICES ASSUME NEW j \in Live(t)
               PROVE  SvcOf(t2, j).offloadId = SvcOf(t, j).offloadId
    OBVIOUS
  <2>1. t.inst[j].ep \in Endpoints /\ t.inst[j].svc \in SvcSlots(t.inst[j].ep)
    BY <1>1, LiveParts DEF Seated
  <2>2. QED BY <1>2, <2>1 DEF SvcOf
<1>4. Numbered(t2)
  BY <1>1, <1>2, <1>3 DEF Numbered
<1>5. Globals(t2)
  BY DEF Moves
<1>6. Ledger(t2, h, stateTable)
  <2> DEFINE s == SesOf(t, i).id
  <2>1. \A u : /\ Working(t2, u) <=> Working(t, u)
               /\ Beginning(t2, u) <=> IF u = s THEN new \in Starting ELSE Beginning(t, u)
    BY <1>1, WorkMoves
  <2>2. t.inst[i].state \in Starting => Beginning(t, s)
    BY DEF Beginning
  <2>3. s \in Sessions
    BY <1>1, LiveParts DEF Seated
  <2> HIDE DEF s
  <2>4. CASE t2.hal = t.hal /\ (new \in Starting => t.inst[i].state \in Starting)
    <3>1. \A u : (Working(t2, u) => Working(t, u)) /\ (Beginning(t2, u) => Beginning(t, u))
      BY <2>1, <2>2, <2>4
    <3>2. QED BY <1>1, <2>4, <3>1, LedgerKept
  <2>5. CASE /\ \E m \in Yes(SesOf(t, i).id) : t2.hal = Append(t.hal, m)
             /\ new \notin Starting /\ t.inst[i].state \in Starting
    <3>1. PICK m \in Yes(s) : t2.hal = Append(t.hal, m)
      BY <2>5 DEF s
    <3>2. m \in OmToHalMsgs
      BY <2>3, HalMessages
    <3>3. /\ \A u : (Working(t2, u) => Working(t, u)) /\ (Beginning(t2, u) => Beginning(t, u))
          /\ Beginning(t, s) /\ ~Beginning(t2, s)
      BY <2>1, <2>2, <2>5
    <3>4. QED BY <1>1, <2>3, <3>1, <3>2, <3>3, LedgerAnswer
  <2>6. QED BY <2>4, <2>5
<1>7. /\ \A j : Num(t2.bs, Asking(j)) = Num(t.bs, Asking(j))
      /\ \A m \in InFlight(t2.bs) : Enables(m) => m \in InFlight(t.bs)
      /\ \A m \in InFlight(t2.bs) : \A a \in Acls : ClearMsg(m, a) => m \in InFlight(t.bs)
      /\ IdsFinite(t2.bs)
  BY <1>1, ToldKeeps
<1>8. ClearsAlone(t2, h, queue, b, stateTable)
  <2>1. /\ \A a \in Acls : [op |-> "CLEAR_RSP", acl |-> a] \in InFlight(t2.hal)
                           => [op |-> "CLEAR_RSP", acl |-> a] \in InFlight(t.hal)
        /\ \A s \in Sessions, a \in Acls : Before(t2.hal, Gone(s), Cleared(a))
    <3>1. CASE t2.hal = t.hal
      BY <1>1, <3>1 DEF ClearsAlone
    <3>2. CASE \E m \in Yes(SesOf(t, i).id) : t2.hal = Append(t.hal, m)
      <4>1. PICK m \in Yes(SesOf(t, i).id) : t2.hal = Append(t.hal, m)
        BY <3>2
      <4>2. SesOf(t, i).id \in Sessions
        BY <1>1, LiveParts DEF Seated
      <4>3. m \in OmToHalMsgs /\ m.op # "CLEAR_RSP"
        <5>1. m \in OmToHalMsgs
          BY <4>1, <4>2, HalMessages
        <5>2. m.op = "REGISTER_RSP"
          BY ONLY <4>1 DEF Yes
        <5>3. QED BY <5>1, <5>2
      <4>4. QED BY <1>1, <4>1, <4>3, ClearsAnswered
    <3>3. QED BY <3>1, <3>2
  <2>2. QED BY <1>1, <1>2, <1>7, <2>1, ClearsKept
<1>9. OneAsk(t2, queue, b)
  <2>1. ASSUME NEW j \in Slots, t.inst[j].state = "OffloadReq"
        PROVE  t2.inst[j].state = "OffloadReq" \/ Calm(t, queue, b, j)
    <3>1. j \in Live(t)
      BY <1>1, <2>1 DEF Owned, Live
    <3>2. QED BY <1>2, <2>1, <3>1
  <2>2. QED BY <1>1, <1>7, <2>1, AsksKept
<1>10. AskSense(t2, queue, b)
  BY <1>1, <1>2, <1>3, <1>7, SenseKept
<1>11. QED BY <1>2, <1>4, <1>5, <1>6, <1>7, <1>8, <1>9, <1>10 DEF Core

(* An instance is given back, with a last word for its session or without. *)
LEMMA CoreFrees ==
  ASSUME NEW t, NEW h, NEW b, Core(t, h, b), Around(h, b), NEW i \in Live(t),
         NEW t2, Frees(t, t2, i), Calm(t, queue, b, i),
         \/ t2.hal = t.hal
         \/ /\ \E m \in No(SesOf(t, i).id) : t2.hal = Append(t.hal, m)
            /\ t.inst[i].state \in Starting
         \/ \E m \in Gone(SesOf(t, i).id) : t2.hal = Append(t.hal, m)
  PROVE  Core(t2, h, b)
<1>1. /\ Globals(t) /\ Owned(t) /\ Numbered(t) /\ Ledger(t, h, stateTable)
      /\ ClearsAlone(t, h, queue, b, stateTable)
      /\ OneAsk(t, queue, b) /\ AskSense(t, queue, b) /\ IdsFinite(t.bs)
      /\ h \in Seq(HalToOmMsgs) /\ b \in Seq(BsToOmMsgs) /\ queue \in Queues /\ Acls # {}
  BY DEF Core, Around
<1>2. /\ Owned(t2) /\ Live(t2) = Live(t) \ {i} /\ t2.inst[i].state = "Idle"
      /\ \A j \in Live(t2) : /\ SesOf(t2, j).id = SesOf(t, j).id
                             /\ t2.inst[j] = t.inst[j]
                             /\ SvcOf(t2, j).acl = SvcOf(t, j).acl
                             /\ SvcOf(t2, j).offloadId = SvcOf(t, j).offloadId
  BY <1>1, OwnedFrees
<1>3. Globals(t2) /\ t2.bs = t.bs
  BY DEF Frees
<1>4. Numbered(t2)
  BY <1>1, <1>2 DEF Numbered
<1> DEFINE s == SesOf(t, i).id
<1>5. s \in Sessions
  BY <1>1, LiveParts DEF Seated
<1>6. Ledger(t2, h, stateTable)
  <2>1. \A u : /\ Working(t2, u) <=> Working(t, u) /\ u # s
               /\ Beginning(t2, u) <=> Beginning(t, u) /\ u # s
    BY <1>1, WorkFrees
  <2>2. Working(t, s) /\ (t.inst[i].state \in Starting => Beginning(t, s))
    BY DEF Beginning, Working
  <2>3. \A u : (Working(t2, u) => Working(t, u)) /\ (Beginning(t2, u) => Beginning(t, u))
    BY <2>1
  <2>4. CASE t2.hal = t.hal
    BY <1>1, <2>3, <2>4, LedgerKept
  <2>5. CASE /\ \E m \in No(s) : t2.hal = Append(t.hal, m)
             /\ t.inst[i].state \in Starting
    <3>1. PICK m \in No(s) : t2.hal = Append(t.hal, m)
      BY <2>5
    <3>2. m \in OmToHalMsgs
      BY <1>5, HalMessages
    <3>3. Beginning(t, s) /\ ~Working(t2, s)
      BY <2>1, <2>2, <2>5
    <3> HIDE DEF s
    <3>4. QED BY <1>1, <1>5, <2>3, <3>1, <3>2, <3>3, LedgerAnswer
  <2>6. CASE \E m \in Gone(s) : t2.hal = Append(t.hal, m)
    <3>1. PICK m \in Gone(s) : t2.hal = Append(t.hal, m)
      BY <2>6
    <3>2. m \in OmToHalMsgs
      BY <1>5, HalMessages
    <3>3. Working(t, s) /\ ~Working(t2, s)
      BY <2>1, <2>2
    <3> HIDE DEF s
    <3>4. QED BY <1>1, <1>5, <2>3, <3>1, <3>2, <3>3, LedgerAnswer
  <2>7. QED BY <2>4, <2>5, <2>6
<1>7. ClearsAlone(t2, h, queue, b, stateTable)
  <2>1. /\ \A a \in Acls : [op |-> "CLEAR_RSP", acl |-> a] \in InFlight(t2.hal)
                           => [op |-> "CLEAR_RSP", acl |-> a] \in InFlight(t.hal)
        /\ \A u \in Sessions, a \in Acls : Before(t2.hal, Gone(u), Cleared(a))
    <3>1. CASE t2.hal = t.hal
      BY <1>1, <3>1 DEF ClearsAlone
    <3>2. CASE \E m \in No(s) \cup Gone(s) : t2.hal = Append(t.hal, m)
      <4>1. PICK m \in No(s) \cup Gone(s) : t2.hal = Append(t.hal, m)
        BY <3>2
      <4>2. m \in OmToHalMsgs /\ m.op # "CLEAR_RSP"
        <5>1. m \in OmToHalMsgs
          BY <1>5, <4>1, HalMessages
        <5>2. m.op \in {"REGISTER_RSP", "UNREGISTER_RSP"}
          <6> HIDE DEF s
          <6>1. QED BY ONLY <4>1 DEF No, Gone
        <5>3. QED BY <5>1, <5>2
      <4>3. QED BY <1>1, <4>1, <4>2, ClearsAnswered
    <3>3. QED BY <3>1, <3>2
  <2>2. QED BY <1>1, <1>2, <1>3, <2>1, ClearsKept
<1>8. OneAsk(t2, queue, b)
  <2>1. ASSUME NEW j \in Slots, t.inst[j].state = "OffloadReq"
        PROVE  t2.inst[j].state = "OffloadReq" \/ Calm(t, queue, b, j)
    <3>1. j \in Live(t)
      BY <1>1, <2>1 DEF Owned, Live
    <3>2. QED BY <1>2, <2>1, <3>1
  <2>2. QED BY <1>1, <1>3, <2>1, AsksKept
<1>9. AskSense(t2, queue, b)
  BY <1>1, <1>2, <1>3, SenseKept
<1>10. QED BY <1>1, <1>2, <1>3, <1>4, <1>6, <1>7, <1>8, <1>9 DEF Core

-----------------------------------------------------------------------------
(* What the state holds, of what is known of the globals. *)
LEMMA Primed ==
  ASSUME NEW t, NEW h, NEW b, Now' = t, hal2om' = h, bs2om' = b,
         UNCHANGED <<reg, stateTable, queue>>, Core(t, h, b), Around(h, b)
  PROVE  Core(Now, hal2om, bs2om)' /\ Around(hal2om, bs2om)'
<1>1. Owned(Now)'
  BY DEF Core, Owned
<1>2. (Globals(Now) /\ Numbered(Now) /\ IdsFinite(Now.bs))'
  BY DEF Core
<1>3. Ledger(Now, hal2om, stateTable)'
  BY DEF Core
<1>4. ClearsAlone(Now, hal2om, queue, bs2om, stateTable)'
  BY DEF Core, ClearsAlone
<1>5. (OneAsk(Now, queue, bs2om) /\ AskSense(Now, queue, bs2om))'
  BY DEF Core
<1>6. Around(hal2om, bs2om)'
  BY DEF Around, OneOpening
<1>7. QED BY <1>1, <1>2, <1>3, <1>4, <1>5, <1>6 DEF Core

-----------------------------------------------------------------------------
(* An instance in its new state, before the entry function has run, ...        *)
LEMMA Stated ==
  ASSUME NEW t, Globals(t), NEW i, Seated(t, i), NEW new \in OffloadStates
  PROVE  /\ Globals(WithState(t, i, new)) /\ Seated(WithState(t, i, new), i)
         /\ SvcOf(WithState(t, i, new), i) = SvcOf(t, i)
         /\ SesOf(WithState(t, i, new), i) = SesOf(t, i)
         /\ WithState(t, i, new).inst[i].ep = t.inst[i].ep
         /\ WithState(t, i, new).inst[i].svc = t.inst[i].svc
         /\ WithState(t, i, new).inst[i].ses = t.inst[i].ses
         /\ WithState(t, i, new).svcs = t.svcs /\ WithState(t, i, new).hal = t.hal
         /\ WithState(t, i, new).bs = t.bs /\ WithState(t, i, new).awm = t.awm
         /\ WithState(t, i, new).failed = t.failed
<1>1. i \in Slots
  BY DEF Seated
<1>2. PICK t1 : t1 = WithState(t, i, new)
  OBVIOUS
<1>3. /\ Globals(t1)
      /\ t1.inst[i].ep = t.inst[i].ep /\ t1.inst[i].svc = t.inst[i].svc
      /\ t1.inst[i].ses = t.inst[i].ses
      /\ t1.svcs = t.svcs /\ t1.hal = t.hal /\ t1.bs = t.bs /\ t1.awm = t.awm
      /\ t1.failed = t.failed
  <2>1. Globals(t1)
    BY <1>1, <1>2, StateFields
  <2>2. /\ t1.svcs = t.svcs /\ t1.hal = t.hal /\ t1.bs = t.bs /\ t1.awm = t.awm
        /\ t1.failed = t.failed
    BY <1>2 DEF WithState, Globals
  <2>3. /\ t1.inst[i].ep = t.inst[i].ep /\ t1.inst[i].svc = t.inst[i].svc
        /\ t1.inst[i].ses = t.inst[i].ses
    <3>1. t1.inst = [t.inst EXCEPT ![i] = [@ EXCEPT !.state = new]]
      BY <1>1, <1>2, StateFields
    <3>2. t.inst \in [Slots -> Instance]
      BY GlobalsParts
    <3>3. QED BY ONLY <1>1, <3>1, <3>2 DEF Instance
  <2>4. QED BY <2>1, <2>2, <2>3
<1>4. SvcOf(t1, i) = SvcOf(t, i) /\ SesOf(t1, i) = SesOf(t, i)
  BY ONLY <1>3 DEF SvcOf, SesOf
<1>5. Seated(t1, i)
  BY <1>3, <1>4 DEF Seated
<1>6. QED BY ONLY <1>2, <1>3, <1>4, <1>5

(* ... and after it, when that has left the places alone. *)
LEMMA StatedMoves ==
  ASSUME NEW t, Globals(t), NEW i, Seated(t, i), NEW new \in OffloadStates,
         NEW t2, Globals(t2), t2.inst = WithState(t, i, new).inst, t2.failed = t.failed,
         SeatsKept(WithState(t, i, new), t2, i)
  PROVE  Moves(t, t2, i, new)
<1> DEFINE t1 == WithState(t, i, new)
<1>1. i \in Slots
  BY DEF Seated
<1>2. t1.inst = [t.inst EXCEPT ![i] = [@ EXCEPT !.state = new]]
  <2>1. Globals(t) /\ new \in OffloadStates
    OBVIOUS
  <2>2. QED BY ONLY <1>1, <2>1, StateFields
<1>3. t1.inst[i].ep = t.inst[i].ep /\ t1.inst[i].svc = t.inst[i].svc /\ t1.svcs = t.svcs
  BY Stated
<1>4. SeatsKept(t1, t2, i) /\ t2.inst = t1.inst
  OBVIOUS
<1> HIDE DEF t1
<1>5. SeatsKept(t, t2, i)
  BY ONLY <1>3, <1>4 DEF SeatsKept, Seat
<1>6. QED BY <1>2, <1>4, <1>5 DEF Moves

(* An instance that is given back after it has been moved on. *)
LEMMA FreesAfter ==
  ASSUME NEW t, Globals(t), NEW i, Seated(t, i), NEW new, NEW t1, Moves(t, t1, i, new),
         \A e \in Endpoints : \A k \in SvcSlots(e) :
            t1.svcs[e][k].offloadId = t.svcs[e][k].offloadId,
         t1.bs = t.bs, t1.awm = t.awm, NEW t2, Frees(t1, t2, i)
  PROVE  Frees(t, t2, i)
<1>1. t.inst \in [Slots -> Instance] /\ i \in Slots
  BY GlobalsParts DEF Seated
<1>2. t1.inst = [t.inst EXCEPT ![i] = [@ EXCEPT !.state = new]] /\ t1.failed = t.failed
        /\ SeatsKept(t, t1, i)
  BY DEF Moves
<1>3. /\ t1.inst[i].ep = t.inst[i].ep /\ t1.inst[i].svc = t.inst[i].svc
      /\ t1.inst[i].ses = t.inst[i].ses
  BY <1>1, <1>2 DEF Instance
<1>4. t2.inst = [t.inst EXCEPT ![i] = [state |-> "Idle", ep |-> t.inst[i].ep, svc |-> 0, ses |-> 0]]
  <2> DEFINE idle == [state |-> "Idle", ep |-> t.inst[i].ep, svc |-> 0, ses |-> 0]
  <2>1. t2.inst = [t1.inst EXCEPT ![i] = idle]
    BY <1>3 DEF Frees
  <2> HIDE DEF idle
  <2>2. QED BY ONLY <1>1, <1>2, <2>1 DEF idle
<1>5. Globals(t2) /\ t2.failed = t.failed /\ t2.bs = t.bs /\ t2.awm = t.awm
  BY <1>2 DEF Frees
<1>6. ASSUME NEW e \in Endpoints, NEW k \in SvcSlots(e)
      PROVE  IF e = t.inst[i].ep /\ k = t.inst[i].svc
             THEN IF \E x \in SesSlots \ {t.inst[i].ses} : Seat(t, e, k, x) # NoSession
                  THEN /\ t2.svcs[e][k].acl = t.svcs[e][k].acl
                       /\ t2.svcs[e][k].service = t.svcs[e][k].service
                       /\ t2.svcs[e][k].offloadId = t.svcs[e][k].offloadId
                       /\ \A x \in SesSlots : Seat(t2, e, k, x) =
                             IF x = t.inst[i].ses THEN NoSession ELSE Seat(t, e, k, x)
                  ELSE t2.svcs[e][k] = FreeService
             ELSE t2.svcs[e][k] = t.svcs[e][k]
  <2>1. IF e = t.inst[i].ep /\ k = t.inst[i].svc
        THEN IF \E x \in SesSlots \ {t.inst[i].ses} : Seat(t1, e, k, x) # NoSession
             THEN /\ t2.svcs[e][k].acl = t1.svcs[e][k].acl
                  /\ t2.svcs[e][k].service = t1.svcs[e][k].service
                  /\ t2.svcs[e][k].offloadId = t1.svcs[e][k].offloadId
                  /\ \A x \in SesSlots : Seat(t2, e, k, x) =
                        IF x = t.inst[i].ses THEN NoSession ELSE Seat(t1, e, k, x)
             ELSE t2.svcs[e][k] = FreeService
        ELSE t2.svcs[e][k] = t1.svcs[e][k]
    BY <1>3 DEF Frees
  <2>2. IF e = t.inst[i].ep /\ k = t.inst[i].svc
        THEN /\ t1.svcs[e][k].acl = t.svcs[e][k].acl
             /\ t1.svcs[e][k].service = t.svcs[e][k].service
             /\ \A x \in SesSlots : Seat(t1, e, k, x) = Seat(t, e, k, x)
        ELSE t1.svcs[e][k] = t.svcs[e][k]
    BY <1>2 DEF SeatsKept
  <2>3. t1.svcs[e][k].offloadId = t.svcs[e][k].offloadId
    OBVIOUS
  <2>4. QED BY ONLY <2>1, <2>2, <2>3
<1>7. QED BY <1>4, <1>5, <1>6 DEF Frees

(* What unoffload_to_ustack() asks is no question of OneAsk. *)
LEMMA UstackTold ==
  ASSUME NEW t, Globals(t), NEW i, Seated(t, i), NEW t2, t2 = unoffload_to_ustack(t, i)
  PROVE  /\ Globals(t2) /\ Told(t, t2)
         /\ t2.inst = t.inst /\ t2.svcs = t.svcs /\ t2.hal = t.hal /\ t2.awm = t.awm
         /\ t2.failed = t.failed
<1> DEFINE svc == SvcOf(t, i)
           off == [op |-> "DISABLE_REQ", inst |-> i, why |-> "DISABLE", acl |-> btConnId(svc),
                   ids |-> {svc.offloadId}]
           rest == [op |-> "ENABLE_REQ", inst |-> i, why |-> "DISABLE", acl |-> btConnId(svc),
                    ep |-> IF gattId[t.inst[i].ep] = "ready" THEN t.inst[i].ep ELSE NoEndpoint,
                    offloadId |-> svc.offloadId, handles |-> Users(svc) \ {SesOf(t, i).id}]
<1>1. /\ i \in Slots /\ t.inst[i].ep \in Endpoints /\ svc \in Service
  BY SeatedParts
<1>2. /\ svc.offloadId \in Nat /\ btConnId(svc) \in Acls \cup {NoAcl} /\ Users(svc) \subseteq Sessions
  BY <1>1, ServiceParts
<1>3. t2 = ToBs(t, off) \/ t2 = ToBs(t, rest)
  BY DEF unoffload_to_ustack, enable_svc
<1> HIDE DEF svc
<1>4. Harmless(off)
  <2>1. off \in OmToBsMsgs
    BY <1>1, <1>2 DEF OmToBsMsgs, DisableReqs
  <2>2. (\A j : ~Asks(off, j)) /\ (\A a \in Acls : ~ClearMsg(off, a))
    BY DEF Asks, Enables, ClearMsg
  <2>3. IsFiniteSet({svc.offloadId})
    BY FS_Singleton
  <2>4. QED BY <2>1, <2>2, <2>3 DEF Harmless
<1>5. Harmless(rest)
  <2>1. rest \in OmToBsMsgs
    <3>1. rest \in EnableReqs
      BY <1>1, <1>2 DEF EnableReqs
    <3>2. QED BY <3>1 DEF OmToBsMsgs
  <2>2. (\A j : ~Asks(rest, j)) /\ (\A a \in Acls : ~ClearMsg(rest, a))
    BY DEF Asks, Enables, ClearMsg
  <2>3. QED BY <2>1, <2>2 DEF Harmless
<1> HIDE DEF off, rest
<1>6. PICK m : Harmless(m) /\ t2 = ToBs(t, m)
  BY <1>3, <1>4, <1>5
<1>7. m \in OmToBsMsgs
  BY <1>6 DEF Harmless
<1>8. /\ Globals(t2) /\ t2.inst = t.inst /\ t2.svcs = t.svcs /\ t2.hal = t.hal
      /\ t2.bs = Append(t.bs, m) /\ t2.awm = t.awm /\ t2.failed = t.failed
  BY <1>6, <1>7, QueueFields
<1>9. QED BY <1>6, <1>8 DEF Told

(* What the microapp is told of a registration, or not. *)
LEMMA UappTold ==
  ASSUME NEW t, Globals(t), NEW i, Seated(t, i), NEW t2, t2 = offload_to_uapp(t, i)
  PROVE  /\ Globals(t2) /\ t2.bs = t.bs
         /\ t2.inst = t.inst /\ t2.svcs = t.svcs /\ t2.hal = t.hal /\ t2.failed = t.failed
<1> DEFINE m == [op |-> "REG_REQ", id |-> SvcOf(t, i).buf, ep |-> t.inst[i].ep]
<1>1. t.inst[i].ep \in Endpoints /\ SvcOf(t, i) \in Service
  BY SeatedParts
<1>2. CASE SvcOf(t, i).buf = NoSession
  BY <1>2 DEF offload_to_uapp
<1>3. CASE SvcOf(t, i).buf # NoSession
  <2>1. SvcOf(t, i).buf \in Sessions
    BY <1>1, <1>3 DEF Service
  <2>2. m \in OmToAwmMsgs
    BY <1>1, <2>1 DEF OmToAwmMsgs
  <2>3. t2 = ToAwm(t, m)
    BY <1>3 DEF offload_to_uapp
  <2> HIDE DEF m
  <2>4. QED BY <2>2, <2>3, QueueFields
<1>4. QED BY <1>2, <1>3

(* An operation of a session that is begun or ended. *)
Marks(t, i, t2) ==
  /\ Globals(t2) /\ SeatsKept(t, t2, i)
  /\ t2.inst = t.inst /\ t2.hal = t.hal /\ t2.bs = t.bs /\ t2.awm = t.awm
  /\ t2.failed = t.failed
  /\ \A e \in Endpoints : \A k \in SvcSlots(e) :
        t2.svcs[e][k].offloadId = t.svcs[e][k].offloadId

LEMMA PendingChanged ==
  ASSUME NEW t, Globals(t), NEW i, Seated(t, i), NEW on \in BOOLEAN,
         NEW t2, t2 = WithPending(t, t.inst[i].ep, t.inst[i].svc, t.inst[i].ses, on)
  PROVE  Marks(t, i, t2)
<1> DEFINE old == SvcOf(t, i)
           y == t.inst[i].ses
           v == [old EXCEPT !.sess[y].pending = on]
<1>1. /\ t.inst[i].ep \in Endpoints /\ t.inst[i].svc \in SvcSlots(t.inst[i].ep)
      /\ old = t.svcs[t.inst[i].ep][t.inst[i].svc] /\ old \in Service /\ y \in SesSlots
  BY SeatedParts
<1>2. t2 = WithSvc(t, i, v)
  BY DEF WithPending, WithSvc, SvcOf
<1> HIDE DEF old
<1>3. /\ v \in Service /\ v.acl = old.acl /\ v.service = old.service /\ v.offloadId = old.offloadId
      /\ \A x \in SesSlots : v.sess[x].id = old.sess[x].id
  <2> DEFINE T == [id : Sessions \cup {NoSession}, pending : BOOLEAN]
             p == [old.sess[y] EXCEPT !.pending = on]
             f == [old.sess EXCEPT ![y] = p]
  <2>1. old.sess \in [SesSlots -> T] /\ old.sess[y] \in T
    BY <1>1 DEF Service
  <2>2. p \in T /\ p.id = old.sess[y].id
    BY <2>1
  <2>3. v = [old EXCEPT !.sess = f]
    OBVIOUS
  <2> HIDE DEF p, T
  <2>4. f \in [SesSlots -> T] /\ \A x \in SesSlots : f[x].id = old.sess[x].id
    BY <1>1, <2>1, <2>2
  <2> HIDE DEF f, v
  <2>5. v \in Service /\ v.acl = old.acl /\ v.service = old.service /\ v.offloadId = old.offloadId
          /\ v.sess = f
    BY ONLY <1>1, <2>3, <2>4 DEF Service, T
  <2>6. QED BY <2>4, <2>5
<1> HIDE DEF v
<1>4. /\ Globals(t2) /\ SeatsKept(t, t2, i)
      /\ t2.inst = t.inst /\ t2.hal = t.hal /\ t2.bs = t.bs /\ t2.awm = t.awm
      /\ t2.failed = t.failed
      /\ \A e \in Endpoints : \A k \in SvcSlots(e) :
            t2.svcs[e][k] = IF e = t.inst[i].ep /\ k = t.inst[i].svc THEN v ELSE t.svcs[e][k]
  BY <1>2, <1>3, ServiceChanged DEF old
<1>5. \A e \in Endpoints : \A k \in SvcSlots(e) :
         t2.svcs[e][k].offloadId = t.svcs[e][k].offloadId
  BY <1>1, <1>3, <1>4
<1>6. QED BY <1>4, <1>5 DEF Marks

(* The microapp is told that a session ends. *)
LEMMA UappUntold ==
  ASSUME NEW t, Globals(t), NEW i, Seated(t, i), NEW t2, t2 = unoffload_to_uapp(t, i)
  PROVE  /\ Globals(t2) /\ SeatsKept(t, t2, i)
         /\ t2.inst = t.inst /\ t2.hal = t.hal /\ t2.bs = t.bs /\ t2.failed = t.failed
         /\ \A e \in Endpoints : \A k \in SvcSlots(e) :
               t2.svcs[e][k].offloadId = t.svcs[e][k].offloadId
<1> DEFINE s == SesOf(t, i).id
           m == [op |-> "UNREG_REQ", id |-> s, ep |-> t.inst[i].ep]
           n == [op |-> "OP_RSP", id |-> s, ep |-> t.inst[i].ep]
           t1 == ToAwm(t, m)
           t3 == ToAwm(t1, n)
<1>1. t.inst[i].ep \in Endpoints /\ s \in Sessions
  BY SeatedParts
<1>2. m \in OmToAwmMsgs /\ n \in OmToAwmMsgs
  BY <1>1 DEF OmToAwmMsgs
<1>3. t2 = t1 \/ t2 = WithPending(t3, t.inst[i].ep, t.inst[i].svc, t.inst[i].ses, FALSE)
  BY DEF unoffload_to_uapp
<1> HIDE DEF m, n
<1>4. /\ Globals(t1) /\ t1.inst = t.inst /\ t1.svcs = t.svcs /\ t1.hal = t.hal
      /\ t1.bs = t.bs /\ t1.failed = t.failed
  BY <1>2, QueueFields
<1> HIDE DEF t1
<1>5. /\ Globals(t3) /\ t3.inst = t.inst /\ t3.svcs = t.svcs /\ t3.hal = t.hal
      /\ t3.bs = t.bs /\ t3.failed = t.failed
  BY <1>2, <1>4, QueueFields
<1> HIDE DEF t3
<1>6. CASE t2 = t1
  <2>1. SeatsKept(t, t2, i)
    BY <1>4, <1>6, SameServices
  <2>2. QED BY <1>4, <1>6, <2>1
<1>7. CASE t2 = WithPending(t3, t.inst[i].ep, t.inst[i].svc, t.inst[i].ses, FALSE)
  <2>1. Seated(t3, i)
    BY <1>5 DEF Seated, SesOf, SvcOf
  <2>2. t2 = WithPending(t3, t3.inst[i].ep, t3.inst[i].svc, t3.inst[i].ses, FALSE)
    BY <1>5, <1>7
  <2>3. /\ Globals(t2) /\ SeatsKept(t3, t2, i)
        /\ t2.inst = t3.inst /\ t2.hal = t3.hal /\ t2.bs = t3.bs
        /\ t2.failed = t3.failed
        /\ \A e \in Endpoints : \A k \in SvcSlots(e) :
              t2.svcs[e][k].offloadId = t3.svcs[e][k].offloadId
    <3>1. PICK on \in BOOLEAN : on = FALSE
      OBVIOUS
    <3>2. t2 = WithPending(t3, t3.inst[i].ep, t3.inst[i].svc, t3.inst[i].ses, on)
      BY <2>2, <3>1
    <3>3. Globals(t3)
      BY <1>5
    <3>4. Marks(t3, i, t2)
      BY ONLY Zenon, <2>1, <3>1, <3>2, <3>3, PendingChanged
    <3>5. QED BY ONLY <3>4 DEF Marks
  <2>4. SeatsKept(t, t2, i)
    BY ONLY <1>5, <2>3 DEF SeatsKept, Seat
  <2>5. QED BY <1>5, <2>3, <2>4
<1>8. QED BY <1>3, <1>6, <1>7

-----------------------------------------------------------------------------
(* The events of an instance, each with what it leaves. *)

(* The session is refused, and the instance given back. *)
LEMMA CoreRefuses ==
  ASSUME NEW t, NEW h, NEW b, Core(t, h, b), Around(h, b), NEW i \in Live(t),
         t.inst[i].state \in Starting, Calm(t, queue, b, i), NEW t1,
         t1 = WithState(t, i, "OffloadFailure"), NEW t2, t2 = Entered(t1, i, "OffloadFailure")
  PROVE  Core(t2, h, b) /\ t2.failed = t.failed
<1>1. Globals(t) /\ Owned(t)
  BY DEF Core
<1>2. Seated(t, i) /\ "OffloadFailure" \in OffloadStates
  BY <1>1, LiveParts DEF OffloadStates
<1>3. /\ Globals(t1) /\ Seated(t1, i) /\ SesOf(t1, i) = SesOf(t, i)
      /\ t1.inst[i].ep = t.inst[i].ep /\ t1.inst[i].svc = t.inst[i].svc
      /\ t1.svcs = t.svcs /\ t1.hal = t.hal /\ t1.bs = t.bs /\ t1.awm = t.awm
      /\ t1.failed = t.failed
  BY <1>1, <1>2, Stated
<1> DEFINE t3 == hal_offload_rsp(t1, i, FALSE)
           m == [op |-> "REGISTER_RSP", id |-> SesOf(t, i).id, ok |-> FALSE]
<1>4. t2 = Idled(t3, i)
  BY DEF Entered
<1>5. /\ Globals(t3) /\ SeatsKept(t1, t3, i) /\ Seated(t3, i)
      /\ t3.inst = t1.inst /\ t3.bs = t1.bs /\ t3.awm = t1.awm /\ t3.failed = t1.failed
      /\ t3.hal = Append(t1.hal, [op |-> "REGISTER_RSP", id |-> SesOf(t1, i).id, ok |-> FALSE])
      /\ \A e \in Endpoints : \A k \in SvcSlots(e) :
            t3.svcs[e][k] = IF e = t1.inst[i].ep /\ k = t1.inst[i].svc
                            THEN [t1.svcs[e][k] EXCEPT !.buf = NoSession] ELSE t1.svcs[e][k]
  <2> HIDE DEF m
  <2>1. PICK no \in BOOLEAN : no = FALSE
    OBVIOUS
  <2>2. t3 = hal_offload_rsp(t1, i, no)
    BY <2>1
  <2> HIDE DEF t3
  <2>3. /\ Globals(t3) /\ SeatsKept(t1, t3, i) /\ Seated(t3, i)
        /\ t3.inst = t1.inst /\ t3.bs = t1.bs /\ t3.awm = t1.awm /\ t3.failed = t1.failed
        /\ t3.hal = Append(t1.hal, [op |-> "REGISTER_RSP", id |-> SesOf(t1, i).id, ok |-> no])
        /\ \A e \in Endpoints : \A k \in SvcSlots(e) :
              t3.svcs[e][k] = IF e = t1.inst[i].ep /\ k = t1.inst[i].svc
                              THEN [t1.svcs[e][k] EXCEPT !.buf = NoSession] ELSE t1.svcs[e][k]
    BY <1>3, <2>2, OpenAnswer
  <2>4. QED BY <2>1, <2>3
<1> HIDE DEF t3
<1>6. t3.hal = Append(t.hal, m)
  BY <1>3, <1>5
<1>7. \A e \in Endpoints : \A k \in SvcSlots(e) :
         t3.svcs[e][k].offloadId = t.svcs[e][k].offloadId
  <2>1. \A e \in Endpoints : \A k \in SvcSlots(e) : t.svcs[e][k] \in Service
    BY <1>1, GlobalsParts
  <2>2. ASSUME NEW e \in Endpoints, NEW k \in SvcSlots(e)
        PROVE  t3.svcs[e][k].offloadId = t.svcs[e][k].offloadId
    <3> DEFINE old == t1.svcs[e][k]
    <3>1. old = t.svcs[e][k] /\ old \in Service
      BY <1>3, <2>1
    <3>2. [old EXCEPT !.buf = NoSession].offloadId = old.offloadId
      BY <3>1 DEF Service
    <3>3. t3.svcs[e][k] = [old EXCEPT !.buf = NoSession] \/ t3.svcs[e][k] = old
      BY <1>5
    <3> HIDE DEF old
    <3>4. QED BY ONLY <3>1, <3>2, <3>3
  <2>3. QED BY <2>2
<1>8. Moves(t, t3, i, "OffloadFailure")
  BY <1>1, <1>2, <1>3, <1>5, StatedMoves
<1>9. Frees(t3, t2, i) /\ t2.hal = t3.hal
  BY <1>4, <1>5, IdledFrees
<1>10. t3.bs = t.bs /\ t3.awm = t.awm
  BY <1>3, <1>5
<1>11. Frees(t, t2, i)
  BY <1>1, <1>2, <1>7, <1>8, <1>9, <1>10, FreesAfter
<1>12. m \in No(SesOf(t, i).id) /\ t2.hal = Append(t.hal, m)
  BY <1>6, <1>9 DEF No
<1> HIDE DEF m
<1>13. Core(t2, h, b)
  BY <1>11, <1>12, CoreFrees
<1>14. QED BY <1>11, <1>13 DEF Frees

(* The session has ended, and the instance is given back. *)
LEMMA CoreEnds ==
  ASSUME NEW t, NEW h, NEW b, Core(t, h, b), Around(h, b), NEW i \in Live(t),
         Calm(t, queue, b, i), NEW t1,
         t1 = WithState(t, i, "UnoffloadSuccess"), NEW t2, t2 = Entered(t1, i, "UnoffloadSuccess")
  PROVE  Core(t2, h, b) /\ t2.failed = t.failed
<1>1. Globals(t) /\ Owned(t)
  BY DEF Core
<1>2. Seated(t, i) /\ "UnoffloadSuccess" \in OffloadStates
  BY <1>1, LiveParts DEF OffloadStates
<1>3. /\ Globals(t1) /\ Seated(t1, i) /\ SesOf(t1, i) = SesOf(t, i)
      /\ t1.svcs = t.svcs /\ t1.hal = t.hal /\ t1.bs = t.bs /\ t1.awm = t.awm
      /\ t1.failed = t.failed
  BY <1>1, <1>2, Stated
<1> DEFINE m == [op |-> "UNREGISTER_RSP", id |-> SesOf(t, i).id]
           t3 == ToHal(t1, m)
<1>4. t2 = Idled(t3, i)
  BY <1>3 DEF Entered, hal_unoffload_rsp
<1>5. m \in Gone(SesOf(t, i).id)
  BY DEF Gone
<1>6. m \in OmToHalMsgs
  BY <1>2, <1>5, HalMessages DEF Seated
<1> HIDE DEF m
<1>7. /\ Globals(t3) /\ t3.inst = t1.inst /\ t3.svcs = t1.svcs /\ t3.hal = Append(t1.hal, m)
      /\ t3.bs = t1.bs /\ t3.awm = t1.awm /\ t3.failed = t1.failed
  BY <1>3, <1>6, QueueFields
<1> HIDE DEF t3
<1>8. SeatsKept(t1, t3, i)
  BY <1>7, SameServices
<1>9. Moves(t, t3, i, "UnoffloadSuccess")
  BY <1>1, <1>2, <1>3, <1>7, <1>8, StatedMoves
<1>10. Seated(t3, i)
  BY <1>3, <1>7 DEF Seated, SesOf, SvcOf
<1>11. Frees(t3, t2, i) /\ t2.hal = t3.hal
  BY <1>4, <1>7, <1>10, IdledFrees
<1>12. /\ t3.bs = t.bs /\ t3.awm = t.awm /\ t2.hal = Append(t.hal, m)
       /\ \A e \in Endpoints : \A k \in SvcSlots(e) :
            t3.svcs[e][k].offloadId = t.svcs[e][k].offloadId
  BY <1>3, <1>7, <1>11
<1>13. Frees(t, t2, i)
  BY <1>1, <1>2, <1>9, <1>11, <1>12, FreesAfter
<1>14. Core(t2, h, b)
  BY <1>5, <1>12, <1>13, CoreFrees
<1>15. QED BY <1>13, <1>14 DEF Frees

(* An instance that asks for nothing is calm, and its service has an id. *)
LEMMA CalmUnless ==
  ASSUME NEW t, NEW h, NEW b, Core(t, h, b), Around(h, b), NEW i \in Live(t),
         t.inst[i].state # "OffloadReq"
  PROVE  Calm(t, queue, b, i) /\ SvcOf(t, i).offloadId # 0
<1>1. Globals(t) /\ OneAsk(t, queue, b) /\ Numbered(t) /\ b \in Seq(BsToOmMsgs) /\ queue \in Queues
  BY DEF Core, Around
<1>2. ASSUME NEW a \in Acls PROVE AsksOf(t, queue, b, i, a) = 0
  <2>1. i \in Slots
    BY DEF Live
  <2>2. AsksOf(t, queue, b, i, a) <= 0
    BY <1>1, <2>1 DEF OneAsk, Count
  <2>3. AsksOf(t, queue, b, i, a) \in Nat
    BY <1>1, AskNumbers DEF AsksOf
  <2>4. QED BY <2>2, <2>3
<1>3. QED BY <1>1, <1>2 DEF Calm, Numbered

(* OFFLOAD_TO_MICROSTACK_SUCCESS and _FAILURE. *)
LEMMA MicrostackEvent ==
  ASSUME NEW t, NEW h, NEW b, Core(t, h, b), Around(h, b), NEW i \in Live(t),
         NEW ok \in BOOLEAN, Calm(t, queue, b, i), ok => SvcOf(t, i).offloadId # 0,
         NEW t2, t2 = Event(t, i, MicrostackOffloaded(ok))
  PROVE  Core(t2, h, b) /\ t2.failed = t.failed
<1>1. Globals(t) /\ Owned(t)
  BY DEF Core
<1>2. Seated(t, i)
  BY <1>1, LiveParts
<1>3. CASE t.inst[i].state # "OffloadReq"
  <2>1. t2 = t
    BY <1>3, RowsOf, NoRow DEF MicrostackOffloaded
  <2>2. QED BY <2>1
<1>4. CASE t.inst[i].state = "OffloadReq" /\ ~ok
  <2>1. t2 = Entered(WithState(t, i, "OffloadFailure"), i, "OffloadFailure")
    BY <1>4, RowsOf, OnlyRow DEF MicrostackOffloaded, WithState
  <2>2. t.inst[i].state \in Starting
    BY <1>4 DEF Starting
  <2>3. QED BY <2>1, <2>2, CoreRefuses
<1>5. CASE t.inst[i].state = "OffloadReq" /\ ok
  <2> DEFINE new == "OffloadToMicrostackSuccess"
             t1 == WithState(t, i, new)
  <2>1. t2 = Entered(t1, i, new)
    BY <1>5, RowsOf, OnlyRow DEF MicrostackOffloaded, WithState
  <2>2. t2 = offload_to_uapp(t1, i)
    BY <2>1 DEF Entered
  <2>3. new \in OffloadStates /\ new # "Idle" /\ new # "OffloadReq" /\ t.inst[i].state \in Starting
    BY <1>5 DEF OffloadStates, Starting
  <2> HIDE DEF new, t1
  <2>4. /\ Globals(t1) /\ Seated(t1, i) /\ t1.svcs = t.svcs /\ t1.hal = t.hal /\ t1.bs = t.bs
        /\ t1.failed = t.failed
    BY <1>1, <1>2, <2>3, Stated DEF t1
  <2>5. /\ Globals(t2) /\ t2.bs = t1.bs
        /\ t2.inst = t1.inst /\ t2.svcs = t1.svcs /\ t2.hal = t1.hal /\ t2.failed = t1.failed
    BY <2>2, <2>4, UappTold
  <2>6. SeatsKept(t1, t2, i)
    BY <2>5, SameServices
  <2>7. Moves(t, t2, i, new)
    BY <1>1, <1>2, <2>3, <2>4, <2>5, <2>6, StatedMoves DEF t1
  <2>8. /\ t2.hal = t.hal /\ Told(t, t2) /\ t2.failed = t.failed
        /\ \A e \in Endpoints : \A k \in SvcSlots(e) :
              t2.svcs[e][k].offloadId = t.svcs[e][k].offloadId
    BY <2>4, <2>5 DEF Told
  <2>9. Core(t2, h, b)
    <3>1. SvcOf(t, i).offloadId # 0
      BY <1>5
    <3>2. QED BY <2>3, <2>7, <2>8, <3>1, CoreMoves
  <2>10. QED BY <2>8, <2>9
<1>6. QED BY <1>3, <1>4, <1>5

(* The states in which unoffload_to_ustack() is called. *)
LEMMA CoreUnstacks ==
  ASSUME NEW t, NEW h, NEW b, Core(t, h, b), Around(h, b), NEW i \in Live(t),
         t.inst[i].state # "OffloadReq",
         NEW new \in {"UnOffloadReqToMicrostack", "OffloadToMicroappFailure"},
         new = "OffloadToMicroappFailure" => t.inst[i].state \in Starting,
         NEW t2, t2 = Entered(WithState(t, i, new), i, new)
  PROVE  Core(t2, h, b) /\ t2.failed = t.failed
<1>1. Globals(t) /\ Owned(t)
  BY DEF Core
<1>2. Seated(t, i)
  BY <1>1, LiveParts
<1>3. Calm(t, queue, b, i) /\ SvcOf(t, i).offloadId # 0
  BY CalmUnless
<1>4. /\ new \in OffloadStates /\ new # "Idle" /\ new # "OffloadReq"
      /\ new \in Starting => t.inst[i].state \in Starting
  BY DEF OffloadStates, Starting
<1> DEFINE t1 == WithState(t, i, new)
<1>5. t2 = unoffload_to_ustack(t1, i)
  BY DEF Entered
<1> HIDE DEF t1
<1>6. /\ Globals(t1) /\ Seated(t1, i) /\ t1.svcs = t.svcs /\ t1.hal = t.hal /\ t1.bs = t.bs
      /\ t1.failed = t.failed
  BY <1>1, <1>2, <1>4, Stated DEF t1
<1>7. /\ Globals(t2) /\ Told(t1, t2)
      /\ t2.inst = t1.inst /\ t2.svcs = t1.svcs /\ t2.hal = t1.hal /\ t2.failed = t1.failed
  BY <1>5, <1>6, UstackTold
<1>8. SeatsKept(t1, t2, i)
  BY <1>7, SameServices
<1>9. Moves(t, t2, i, new)
  BY <1>1, <1>2, <1>4, <1>6, <1>7, <1>8, StatedMoves DEF t1
<1>10. /\ t2.hal = t.hal /\ Told(t, t2) /\ t2.failed = t.failed
       /\ \A e \in Endpoints : \A k \in SvcSlots(e) :
             t2.svcs[e][k].offloadId = t.svcs[e][k].offloadId
  BY <1>6, <1>7 DEF Told
<1>11. Core(t2, h, b)
  BY <1>3, <1>4, <1>9, <1>10, CoreMoves
<1>12. QED BY <1>10, <1>11

(* OFFLOAD_TO_MICROAPP_SUCCESS, which answers the registration. *)
LEMMA MicroappSuccess ==
  ASSUME NEW t, NEW h, NEW b, Core(t, h, b), Around(h, b), NEW i \in Live(t),
         NEW t2, t2 = Event(t, i, "OFFLOAD_TO_MICROAPP_SUCCESS")
  PROVE  Core(t2, h, b) /\ t2.failed = t.failed
<1>1. Globals(t) /\ Owned(t)
  BY DEF Core
<1>2. Seated(t, i)
  BY <1>1, LiveParts
<1>3. CASE t.inst[i].state # "OffloadToMicrostackSuccess"
  <2>1. t2 = t
    BY <1>3, RowsOf, NoRow
  <2>2. QED BY <2>1
<1>4. CASE t.inst[i].state = "OffloadToMicrostackSuccess"
  <2> DEFINE new == "OffloadToMicroappSuccess"
             t1 == WithState(t, i, new)
             m == [op |-> "REGISTER_RSP", id |-> SesOf(t, i).id, ok |-> TRUE]
  <2>1. t2 = Entered(t1, i, new)
    BY <1>4, RowsOf, OnlyRow DEF WithState
  <2>2. PICK yes \in BOOLEAN : yes = TRUE
    OBVIOUS
  <2>3. t2 = hal_offload_rsp(t1, i, yes)
    BY <2>1, <2>2 DEF Entered
  <2>4. /\ new \in OffloadStates /\ new # "Idle" /\ new # "OffloadReq" /\ new \notin Starting
        /\ t.inst[i].state \in Starting /\ t.inst[i].state # "OffloadReq"
    BY <1>4 DEF OffloadStates, Starting
  <2> HIDE DEF new, t1, m
  <2>5. /\ Globals(t1) /\ Seated(t1, i) /\ t1.svcs = t.svcs /\ t1.hal = t.hal /\ t1.bs = t.bs
        /\ t1.failed = t.failed /\ SesOf(t1, i) = SesOf(t, i)
    BY <1>1, <1>2, <2>4, Stated DEF t1
  <2>6. /\ Globals(t2) /\ SeatsKept(t1, t2, i)
        /\ t2.inst = t1.inst /\ t2.bs = t1.bs /\ t2.failed = t1.failed
        /\ t2.hal = Append(t1.hal, [op |-> "REGISTER_RSP", id |-> SesOf(t1, i).id, ok |-> yes])
        /\ \A e \in Endpoints : \A k \in SvcSlots(e) :
              t2.svcs[e][k] = IF e = t1.inst[i].ep /\ k = t1.inst[i].svc
                              THEN [t1.svcs[e][k] EXCEPT !.buf = NoSession] ELSE t1.svcs[e][k]
    BY SMTT(30), <2>3, <2>5, OpenAnswer
  <2>7. ASSUME NEW e \in Endpoints, NEW k \in SvcSlots(e)
        PROVE  t2.svcs[e][k].offloadId = t.svcs[e][k].offloadId
    <3> DEFINE old == t1.svcs[e][k]
    <3>1. old = t.svcs[e][k] /\ old \in Service
      BY <1>1, <2>5, GlobalsParts
    <3>2. [old EXCEPT !.buf = NoSession].offloadId = old.offloadId
      BY <3>1 DEF Service
    <3>3. t2.svcs[e][k] = [old EXCEPT !.buf = NoSession] \/ t2.svcs[e][k] = old
      BY <2>6
    <3> HIDE DEF old
    <3>4. QED BY ONLY <3>1, <3>2, <3>3
  <2>8. Moves(t, t2, i, new)
    BY <1>1, <1>2, <2>4, <2>5, <2>6, StatedMoves DEF t1
  <2>9. m \in Yes(SesOf(t, i).id) /\ t2.hal = Append(t.hal, m)
    BY <2>2, <2>5, <2>6 DEF Yes, m
  <2>10. Told(t, t2) /\ t2.failed = t.failed
    BY <2>5, <2>6 DEF Told
  <2>11. Calm(t, queue, b, i) /\ SvcOf(t, i).offloadId # 0
    BY <2>4, CalmUnless
  <2>12. Core(t2, h, b)
    BY <2>4, <2>7, <2>8, <2>9, <2>10, <2>11, CoreMoves
  <2>13. QED BY <2>10, <2>12
<1>5. QED BY <1>3, <1>4

(* OFFLOAD_TO_MICROAPP_FAILURE. *)
LEMMA MicroappFailure ==
  ASSUME NEW t, NEW h, NEW b, Core(t, h, b), Around(h, b), NEW i \in Live(t),
         NEW t2, t2 = Event(t, i, "OFFLOAD_TO_MICROAPP_FAILURE")
  PROVE  Core(t2, h, b) /\ t2.failed = t.failed
<1>1. CASE t.inst[i].state # "OffloadToMicrostackSuccess"
  <2>1. t2 = t
    BY <1>1, RowsOf, NoRow
  <2>2. QED BY <2>1
<1>2. CASE t.inst[i].state = "OffloadToMicrostackSuccess"
  <2>1. t2 = Entered(WithState(t, i, "OffloadToMicroappFailure"), i, "OffloadToMicroappFailure")
    BY <1>2, RowsOf, OnlyRow DEF WithState
  <2>2. t.inst[i].state \in Starting /\ t.inst[i].state # "OffloadReq"
    BY <1>2 DEF Starting
  <2>3. QED BY <2>1, <2>2, CoreUnstacks
<1>3. QED BY <1>1, <1>2

(* UNOFFLOAD_FROM_MICROAPP_SUCCESS. *)
LEMMA MicroappGone ==
  ASSUME NEW t, NEW h, NEW b, Core(t, h, b), Around(h, b), NEW i \in Live(t),
         NEW t2, t2 = Event(t, i, "UNOFFLOAD_FROM_MICROAPP_SUCCESS")
  PROVE  Core(t2, h, b) /\ t2.failed = t.failed
<1>1. CASE t.inst[i].state \notin {"OffloadToMicroappSuccess", "UnOffloadReqFromHAL"}
  <2>1. t2 = t
    BY <1>1, RowsOf, NoRow
  <2>2. QED BY <2>1
<1>2. CASE t.inst[i].state \in {"OffloadToMicroappSuccess", "UnOffloadReqFromHAL"}
  <2>1. t2 = Entered(WithState(t, i, "UnOffloadReqToMicrostack"), i, "UnOffloadReqToMicrostack")
    BY <1>2, RowsOf, OnlyRow DEF WithState
  <2>2. t.inst[i].state # "OffloadReq"
    BY <1>2
  <2>3. QED BY <2>1, <2>2, CoreUnstacks
<1>3. QED BY <1>1, <1>2

(* UNOFFLOAD_FROM_MICROSTACK_SUCCESS. *)
LEMMA MicrostackGone ==
  ASSUME NEW t, NEW h, NEW b, Core(t, h, b), Around(h, b), NEW i \in Live(t),
         NEW t2, t2 = Event(t, i, "UNOFFLOAD_FROM_MICROSTACK_SUCCESS")
  PROVE  Core(t2, h, b) /\ t2.failed = t.failed
<1>1. CASE t.inst[i].state \notin {"OffloadToMicroappFailure", "UnOffloadReqToMicrostack"}
  <2>1. t2 = t
    BY <1>1, RowsOf, NoRow
  <2>2. QED BY <2>1
<1>2. CASE t.inst[i].state = "OffloadToMicroappFailure"
  <2>1. t2 = Entered(WithState(t, i, "OffloadFailure"), i, "OffloadFailure")
    BY <1>2, RowsOf, OnlyRow DEF WithState
  <2>2. t.inst[i].state \in Starting /\ Calm(t, queue, b, i)
    BY <1>2, CalmUnless DEF Starting
  <2>3. QED BY <2>1, <2>2, CoreRefuses
<1>3. CASE t.inst[i].state = "UnOffloadReqToMicrostack"
  <2>1. t2 = Entered(WithState(t, i, "UnoffloadSuccess"), i, "UnoffloadSuccess")
    BY <1>3, RowsOf, OnlyRow DEF WithState
  <2>2. Calm(t, queue, b, i)
    BY <1>3, CalmUnless
  <2>3. QED BY <2>1, <2>2, CoreEnds
<1>4. QED BY <1>1, <1>2, <1>3

(* UNOFFLOAD_REQ, for a session that has been answered. *)
LEMMA UnoffloadEvent ==
  ASSUME NEW t, NEW h, NEW b, Core(t, h, b), Around(h, b), NEW i \in Live(t),
         t.inst[i].state \notin Starting, NEW t2, t2 = Event(t, i, "UNOFFLOAD_REQ")
  PROVE  Core(t2, h, b) /\ t2.failed = t.failed
<1>1. Globals(t) /\ Owned(t)
  BY DEF Core
<1>2. Seated(t, i)
  BY <1>1, LiveParts
<1>3. CASE t.inst[i].state # "OffloadToMicroappSuccess"
  <2>1. t2 = t
    BY <1>3, RowsOf, NoRow
  <2>2. QED BY <2>1
<1>4. CASE t.inst[i].state = "OffloadToMicroappSuccess"
  <2> DEFINE new == "UnOffloadReqFromHAL"
             t1 == WithState(t, i, new)
  <2>1. t2 = Entered(t1, i, new)
    BY <1>4, RowsOf, OnlyRow DEF WithState
  <2>2. t2 = unoffload_to_uapp(t1, i)
    BY <2>1 DEF Entered
  <2>3. /\ new \in OffloadStates /\ new # "Idle" /\ new # "OffloadReq" /\ new \notin Starting
        /\ t.inst[i].state # "OffloadReq"
    BY <1>4 DEF OffloadStates, Starting
  <2> HIDE DEF new, t1
  <2>4. /\ Globals(t1) /\ Seated(t1, i) /\ t1.svcs = t.svcs /\ t1.hal = t.hal /\ t1.bs = t.bs
        /\ t1.failed = t.failed
    BY <1>1, <1>2, <2>3, Stated DEF t1
  <2>5. /\ Globals(t2) /\ SeatsKept(t1, t2, i)
        /\ t2.inst = t1.inst /\ t2.hal = t1.hal /\ t2.bs = t1.bs /\ t2.failed = t1.failed
        /\ \A e \in Endpoints : \A k \in SvcSlots(e) :
              t2.svcs[e][k].offloadId = t1.svcs[e][k].offloadId
    BY <2>2, <2>4, UappUntold
  <2>6. Moves(t, t2, i, new)
    BY <1>1, <1>2, <2>3, <2>4, <2>5, StatedMoves DEF t1
  <2>7. /\ Told(t, t2) /\ t2.failed = t.failed /\ t2.hal = t.hal
        /\ \A e \in Endpoints : \A k \in SvcSlots(e) :
              t2.svcs[e][k].offloadId = t.svcs[e][k].offloadId
    BY <2>4, <2>5 DEF Told
  <2>8. Calm(t, queue, b, i) /\ SvcOf(t, i).offloadId # 0
    BY <2>3, CalmUnless
  <2>9. Core(t2, h, b)
    BY <2>3, <2>6, <2>7, <2>8, CoreMoves
  <2>10. QED BY <2>7, <2>9
<1>5. QED BY <1>3, <1>4

-----------------------------------------------------------------------------
(* The places depend on the instances and the services alone. *)
LEMMA SameOwned ==
  ASSUME NEW t, NEW t2, t2.inst = t.inst, t2.svcs = t.svcs
  PROVE  /\ Owned(t) => Owned(t2)
         /\ Numbered(t) => Numbered(t2)
         /\ Live(t2) = Live(t)
         /\ \A j : SvcOf(t2, j) = SvcOf(t, j) /\ SesOf(t2, j) = SesOf(t, j)
         /\ \A s : (Working(t2, s) <=> Working(t, s)) /\ (Beginning(t2, s) <=> Beginning(t, s))
<1>1. /\ Live(t2) = Live(t)
      /\ \A j : SvcOf(t2, j) = SvcOf(t, j) /\ SesOf(t2, j) = SesOf(t, j)
  BY DEF Live, SvcOf, SesOf
<1>2. Owned(t) => Owned(t2)
  <2>1. \A i : Seated(t, i) => Seated(t2, i)
    BY <1>1 DEF Seated
  <2>2. \A e, k, x : Seat(t2, e, k, x) = Seat(t, e, k, x)
    BY DEF Seat
  <2>3. SUFFICES ASSUME Owned(t) PROVE Owned(t2)
    OBVIOUS
  <2>4. /\ \A i \in Slots : t2.inst[i].state = "Idle" <=> t2.inst[i].svc = 0
        /\ \A i \in Live(t2) : Seated(t2, i)
        /\ \A i, j \in Live(t2) : SesOf(t2, i).id = SesOf(t2, j).id => i = j
    BY <1>1, <2>1, <2>3 DEF Owned
  <2>5. ASSUME NEW e \in Endpoints, NEW k \in SvcSlots(e), NEW x \in SesSlots,
               Seat(t2, e, k, x) # NoSession
        PROVE  /\ \E i \in Live(t2) : t2.inst[i].ep = e /\ t2.inst[i].svc = k /\ t2.inst[i].ses = x
               /\ reg[Seat(t2, e, k, x)].ep = e
               /\ reg[Seat(t2, e, k, x)].acl = t2.svcs[e][k].acl
               /\ reg[Seat(t2, e, k, x)].service = t2.svcs[e][k].service
    BY <1>1, <2>2, <2>3, <2>5 DEF Owned
  <2>6. ASSUME NEW e \in Endpoints, NEW k \in SvcSlots(e),
               \A x \in SesSlots : Seat(t2, e, k, x) = NoSession
        PROVE  t2.svcs[e][k] = FreeService
    BY <2>2, <2>3, <2>6 DEF Owned
  <2>7. QED BY <2>4, <2>5, <2>6 DEF Owned
<1>3. Numbered(t) => Numbered(t2)
  BY <1>1 DEF Numbered
<1>4. \A s : (Working(t2, s) <=> Working(t, s)) /\ (Beginning(t2, s) <=> Beginning(t, s))
  BY <1>1 DEF Working, Beginning
<1>5. QED BY <1>1, <1>2, <1>3, <1>4

(* An instance that waits for nothing asks. *)
LEMMA CoreAsks ==
  ASSUME NEW t, NEW h, NEW b, Core(t, h, b), Around(h, b), NEW i \in Live(t),
         t.inst[i].state = "OffloadReq", Calm(t, queue, b, i), NEW m \in OmToBsMsgs, Asks(m, i),
         Enables(m) => /\ m.offloadId = SvcOf(t, i).offloadId
                       /\ m.acl \in {SvcOf(t, i).acl, NoAcl},
         NEW t2, Globals(t2), t2.inst = t.inst, t2.svcs = t.svcs, t2.hal = t.hal,
         t2.bs = Append(t.bs, m)
  PROVE  Core(t2, h, b)
<1>1. /\ Globals(t) /\ Owned(t) /\ Numbered(t) /\ Ledger(t, h, stateTable)
      /\ ClearsAlone(t, h, queue, b, stateTable)
      /\ OneAsk(t, queue, b) /\ AskSense(t, queue, b) /\ IdsFinite(t.bs)
      /\ h \in Seq(HalToOmMsgs) /\ b \in Seq(BsToOmMsgs) /\ queue \in Queues
      /\ t.bs \in Seq(OmToBsMsgs)
  BY GlobalsParts DEF Core, Around
<1>2. /\ Owned(t2) /\ Numbered(t2) /\ Live(t2) = Live(t)
      /\ \A j : SvcOf(t2, j) = SvcOf(t, j) /\ SesOf(t2, j) = SesOf(t, j)
      /\ \A s : (Working(t2, s) <=> Working(t, s)) /\ (Beginning(t2, s) <=> Beginning(t, s))
  BY <1>1, SameOwned
<1>3. Ledger(t2, h, stateTable)
  BY <1>1, <1>2, LedgerKept
<1>4. /\ InFlight(t2.bs) = InFlight(t.bs) \cup {m}
      /\ \A S : Num(t.bs, S) \in Nat /\ Num(t2.bs, S) = Num(t.bs, S) + Count(m \in S)
  BY <1>1, Appended
<1>5. m.op \in {"CONN_INFO_REQ", "CONN_INFO_CFM", "ENABLE_REQ", "ENABLE_CFM"} /\ m.inst = i
  BY DEF Asks, Enables
<1>6. ClearsAlone(t2, h, queue, b, stateTable)
  <2>1. \A a \in Acls : ~ClearMsg(m, a)
    BY <1>5 DEF ClearMsg
  <2>2. \A s \in Sessions, a \in Acls : Before(t2.hal, Gone(s), Cleared(a))
    BY <1>1 DEF ClearsAlone
  <2>3. \A l \in InFlight(b) \cup InFlight(t2.bs) : \A a \in Acls :
           ClearMsg(l, a) => l \in InFlight(b) \cup InFlight(t.bs)
    BY <1>4, <2>1
  <2>4. InFlight(h) \subseteq InFlight(h) /\ Live(t2) \subseteq Live(t)
    BY <1>2
  <2>5. QED BY <1>1, <2>2, <2>3, <2>4, ClearsKept
<1>7. OneAsk(t2, queue, b)
  <2> SUFFICES ASSUME NEW j \in Slots, NEW a \in Acls
               PROVE  AsksOf(t2, queue, b, j, a) <= Count(t2.inst[j].state = "OffloadReq")
    BY DEF OneAsk
  <2> DEFINE x == Num(t.bs, Asking(j))
             y == Num(queue[a], Asking(j))
             z == Num(b, Asking(j))
             c == Count(m \in Asking(j))
             o == Count(t.inst[j].state = "OffloadReq")
  <2>1. x \in Nat /\ y \in Nat /\ z \in Nat
    BY <1>1, AskNumbers
  <2>2. AsksOf(t, queue, b, j, a) = x + y + z /\ AsksOf(t2, queue, b, j, a) = (x + c) + y + z
    BY <1>4 DEF AsksOf
  <2>3. AsksOf(t, queue, b, j, a) <= o
    BY <1>1 DEF OneAsk
  <2>4. t2.inst[j].state = t.inst[j].state
    OBVIOUS
  <2>5. j # i => c = 0
    BY <1>5 DEF Asking, Asks, Count
  <2>6. c \in {0, 1} /\ (j = i => o = 1)
    BY DEF Count
  <2>7. j = i => AsksOf(t, queue, b, j, a) = 0
    BY DEF Calm
  <2> HIDE DEF x, y, z, c
  <2>8. AsksOf(t2, queue, b, j, a) <= o
    <3> HIDE DEF o
    <3>1. QED BY ONLY <2>1, <2>2, <2>3, <2>5, <2>6, <2>7
  <2>9. QED BY <2>8
<1>8. AskSense(t2, queue, b)
  <2>1. \A l \in InFlight(t2.bs) : Enables(l) =>
          /\ l.offloadId = SvcOf(t2, l.inst).offloadId
          /\ l.acl \in {SvcOf(t2, l.inst).acl, NoAcl}
    BY <1>1, <1>2, <1>4, <1>5 DEF AskSense
  <2>2. QED BY <1>1, <1>2, <2>1 DEF AskSense
<1>9. IdsFinite(t2.bs)
  BY <1>1, <1>4, <1>5 DEF IdsFinite
<1>10. QED BY <1>2, <1>3, <1>6, <1>7, <1>8, <1>9 DEF Core

(* What offload_to_ustack() asks. *)
LEMMA UstackAsks ==
  ASSUME NEW t, NEW h, NEW b, Core(t, h, b), Around(h, b), NEW i \in Live(t),
         t.inst[i].state = "OffloadReq", Calm(t, queue, b, i),
         NEW t2, t2 = enable_svc(t, i, "ENABLE", {}) \/ t2 = offload_to_ustack(t, i)
  PROVE  Core(t2, h, b) /\ t2.failed = t.failed
<1>1. Globals(t) /\ Owned(t) /\ reg \in Registrations
  BY DEF Core, Around
<1> DEFINE svc == SvcOf(t, i)
           info == [op |-> "CONN_INFO_REQ", inst |-> i, acl |-> svc.acl]
           ask == [op |-> "ENABLE_REQ", inst |-> i, why |-> "ENABLE", acl |-> btConnId(svc),
                   ep |-> IF gattId[t.inst[i].ep] = "ready" THEN t.inst[i].ep ELSE NoEndpoint,
                   offloadId |-> svc.offloadId, handles |-> Users(svc) \ {}]
<1>2. Seated(t, i) /\ reg[SesOf(t, i).id].acl = svc.acl /\ SesOf(t, i).id \in Sessions
  BY <1>1, LiveParts DEF Seated
<1>3. /\ i \in Slots /\ t.inst[i].ep \in Endpoints /\ svc \in Service
  BY <1>1, <1>2, SeatedParts
<1>4. /\ svc.offloadId \in Nat /\ btConnId(svc) \in Acls \cup {NoAcl}
      /\ btConnId(svc) \in {svc.acl, NoAcl} /\ Users(svc) \subseteq Sessions
  BY <1>3, ServiceParts
<1>5. svc.acl \in Acls
  BY <1>1, <1>2, RegParts
<1>6. t2 = ToBs(t, ask) \/ t2 = ToBs(t, info)
  BY DEF offload_to_ustack, enable_svc
<1> HIDE DEF svc
<1>7. /\ info \in OmToBsMsgs /\ Asks(info, i)
      /\ Enables(info) => info.offloadId = svc.offloadId /\ info.acl \in {svc.acl, NoAcl}
  <2>1. info \in OmToBsMsgs
    BY <1>3, <1>5 DEF OmToBsMsgs
  <2>2. Asks(info, i) /\ ~Enables(info)
    BY DEF Asks, Enables
  <2>3. QED BY <2>1, <2>2
<1>8. /\ ask \in OmToBsMsgs /\ Asks(ask, i)
      /\ Enables(ask) => ask.offloadId = svc.offloadId /\ ask.acl \in {svc.acl, NoAcl}
  <2>1. ask \in EnableReqs
    BY <1>3, <1>4 DEF EnableReqs
  <2>2. ask \in OmToBsMsgs
    BY <2>1 DEF OmToBsMsgs
  <2>3. Asks(ask, i) /\ ask.offloadId = svc.offloadId /\ ask.acl \in {svc.acl, NoAcl}
    BY <1>4 DEF Asks, Enables
  <2>4. QED BY <2>2, <2>3
<1> HIDE DEF info, ask
<1>9. PICK m : /\ t2 = ToBs(t, m) /\ m \in OmToBsMsgs /\ Asks(m, i)
               /\ Enables(m) => m.offloadId = svc.offloadId /\ m.acl \in {svc.acl, NoAcl}
  BY <1>6, <1>7, <1>8
<1>10. /\ Globals(t2) /\ t2.inst = t.inst /\ t2.svcs = t.svcs /\ t2.hal = t.hal
       /\ t2.bs = Append(t.bs, m) /\ t2.failed = t.failed
  BY <1>1, <1>9, QueueFields
<1>11. Enables(m) => m.offloadId = SvcOf(t, i).offloadId /\ m.acl \in {SvcOf(t, i).acl, NoAcl}
  BY <1>9 DEF svc
<1>12. Core(t2, h, b)
  BY <1>9, <1>10, <1>11, CoreAsks
<1>13. QED BY <1>10, <1>12

(* A service gets the id its enabling has been answered with. *)
LEMMA CoreNumbers ==
  ASSUME NEW t, NEW h, NEW b, Core(t, h, b), Around(h, b), NEW i \in Live(t),
         t.inst[i].state = "OffloadReq", Calm(t, queue, b, i),
         NEW id \in Nat, id # 0 \/ id = SvcOf(t, i).offloadId,
         NEW t2, t2 = WithSvc(t, i, [SvcOf(t, i) EXCEPT !.offloadId = id])
  PROVE  /\ Core(t2, h, b) /\ Live(t2) = Live(t) /\ Calm(t2, queue, b, i)
         /\ SvcOf(t2, i).offloadId = id
         /\ t2.inst = t.inst /\ t2.failed = t.failed
<1>1. /\ Globals(t) /\ Owned(t) /\ Numbered(t) /\ Ledger(t, h, stateTable)
      /\ ClearsAlone(t, h, queue, b, stateTable)
      /\ OneAsk(t, queue, b) /\ AskSense(t, queue, b) /\ IdsFinite(t.bs)
      /\ h \in Seq(HalToOmMsgs) /\ b \in Seq(BsToOmMsgs) /\ queue \in Queues /\ Acls # {}
  BY DEF Core, Around
<1>2. Seated(t, i) /\ SvcOf(t, i) \in Service /\ i \in Slots
  BY <1>1, LiveParts, SeatedParts
<1> DEFINE old == SvcOf(t, i)
           v == [old EXCEPT !.offloadId = id]
<1>3. /\ v \in Service /\ v.acl = old.acl /\ v.service = old.service /\ v.offloadId = id
      /\ \A x \in SesSlots : v.sess[x].id = old.sess[x].id
  BY <1>2 DEF Service
<1>4. t2 = WithSvc(t, i, v)
  OBVIOUS
<1> HIDE DEF v, old
<1>5. /\ Globals(t2) /\ SeatsKept(t, t2, i)
      /\ t2.inst = t.inst /\ t2.hal = t.hal /\ t2.bs = t.bs /\ t2.awm = t.awm
      /\ t2.failed = t.failed
      /\ SvcOf(t2, i) = v
      /\ \A e \in Endpoints : \A k \in SvcSlots(e) :
            t2.svcs[e][k] = IF e = t.inst[i].ep /\ k = t.inst[i].svc THEN v ELSE t.svcs[e][k]
  <2>1. /\ v.acl = SvcOf(t, i).acl /\ v.service = SvcOf(t, i).service
        /\ \A x \in SesSlots : v.sess[x].id = SvcOf(t, i).sess[x].id
    BY <1>3 DEF old
  <2>2. v \in Service /\ Globals(t) /\ Seated(t, i)
    BY <1>1, <1>2, <1>3
  <2>3. QED BY ONLY <1>4, <2>1, <2>2, ServiceChanged
<1>6. Moves(t, t2, i, "OffloadReq")
  <2>1. t.inst \in [Slots -> Instance]
    BY <1>1, GlobalsParts
  <2>2. t.inst = [t.inst EXCEPT ![i] = [@ EXCEPT !.state = "OffloadReq"]]
    BY <1>2, <2>1 DEF Instance
  <2>3. QED BY <1>5, <2>2 DEF Moves
<1>7. /\ Owned(t2) /\ Live(t2) = Live(t)
      /\ \A j \in Live(t) : /\ SesOf(t2, j).id = SesOf(t, j).id
                            /\ SvcOf(t2, j).acl = SvcOf(t, j).acl
  <2>1. "OffloadReq" \in OffloadStates /\ "OffloadReq" # "Idle"
    BY DEF OffloadStates
  <2>2. QED BY <1>1, <1>6, <2>1, OwnedMoves
<1>8. \A j \in Live(t) :
         SvcOf(t2, j) = IF t.inst[j].ep = t.inst[i].ep /\ t.inst[j].svc = t.inst[i].svc
                        THEN v ELSE SvcOf(t, j)
  <2> SUFFICES ASSUME NEW j \in Live(t)
               PROVE  SvcOf(t2, j) = IF t.inst[j].ep = t.inst[i].ep /\ t.inst[j].svc = t.inst[i].svc
                                     THEN v ELSE SvcOf(t, j)
    OBVIOUS
  <2>1. t.inst[j].ep \in Endpoints /\ t.inst[j].svc \in SvcSlots(t.inst[j].ep)
    BY <1>1, LiveParts DEF Seated
  <2>2. SvcOf(t2, j) = t2.svcs[t.inst[j].ep][t.inst[j].svc]
    BY <1>5 DEF SvcOf
  <2>3. SvcOf(t, j) = t.svcs[t.inst[j].ep][t.inst[j].svc]
    BY DEF SvcOf
  <2>4. QED BY ONLY <1>5, <2>1, <2>2, <2>3
<1>9. Numbered(t2)
  <2> SUFFICES ASSUME NEW j \in Live(t), SvcOf(t2, j).offloadId = 0
               PROVE  t.inst[j].state = "OffloadReq"
    BY <1>5, <1>7 DEF Numbered
  <2>1. CASE t.inst[j].ep = t.inst[i].ep /\ t.inst[j].svc = t.inst[i].svc
    <3>1. SvcOf(t, j) = SvcOf(t, i)
      BY <2>1 DEF SvcOf
    <3>2. SvcOf(t, i).offloadId = 0
      BY <1>3, <1>8, <2>1
    <3>3. QED BY <1>1, <3>1, <3>2 DEF Numbered
  <2>2. CASE ~(t.inst[j].ep = t.inst[i].ep /\ t.inst[j].svc = t.inst[i].svc)
    BY <1>1, <1>8, <2>2 DEF Numbered
  <2>3. QED BY <2>1, <2>2
<1>10. Ledger(t2, h, stateTable)
  <2>1. \A s : (Working(t2, s) => Working(t, s)) /\ (Beginning(t2, s) => Beginning(t, s))
    BY <1>5, <1>7 DEF Working, Beginning
  <2>2. QED BY <1>1, <1>5, <2>1, LedgerKept
<1>11. ClearsAlone(t2, h, queue, b, stateTable)
  <2>1. \A s \in Sessions, a \in Acls : Before(t2.hal, Gone(s), Cleared(a))
    BY <1>1, <1>5 DEF ClearsAlone
  <2>2. QED BY <1>1, <1>5, <1>7, <2>1, ClearsKept
<1>12. OneAsk(t2, queue, b) /\ Calm(t2, queue, b, i)
  BY <1>1, <1>5 DEF OneAsk, Calm, AsksOf
<1>13. AskSense(t2, queue, b)
  <2>1. ASSUME NEW j \in Live(t), t.inst[j].state = "OffloadReq", ~Calm(t, queue, b, j)
        PROVE  SvcOf(t2, j) = SvcOf(t, j)
    <3>1. CASE t.inst[j].ep = t.inst[i].ep
      <4>1. t.inst[j].state \in Starting /\ t.inst[i].state \in Starting
        BY <2>1 DEF Starting
      <4>2. j = i
        BY <3>1, <4>1, OnlyBeginner
      <4>3. QED BY <2>1, <4>2
    <3>2. CASE t.inst[j].ep # t.inst[i].ep
      BY <1>8, <3>2
    <3>3. QED BY <3>1, <3>2
  <2>2. QED BY <1>1, <1>5, <2>1, SenseKept
<1>14. QED BY <1>1, <1>3, <1>5, <1>7, <1>9, <1>10, <1>11, <1>12, <1>13 DEF Core

-----------------------------------------------------------------------------
(* Calls that change neither an instance's state nor an id. *)

(* A word to the microapps, or one to the microstack that asks nothing. *)
LEMMA CoreTold ==
  ASSUME NEW t, NEW h, NEW b, Core(t, h, b), Around(h, b), NEW t2, Globals(t2),
         t2.inst = t.inst, t2.svcs = t.svcs, t2.hal = t.hal, Told(t, t2)
  PROVE  Core(t2, h, b)
<1>1. /\ Globals(t) /\ Owned(t) /\ Numbered(t) /\ Ledger(t, h, stateTable)
      /\ ClearsAlone(t, h, queue, b, stateTable)
      /\ OneAsk(t, queue, b) /\ AskSense(t, queue, b) /\ IdsFinite(t.bs)
      /\ h \in Seq(HalToOmMsgs) /\ b \in Seq(BsToOmMsgs) /\ queue \in Queues
  BY DEF Core, Around
<1>2. /\ Owned(t2) /\ Numbered(t2) /\ Live(t2) = Live(t)
      /\ \A j : SvcOf(t2, j) = SvcOf(t, j) /\ SesOf(t2, j) = SesOf(t, j)
      /\ \A s : (Working(t2, s) <=> Working(t, s)) /\ (Beginning(t2, s) <=> Beginning(t, s))
  BY <1>1, SameOwned
<1>3. Ledger(t2, h, stateTable)
  BY <1>1, <1>2, LedgerKept
<1>4. /\ \A j : Num(t2.bs, Asking(j)) = Num(t.bs, Asking(j))
      /\ \A m \in InFlight(t2.bs) : Enables(m) => m \in InFlight(t.bs)
      /\ \A m \in InFlight(t2.bs) : \A a \in Acls : ClearMsg(m, a) => m \in InFlight(t.bs)
      /\ IdsFinite(t2.bs)
  BY <1>1, ToldKeeps
<1>5. ClearsAlone(t2, h, queue, b, stateTable)
  <2>1. \A s \in Sessions, a \in Acls : Before(t2.hal, Gone(s), Cleared(a))
    BY <1>1 DEF ClearsAlone
  <2>2. QED BY <1>1, <1>2, <1>4, <2>1, ClearsKept
<1>6. OneAsk(t2, queue, b)
  BY <1>1, <1>4, AsksKept
<1>7. AskSense(t2, queue, b)
  BY <1>1, <1>2, <1>4 DEF AskSense
<1>8. QED BY <1>2, <1>3, <1>4, <1>5, <1>6, <1>7 DEF Core

(* A change of a service that is not about its places, with such a word. *)
LEMMA CoreSame ==
  ASSUME NEW t, NEW h, NEW b, Core(t, h, b), Around(h, b), NEW i \in Live(t),
         NEW t2, Globals(t2), SeatsKept(t, t2, i),
         t2.inst = t.inst, t2.hal = t.hal, t2.failed = t.failed, Told(t, t2),
         \A e \in Endpoints : \A k \in SvcSlots(e) :
            t2.svcs[e][k].offloadId = t.svcs[e][k].offloadId
  PROVE  Core(t2, h, b)
<1> DEFINE new == t.inst[i].state
<1>1. Globals(t) /\ Owned(t)
  BY DEF Core
<1>2. i \in Slots /\ t.inst \in [Slots -> Instance] /\ new \in OffloadStates /\ new # "Idle"
  BY <1>1, LiveParts, GlobalsParts
<1>3. t.inst = [t.inst EXCEPT ![i] = [@ EXCEPT !.state = new]]
  BY <1>2 DEF Instance
<1>4. Moves(t, t2, i, new)
  BY <1>3 DEF Moves
<1> HIDE DEF new
<1>5. new = t.inst[i].state
  BY DEF new
<1>6. QED BY <1>2, <1>4, <1>5, CoreMoves

(* The look-up of a session's instance. *)
LEMMA FindSession ==
  ASSUME NEW t, NEW s, NEW i, i = offload_instance_find_by_gatt_session_id(t, s)
  PROVE  /\ i # 0 => i \in Live(t) /\ SesOf(t, i).id = s
         /\ i = 0 => ~Working(t, s)
         /\ i \in {0} \cup Slots
<1> DEFINE found == {j \in Slots : t.inst[j].svc # 0 /\ SesOf(t, j).id = s}
<1>1. found \in SUBSET Nat /\ found \subseteq Slots /\ 0 \notin found
  BY NumInstancesAssumption DEF Slots
<1>2. i = First(found)
  BY DEF offload_instance_find_by_gatt_session_id
<1>3. \A j \in found : j \in Live(t) /\ SesOf(t, j).id = s
  BY DEF Live
<1>4. found = {} => ~Working(t, s)
  BY DEF Working, Live
<1> HIDE DEF found
<1>5. IF found = {} THEN i = 0 ELSE i \in found
  BY <1>1, <1>2, FirstIsLeast
<1>6. QED BY <1>1, <1>3, <1>4, <1>5

(* The answer to a clear is no session's. *)
LEMMA LedgerOther ==
  ASSUME NEW t, Globals(t), NEW h, NEW st, Ledger(t, h, st), NEW a \in Acls, NEW m \in Cleared(a),
         NEW t2, t2.hal = Append(t.hal, m),
         \A s : (Working(t2, s) <=> Working(t, s)) /\ (Beginning(t2, s) <=> Beginning(t, s))
  PROVE  Ledger(t2, h, st)
<1>1. t.hal \in Seq(OmToHalMsgs) /\ m \in OmToHalMsgs
  BY GlobalsParts, HalMessages
<1>2. /\ \A S : /\ Num(t.hal, S) \in Nat /\ Num(t2.hal, S) = Num(t.hal, S) + Count(m \in S)
      /\ \A A, B : A \cap B = {} /\ Before(t.hal, A, B) /\ (m \notin A \/ Where(t.hal, B) = {})
              => Before(t2.hal, A, B)
  BY <1>1, Appended
<1>3. \A s \in Sessions : m \notin Yes(s) /\ m \notin No(s) /\ m \notin Gone(s)
  BY HalMessages
<1>4. ASSUME NEW s \in Sessions
      PROVE  /\ Num(t2.hal, Yes(s)) = Num(t.hal, Yes(s)) /\ Num(t2.hal, No(s)) = Num(t.hal, No(s))
             /\ Num(t2.hal, Gone(s)) = Num(t.hal, Gone(s))
             /\ Before(t2.hal, Yes(s), Gone(s))
  <2>1. Count(m \in Yes(s)) = 0 /\ Count(m \in No(s)) = 0 /\ Count(m \in Gone(s)) = 0
    BY <1>3 DEF Count
  <2>2. Before(t.hal, Yes(s), Gone(s)) /\ Yes(s) \cap Gone(s) = {}
    BY HalMessages DEF Ledger
  <2>3. QED BY <1>2, <1>3, <2>1, <2>2
<1>5. ASSUME NEW s \in Sessions
      PROVE  Tokens(t2, h, s) = Tokens(t, h, s) /\ Starts(t2, h, s) = Starts(t, h, s)
  BY <1>4 DEF Tokens, Starts, Count
<1>6. QED BY <1>4, <1>5 DEF Ledger

(* A connection that has been cleared is answered. *)
LEMMA CoreClearAnswered ==
  ASSUME NEW t, NEW h, NEW b, NEW b2, Core(t, h, b2), Around(h, b2),
         InFlight(b2) \subseteq InFlight(b), ClearsAlone(t, h, queue, b, stateTable),
         NEW a \in Acls,
         BeingCleared(t, h, queue, b, a), Live(t) = {},
         NEW m \in Cleared(a), NEW t2, t2 = ToHal(t, m)
  PROVE  Core(t2, h, b2) /\ t2.failed = t.failed
<1>1. /\ Globals(t) /\ Owned(t) /\ Numbered(t) /\ Ledger(t, h, stateTable)
      /\ OneAsk(t, queue, b2) /\ AskSense(t, queue, b2) /\ IdsFinite(t.bs)
  BY DEF Core, Around
<1>2. m \in OmToHalMsgs /\ m = [op |-> "CLEAR_RSP", acl |-> a]
  BY HalMessages DEF Cleared
<1>3. /\ Globals(t2) /\ t2.inst = t.inst /\ t2.svcs = t.svcs /\ t2.hal = Append(t.hal, m)
      /\ t2.bs = t.bs /\ t2.failed = t.failed
  BY <1>1, <1>2, QueueFields
<1>4. /\ Owned(t2) /\ Numbered(t2) /\ Live(t2) = Live(t)
      /\ \A j : SvcOf(t2, j) = SvcOf(t, j) /\ SesOf(t2, j) = SesOf(t, j)
      /\ \A s : (Working(t2, s) <=> Working(t, s)) /\ (Beginning(t2, s) <=> Beginning(t, s))
  BY <1>1, <1>3, SameOwned
<1>5. Ledger(t2, h, stateTable)
  BY <1>1, <1>3, <1>4, LedgerOther
<1>6. t.hal \in Seq(OmToHalMsgs)
  BY <1>1, GlobalsParts
<1>7. /\ InFlight(t2.hal) = InFlight(t.hal) \cup {m}
      /\ \A A, B : A \cap B = {} /\ Before(t.hal, A, B) /\ (m \notin A \/ Where(t.hal, B) = {})
              => Before(t2.hal, A, B)
  BY ONLY <1>2, <1>3, <1>6, Appended
<1>8. ClearsAlone(t2, h, queue, b2, stateTable)
  <2>1. \A d \in Acls : BeingCleared(t2, h, queue, b2, d) => BeingCleared(t, h, queue, b, d)
    <3> SUFFICES ASSUME NEW d \in Acls, BeingCleared(t2, h, queue, b2, d), d # a
                 PROVE  BeingCleared(t, h, queue, b, d)
      OBVIOUS
    <3>1. [op |-> "CLEAR_RSP", acl |-> d] # m
      BY <1>2
    <3>2. QED BY <1>3, <1>7, <3>1 DEF BeingCleared, Emptied
  <2>2. ASSUME NEW s \in Sessions, NEW d \in Acls
        PROVE  Before(t2.hal, Gone(s), Cleared(d))
    <3>1. Before(t.hal, Gone(s), Cleared(d))
      BY DEF ClearsAlone
    <3>2. Gone(s) \cap Cleared(d) = {} /\ m \notin Gone(s)
      BY HalMessages
    <3>3. QED BY <1>7, <3>1, <3>2
  <2>3. QED BY <1>4, <2>1, <2>2 DEF ClearsAlone
<1>9. OneAsk(t2, queue, b2) /\ AskSense(t2, queue, b2)
  BY <1>1, <1>3, <1>4 DEF OneAsk, AskSense, AsksOf
<1>10. QED BY <1>1, <1>3, <1>4, <1>5, <1>8, <1>9 DEF Core

-----------------------------------------------------------------------------
(* The handlers of the profile manager, each on the globals t it finds. *)

(* The request to end a session never finds it still starting. *)
LEMMA Unoffloads ==
  ASSUME NEW t, NEW h, NEW b, Core(t, h, b), Around(h, b), h # <<>>,
         NEW s \in Sessions, Head(h) \in Unreg(s),
         NEW i, i = offload_instance_find_by_gatt_session_id(t, s),
         NEW t2, t2 = IF i = 0 THEN t ELSE Event(t, i, "UNOFFLOAD_REQ")
  PROVE  Core(t2, Tail(h), b) /\ Around(Tail(h), b) /\ t2.failed = t.failed
<1>1. Globals(t) /\ Owned(t) /\ Ledger(t, h, stateTable) /\ h \in Seq(HalToOmMsgs)
  BY DEF Core, Around
<1>2. Core(t, Tail(h), b) /\ Around(Tail(h), b)
  <2>1. Head(h).op # "REGISTER"
    BY DEF Unreg
  <2>2. QED BY <2>1, CoreTakesH
<1>3. CASE i = 0
  BY <1>2, <1>3
<1>4. CASE i # 0
  <2>1. i \in Live(t) /\ SesOf(t, i).id = s
    BY <1>4, FindSession
  <2>2. t.inst[i].state \notin Starting
    <3> SUFFICES ASSUME t.inst[i].state \in Starting PROVE FALSE
      OBVIOUS
    <3>1. Beginning(t, s)
      BY <2>1 DEF Beginning
    <3>2. stateTable[s] = "OPENING" /\ Num(h, Reg(s)) = 0
      BY <1>1, <3>1, EntryOf
    <3>3. 1 \in Where(h, Unreg(s))
      BY <1>1 DEF Where
    <3>4. Where(h, Reg(s)) # {}
      BY <1>1, <3>2, <3>3 DEF Ledger
    <3>5. QED BY <1>1, <3>2, <3>4, WhereFinite
  <2>3. t2 = Event(t, i, "UNOFFLOAD_REQ")
    BY <1>4
  <2>4. QED BY <1>2, <2>1, <2>2, <2>3, UnoffloadEvent
<1>5. QED BY <1>3, <1>4

(* microstack_gatt_cb() on CONN_INFO_CFM. *)
LEMMA Informs ==
  ASSUME NEW t, NEW h, NEW b, Core(t, h, b), Around(h, b), b # <<>>,
         Head(b).op = "CONN_INFO_CFM", NEW i, i = Head(b).inst,
         NEW t2, t2 = CASE ~Head(b).ok -> Event(t, i, "OFFLOAD_TO_MICROSTACK_FAILURE")
                        [] Head(b).ok /\ t.inst[i].svc = 0 -> Fail(t)
                        [] OTHER -> enable_svc(WithSvc(t, i, [SvcOf(t, i) EXCEPT !.conn = TRUE]),
                                               i, "ENABLE", {})
  PROVE  Core(t2, h, Tail(b)) /\ Around(h, Tail(b)) /\ t2.failed = t.failed
<1>1. Globals(t) /\ Owned(t) /\ OneAsk(t, queue, b) /\ b \in Seq(BsToOmMsgs) /\ queue \in Queues
  BY DEF Core, Around
<1>2. Asks(Head(b), i)
  BY DEF Asks
<1>3. /\ Core(t, h, Tail(b)) /\ Around(h, Tail(b)) /\ Calm(t, queue, Tail(b), i)
      /\ Head(b) \in InFlight(b) /\ Head(b) \in BsToOmMsgs
  BY <1>2, CoreTakesB
<1>4. i \in Live(t) /\ t.inst[i].state = "OffloadReq"
  <2>1. PICK a \in Acls : TRUE
    BY DEF Around
  <2>2. QED BY <1>1, <1>2, <1>3, <2>1, AskerWaits
<1>5. t.inst[i].svc # 0 /\ Seated(t, i)
  BY <1>1, <1>4, LiveParts DEF Live
<1>6. Head(b).ok \in BOOLEAN
  BY <1>3 DEF BsToOmMsgs
<1>7. CASE ~Head(b).ok
  <2>1. PICK no \in BOOLEAN : ~no
    OBVIOUS
  <2>2. t2 = Event(t, i, MicrostackOffloaded(no))
    BY <1>7, <2>1 DEF MicrostackOffloaded
  <2>3. QED BY <1>3, <1>4, <2>1, <2>2, MicrostackEvent
<1>8. CASE Head(b).ok
  <2> DEFINE old == SvcOf(t, i)
             v == [old EXCEPT !.conn = TRUE]
             t1 == WithSvc(t, i, v)
  <2>1. t2 = enable_svc(t1, i, "ENABLE", {})
    BY <1>5, <1>8
  <2>2. old \in Service
    BY <1>1, <1>5, SeatedParts
  <2>3. /\ v \in Service /\ v.acl = SvcOf(t, i).acl /\ v.service = SvcOf(t, i).service
        /\ v.offloadId = old.offloadId
        /\ \A x \in SesSlots : v.sess[x].id = SvcOf(t, i).sess[x].id
    BY <2>2 DEF Service
  <2> HIDE DEF old, v
  <2>4. t1 = WithSvc(t, i, v)
    OBVIOUS
  <2> HIDE DEF t1
  <2>5. /\ Globals(t1) /\ SeatsKept(t, t1, i)
        /\ t1.inst = t.inst /\ t1.hal = t.hal /\ t1.bs = t.bs /\ t1.awm = t.awm
        /\ t1.failed = t.failed
        /\ \A e \in Endpoints : \A k \in SvcSlots(e) :
              t1.svcs[e][k] = IF e = t.inst[i].ep /\ k = t.inst[i].svc THEN v ELSE t.svcs[e][k]
    BY <1>1, <1>5, <2>3, <2>4, ServiceChanged
  <2>6. \A e \in Endpoints : \A k \in SvcSlots(e) :
           t1.svcs[e][k].offloadId = t.svcs[e][k].offloadId
    BY <2>3, <2>5 DEF old, SvcOf
  <2>7. Told(t, t1)
    BY <2>5 DEF Told
  <2>8. Core(t1, h, Tail(b))
    BY <1>3, <1>4, <2>5, <2>6, <2>7, CoreSame
  <2>9. i \in Live(t1) /\ t1.inst[i].state = "OffloadReq" /\ Calm(t1, queue, Tail(b), i)
    BY <1>3, <1>4, <2>5 DEF Live, Calm, AsksOf
  <2>10. Core(t2, h, Tail(b)) /\ t2.failed = t1.failed
    BY <1>3, <2>1, <2>8, <2>9, UstackAsks
  <2>11. QED BY <1>3, <2>5, <2>10
<1>9. QED BY <1>6, <1>7, <1>8

(* An instance that the microstack answers for a close, or one long given back. *)
LEMMA Leaves ==
  ASSUME NEW t, NEW h, NEW b, Core(t, h, b), Around(h, b), NEW i \in Slots,
         NEW t2, t2 = Event(t, i, "UNOFFLOAD_FROM_MICROSTACK_SUCCESS")
  PROVE  Core(t2, h, b) /\ t2.failed = t.failed
<1>1. CASE i \in Live(t)
  BY <1>1, MicrostackGone
<1>2. CASE i \notin Live(t)
  <2>1. t.inst[i].state = "Idle"
    BY <1>2 DEF Core, Owned, Live
  <2>2. Rows("Idle", "UNOFFLOAD_FROM_MICROSTACK_SUCCESS") = {}
    BY RowsOf
  <2>3. t2 = t
    BY <2>1, <2>2, NoRow
  <2>4. QED BY <2>3
<1>3. QED BY <1>1, <1>2

(* microstack_gatt_cb() on ENABLE_CFM. *)
LEMMA Enabled ==
  ASSUME NEW t, NEW h, NEW b, Core(t, h, b), Around(h, b), b # <<>>,
         Head(b).op = "ENABLE_CFM", NEW i, i = Head(b).inst,
         NEW t2, t2 = CASE Head(b).why = "DISABLE" ->
                             IF Head(b).ok THEN Event(t, i, "UNOFFLOAD_FROM_MICROSTACK_SUCCESS")
                             ELSE t
                        [] Head(b).why = "ENABLE" /\ t.inst[i].svc = 0 -> Fail(t)
                        [] OTHER -> Event(WithSvc(t, i, [SvcOf(t, i) EXCEPT
                                                           !.offloadId = Head(b).offloadId]),
                                          i, MicrostackOffloaded(Head(b).ok))
  PROVE  Core(t2, h, Tail(b)) /\ Around(h, Tail(b)) /\ t2.failed = t.failed
<1>1. /\ Globals(t) /\ Owned(t) /\ OneAsk(t, queue, b) /\ AskSense(t, queue, b)
      /\ b \in Seq(BsToOmMsgs) /\ queue \in Queues
  BY DEF Core, Around
<1>2. /\ Core(t, h, Tail(b)) /\ Around(h, Tail(b))
      /\ Asks(Head(b), i) => Calm(t, queue, Tail(b), i)
      /\ Head(b) \in InFlight(b) /\ Head(b) \in BsToOmMsgs
  BY CoreTakesB
<1>3. i \in Slots /\ Head(b).why \in {"ENABLE", "DISABLE"} /\ Head(b).ok \in BOOLEAN
        /\ Head(b).offloadId \in Nat
  BY <1>2 DEF BsToOmMsgs
<1>4. CASE Head(b).why = "DISABLE"
  <2>1. t2 = Event(t, i, "UNOFFLOAD_FROM_MICROSTACK_SUCCESS") \/ t2 = t
    BY <1>4
  <2>2. QED BY <1>2, <1>3, <2>1, Leaves
<1>5. CASE Head(b).why = "ENABLE"
  <2>1. Enables(Head(b)) /\ Asks(Head(b), i)
    BY <1>5 DEF Asks, Enables
  <2>2. i \in Live(t) /\ t.inst[i].state = "OffloadReq"
    <3>1. PICK a \in Acls : TRUE
      BY DEF Around
    <3>2. QED BY <1>1, <1>2, <2>1, <3>1, AskerWaits
  <2>3. t.inst[i].svc # 0
    BY <2>2 DEF Live
  <2>4. PICK id \in Nat : id = Head(b).offloadId
    BY <1>3
  <2>5. PICK ok \in BOOLEAN : ok <=> Head(b).ok
    BY <1>3
  <2>6. IF ok THEN id # 0 ELSE id = SvcOf(t, i).offloadId
    BY <1>1, <1>2, <2>1, <2>4, <2>5 DEF AskSense
  <2> DEFINE t1 == WithSvc(t, i, [SvcOf(t, i) EXCEPT !.offloadId = id])
  <2>7. t2 = Event(t1, i, MicrostackOffloaded(ok))
    <3>1. MicrostackOffloaded(ok) = MicrostackOffloaded(Head(b).ok)
      BY <2>5 DEF MicrostackOffloaded
    <3>2. t2 = Event(t1, i, MicrostackOffloaded(Head(b).ok))
      BY <1>5, <2>3, <2>4
    <3>3. QED BY <3>1, <3>2
  <2>8. /\ Core(t1, h, Tail(b)) /\ Live(t1) = Live(t) /\ Calm(t1, queue, Tail(b), i)
        /\ SvcOf(t1, i).offloadId = id /\ t1.failed = t.failed
    BY <1>2, <2>1, <2>2, <2>6, CoreNumbers
  <2> HIDE DEF t1
  <2>9. ok => SvcOf(t1, i).offloadId # 0
    BY <2>6, <2>8
  <2>10. Core(t2, h, Tail(b)) /\ t2.failed = t1.failed
    BY <1>2, <2>2, <2>7, <2>8, <2>9, MicrostackEvent
  <2>11. QED BY <1>2, <2>8, <2>10
<1>6. QED BY <1>3, <1>4, <1>5

(* microstack_gatt_cb() on DISABLE_CFM. *)
LEMMA Disabled ==
  ASSUME NEW t, NEW h, NEW b, Core(t, h, b), Around(h, b), b # <<>>,
         Head(b).op = "DISABLE_CFM",
         NEW t2, t2 = IF Head(b).why = "CLEAR"
                      THEN ToHal(t, [op |-> "CLEAR_RSP", acl |-> Head(b).acl])
                      ELSE Event(t, Head(b).inst, "UNOFFLOAD_FROM_MICROSTACK_SUCCESS")
  PROVE  Core(t2, h, Tail(b)) /\ Around(h, Tail(b)) /\ t2.failed = t.failed
<1>1. /\ Core(t, h, Tail(b)) /\ Around(h, Tail(b))
      /\ Head(b) \in InFlight(b) /\ Head(b) \in BsToOmMsgs
  BY CoreTakesB
<1>2. CASE Head(b).why = "CLEAR"
  <2>1. Head(b).acl \in Acls
    BY <1>1, <1>2 DEF BsToOmMsgs
  <2>2. PICK a \in Acls : a = Head(b).acl
    BY <2>1
  <2>3. ClearMsg(Head(b), a)
    BY <1>2, <2>2 DEF ClearMsg
  <2>4. Emptied(t, queue, b, a)
    BY <1>1, <2>3 DEF Emptied
  <2>5. ClearsAlone(t, h, queue, b, stateTable)
    BY DEF Core
  <2>6. BeingCleared(t, h, queue, b, a) /\ Live(t) = {}
    BY <2>4, <2>5 DEF BeingCleared, ClearsAlone
  <2>7. InFlight(Tail(b)) \subseteq InFlight(b)
    <3>1. b \in Seq(BsToOmMsgs)
      BY DEF Around
    <3>2. QED BY <3>1, Taken1
  <2> DEFINE m == [op |-> "CLEAR_RSP", acl |-> a]
  <2>8. m \in Cleared(a) /\ t2 = ToHal(t, m)
    BY <1>2, <2>2 DEF Cleared
  <2> HIDE DEF m
  <2>9. Core(t2, h, Tail(b)) /\ t2.failed = t.failed
    BY <1>1, <2>5, <2>6, <2>7, <2>8, CoreClearAnswered
  <2>10. QED BY <1>1, <2>9
<1>3. CASE Head(b).why # "CLEAR"
  <2>1. Head(b).inst \in Slots
    BY <1>1, <1>3 DEF BsToOmMsgs
  <2>2. t2 = Event(t, Head(b).inst, "UNOFFLOAD_FROM_MICROSTACK_SUCCESS")
    BY <1>3
  <2>3. QED BY <1>1, <2>1, <2>2, Leaves
<1>4. QED BY <1>2, <1>3

(* microstack_gatt_cb() on READ_CFM: the place that is found is an instance's. *)
LEMMA Reads ==
  ASSUME NEW t, NEW h, NEW b, Core(t, h, b), Around(h, b), t.svcs = svc_list,
         NEW e \in Endpoints, NEW s \in Sessions, NEW c,
         NEW k, k = First(SlotsWith(e, c, s)),
         NEW t2, t2 = IF k = 0 THEN t
                      ELSE WithPending(ToAwm(t, [op |-> "OP_RSP", id |-> s, ep |-> e]),
                                       e, k, PlaceOf(e, k, s), FALSE)
  PROVE  Core(t2, h, b) /\ t2.failed = t.failed
<1>1. Globals(t) /\ Owned(t)
  BY DEF Core
<1>2. CASE k = 0
  BY <1>2
<1>3. CASE k # 0
  <2>1. k \in SvcSlots(e) /\ s \in Users(t.svcs[e][k])
    <3>1. SlotsWith(e, c, s) \in SUBSET Nat
      BY ProfileAssumption DEF SlotsWith, SvcSlots
    <3>2. k \in SlotsWith(e, c, s)
      BY <1>3, <3>1, FirstIsLeast
    <3>3. QED BY <3>2 DEF SlotsWith
  <2> DEFINE places == {x \in SesSlots : svc_list[e][k].sess[x].id = s}
             y == PlaceOf(e, k, s)
             m == [op |-> "OP_RSP", id |-> s, ep |-> e]
             t1 == ToAwm(t, m)
  <2>2. y \in SesSlots /\ Seat(t, e, k, y) = s
    <3>1. places \in SUBSET Nat
      BY ProfileAssumption DEF SesSlots
    <3>2. places # {}
      BY <2>1 DEF Users
    <3>3. y = First(places)
      BY DEF PlaceOf
    <3> HIDE DEF places
    <3>4. y \in places
      BY <3>1, <3>2, <3>3, FirstIsLeast
    <3>5. QED BY <3>4 DEF places, Seat
  <2>3. s # NoSession
    BY GattMarksAssumption
  <2>4. PICK i \in Live(t) : t.inst[i].ep = e /\ t.inst[i].svc = k /\ t.inst[i].ses = y
    BY <1>1, <2>1, <2>2, <2>3 DEF Owned
  <2>5. Seated(t, i)
    BY <1>1, LiveParts
  <2>6. m \in OmToAwmMsgs
    BY DEF OmToAwmMsgs
  <2> HIDE DEF m, y
  <2>7. PICK off \in BOOLEAN : off = FALSE
    OBVIOUS
  <2>8. t2 = WithPending(t1, t.inst[i].ep, t.inst[i].svc, t.inst[i].ses, off)
    BY <1>3, <2>4, <2>7 DEF m, y
  <2>9. /\ Globals(t1) /\ t1.inst = t.inst /\ t1.svcs = t.svcs /\ t1.hal = t.hal
        /\ t1.bs = t.bs /\ t1.failed = t.failed
    BY <1>1, <2>6, QueueFields
  <2> HIDE DEF t1
  <2>10. Core(t1, h, b)
    BY <2>9, CoreTold DEF Told
  <2>11. Seated(t1, i) /\ i \in Live(t1)
    BY <2>5, <2>9 DEF Seated, SesOf, SvcOf, Live
  <2>12. t2 = WithPending(t1, t1.inst[i].ep, t1.inst[i].svc, t1.inst[i].ses, off)
    BY <2>8, <2>9
  <2>13. /\ Globals(t2) /\ SeatsKept(t1, t2, i)
         /\ t2.inst = t1.inst /\ t2.hal = t1.hal /\ t2.bs = t1.bs
         /\ t2.failed = t1.failed
         /\ \A d \in Endpoints : \A l \in SvcSlots(d) :
               t2.svcs[d][l].offloadId = t1.svcs[d][l].offloadId
    <3>1. off \in BOOLEAN
      BY <2>7
    <3>2. Globals(t1)
      BY <2>9
    <3>3. Marks(t1, i, t2)
      BY ONLY Zenon, <2>11, <2>12, <3>1, <3>2, PendingChanged
    <3>4. QED BY ONLY <3>3 DEF Marks
  <2>14. Told(t1, t2)
    BY <2>13 DEF Told
  <2>15. Core(t2, h, b)
    <3>1. Around(h, b)
      OBVIOUS
    <3>2. QED BY ONLY <2>10, <2>11, <2>13, <2>14, <3>1, CoreSame
  <2>16. QED BY <2>9, <2>13, <2>15
<1>4. QED BY <1>2, <1>3

(* endpt_mgr_handle_offload_app_evt() on a word about a session's registration. *)
LEMMA Routes ==
  ASSUME NEW t, NEW h, NEW b, Core(t, h, b), Around(h, b), NEW s,
         NEW evt \in {"OFFLOAD_TO_MICROAPP_SUCCESS", "OFFLOAD_TO_MICROAPP_FAILURE",
                      "UNOFFLOAD_FROM_MICROAPP_SUCCESS"},
         NEW i, i = offload_instance_find_by_gatt_session_id(t, s),
         NEW t2, t2 = IF i \in 1 .. NumInstances - 1 THEN Event(t, i, evt) ELSE t
  PROVE  Core(t2, h, b) /\ t2.failed = t.failed
<1>1. CASE i \in 1 .. NumInstances - 1
  <2>1. i \in Live(t)
    <3>1. i # 0
      BY <1>1, NumInstancesAssumption
    <3>2. QED BY <3>1, FindSession
  <2>2. t2 = Event(t, i, evt)
    BY <1>1
  <2>3. CASE evt = "OFFLOAD_TO_MICROAPP_SUCCESS"
    BY <2>1, <2>2, <2>3, MicroappSuccess
  <2>4. CASE evt = "OFFLOAD_TO_MICROAPP_FAILURE"
    BY <2>1, <2>2, <2>4, MicroappFailure
  <2>5. CASE evt = "UNOFFLOAD_FROM_MICROAPP_SUCCESS"
    BY <2>1, <2>2, <2>5, MicroappGone
  <2>6. QED BY <2>3, <2>4, <2>5
<1>2. CASE i \notin 1 .. NumInstances - 1
  BY <1>2
<1>3. QED BY <1>1, <1>2

(* uapp_char_evt(): the read is asked for, or refused. *)
LEMMA AsksToRead ==
  ASSUME NEW t, NEW h, NEW b, Core(t, h, b), Around(h, b), NEW i \in Live(t),
         NEW s, s = SesOf(t, i).id,
         NEW t2, \/ t2 = ToAwm(t, [op |-> "OP_RSP", id |-> s, ep |-> t.inst[i].ep])
                 \/ t2 = WithPending(ToBs(t, [op |-> "READ_REQ", ep |-> t.inst[i].ep,
                                              acl |-> btConnId(SvcOf(t, i)), handle |-> s]),
                                     t.inst[i].ep, t.inst[i].svc, t.inst[i].ses, TRUE)
  PROVE  Core(t2, h, b) /\ t2.failed = t.failed
<1>1. Globals(t) /\ Owned(t)
  BY DEF Core
<1>2. /\ Seated(t, i) /\ t.inst[i].ep \in Endpoints /\ s \in Sessions /\ SvcOf(t, i) \in Service
  BY <1>1, LiveParts, SeatedParts
<1>3. btConnId(SvcOf(t, i)) \in Acls \cup {NoAcl}
  BY <1>2, ServiceParts
<1> DEFINE m == [op |-> "OP_RSP", id |-> s, ep |-> t.inst[i].ep]
           r == [op |-> "READ_REQ", ep |-> t.inst[i].ep, acl |-> btConnId(SvcOf(t, i)), handle |-> s]
           t1 == ToBs(t, r)
<1>4. m \in OmToAwmMsgs
  BY <1>2 DEF OmToAwmMsgs
<1>5. Harmless(r) /\ r \in OmToBsMsgs
  <2>1. r \in ReadReqs
    BY <1>2, <1>3 DEF ReadReqs
  <2>2. r \in OmToBsMsgs
    BY <2>1 DEF OmToBsMsgs
  <2>3. r.op = "READ_REQ"
    OBVIOUS
  <2> HIDE DEF r
  <2>4. QED BY <2>2, <2>3 DEF Harmless, Asks, Enables, ClearMsg
<1> HIDE DEF m, r
<1>6. CASE t2 = ToAwm(t, m)
  <2>1. /\ Globals(t2) /\ t2.inst = t.inst /\ t2.svcs = t.svcs /\ t2.hal = t.hal
        /\ t2.bs = t.bs /\ t2.failed = t.failed
    BY <1>1, <1>4, <1>6, QueueFields
  <2>2. QED BY <2>1, CoreTold DEF Told
<1>7. CASE t2 = WithPending(t1, t.inst[i].ep, t.inst[i].svc, t.inst[i].ses, TRUE)
  <2>1. PICK on \in BOOLEAN : on = TRUE
    OBVIOUS
  <2>2. /\ Globals(t1) /\ t1.inst = t.inst /\ t1.svcs = t.svcs /\ t1.hal = t.hal
        /\ t1.bs = Append(t.bs, r) /\ t1.failed = t.failed
    BY <1>1, <1>5, QueueFields
  <2>3. t2 = WithPending(t1, t1.inst[i].ep, t1.inst[i].svc, t1.inst[i].ses, on)
    BY <1>7, <2>1, <2>2
  <2> HIDE DEF t1
  <2>4. Core(t1, h, b)
    BY <1>5, <2>2, CoreTold DEF Told
  <2>5. Seated(t1, i) /\ i \in Live(t1)
    BY <1>2, <2>2 DEF Seated, SesOf, SvcOf, Live
  <2>6. /\ Globals(t2) /\ SeatsKept(t1, t2, i)
        /\ t2.inst = t1.inst /\ t2.hal = t1.hal /\ t2.bs = t1.bs
        /\ t2.failed = t1.failed
        /\ \A d \in Endpoints : \A l \in SvcSlots(d) :
              t2.svcs[d][l].offloadId = t1.svcs[d][l].offloadId
    <3>1. on \in BOOLEAN
      BY <2>1
    <3>2. Globals(t1)
      BY <2>2
    <3>3. Marks(t1, i, t2)
      BY ONLY Zenon, <2>3, <2>5, <3>1, <3>2, PendingChanged
    <3>4. QED BY ONLY <3>3 DEF Marks
  <2>7. Told(t1, t2)
    BY <2>6 DEF Told
  <2>8. Core(t2, h, b)
    BY <2>4, <2>5, <2>6, <2>7, CoreSame
  <2>9. QED BY <2>2, <2>6, <2>8
<1>8. QED BY <1>6, <1>7 DEF m, r

-----------------------------------------------------------------------------
(* A session takes an instance and a place in a service that is its own.        *)
Enters(t, t1, i, e, k, x, s) ==
  /\ Globals(t1) /\ t1.hal = t.hal /\ t1.bs = t.bs
  /\ t1.inst = [t.inst EXCEPT ![i] = [state |-> "OffloadReq", ep |-> e, svc |-> k, ses |-> x]]
  /\ \A f \in Endpoints : \A l \in SvcSlots(f) :
        IF f = e /\ l = k
        THEN /\ t1.svcs[f][l].acl = reg[s].acl /\ t1.svcs[f][l].service = reg[s].service
             /\ t1.svcs[f][l].offloadId = t.svcs[f][l].offloadId
             /\ \A y \in SesSlots : Seat(t1, f, l, y) = IF y = x THEN s ELSE Seat(t, f, l, y)
        ELSE t1.svcs[f][l] = t.svcs[f][l]

(* The places and the instances that point to them when a session has entered. *)
LEMMA OwnedEnters ==
  ASSUME NEW t, Globals(t), Owned(t), NEW i \in Slots, t.inst[i].state = "Idle",
         NEW s \in Sessions, ~Working(t, s), NEW e \in Endpoints, e = reg[s].ep,
         NEW k \in SvcSlots(e), NEW x \in SesSlots, Seat(t, e, k, x) = NoSession,
         \A y \in SesSlots : Seat(t, e, k, y) # NoSession =>
            t.svcs[e][k].acl = reg[s].acl /\ t.svcs[e][k].service = reg[s].service,
         NEW t1, Enters(t, t1, i, e, k, x, s)
  PROVE  /\ Owned(t1) /\ Live(t1) = Live(t) \cup {i} /\ i \notin Live(t)
         /\ \A j \in Live(t) : /\ t1.inst[j] = t.inst[j] /\ SesOf(t1, j).id = SesOf(t, j).id
                               /\ SvcOf(t1, j).acl = SvcOf(t, j).acl
                               /\ SvcOf(t1, j).offloadId = SvcOf(t, j).offloadId
         /\ SesOf(t1, i).id = s /\ t1.inst[i].state = "OffloadReq"
<1>1. t.inst \in [Slots -> Instance]
  BY DEF Globals
<1>2. \A j \in Slots : t1.inst[j] =
        IF j = i THEN [state |-> "OffloadReq", ep |-> e, svc |-> k, ses |-> x] ELSE t.inst[j]
  BY <1>1 DEF Enters
<1>seats. ASSUME NEW f \in Endpoints, NEW l \in SvcSlots(f), NEW y \in SesSlots
      PROVE  Seat(t1, f, l, y) = IF f = e /\ l = k /\ y = x THEN s ELSE Seat(t, f, l, y)
  <2>1. CASE f = e /\ l = k
    BY ONLY <2>1, Enters(t, t1, i, e, k, x, s), f \in Endpoints, l \in SvcSlots(f), y \in SesSlots
       DEF Enters
  <2>2. CASE ~(f = e /\ l = k)
    <3>1. t1.svcs[f][l] = t.svcs[f][l]
      BY ONLY <2>2, Enters(t, t1, i, e, k, x, s), f \in Endpoints, l \in SvcSlots(f) DEF Enters
    <3>2. QED BY ONLY <2>2, <3>1 DEF Seat
  <2>3. QED BY ONLY <2>1, <2>2
<1>3. k # 0 /\ k \in Nat /\ NoSession \notin Sessions
  BY GattMarksAssumption, ProfileAssumption DEF SvcSlots
<1>4. Live(t1) = Live(t) \cup {i} /\ i \notin Live(t)
  BY <1>2, <1>3 DEF Live, Owned
<1>5. \A j \in Live(t) : Seated(t, j)
  BY DEF Owned
<1>6. ASSUME NEW j \in Live(t)
      PROVE  /\ t1.inst[j] = t.inst[j] /\ SesOf(t1, j).id = SesOf(t, j).id
             /\ SvcOf(t1, j).acl = SvcOf(t, j).acl
             /\ SvcOf(t1, j).offloadId = SvcOf(t, j).offloadId /\ Seated(t1, j)
  <2> DEFINE f == t.inst[j].ep
             l == t.inst[j].svc
             y == t.inst[j].ses
  <2>1. /\ f \in Endpoints /\ l \in SvcSlots(f) /\ y \in SesSlots /\ j \in Slots
        /\ SesOf(t, j).id = Seat(t, f, l, y) /\ Seat(t, f, l, y) \in Sessions
    BY <1>5 DEF Seated, SesOf, SvcOf, Seat
  <2>2. t1.inst[j] = t.inst[j]
    BY <1>2, <1>4, <2>1
  <2>3. SesOf(t1, j).id = Seat(t1, f, l, y) /\ SvcOf(t1, j) = t1.svcs[f][l]
          /\ SvcOf(t, j) = t.svcs[f][l]
    BY <2>2 DEF SesOf, SvcOf, Seat
  <2> HIDE DEF f, l, y
  <2>4. Seat(t1, f, l, y) = Seat(t, f, l, y)
    <3>1. NoSession # Seat(t, f, l, y)
      BY ONLY <1>3, <2>1
    <3>2. ~(f = e /\ l = k /\ y = x)
      BY ONLY <3>1, Seat(t, e, k, x) = NoSession
    <3>3. Seat(t1, f, l, y) = IF f = e /\ l = k /\ y = x THEN s ELSE Seat(t, f, l, y)
      BY ONLY <1>seats, <2>1
    <3>4. QED BY ONLY <3>2, <3>3
  <2>5. t1.svcs[f][l].acl = t.svcs[f][l].acl /\ t1.svcs[f][l].offloadId = t.svcs[f][l].offloadId
    BY <1>3, <2>1 DEF Enters
  <2>6. Seated(t1, j)
    BY <1>5, <2>1, <2>2, <2>3, <2>4 DEF Seated
  <2>7. QED BY <2>1, <2>2, <2>3, <2>4, <2>5, <2>6
<1>7. SesOf(t1, i).id = s /\ Seated(t1, i)
  <2>1. Seat(t1, e, k, x) = s
    BY DEF Enters
  <2>2. SesOf(t1, i).id = Seat(t1, e, k, x)
    <3>1. t1.inst[i].ep = e /\ t1.inst[i].svc = k /\ t1.inst[i].ses = x
      BY <1>2
    <3>2. QED BY ONLY <3>1 DEF SesOf, SvcOf, Seat
  <2>3. QED BY <1>2, <2>1, <2>2 DEF Seated
<1>8. \A j \in Slots : t1.inst[j].state = "Idle" <=> t1.inst[j].svc = 0
  BY <1>2, <1>3 DEF Owned
<1>9. \A j \in Live(t1) : Seated(t1, j)
  BY <1>4, <1>6, <1>7
<1>10. \A j, l \in Live(t1) : SesOf(t1, j).id = SesOf(t1, l).id => j = l
  <2>1. \A j \in Live(t) : SesOf(t, j).id # s
    BY DEF Working
  <2>2. \A j, l \in Live(t) : SesOf(t, j).id = SesOf(t, l).id => j = l
    BY DEF Owned
  <2>3. QED BY <1>4, <1>6, <1>7, <2>1, <2>2
<1>11. ASSUME NEW f \in Endpoints, NEW l \in SvcSlots(f), NEW y \in SesSlots,
              Seat(t1, f, l, y) # NoSession
       PROVE  /\ \E j \in Live(t1) : t1.inst[j].ep = f /\ t1.inst[j].svc = l /\ t1.inst[j].ses = y
              /\ reg[Seat(t1, f, l, y)].ep = f
              /\ reg[Seat(t1, f, l, y)].acl = t1.svcs[f][l].acl
              /\ reg[Seat(t1, f, l, y)].service = t1.svcs[f][l].service
  <2>1. CASE f = e /\ l = k /\ y = x
    <3>1. Seat(t1, f, l, y) = s /\ t1.svcs[f][l].acl = reg[s].acl
            /\ t1.svcs[f][l].service = reg[s].service
      BY <2>1 DEF Enters
    <3>2. t1.inst[i].ep = f /\ t1.inst[i].svc = l /\ t1.inst[i].ses = y /\ i \in Live(t1)
      BY <1>2, <1>4, <2>1
    <3>3. QED BY <2>1, <3>1, <3>2
  <2>2. CASE ~(f = e /\ l = k /\ y = x)
    <3>1. Seat(t1, f, l, y) = Seat(t, f, l, y)
      BY ONLY <1>seats, <2>2, f \in Endpoints, l \in SvcSlots(f), y \in SesSlots
    <3>2. PICK j \in Live(t) : t.inst[j].ep = f /\ t.inst[j].svc = l /\ t.inst[j].ses = y
      BY <1>11, <3>1 DEF Owned
    <3>3. /\ reg[Seat(t, f, l, y)].ep = f /\ reg[Seat(t, f, l, y)].acl = t.svcs[f][l].acl
          /\ reg[Seat(t, f, l, y)].service = t.svcs[f][l].service
      BY <1>11, <3>1 DEF Owned
    <3>4. t1.svcs[f][l].acl = t.svcs[f][l].acl /\ t1.svcs[f][l].service = t.svcs[f][l].service
      <4>1. CASE f = e /\ l = k
        BY <1>11, <3>1, <4>1 DEF Enters
      <4>2. CASE ~(f = e /\ l = k)
        BY <4>2 DEF Enters
      <4>3. QED BY <4>1, <4>2
    <3>5. j \in Live(t1) /\ t1.inst[j] = t.inst[j]
      BY <1>4, <1>6
    <3>6. QED BY <3>1, <3>2, <3>3, <3>4, <3>5
  <2>3. QED BY <2>1, <2>2
<1>12. ASSUME NEW f \in Endpoints, NEW l \in SvcSlots(f),
              \A y \in SesSlots : Seat(t1, f, l, y) = NoSession
       PROVE  t1.svcs[f][l] = FreeService
  <2>1. ~(f = e /\ l = k)
    BY <1>3, <1>12 DEF Enters
  <2>2. t1.svcs[f][l] = t.svcs[f][l]
    BY <2>1 DEF Enters
  <2>3. \A y \in SesSlots : Seat(t, f, l, y) = NoSession
    BY <1>12, <2>2 DEF Seat
  <2>4. QED BY <2>2, <2>3 DEF Owned
<1>13. Owned(t1)
  BY <1>8, <1>9, <1>10, <1>11, <1>12 DEF Owned
<1>14. QED BY <1>2, <1>4, <1>6, <1>7, <1>13
=============================================================================
