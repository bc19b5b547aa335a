---------------------------- MODULE BtStateProofs ----------------------------
(***************************************************************************)
(* Proofs about BtStateMgr, for every value of its constants under which a  *)
(* crashed HAL comes back only once all is quiet (RestartWaits).            *)
(*                                                                         *)
(* What a step may do depends on messages that are still on their way, so   *)
(* the invariant counts them: how many there are of a kind, and which kinds *)
(* are ahead of which.  The argument is this.                               *)
(*                                                                         *)
(* - A session has at most two stops: one that HLOS asks for, by a disable, *)
(*   and one mock off, for bt_on_mode leaves Modes when it is mocked off.   *)
(*   Each is at any time one thing: still possible, a request on its way,   *)
(*   the controller's answer, a timer or a confirmation (TwoStops).  So the *)
(*   retry counter is bounded, and the second confirmation cannot outlive   *)
(*   the session: the pipe gives it to the manager's thread before the next *)
(*   BT_ENABLE (OnePipe).                                                  *)
(* - The state manager registers, then subscribes, then asks: whatever the  *)
(*   stack has handled, what came before it has been handled too            *)
(*   (OneSubscription, Prepared), and the callback is there.               *)
(* - The mode is the one of the request while HLOS has not asked to stop,   *)
(*   because a mock off needs a closed channel (HostAgrees).               *)
(* - The clients and the app manager are told of offload by two reads of    *)
(*   the mode, which between them cannot become another one (Clients).      *)
(***************************************************************************)
EXTENDS BtStateMgr, FiniteSetTheorems, FunctionTheorems, TLAPS

-----------------------------------------------------------------------------
(* Queues of messages, by what they hold of each kind: how many messages, and *)
(* whether all of one kind are ahead of all of another.  The lemmas say what  *)
(* an append, a take at the head and the concatenation of two queues do to    *)
(* both.                                                                   *)
Posns(q, op) == {k \in DOMAIN q : q[k].op = op}

Num(q, op) == Cardinality(Posns(q, op))

Before(q, a, b) == \A k \in Posns(q, a), l \in Posns(q, b) : k < l

Args(q, op) == {q[k].arg : k \in Posns(q, op)}

(* The positions of a kind are finitely many. *)
LEMMA PosnsFinite ==
  ASSUME NEW M, NEW q \in Seq(M), NEW op
  PROVE  IsFiniteSet(Posns(q, op)) /\ Posns(q, op) \subseteq 1..Len(q)
<1>1. Posns(q, op) \in SUBSET (1..Len(q))
  BY DEF Posns
<1>2. IsFiniteSet(1..Len(q))
  BY FS_Interval
<1>3. QED BY <1>1, <1>2, FS_Subset

(* The number of a kind is a natural number, and zero when there is none. *)
LEMMA NumTypes ==
  ASSUME NEW M, NEW q \in Seq(M), NEW op
  PROVE  Num(q, op) \in Nat /\ (Num(q, op) = 0 <=> Posns(q, op) = {})
<1>1. IsFiniteSet(Posns(q, op))
  BY PosnsFinite
<1>2. QED BY <1>1, FS_CardinalityType, FS_EmptySet DEF Num

(* An empty queue holds nothing, in whatever order. *)
LEMMA NumEmpty ==
  /\ \A op : Num(<<>>, op) = 0
  /\ \A a, b : Before(<<>>, a, b)
<1>1. \A op : Posns(<<>>, op) = {}
  BY DEF Posns
<1>2. QED BY <1>1, FS_EmptySet DEF Num, Before

(* An append adds one of its own kind ... *)
LEMMA NumAppend ==
  ASSUME NEW M, NEW q \in Seq(M), NEW m \in M, NEW op
  PROVE  Num(Append(q, m), op) = IF m.op = op THEN Num(q, op) + 1 ELSE Num(q, op)
<1> DEFINE n == Len(q) + 1
<1>1. \A k \in 1..n : Append(q, m)[k] = IF k = n THEN m ELSE q[k]
  OBVIOUS
<1>2. DOMAIN Append(q, m) = 1..n /\ DOMAIN q = 1..Len(q) /\ Len(q) \in Nat
  OBVIOUS
<1>3. CASE m.op = op
  <2>1. Posns(Append(q, m), op) = Posns(q, op) \cup {n}
    BY <1>1, <1>2, <1>3 DEF Posns
  <2>2. n \notin Posns(q, op)
    BY <1>2 DEF Posns
  <2>3. IsFiniteSet(Posns(q, op))
    BY PosnsFinite
  <2>4. Cardinality(Posns(q, op) \cup {n}) = Cardinality(Posns(q, op)) + 1
    BY <2>2, <2>3, FS_AddElement
  <2>5. QED BY <1>3, <2>1, <2>4 DEF Num
<1>4. CASE m.op # op
  <2>1. Posns(Append(q, m), op) = Posns(q, op)
    BY <1>1, <1>2, <1>4 DEF Posns
  <2>2. QED BY <1>4, <2>1 DEF Num
<1>5. QED BY <1>3, <1>4

(* ... and a take removes one of its own kind. *)
LEMMA NumTail ==
  ASSUME NEW M, NEW q \in Seq(M), q # <<>>, NEW op
  PROVE  Num(q, op) = IF Head(q).op = op THEN Num(Tail(q), op) + 1 ELSE Num(Tail(q), op)
<1> DEFINE P == Posns(Tail(q), op)
           R == Posns(q, op) \ {1}
           f == [k \in P |-> k + 1]
<1>1. Len(q) \in Nat \ {0} /\ DOMAIN q = 1..Len(q) /\ DOMAIN Tail(q) = 1..(Len(q) - 1)
  OBVIOUS
<1>2. \A k \in 1..(Len(q) - 1) : Tail(q)[k] = q[k + 1]
  OBVIOUS
<1>3. Tail(q) \in Seq(M) /\ Head(q) = q[1]
  OBVIOUS
<1>4. ExistsBijection(P, R)
  <2>1. \A k \in P : k \in 1..(Len(q) - 1) /\ f[k] = k + 1 /\ q[k + 1].op = op
    BY <1>1, <1>2 DEF Posns
  <2>2. f \in [P -> R]
    <3>1. \A k \in P : k + 1 \in R
      BY <1>1, <2>1 DEF Posns
    <3>2. QED BY <3>1
  <2>3. \A a, b \in P : f[a] = f[b] => a = b
    BY <1>1, <2>1
  <2>4. \A t \in R : \E s \in P : f[s] = t
    <3>1. SUFFICES ASSUME NEW t \in R PROVE \E s \in P : f[s] = t
      OBVIOUS
    <3>2. t \in 2..Len(q) /\ q[t].op = op
      BY <1>1 DEF Posns
    <3>3. t - 1 \in 1..(Len(q) - 1) /\ (t - 1) + 1 = t
      BY <1>1, <3>2
    <3>4. t - 1 \in P
      BY <1>1, <1>2, <3>2, <3>3 DEF Posns
    <3>5. f[t - 1] = t
      BY <3>3, <3>4
    <3>6. QED BY <3>4, <3>5
  <2>5. f \in Bijection(P, R)
    BY <2>2, <2>3, <2>4, Fun_IsBij
  <2>6. QED BY <2>5, Fun_ExistsBij
<1>5. IsFiniteSet(P) /\ IsFiniteSet(Posns(q, op))
  BY <1>3, PosnsFinite
<1>6. Cardinality(R) = Num(Tail(q), op)
  BY <1>4, <1>5, FS_Bijection DEF Num
<1>7. Num(q, op) \in Nat /\ Num(Tail(q), op) \in Nat
  BY <1>3, NumTypes
<1>8. 1 \in Posns(q, op) <=> Head(q).op = op
  BY <1>1, <1>3 DEF Posns
<1>9. Cardinality(R) = IF 1 \in Posns(q, op) THEN Num(q, op) - 1 ELSE Num(q, op)
  BY <1>5, FS_RemoveElement DEF Num
<1>10. QED BY <1>6, <1>7, <1>8, <1>9

(* The concatenation holds what both hold. *)
LEMMA NumConcat ==
  ASSUME NEW M, NEW q \in Seq(M), NEW r \in Seq(M), NEW op
  PROVE  Num(q \o r, op) = Num(q, op) + Num(r, op)
<1> DEFINE n == Len(q)
           P == Posns(r, op)
           R == {k \in Posns(q \o r, op) : k > n}
           f == [k \in P |-> k + n]
<1>1. n \in Nat /\ Len(r) \in Nat /\ DOMAIN q = 1..n /\ DOMAIN r = 1..Len(r)
        /\ DOMAIN (q \o r) = 1..(n + Len(r)) /\ q \o r \in Seq(M)
  OBVIOUS
<1>2. /\ \A k \in 1..n : (q \o r)[k] = q[k]
      /\ \A k \in 1..Len(r) : (q \o r)[k + n] = r[k]
  OBVIOUS
<1>3. ExistsBijection(P, R)
  <2>1. \A k \in P : k \in 1..Len(r) /\ f[k] = k + n /\ r[k].op = op
    BY <1>1 DEF Posns
  <2>2. f \in [P -> R]
    <3>1. \A k \in P : k + n \in R
      BY <1>1, <1>2, <2>1 DEF Posns
    <3>2. QED BY <3>1
  <2>3. \A a, b \in P : f[a] = f[b] => a = b
    BY <1>1, <2>1
  <2>4. \A t \in R : \E s \in P : f[s] = t
    <3>1. SUFFICES ASSUME NEW t \in R PROVE \E s \in P : f[s] = t
      OBVIOUS
    <3>2. t \in 1..(n + Len(r)) /\ t > n /\ (q \o r)[t].op = op
      BY <1>1 DEF Posns
    <3>3. t - n \in 1..Len(r) /\ (t - n) + n = t
      BY <1>1, <3>2
    <3>4. t - n \in P
      BY <1>1, <1>2, <3>2, <3>3 DEF Posns
    <3>5. f[t - n] = t
      BY <3>3, <3>4
    <3>6. QED BY <3>4, <3>5
  <2>5. f \in Bijection(P, R)
    BY <2>2, <2>3, <2>4, Fun_IsBij
  <2>6. QED BY <2>5, Fun_ExistsBij
<1>4. IsFiniteSet(P) /\ IsFiniteSet(Posns(q, op)) /\ IsFiniteSet(Posns(q \o r, op))
  BY <1>1, PosnsFinite
<1>5. Cardinality(R) = Num(r, op) /\ IsFiniteSet(R)
  BY <1>3, <1>4, FS_Bijection DEF Num
<1>6. Posns(q \o r, op) = Posns(q, op) \cup R /\ Posns(q, op) \cap R = {}
  BY <1>1, <1>2 DEF Posns
<1>7. Cardinality(Posns(q, op) \cup R) = Cardinality(Posns(q, op)) + Cardinality(R)
        - Cardinality(Posns(q, op) \cap R)
  BY <1>4, <1>5, FS_Union
<1>8. Num(q, op) \in Nat /\ Num(r, op) \in Nat
  BY NumTypes
<1>9. Cardinality(Posns(q, op) \cap R) = 0
  BY <1>6, FS_EmptySet
<1>10. Num(q \o r, op) = Num(q, op) + Num(r, op) - 0
  BY <1>5, <1>6, <1>7, <1>9 DEF Num
<1>11. QED BY <1>8, <1>10

(* Two kinds stay in order when nothing of the first is appended behind the second, *)
LEMMA BeforeAppend ==
  ASSUME NEW M, NEW q \in Seq(M), NEW m \in M, NEW a, NEW b, a # b,
         Before(q, a, b), m.op # a \/ Num(q, b) = 0
  PROVE  Before(Append(q, m), a, b)
<1> DEFINE n == Len(q) + 1
<1>1. \A k \in 1..n : Append(q, m)[k] = IF k = n THEN m ELSE q[k]
  OBVIOUS
<1>2. DOMAIN Append(q, m) = 1..n /\ DOMAIN q = 1..Len(q) /\ Len(q) \in Nat
  OBVIOUS
<1>3. m.op # a \/ Posns(q, b) = {}
  BY NumTypes
<1>4. SUFFICES ASSUME NEW k \in Posns(Append(q, m), a), NEW l \in Posns(Append(q, m), b)
               PROVE  k < l
  BY DEF Before
<1>5. k \in 1..n /\ l \in 1..n /\ Append(q, m)[k].op = a /\ Append(q, m)[l].op = b
  BY <1>2 DEF Posns
<1>6. CASE l = n
  BY <1>1, <1>2, <1>5, <1>6
<1>7. CASE l # n
  <2>1. l \in Posns(q, b)
    BY <1>1, <1>2, <1>5, <1>7 DEF Posns
  <2>2. k # n
    BY <1>1, <1>3, <1>5, <2>1
  <2>3. k \in Posns(q, a)
    BY <1>1, <1>2, <1>5, <2>2 DEF Posns
  <2>4. QED BY <2>1, <2>3 DEF Before
<1>8. QED BY <1>6, <1>7

(* they stay in order when the head is taken, *)
LEMMA BeforeTail ==
  ASSUME NEW M, NEW q \in Seq(M), q # <<>>, NEW a, NEW b, Before(q, a, b)
  PROVE  Before(Tail(q), a, b)
<1>1. Len(q) \in Nat \ {0} /\ DOMAIN q = 1..Len(q) /\ DOMAIN Tail(q) = 1..(Len(q) - 1)
  OBVIOUS
<1>2. \A k \in 1..(Len(q) - 1) : Tail(q)[k] = q[k + 1]
  OBVIOUS
<1>3. SUFFICES ASSUME NEW k \in Posns(Tail(q), a), NEW l \in Posns(Tail(q), b)
               PROVE  k < l
  BY DEF Before
<1>4. k \in 1..(Len(q) - 1) /\ l \in 1..(Len(q) - 1)
  BY <1>1 DEF Posns
<1>5. k + 1 \in Posns(q, a) /\ l + 1 \in Posns(q, b)
  BY <1>1, <1>2, <1>4 DEF Posns
<1>6. k + 1 < l + 1
  BY <1>5 DEF Before
<1>7. QED BY <1>4, <1>6

(* and the second is at the head only when none of the first is left. *)
LEMMA BeforeHead ==
  ASSUME NEW M, NEW q \in Seq(M), q # <<>>, NEW a, NEW b, a # b, Before(q, a, b),
         Head(q).op = b
  PROVE  Num(q, a) = 0
<1>1. Len(q) \in Nat \ {0} /\ DOMAIN q = 1..Len(q) /\ Head(q) = q[1]
  OBVIOUS
<1>2. 1 \in Posns(q, b)
  BY <1>1 DEF Posns
<1>3. \A k \in Posns(q, a) : k < 1 /\ k \in 1..Len(q)
  BY <1>1, <1>2 DEF Before, Posns
<1>4. Posns(q, a) = {}
  BY <1>1, <1>3
<1>5. QED BY <1>4, NumTypes

(* The same of two queues that are joined. *)
LEMMA BeforeConcat ==
  ASSUME NEW M, NEW q \in Seq(M), NEW r \in Seq(M), NEW a, NEW b,
         Before(q, a, b), Before(r, a, b), Num(q, b) = 0 \/ Num(r, a) = 0
  PROVE  Before(q \o r, a, b)
<1> DEFINE n == Len(q)
<1>1. n \in Nat /\ Len(r) \in Nat /\ DOMAIN q = 1..n /\ DOMAIN r = 1..Len(r)
        /\ DOMAIN (q \o r) = 1..(n + Len(r))
  OBVIOUS
<1>2. /\ \A k \in 1..n : (q \o r)[k] = q[k]
      /\ \A k \in (n + 1)..(n + Len(r)) : (q \o r)[k] = r[k - n]
  OBVIOUS
<1>3. Posns(q, b) = {} \/ Posns(r, a) = {}
  BY NumTypes
<1>4. SUFFICES ASSUME NEW k \in Posns(q \o r, a), NEW l \in Posns(q \o r, b)
               PROVE  k < l
  BY DEF Before
<1>5. k \in 1..(n + Len(r)) /\ l \in 1..(n + Len(r)) /\ (q \o r)[k].op = a /\ (q \o r)[l].op = b
  BY <1>1 DEF Posns
<1>6. \A c : \A i \in 1..(n + Len(r)) :
        (q \o r)[i].op = c => IF i <= n THEN i \in Posns(q, c) ELSE i - n \in Posns(r, c)
  BY <1>1, <1>2 DEF Posns
<1>7. CASE k <= n /\ l <= n
  BY <1>5, <1>6, <1>7 DEF Before
<1>8. CASE k <= n /\ l > n
  BY <1>1, <1>5, <1>8
<1>9. CASE k > n /\ l <= n
  BY <1>1, <1>3, <1>5, <1>6, <1>9
<1>10. CASE k > n /\ l > n
  <2>1. k - n \in Posns(r, a) /\ l - n \in Posns(r, b)
    BY <1>1, <1>5, <1>6, <1>10
  <2>2. k - n < l - n
    BY <2>1 DEF Before
  <2>3. QED BY <1>1, <1>5, <2>2
<1>11. QED BY <1>1, <1>5, <1>7, <1>8, <1>9, <1>10

-----------------------------------------------------------------------------
(* All of it, for a queue r that is q with m appended, ... *)
LEMMA Appended ==
  ASSUME NEW M, NEW q \in Seq(M), NEW m \in M, NEW r, r = Append(q, m)
  PROVE  /\ r \in Seq(M)
         /\ \A op : Num(r, op) = IF m.op = op THEN Num(q, op) + 1 ELSE Num(q, op)
         /\ \A a, b : a # b /\ Before(q, a, b) /\ (m.op # a \/ Num(q, b) = 0) => Before(r, a, b)
         /\ \A op : m.op # op => Args(r, op) \subseteq Args(q, op)
         /\ Args(r, m.op) \subseteq Args(q, m.op) \cup {m.arg}
<1>1. r \in Seq(M)
  OBVIOUS
<1>2. \A op : Num(r, op) = IF m.op = op THEN Num(q, op) + 1 ELSE Num(q, op)
  BY NumAppend
<1>3. \A a, b : a # b /\ Before(q, a, b) /\ (m.op # a \/ Num(q, b) = 0) => Before(r, a, b)
  BY BeforeAppend
<1>4. \A op, x : x \in Args(r, op) => x \in Args(q, op) \/ (m.op = op /\ x = m.arg)
  <2>1. SUFFICES ASSUME NEW op, NEW k \in Posns(r, op)
                 PROVE  r[k].arg \in Args(q, op) \/ (m.op = op /\ r[k].arg = m.arg)
    BY DEF Args
  <2>2. k \in 1..(Len(q) + 1) /\ r[k].op = op
    BY DEF Posns
  <2>3. CASE k = Len(q) + 1
    BY <2>2, <2>3
  <2>4. CASE k # Len(q) + 1
    <3>1. k \in 1..Len(q) /\ r[k] = q[k]
      BY <2>2, <2>4
    <3>2. k \in Posns(q, op)
      BY <2>2, <3>1 DEF Posns
    <3>3. QED BY <3>1, <3>2 DEF Args
  <2>5. QED BY <2>3, <2>4
<1>5. \A op : m.op # op => Args(r, op) \subseteq Args(q, op)
  BY <1>4
<1>6. Args(r, m.op) \subseteq Args(q, m.op) \cup {m.arg}
  BY <1>4
<1>7. QED BY <1>1, <1>2, <1>3, <1>5, <1>6

(* ... and for r that is q without its head. *)
LEMMA Taken ==
  ASSUME NEW M, NEW q \in Seq(M), q # <<>>, NEW r, r = Tail(q)
  PROVE  /\ r \in Seq(M) /\ Head(q) \in M
         /\ \A op : Num(q, op) = IF Head(q).op = op THEN Num(r, op) + 1 ELSE Num(r, op)
         /\ \A a, b : Before(q, a, b) => Before(r, a, b)
         /\ \A a, b : a # b /\ Before(q, a, b) /\ Head(q).op = b => Num(q, a) = 0
         /\ \A op : Args(r, op) \subseteq Args(q, op)
         /\ Head(q).arg \in Args(q, Head(q).op)
<1>1. r \in Seq(M) /\ Head(q) \in M
  OBVIOUS
<1>2. \A op : Num(q, op) = IF Head(q).op = op THEN Num(r, op) + 1 ELSE Num(r, op)
  BY NumTail
<1>3. \A a, b : Before(q, a, b) => Before(r, a, b)
  BY BeforeTail
<1>4. \A a, b : a # b /\ Before(q, a, b) /\ Head(q).op = b => Num(q, a) = 0
  BY BeforeHead
<1>5. Len(q) \in Nat \ {0} /\ DOMAIN q = 1..Len(q) /\ DOMAIN r = 1..(Len(q) - 1) /\ Head(q) = q[1]
  OBVIOUS
<1>6. \A op : Args(r, op) \subseteq Args(q, op)
  <2>1. SUFFICES ASSUME NEW op, NEW k \in Posns(r, op)
                 PROVE  r[k].arg \in Args(q, op)
    BY DEF Args
  <2>2. k \in 1..(Len(q) - 1) /\ r[k].op = op
    BY <1>5 DEF Posns
  <2>3. r[k] = q[k + 1]
    BY <2>2
  <2>4. k + 1 \in Posns(q, op)
    BY <1>5, <2>2, <2>3 DEF Posns
  <2>5. QED BY <2>3, <2>4 DEF Args
<1>7. Head(q).arg \in Args(q, Head(q).op)
  <2>1. 1 \in Posns(q, Head(q).op)
    BY <1>5 DEF Posns
  <2>2. QED BY <1>5, <2>1 DEF Args
<1>8. QED BY <1>1, <1>2, <1>3, <1>4, <1>6, <1>7

(* A kind of which there is none has no arguments and is in order with every other. *)
LEMMA NoneLeft ==
  ASSUME NEW M, NEW q \in Seq(M), NEW op, Num(q, op) = 0
  PROVE  Args(q, op) = {} /\ \A a : Before(q, a, op) /\ Before(q, op, a)
<1>1. Posns(q, op) = {}
  BY NumTypes
<1>2. QED BY <1>1 DEF Args, Before

-----------------------------------------------------------------------------

One(b) == IF b THEN 1 ELSE 0

(* Where the stack's thread and the manager's thread are. *)
Over == thread \in {"none", "gone"}
Booted == thread \notin {"none", "gone", "created"}
Starting == om.pc \in {"register", "mask", "record"}
Stopping == om.pc \in {"stopWait", "deinitWait"}
Answered == Booted /\ gBmm.subscribed /\ InitOver /\ thread # "initInd"
(* The preparation of a stop is over, or the stop has begun. *)
Done == Stopping \/ Num(pipe, "PREP_STOP_DONE") > 0 \/ thread = "postStop"

(* Nobody has asked the stack to stop. *)
StackUntouched ==
  /\ Num(extMsgQueue, "PREPARE_STOP") = 0 /\ Num(taskQueue, "PREPARE_STOP") = 0
  /\ Num(taskQueue, "BT_OFF") = 0 /\ timers = 0 /\ ~Done
  /\ Booted => ~periOff

(* How the two threads take each other through the start and the stop. *)
Threads ==
  /\ thread = "none" <=> ~schedInstance
  /\ "STOP_REQ" \in threadEvents => om.pc = "stopWait" /\ thread # "stopped"
  /\ "DEINIT_REQ" \in threadEvents => om.pc = "deinitWait"
  /\ "STOP_CFM" \in schedEvents => om.pc = "stopWait" /\ thread = "stopped"
  /\ "DEINIT_CFM" \in schedEvents => thread = "gone"
  /\ thread = "gone" => om.pc = "deinitWait"
  /\ thread = "stopped" => Stopping
  /\ om.pc = "deinitWait" => thread \in {"stopped", "gone"}
  /\ om.pc = "stopWait" \/ Starting => ~Over

(* What a session leaves, and what the next one finds while it starts. *)
CleanWhenOver ==
  /\ Over => /\ bt_on_mode = "DEFAULT" /\ "mgr" \notin appInfo /\ awm = "OFF" /\ island
             /\ retryCount <= MaxStopRetryAttempts + 1
  /\ Starting => bt_on_mode = "DEFAULT"
  /\ awm = "ON" => bt_on_mode \in {"OFFLD", "OFFLD_SSR"}
  /\ ~Over /\ om.pc # "register" => "mgr" \in appInfo

(* A session subscribes once, and before any request to prepare a stop. *)
OneSubscription ==
  /\ ~Over => Num(extMsgQueue, "SET_EVENT_MASK") + Num(taskQueue, "SET_EVENT_MASK")
                + One(Booted /\ gBmm.subscribed)
              = IF om.pc \in {"register", "mask"} THEN 0 ELSE 1
  /\ Before(extMsgQueue, "SET_EVENT_MASK", "PREPARE_STOP")
  /\ Before(taskQueue, "SET_EVENT_MASK", "PREPARE_STOP")
  /\ Num(taskQueue, "PREPARE_STOP") > 0 => Num(extMsgQueue, "SET_EVENT_MASK") = 0
  /\ Starting => Num(extMsgQueue, "PREPARE_STOP") = 0 /\ Num(taskQueue, "PREPARE_STOP") = 0

(* What is done to stop the stack was asked for by the subscriber. *)
Prepared ==
  /\ Booted /\ (timers > 0 \/ periOff \/ Num(taskQueue, "BT_OFF") > 0 \/ Done)
       => gBmm.prepareStopHandle = "mgr"
  /\ Booted /\ gBmm.prepareStopHandle = "mgr" => gBmm.subscribed
  /\ thread = "created" => timers = 0 /\ taskQueue = <<>> /\ ~Done

(* The stops that may still come, each a number of its own: the requests on
   their way, the controller's answer to one, a disable of HLOS, a mock off. *)
Requests(ext, task) ==
  Num(ext, "PREPARE_STOP") + Num(task, "PREPARE_STOP") + Num(task, "BT_OFF")
OffOwed(t, owes) == One(t \notin {"none", "gone", "created"} /\ owes)
MayDisable(h, q) == One(h.state \in {"enabling", "on"} \/ Num(q, "BT_DISABLE") > 0)
MayMockOff(mode, o) == One(mode \in Modes \/ o.pc \in {"register", "mask", "record"})
DoneOnce(o, q, t) ==
  One(o.pc \in {"stopWait", "deinitWait"} \/ Num(q, "PREP_STOP_DONE") > 0 \/ t = "postStop")

StopsToCome ==
  Requests(extMsgQueue, taskQueue) + OffOwed(thread, periOff) + MayDisable(hlos, pipe)
    + MayMockOff(bt_on_mode, om)

(* At most two stops: so many timers, and so many retries, at most. *)
TwoStops ==
  ~Over => /\ timers + StopsToCome + DoneOnce(om, pipe, thread) <= 2
           /\ retryCount + StopsToCome + 2 * DoneOnce(om, pipe, thread) <= 5

(* What the pipe holds, and in which order. *)
OnePipe ==
  /\ Num(pipe, "BT_ENABLE") <= 1 /\ Num(pipe, "BT_DISABLE") <= 1
  /\ Before(pipe, "PREP_STOP_DONE", "BT_ENABLE")
  /\ Before(pipe, "BT_DISABLE", "DISCONNECTED")
  /\ Num(pipe, "BT_ENABLE") > 0 => Over /\ hlos.state \in {"enabling", "dead"}
  /\ Num(pipe, "BT_DISABLE") > 0
       => ~Over /\ StackUntouched /\ hlos.state \in {"disabling", "dead"}
  /\ Args(pipe, "BT_ENABLE") \subseteq {hlos.mode}

(* Where HLOS is, against where the low-power side is. *)
HostAgrees ==
  /\ hlos.state = "off" => Over /\ rsp = <<>>
  /\ hlos.state = "enabling" /\ Num(pipe, "BT_ENABLE") > 0
       => rsp = <<>> /\ Before(pipe, "DISCONNECTED", "BT_ENABLE")
  /\ hlos.state \in {"enabling", "on"} /\ Num(pipe, "BT_ENABLE") = 0
       => /\ ~Over /\ StackUntouched
          /\ Num(pipe, "DISCONNECTED") = 0 /\ Num(pipe, "BT_DISABLE") = 0
          /\ om.mode = hlos.mode
          /\ ~Starting => bt_on_mode = om.mode
  /\ hlos.state = "enabling" => rsp \in {<<>>, <<"BT_ENABLE">>} /\ (rsp # <<>> => Answered)
  /\ hlos.state = "on" => rsp = <<>> /\ Answered
  /\ hlos.state = "disabling" => /\ rsp \in {<<>>, <<"BT_DISABLE">>}
                                 /\ rsp # <<>> => Over
                                 /\ ~Over => Answered

(* A session's stack is initialised once: awaited, on its way, or done. *)
InitOnce ==
  /\ thread = "initInd" => gBmm.subscribed /\ InitOver
  /\ Booted => Num(taskQueue, "ACTIVATE_CFM") + One(activation = "pending") + One(InitOver) = 1
  /\ Num(extMsgQueue, "ACTIVATE_CFM") = 0 /\ Num(extMsgQueue, "BT_OFF") = 0
  /\ ~Over /\ ~Answered => awm = "OFF"

BInv ==
  /\ TypeOK /\ Threads /\ CleanWhenOver /\ OneSubscription /\ Prepared /\ TwoStops /\ OnePipe
  /\ HostAgrees /\ InitOnce /\ NoStackCrash

-----------------------------------------------------------------------------
(* Each part depends on some of the variables only. *)
LEMMA Frames ==
  /\ Threads /\ UNCHANGED <<schedInstance, thread, threadEvents, schedEvents, om>> => Threads'
  /\ CleanWhenOver /\ UNCHANGED <<thread, bt_on_mode, appInfo, awm, island, retryCount, om>>
       => CleanWhenOver'
  /\ OneSubscription /\ UNCHANGED <<thread, gBmm, extMsgQueue, taskQueue, om>> => OneSubscription'
  /\ Prepared /\ UNCHANGED <<thread, timers, periOff, taskQueue, gBmm, om, pipe>> => Prepared'
  /\ TwoStops /\ UNCHANGED <<thread, timers, retryCount, extMsgQueue, taskQueue, periOff, hlos,
                             pipe, bt_on_mode, om>> => TwoStops'
  /\ OnePipe /\ UNCHANGED <<pipe, thread, hlos, extMsgQueue, taskQueue, timers, periOff, om>>
       => OnePipe'
  /\ HostAgrees /\ UNCHANGED <<hlos, thread, rsp, pipe, extMsgQueue, taskQueue, timers, periOff,
                               om, bt_on_mode, gBmm>> => HostAgrees'
  /\ InitOnce /\ UNCHANGED <<thread, gBmm, taskQueue, extMsgQueue, activation, awm>> => InitOnce'
  /\ NoStackCrash /\ UNCHANGED failed => NoStackCrash'
BY DEF Threads, CleanWhenOver, OneSubscription, Prepared, TwoStops, StopsToCome,
       OnePipe, HostAgrees, InitOnce, NoStackCrash, Over, Booted, Starting, Stopping, Answered, Done,
       StackUntouched, InitOver

(* The queues are typed, and so are the numbers of what they hold. *)
LEMMA Counts ==
  ASSUME TypeOK
  PROVE  /\ pipe \in Seq(PipeMessage) /\ extMsgQueue \in Seq(BmmMessage)
         /\ taskQueue \in Seq(BmmMessage)
         /\ \A op : Num(pipe, op) \in Nat /\ Num(extMsgQueue, op) \in Nat
                      /\ Num(taskQueue, op) \in Nat
<1>1. pipe \in Seq(PipeMessage) /\ extMsgQueue \in Seq(BmmMessage) /\ taskQueue \in Seq(BmmMessage)
  BY DEF TypeOK, SchedTypeOK
<1>2. QED BY <1>1, NumTypes

(* The numbers that make up the bound on the stops. *)
NumbersTyped ==
  /\ Requests(extMsgQueue, taskQueue) \in Nat
  /\ timers \in Nat /\ retryCount \in Nat
  /\ Num(extMsgQueue, "PREPARE_STOP") \in Nat /\ Num(taskQueue, "PREPARE_STOP") \in Nat
  /\ Num(taskQueue, "BT_OFF") \in Nat
  /\ DoneOnce(om, pipe, thread) = (IF Done THEN 1 ELSE 0)

(* Each of the four single stops is none or one. *)
LEMMA Ones ==
  /\ \A t, owes : OffOwed(t, owes) \in 0..1
  /\ \A h, q : MayDisable(h, q) \in 0..1
  /\ \A mode, o : MayMockOff(mode, o) \in 0..1
  /\ \A o, q, t : DoneOnce(o, q, t) \in 0..1
BY DEF OffOwed, MayDisable, MayMockOff, DoneOnce, One

(* With the types right, the numbers that make up the bound are natural      *)
(* numbers, ...                                                              *)
LEMMA Numbers == TypeOK => NumbersTyped
<1> SUFFICES ASSUME TypeOK PROVE NumbersTyped
  OBVIOUS
<1>1. timers \in Nat /\ retryCount \in Nat
  BY DEF TypeOK, SchedTypeOK, MaxStopRetryAttempts
<1>2. /\ Num(extMsgQueue, "PREPARE_STOP") \in Nat /\ Num(taskQueue, "PREPARE_STOP") \in Nat
      /\ Num(taskQueue, "BT_OFF") \in Nat
  BY Counts
<1>3. Requests(extMsgQueue, taskQueue) \in Nat
  BY <1>2 DEF Requests
<1>4. DoneOnce(om, pipe, thread) = (IF Done THEN 1 ELSE 0)
  BY DEF DoneOnce, Done, Stopping, One
<1>5. QED BY <1>1, <1>2, <1>3, <1>4 DEF NumbersTyped

(* ... before the step and after it. *)
LEMMA NumbersNext == TypeOK' => NumbersTyped'
BY Numbers, PTL

(* What a post to the pipe does, ... *)
LEMMA Posted ==
  ASSUME TypeOK, NEW p \in PipeMessage, pipe' = Append(pipe, p)
  PROVE  /\ \A op : Num(pipe', op) = IF p.op = op THEN Num(pipe, op) + 1 ELSE Num(pipe, op)
         /\ \A a, b : a # b /\ Before(pipe, a, b) /\ (p.op # a \/ Num(pipe, b) = 0)
                       => Before(pipe', a, b)
         /\ \A op : p.op # op => Args(pipe', op) \subseteq Args(pipe, op)
         /\ Args(pipe', p.op) \subseteq Args(pipe, p.op) \cup {p.arg}
<1>1. pipe \in Seq(PipeMessage)
  BY Counts
<1>2. \A op : Num(pipe', op) = IF p.op = op THEN Num(pipe, op) + 1 ELSE Num(pipe, op)
  <2>1. SUFFICES ASSUME NEW op
                 PROVE  Num(pipe', op) = IF p.op = op THEN Num(pipe, op) + 1 ELSE Num(pipe, op)
    OBVIOUS
  <2>2. QED BY <1>1, NumAppend
<1>3. \A a, b : a # b /\ Before(pipe, a, b) /\ (p.op # a \/ Num(pipe, b) = 0)
                       => Before(pipe', a, b)
  BY <1>1, Appended
<1>4. \A op : p.op # op => Args(pipe', op) \subseteq Args(pipe, op)
  BY <1>1, Appended
<1>5. Args(pipe', p.op) \subseteq Args(pipe, p.op) \cup {p.arg}
  BY <1>1, Appended
<1>6. QED BY <1>2, <1>3, <1>4, <1>5

(* ... and what the manager's thread does to it when it takes a message. *)
LEMMA Received ==
  ASSUME TypeOK, NEW op, Receive(op)
  PROVE  /\ Running /\ om.pc = "idle"
         /\ Head(pipe) \in PipeMessage /\ Head(pipe).op = op
         /\ pipe' \in Seq(PipeMessage) /\ Len(pipe') <= PipeSize
         /\ \A o : Num(pipe, o) = (IF o = op THEN Num(pipe', o) + 1 ELSE Num(pipe', o))
         /\ \A o : Num(pipe', o) \in Nat
         /\ \A a, b : Before(pipe, a, b) => Before(pipe', a, b)
         /\ \A a : a # op /\ Before(pipe, a, op) => Num(pipe, a) = 0
         /\ \A o : Args(pipe', o) \subseteq Args(pipe, o)
         /\ Head(pipe).arg \in Args(pipe, op)
<1>1. pipe \in Seq(PipeMessage) /\ Len(pipe) <= PipeSize
  BY Counts DEF TypeOK
<1>2. Running /\ om.pc = "idle" /\ pipe # <<>> /\ Head(pipe).op = op /\ pipe' = Tail(pipe)
  BY DEF Receive
<1>3. pipe' \in Seq(PipeMessage) /\ Len(pipe') <= PipeSize /\ Head(pipe) \in PipeMessage
  BY <1>1, <1>2, BtStateAssumption
<1>4. \A o : Num(pipe, o) = (IF o = op THEN Num(pipe', o) + 1 ELSE Num(pipe', o))
  <2>1. SUFFICES ASSUME NEW o
                 PROVE  Num(pipe, o) = IF o = op THEN Num(pipe', o) + 1 ELSE Num(pipe', o)
    OBVIOUS
  <2>2. QED BY <1>1, <1>2, NumTail
<1>5. \A o : Num(pipe', o) \in Nat
  BY <1>3, NumTypes
<1>6. \A a, b : Before(pipe, a, b) => Before(pipe', a, b)
  BY <1>1, <1>2, BeforeTail
<1>7. \A a : a # op /\ Before(pipe, a, op) => Num(pipe, a) = 0
  BY <1>1, <1>2, BeforeHead
<1>8. /\ \A o : Args(pipe', o) \subseteq Args(pipe, o)
      /\ Head(pipe).arg \in Args(pipe, Head(pipe).op)
  BY <1>1, <1>2, Taken
<1>9. QED BY <1>2, <1>3, <1>4, <1>5, <1>6, <1>7, <1>8

-----------------------------------------------------------------------------
(* The actions of HLOS, one by one. *)

(* HLOS enables Bluetooth only when the stack is over and the pipe holds no  *)
(* enable.                                                                   *)
LEMMA HlosEnableKept ==
  ASSUME BInv, NEW m \in Modes, HlosEnable(m)
  PROVE  BInv'
<1> USE DEF BInv
<1> DEFINE p == Msg("BT_ENABLE", m)
<1>1. p \in PipeMessage /\ p.op = "BT_ENABLE" /\ p.arg = m
  BY DEF Msg, PipeMessage
<1>2. pipe' = Append(pipe, p) /\ hlos.state = "off" /\ hlos' = [state |-> "enabling", mode |-> m]
        /\ sessions < MaxSessions /\ sessions' = sessions + 1 /\ Len(pipe) < PipeSize
        /\ channels' = HalChannels
  BY DEF HlosEnable, Offload_Mgr_Post_Event
<1>3. UNCHANGED <<rsp, rx, unchangedByHlos>>
  BY DEF HlosEnable
<1> USE DEF unchangedByHlos, mgrVars, bmmVars, schedVars
<1>4. Threads' /\ CleanWhenOver' /\ OneSubscription' /\ InitOnce' /\ NoStackCrash'
  BY <1>3, Frames
<1>5. TypeOK'
  BY <1>1, <1>2, <1>3, BtStateAssumption DEF TypeOK, SchedTypeOK
<1>6. Over /\ rsp = <<>>
  BY <1>2 DEF HostAgrees
<1>7. Num(pipe, "BT_ENABLE") = 0 /\ Num(pipe, "BT_DISABLE") = 0
  BY <1>2, <1>6, Counts DEF OnePipe
<1>8. /\ \A op : Num(pipe', op) = IF op = "BT_ENABLE" THEN Num(pipe, op) + 1 ELSE Num(pipe, op)
      /\ \A a, b : a # b /\ Before(pipe, a, b) /\ (a # "BT_ENABLE" \/ Num(pipe, b) = 0)
           => Before(pipe', a, b)
      /\ Args(pipe', "BT_ENABLE") \subseteq Args(pipe, "BT_ENABLE") \cup {m}
  <2> HIDE DEF p
  <2>1. QED BY <1>1, <1>2, Posted
<1>9. Args(pipe, "BT_ENABLE") = {} /\ Before(pipe, "DISCONNECTED", "BT_ENABLE")
  <2>1. pipe \in Seq(PipeMessage)
    BY Counts
  <2>2. QED BY <1>7, <2>1, NoneLeft
<1>10. Prepared'
  BY <1>3, <1>8 DEF Prepared, Over, Booted, Stopping, Done
<1>11. TwoStops'
  BY <1>3, <1>6 DEF TwoStops, Over
<1>12. OnePipe'
  BY <1>2, <1>3, <1>6, <1>7, <1>8, <1>9 DEF OnePipe, Over
<1>13. HostAgrees'
  BY <1>2, <1>3, <1>6, <1>7, <1>8, <1>9 DEF HostAgrees, Over
<1>14. QED BY <1>4, <1>5, <1>10, <1>11, <1>12, <1>13

(* A disable of HLOS is one the bound had counted already as a disable to    *)
(* come.                                                                     *)
LEMMA HlosDisableKept ==
  ASSUME BInv, NEW reason \in StopReasons, HlosDisable(reason)
  PROVE  BInv'
<1> USE DEF BInv
<1> DEFINE p == Msg("BT_DISABLE", reason)
<1>1. p \in PipeMessage /\ p.op = "BT_DISABLE"
  BY DEF Msg, PipeMessage
<1>2. /\ pipe' = Append(pipe, p) /\ hlos.state = "on" /\ Len(pipe) < PipeSize
      /\ hlos' \in [state : {"disabling"}, mode : Modes] /\ hlos'.mode = hlos.mode
      /\ hlos'.state = "disabling"
  BY DEF HlosDisable, Offload_Mgr_Post_Event, TypeOK
<1>3. UNCHANGED <<rsp, rx, sessions, channels, unchangedByHlos>>
  BY DEF HlosDisable
<1> USE DEF unchangedByHlos, mgrVars, bmmVars, schedVars
<1>4. Threads' /\ CleanWhenOver' /\ OneSubscription' /\ InitOnce' /\ NoStackCrash'
  BY <1>3, Frames
<1>5. TypeOK'
  BY <1>1, <1>2, <1>3, BtStateAssumption DEF TypeOK, SchedTypeOK
<1>6. rsp = <<>> /\ Answered /\ Num(pipe, "BT_ENABLE") = 0
  BY <1>2, Counts DEF HostAgrees, OnePipe
<1>7. /\ ~Over /\ StackUntouched
      /\ Num(pipe, "DISCONNECTED") = 0 /\ Num(pipe, "BT_DISABLE") = 0
  BY <1>2, <1>6 DEF HostAgrees
<1>8. /\ \A op : Num(pipe', op) = IF op = "BT_DISABLE" THEN Num(pipe, op) + 1 ELSE Num(pipe, op)
      /\ \A a, b : a # b /\ Before(pipe, a, b) /\ (a # "BT_DISABLE" \/ Num(pipe, b) = 0)
           => Before(pipe', a, b)
      /\ Args(pipe', "BT_ENABLE") \subseteq Args(pipe, "BT_ENABLE")
  <2> HIDE DEF p
  <2>1. QED BY <1>1, <1>2, Posted
<1>9. Prepared'
  BY <1>3, <1>8 DEF Prepared, Over, Booted, Stopping, Done
<1>10. TwoStops'
  <2>1. MayDisable(hlos, pipe)' = MayDisable(hlos, pipe)
    BY <1>2, <1>8, Counts DEF MayDisable, One
  <2>2. DoneOnce(om, pipe, thread)' = DoneOnce(om, pipe, thread)
    BY <1>3, <1>8 DEF DoneOnce
  <2>3. QED BY <1>3, <2>1, <2>2 DEF TwoStops, StopsToCome, Over
<1>11. OnePipe'
  BY <1>2, <1>3, <1>6, <1>7, <1>8 DEF OnePipe, Over, Booted, Stopping, Done, StackUntouched
<1>12. HostAgrees'
  BY <1>2, <1>3, <1>6, <1>7 DEF HostAgrees, Over, Booted, Answered, InitOver
<1>13. QED BY <1>4, <1>5, <1>9, <1>10, <1>11, <1>12

(* The only answer HLOS can have is the one it waits for. *)
LEMMA HlosReceiveKept ==
  ASSUME BInv, HlosReceive
  PROVE  BInv'
<1> USE DEF BInv
<1>1. rsp # <<>> /\ rsp' = Tail(rsp) /\ hlos.state # "dead"
        /\ UNCHANGED <<sessions, channels, pipe, unchangedByHlos>>
  BY DEF HlosReceive
<1>2. /\ hlos.state \in {"enabling", "disabling"} /\ rsp' = <<>>
      /\ hlos.state = "enabling" => Answered /\ Head(rsp) = "BT_ENABLE"
      /\ hlos.state = "disabling" => Over /\ Head(rsp) = "BT_DISABLE"
  BY <1>1 DEF HostAgrees, TypeOK
<1>3. hlos' = [hlos EXCEPT !.state = IF hlos.state = "enabling" THEN "on" ELSE "off"]
  <2>1. CASE hlos.state = "enabling"
    BY <1>2, <2>1 DEF HlosReceive
  <2>2. CASE hlos.state = "disabling"
    BY <1>2, <2>2 DEF HlosReceive
  <2>3. QED BY <1>2, <2>1, <2>2
<1>4. /\ hlos' \in [state : {"on", "off"}, mode : Modes] /\ hlos'.mode = hlos.mode
      /\ hlos'.state = IF hlos.state = "enabling" THEN "on" ELSE "off"
  BY <1>3 DEF TypeOK
<1>5. rx' \in 0..MaxRx
  BY BtStateAssumption DEF HlosReceive, TypeOK
<1> USE DEF unchangedByHlos, mgrVars, bmmVars, schedVars
<1>6. Threads' /\ CleanWhenOver' /\ OneSubscription' /\ InitOnce' /\ NoStackCrash' /\ Prepared'
  BY <1>1, Frames
<1>7. TypeOK'
  BY <1>1, <1>2, <1>4, <1>5 DEF TypeOK, SchedTypeOK
<1>8. Num(pipe, "BT_ENABLE") = 0 /\ (Over => Num(pipe, "BT_DISABLE") = 0)
  BY <1>1, <1>2, Counts DEF OnePipe, HostAgrees
<1>9. TwoStops'
  <2>1. CASE Over
    BY <1>1, <2>1 DEF TwoStops, Over
  <2>2. CASE ~Over
    <3>1. MayDisable(hlos, pipe)' = MayDisable(hlos, pipe)
      BY <1>1, <1>2, <1>4, <2>2 DEF MayDisable, One
    <3>2. QED BY <1>1, <3>1 DEF TwoStops, StopsToCome, Over
  <2>3. QED BY <2>1, <2>2
<1>10. OnePipe'
  BY <1>1, <1>2, <1>4, <1>8, Counts DEF OnePipe, HostAgrees
<1>11. HostAgrees'
  BY <1>1, <1>2, <1>4, <1>8
     DEF HostAgrees, Over, Booted, Starting, Stopping, Answered, Done, StackUntouched, InitOver
<1>12. QED BY <1>6, <1>7, <1>9, <1>10, <1>11

(* A crash takes nothing from the low-power side, but a disable that might   *)
(* have come.                                                                *)
LEMMA HlosCrashKept ==
  ASSUME BInv, HlosCrash
  PROVE  BInv'
<1> USE DEF BInv
<1>1. /\ hlos.state \in {"enabling", "on", "disabling"}
      /\ hlos' \in [state : {"dead"}, mode : Modes] /\ hlos'.mode = hlos.mode
      /\ hlos'.state = "dead"
  BY DEF HlosCrash, TypeOK
<1>2. UNCHANGED <<sessions, channels, rsp, pipe, rx, unchangedByHlos>>
  BY DEF HlosCrash
<1> USE DEF unchangedByHlos, mgrVars, bmmVars, schedVars
<1>3. Threads' /\ CleanWhenOver' /\ OneSubscription' /\ InitOnce' /\ NoStackCrash' /\ Prepared'
  BY <1>2, Frames
<1>4. TypeOK'
  BY <1>1, <1>2 DEF TypeOK, SchedTypeOK
<1>5. TwoStops'
  <2>1. MayDisable(hlos, pipe)' <= MayDisable(hlos, pipe)
    BY <1>1, <1>2 DEF MayDisable, One
  <2>2. NumbersTyped
    BY Numbers
  <2>3. QED BY <1>2, <2>1, <2>2, Ones DEF TwoStops, StopsToCome, Over, NumbersTyped
<1>6. OnePipe'
  BY <1>1, <1>2, Counts DEF OnePipe, HostAgrees, Over, Booted, Stopping, Done, StackUntouched
<1>7. HostAgrees'
  BY <1>1, <1>2 DEF HostAgrees
<1>8. QED BY <1>3, <1>4, <1>5, <1>6, <1>7

(* The close of a channel is behind the disable it may have come with. *)
LEMMA ChannelDisconnectKept ==
  ASSUME BInv, NEW c \in HalChannels, ChannelDisconnect(c)
  PROVE  BInv'
<1> USE DEF BInv
<1> DEFINE p == Msg("DISCONNECTED", c)
<1>1. p \in PipeMessage /\ p.op = "DISCONNECTED"
  BY DEF Msg, PipeMessage
<1>2. /\ pipe' = Append(pipe, p) /\ hlos.state \in {"dead", "off", "disabling"}
      /\ Len(pipe) < PipeSize /\ channels' = channels \ {c}
  BY DEF ChannelDisconnect, Offload_Mgr_Post_Event
<1>3. UNCHANGED <<hlos, sessions, rsp, rx, unchangedByHlos>>
  BY DEF ChannelDisconnect
<1> USE DEF unchangedByHlos, mgrVars, bmmVars, schedVars
<1>4. Threads' /\ CleanWhenOver' /\ OneSubscription' /\ InitOnce' /\ NoStackCrash'
  BY <1>3, Frames
<1>5. TypeOK'
  BY <1>1, <1>2, <1>3, BtStateAssumption DEF TypeOK, SchedTypeOK
<1>6. /\ \A op : op # "DISCONNECTED" => Num(pipe', op) = Num(pipe, op)
      /\ \A a, b : a # b /\ a # "DISCONNECTED" /\ Before(pipe, a, b) => Before(pipe', a, b)
      /\ Args(pipe', "BT_ENABLE") \subseteq Args(pipe, "BT_ENABLE")
  <2> HIDE DEF p
  <2>1. QED BY <1>1, <1>2, Posted
<1>7. Prepared'
  BY <1>3, <1>6 DEF Prepared, Over, Booted, Stopping, Done
<1>8. TwoStops'
  BY <1>3, <1>6 DEF TwoStops, StopsToCome, MayDisable, DoneOnce, Over
<1>9. OnePipe'
  BY <1>2, <1>3, <1>6 DEF OnePipe, Over, Booted, Stopping, Done, StackUntouched
<1>10. HostAgrees'
  BY <1>2, <1>3 DEF HostAgrees, Over, Booted, Answered, InitOver
<1>11. QED BY <1>4, <1>5, <1>7, <1>8, <1>9, <1>10

(* A HAL that waits until all is quiet comes back to a stack that is over.   *)
LEMMA HlosRestartKept ==
  ASSUME BInv, RestartWaits, HlosRestart
  PROVE  BInv'
<1> USE DEF BInv
<1>1. /\ hlos.state = "dead" /\ Quiet
      /\ hlos' \in [state : {"off"}, mode : Modes] /\ hlos'.mode = hlos.mode
      /\ hlos'.state = "off" /\ rsp' = <<>>
  BY DEF HlosRestart, TypeOK
<1>2. UNCHANGED <<sessions, channels, pipe, rx, unchangedByHlos>>
  BY DEF HlosRestart
<1> USE DEF unchangedByHlos, mgrVars, bmmVars, schedVars
<1>3. Threads' /\ CleanWhenOver' /\ OneSubscription' /\ InitOnce' /\ NoStackCrash' /\ Prepared'
  BY <1>2, Frames
<1>4. TypeOK'
  BY <1>1, <1>2 DEF TypeOK, SchedTypeOK
<1>5. Over /\ Over' /\ (\A op : Num(pipe, op) = 0)
  BY <1>1, <1>2, NumEmpty DEF Quiet, Threads, Over
<1>6. TwoStops'
  BY <1>5 DEF TwoStops
<1>7. OnePipe'
  BY <1>1, <1>2, <1>5 DEF OnePipe
<1>8. HostAgrees'
  BY <1>1, <1>2, <1>5 DEF HostAgrees
<1>9. QED BY <1>3, <1>4, <1>6, <1>7, <1>8

-----------------------------------------------------------------------------
(* The actions of the offload manager's thread. *)

(* A message from another thread waits behind those that are there. *)
LEMMA PutOutside ==
  ASSUME TypeOK, NEW p \in BmmMessage, PutExternal(p)
  PROVE  /\ extMsgQueue' \in Seq(BmmMessage)
         /\ threadEvents' = threadEvents \cup {"EXT_MSG"}
         /\ UNCHANGED <<schedInstance, thread, schedEvents, taskQueue, timers>>
         /\ \A op : Num(extMsgQueue', op)
                     = IF p.op = op THEN Num(extMsgQueue, op) + 1 ELSE Num(extMsgQueue, op)
         /\ \A a, b : a # b /\ Before(extMsgQueue, a, b) /\ (p.op # a \/ Num(extMsgQueue, b) = 0)
                       => Before(extMsgQueue', a, b)
<1>1. extMsgQueue \in Seq(BmmMessage) /\ extMsgQueue' = Append(extMsgQueue, p)
  BY Counts DEF PutExternal
<1>2. \A op : Num(extMsgQueue', op)
                = IF p.op = op THEN Num(extMsgQueue, op) + 1 ELSE Num(extMsgQueue, op)
  <2>1. SUFFICES ASSUME NEW op
                 PROVE  Num(extMsgQueue', op)
                          = IF p.op = op THEN Num(extMsgQueue, op) + 1 ELSE Num(extMsgQueue, op)
    OBVIOUS
  <2>2. QED BY <1>1, NumAppend
<1>3. \A a, b : a # b /\ Before(extMsgQueue, a, b) /\ (p.op # a \/ Num(extMsgQueue, b) = 0)
                       => Before(extMsgQueue', a, b)
  BY <1>1, BeforeAppend
<1>4. extMsgQueue' \in Seq(BmmMessage)
  BY <1>1
<1>5. QED BY <1>2, <1>3, <1>4 DEF PutExternal

(* An enable that is taken finds no scheduler, so there is a new one, with   *)
(* empty queues.                                                             *)
LEMMA BtOnKept ==
  ASSUME BInv, bt_state_on_handle
  PROVE  BInv'
<1> USE DEF BInv
<1>1. Receive("BT_ENABLE")
  BY DEF bt_state_on_handle
<1>2. Num(pipe, "BT_ENABLE") = 1 /\ Num(pipe', "BT_ENABLE") = 0
  BY <1>1, Received, Counts DEF OnePipe
<1>3. /\ om.pc = "idle" /\ om' = [pc |-> "register", mode |-> hlos.mode] /\ hlos.mode \in Modes
  <2>1. Head(pipe).arg \in Args(pipe, "BT_ENABLE") /\ om.pc = "idle"
    BY <1>1, Received
  <2>2. QED BY <2>1 DEF OnePipe, bt_state_on_handle, TypeOK
<1>4. Over /\ hlos.state \in {"enabling", "dead"} /\ thread = "none" /\ ~schedInstance
  BY <1>2, <1>3 DEF OnePipe, Threads, Over
<1>5. CsrSched /\ island' = FALSE
        /\ UNCHANGED <<bt_on_mode, app_callbacks, clients, appInfo, arbiter, awm, failed,
                       unchangedByOm>>
  BY <1>4 DEF bt_state_on_handle
<1>6. /\ schedInstance' = TRUE /\ thread' = "created" /\ threadEvents' = {"START"} /\ schedEvents' = {}
      /\ extMsgQueue' = <<>> /\ taskQueue' = <<>> /\ timers' = 0
  BY <1>5 DEF CsrSched
<1>7. \A op : Num(extMsgQueue', op) = 0 /\ Num(taskQueue', op) = 0
  BY <1>6, NumEmpty
<1>8. Num(pipe, "PREP_STOP_DONE") = 0 /\ Num(pipe', "PREP_STOP_DONE") = 0 /\ ~Done'
  <2>1. Num(pipe, "PREP_STOP_DONE") = 0
    BY <1>1, Received DEF OnePipe
  <2>2. Num(pipe', "PREP_STOP_DONE") = 0
    BY <1>1, <2>1, Received
  <2>3. QED BY <1>3, <1>6, <2>1, <2>2 DEF Done, Stopping
<1>9. Num(pipe', "BT_DISABLE") = 0
  BY <1>1, <1>4, Received, Counts DEF OnePipe
<1> USE DEF unchangedByOm, hlosVars, bmmVars, stackEnv
<1>10. TypeOK'
  <2>1. pipe' \in Seq(PipeMessage) /\ Len(pipe') <= PipeSize
    BY <1>1, Received
  <2>2. SchedTypeOK(BmmMessage)'
    BY <1>6 DEF SchedTypeOK
  <2>3. om' \in [pc : {"idle", "register", "mask", "record", "stopWait", "deinitWait"}, mode : Modes]
    BY <1>3
  <2>4. UNCHANGED <<hlos, sessions, channels, rsp, bt_on_mode, app_callbacks, clients, appInfo,
                    arbiter, awm, gBmm, retryCount, activation, periOff, btss, rx, failed>>
    BY <1>5
  <2>5. island' \in BOOLEAN
    BY <1>5
  <2>6. QED BY <2>1, <2>2, <2>3, <2>4, <2>5 DEF TypeOK
<1>11. Threads'
  BY <1>3, <1>6 DEF Threads, Over, Stopping, Starting
<1>12. CleanWhenOver'
  BY <1>3, <1>4, <1>5, <1>6 DEF CleanWhenOver, Over, Starting
<1>13. OneSubscription'
  BY <1>3, <1>6, <1>7, NumEmpty DEF OneSubscription, Booted, One
<1>14. Prepared'
  BY <1>6, <1>8 DEF Prepared, Booted
<1>15. TwoStops'
  <2>1. /\ DoneOnce(om, pipe, thread)' = 0 /\ OffOwed(thread, periOff)' = 0
        /\ Requests(extMsgQueue, taskQueue)' = 0
    BY <1>3, <1>6, <1>7, <1>8 DEF DoneOnce, OffOwed, Requests, One, Done, Stopping
  <2>2. retryCount' \in Nat /\ retryCount' <= 3
    <3>1. retryCount' = retryCount /\ retryCount <= MaxStopRetryAttempts + 1 /\ NumbersTyped
      BY <1>4, <1>5, Numbers DEF CleanWhenOver
    <3>2. QED BY <3>1 DEF NumbersTyped, MaxStopRetryAttempts
  <2>3. QED BY <1>6, <2>1, <2>2, Ones DEF TwoStops, StopsToCome
<1>16. OnePipe'
  BY <1>1, <1>2, <1>5, <1>9, Received DEF OnePipe
<1>17. HostAgrees'
  <2>1. hlos.state = "enabling" => Num(pipe', "DISCONNECTED") = 0 /\ rsp = <<>>
    BY <1>1, <1>2, Received DEF HostAgrees
  <2>2. ~Over' /\ StackUntouched' /\ Starting'
    BY <1>3, <1>6, <1>7, <1>8 DEF Over, StackUntouched, Booted, Starting
  <2>3. QED BY <1>2, <1>3, <1>4, <1>5, <1>6, <1>9, <2>1, <2>2 DEF HostAgrees
<1>18. InitOnce'
  BY <1>4, <1>5, <1>6, <1>7 DEF InitOnce, Booted, CleanWhenOver
<1>19. NoStackCrash'
  BY <1>5 DEF NoStackCrash
<1>20. QED BY <1>10, <1>11, <1>12, <1>13, <1>14, <1>15, <1>16, <1>17, <1>18, <1>19

(* From here on the state manager has a callback with the stack. *)
LEMMA RegisterKept ==
  ASSUME BInv, MicroStackRegisterAppCb
  PROVE  BInv'
<1> USE DEF BInv, unchangedByOm, hlosVars, bmmVars, stackEnv, schedVars
<1>1. /\ om.pc = "register" /\ om'.pc = "mask" /\ om'.mode = om.mode /\ om.mode \in Modes
      /\ om' \in [pc : {"mask"}, mode : Modes]
      /\ appInfo' = appInfo \cup {"mgr"}
  BY DEF MicroStackRegisterAppCb, At, Goto, TypeOK
<1>2. UNCHANGED <<pipe, bt_on_mode, app_callbacks, clients, arbiter, awm, island, failed, schedVars,
                  unchangedByOm>>
  BY DEF MicroStackRegisterAppCb
<1>3. ~Over
  BY <1>1 DEF Threads, Starting
<1>4. InitOnce' /\ NoStackCrash'
  BY <1>2, Frames
<1>5. TypeOK'
  BY <1>1, <1>2 DEF TypeOK, SchedTypeOK
<1>6. Threads'
  BY <1>1, <1>2, <1>3 DEF Threads, Over, Stopping, Starting
<1>7. CleanWhenOver'
  BY <1>1, <1>2, <1>3 DEF CleanWhenOver, Over, Starting
<1>8. OneSubscription'
  BY <1>1, <1>2 DEF OneSubscription, Over, Booted, Starting
<1>9. Prepared'
  BY <1>1, <1>2 DEF Prepared, Booted, Done, Stopping
<1>10. TwoStops'
  <2>1. /\ MayMockOff(bt_on_mode, om)' = MayMockOff(bt_on_mode, om)
        /\ DoneOnce(om, pipe, thread)' = DoneOnce(om, pipe, thread)
    BY <1>1, <1>2 DEF MayMockOff, DoneOnce
  <2>2. QED BY <1>2, <2>1 DEF TwoStops, StopsToCome, Over
<1>11. OnePipe'
  BY <1>1, <1>2 DEF OnePipe, Over, StackUntouched, Booted, Done, Stopping
<1>12. HostAgrees'
  BY <1>1, <1>2
     DEF HostAgrees, Over, StackUntouched, Booted, Done, Stopping, Starting, Answered, InitOver
<1>13. QED BY <1>4, <1>5, <1>6, <1>7, <1>8, <1>9, <1>10, <1>11, <1>12

(* The one subscription of the session is put. *)
LEMMA EventMaskKept ==
  ASSUME BInv, BmmSetEventMaskReqSend
  PROVE  BInv'
<1> USE DEF BInv, unchangedByOm, hlosVars, bmmVars, stackEnv, mgrVars
<1> DEFINE p == Msg("SET_EVENT_MASK", "none")
<1>1. p \in BmmMessage /\ p.op = "SET_EVENT_MASK"
  BY DEF Msg, BmmMessage
<1>2. /\ om.pc = "mask" /\ om'.pc = "record" /\ om'.mode = om.mode /\ om.mode \in Modes
      /\ om' \in [pc : {"record"}, mode : Modes] /\ PutExternal(p)
  BY DEF BmmSetEventMaskReqSend, At, Goto, TypeOK
<1>3. UNCHANGED <<pipe, mgrVars, failed, unchangedByOm>>
  BY DEF BmmSetEventMaskReqSend
<1>4. /\ extMsgQueue' \in Seq(BmmMessage) /\ threadEvents' = threadEvents \cup {"EXT_MSG"}
      /\ UNCHANGED <<schedInstance, thread, schedEvents, taskQueue, timers>>
      /\ Num(extMsgQueue', "SET_EVENT_MASK") = Num(extMsgQueue, "SET_EVENT_MASK") + 1
      /\ \A op : op # "SET_EVENT_MASK" => Num(extMsgQueue', op) = Num(extMsgQueue, op)
      /\ Num(extMsgQueue, "PREPARE_STOP") = 0
           => Before(extMsgQueue', "SET_EVENT_MASK", "PREPARE_STOP")
  <2> HIDE DEF p
  <2>1. QED BY <1>1, <1>2, PutOutside DEF OneSubscription
<1>5. ~Over /\ Starting /\ Starting'
  BY <1>2 DEF Threads, Starting
<1>6. NoStackCrash'
  BY <1>3, Frames
<1>7. TypeOK'
  <2>1. SchedTypeOK(BmmMessage)'
    BY <1>4 DEF SchedTypeOK, TypeOK
  <2>2. QED BY <1>2, <1>3, <2>1 DEF TypeOK
<1>8. Threads'
  BY <1>2, <1>4 DEF Threads, Over, Stopping, Starting
<1>9. CleanWhenOver'
  BY <1>2, <1>3, <1>4 DEF CleanWhenOver, Over, Starting
<1>10. OneSubscription'
  <2>1. Num(extMsgQueue, "SET_EVENT_MASK") \in Nat /\ Num(taskQueue, "SET_EVENT_MASK") \in Nat
          /\ Num(taskQueue, "PREPARE_STOP") \in Nat /\ One(Booted /\ gBmm.subscribed) \in 0..1
    BY Counts DEF One
  <2>2. Num(extMsgQueue, "PREPARE_STOP") = 0 /\ Num(taskQueue, "PREPARE_STOP") = 0
    BY <1>5 DEF OneSubscription
  <2>3. One(Booted /\ gBmm.subscribed)' = One(Booted /\ gBmm.subscribed)
    BY <1>3, <1>4 DEF One, Booted
  <2>4. QED BY <1>2, <1>3, <1>4, <1>5, <2>1, <2>2, <2>3 DEF OneSubscription
<1>11. Prepared'
  BY <1>2, <1>3, <1>4 DEF Prepared, Booted, Done, Stopping
<1>12. TwoStops'
  <2>1. /\ MayMockOff(bt_on_mode, om)' = MayMockOff(bt_on_mode, om)
        /\ DoneOnce(om, pipe, thread)' = DoneOnce(om, pipe, thread)
        /\ Requests(extMsgQueue, taskQueue)' = Requests(extMsgQueue, taskQueue)
    BY <1>2, <1>3, <1>4 DEF MayMockOff, DoneOnce, Requests
  <2>2. QED BY <1>3, <1>4, <2>1 DEF TwoStops, StopsToCome, Over
<1>13. OnePipe'
  BY <1>2, <1>3, <1>4 DEF OnePipe, Over, StackUntouched, Booted, Done, Stopping
<1>14. HostAgrees'
  BY <1>2, <1>3, <1>4
     DEF HostAgrees, Over, StackUntouched, Booted, Done, Stopping, Starting, Answered, InitOver
<1>15. InitOnce'
  BY <1>3, <1>4 DEF InitOnce, Booted, Over, Answered, InitOver
<1>16. QED BY <1>6, <1>7, <1>8, <1>9, <1>10, <1>11, <1>12, <1>13, <1>14, <1>15

(* The mode is recorded: the mock off that was to come is one that may come. *)
LEMMA RecordModeKept ==
  ASSUME BInv, RecordMode
  PROVE  BInv'
<1> USE DEF BInv, unchangedByOm, hlosVars, bmmVars, stackEnv, schedVars
<1>1. /\ om.pc = "record" /\ om'.pc = "idle" /\ om'.mode = om.mode /\ om.mode \in Modes
      /\ om' \in [pc : {"idle"}, mode : Modes]
      /\ bt_on_mode' = om.mode
  BY DEF RecordMode, At, Goto, TypeOK
<1>2. UNCHANGED <<pipe, app_callbacks, clients, appInfo, arbiter, awm, island, failed, schedVars,
                  unchangedByOm>>
  BY DEF RecordMode
<1>3. ~Over /\ Starting /\ ~Starting'
  BY <1>1 DEF Threads, Starting
<1>4. InitOnce' /\ NoStackCrash'
  BY <1>2, Frames
<1>5. TypeOK'
  BY <1>1, <1>2 DEF TypeOK, SchedTypeOK
<1>6. Threads'
  BY <1>1, <1>2, <1>3 DEF Threads, Over, Stopping, Starting
<1>7. CleanWhenOver'
  BY <1>1, <1>2, <1>3 DEF CleanWhenOver, Over
<1>8. OneSubscription'
  BY <1>1, <1>2, <1>3 DEF OneSubscription, Over, Booted
<1>9. Prepared'
  BY <1>1, <1>2 DEF Prepared, Booted, Done, Stopping
<1>10. TwoStops'
  <2>1. /\ MayMockOff(bt_on_mode, om)' = MayMockOff(bt_on_mode, om)
        /\ DoneOnce(om, pipe, thread)' = DoneOnce(om, pipe, thread)
    BY <1>1, <1>2 DEF MayMockOff, DoneOnce, Modes
  <2>2. QED BY <1>2, <2>1 DEF TwoStops, StopsToCome, Over
<1>11. OnePipe'
  BY <1>1, <1>2 DEF OnePipe, Over, StackUntouched, Booted, Done, Stopping
<1>12. HostAgrees'
  BY <1>1, <1>2 DEF HostAgrees, Over, StackUntouched, Booted, Done, Stopping, Answered, InitOver
<1>13. QED BY <1>4, <1>5, <1>6, <1>7, <1>8, <1>9, <1>10, <1>11, <1>12

(* What a request to prepare the stop does to the external queue. *)
LEMMA StopRequested ==
  ASSUME TypeOK, NEW reason \in StopReasons, PutExternal(Msg("PREPARE_STOP", reason))
  PROVE  /\ extMsgQueue' \in Seq(BmmMessage) /\ threadEvents' = threadEvents \cup {"EXT_MSG"}
         /\ UNCHANGED <<schedInstance, thread, schedEvents, taskQueue, timers>>
         /\ \A op : op # "PREPARE_STOP" => Num(extMsgQueue', op) = Num(extMsgQueue, op)
         /\ Before(extMsgQueue, "SET_EVENT_MASK", "PREPARE_STOP")
              => Before(extMsgQueue', "SET_EVENT_MASK", "PREPARE_STOP")
         /\ Requests(extMsgQueue, taskQueue)' = Requests(extMsgQueue, taskQueue) + 1
         /\ SchedTypeOK(BmmMessage)'
<1> DEFINE p == Msg("PREPARE_STOP", reason)
<1>1. p \in BmmMessage /\ p.op = "PREPARE_STOP"
  BY DEF Msg, BmmMessage
<1>2. /\ extMsgQueue' \in Seq(BmmMessage) /\ threadEvents' = threadEvents \cup {"EXT_MSG"}
      /\ UNCHANGED <<schedInstance, thread, schedEvents, taskQueue, timers>>
      /\ Num(extMsgQueue', "PREPARE_STOP") = Num(extMsgQueue, "PREPARE_STOP") + 1
      /\ \A op : op # "PREPARE_STOP" => Num(extMsgQueue', op) = Num(extMsgQueue, op)
      /\ Before(extMsgQueue, "SET_EVENT_MASK", "PREPARE_STOP")
           => Before(extMsgQueue', "SET_EVENT_MASK", "PREPARE_STOP")
  <2> HIDE DEF p
  <2>1. PutExternal(p)
    BY DEF p
  <2>2. QED BY <1>1, <2>1, PutOutside
<1>3. Requests(extMsgQueue, taskQueue)' = Requests(extMsgQueue, taskQueue) + 1
  <2>1. NumbersTyped
    BY Numbers
  <2>2. QED BY <1>2, <2>1 DEF Requests, NumbersTyped
<1>4. SchedTypeOK(BmmMessage)'
  BY <1>2 DEF SchedTypeOK, TypeOK
<1>5. QED BY <1>2, <1>3, <1>4

(* The disable that is taken becomes the request to prepare, in a stack      *)
(* nobody stopped.                                                           *)
LEMMA BtOffKept ==
  ASSUME BInv, bt_state_off_handle
  PROVE  BInv'
<1> USE DEF BInv
<1>1. Receive("BT_DISABLE") /\ om' = om /\ om.pc = "idle"
  BY Received DEF bt_state_off_handle
<1>2. Num(pipe, "BT_DISABLE") = 1 /\ Num(pipe', "BT_DISABLE") = 0
  BY <1>1, Received, Counts DEF OnePipe
<1>3. ~Over /\ hlos.state \in {"disabling", "dead"} /\ schedInstance
  BY <1>2 DEF OnePipe, Threads, Over
<1>4. Num(pipe, "BT_ENABLE") = 0 /\ Num(pipe', "BT_ENABLE") = 0
  BY <1>1, <1>3, Received, Counts DEF OnePipe
<1>5. PICK reason \in StopReasons : PutExternal(Msg("PREPARE_STOP", reason)) /\ failed' = failed
  <2>1. Head(pipe) \in PipeMessage /\ Head(pipe).op = "BT_DISABLE"
    BY <1>1, Received
  <2>2. Head(pipe).arg \in StopReasons
    BY <2>1 DEF PipeMessage, Msg
  <2>3. QED BY <1>3, <2>2 DEF bt_state_off_handle, BmmPrepareStopReqSend
<1>6. /\ island' = FALSE
      /\ UNCHANGED <<om, bt_on_mode, app_callbacks, clients, appInfo, arbiter, awm, unchangedByOm>>
  BY DEF bt_state_off_handle
<1>7. /\ extMsgQueue' \in Seq(BmmMessage) /\ threadEvents' = threadEvents \cup {"EXT_MSG"}
      /\ UNCHANGED <<schedInstance, thread, schedEvents, taskQueue, timers>>
      /\ \A op : op # "PREPARE_STOP" => Num(extMsgQueue', op) = Num(extMsgQueue, op)
      /\ Before(extMsgQueue, "SET_EVENT_MASK", "PREPARE_STOP")
           => Before(extMsgQueue', "SET_EVENT_MASK", "PREPARE_STOP")
      /\ Requests(extMsgQueue, taskQueue)' = Requests(extMsgQueue, taskQueue) + 1
      /\ SchedTypeOK(BmmMessage)'
  BY <1>5, StopRequested
<1> USE DEF unchangedByOm, hlosVars, bmmVars, stackEnv
<1>8. Num(pipe', "PREP_STOP_DONE") = Num(pipe, "PREP_STOP_DONE")
  BY <1>1, Received
<1>9. TypeOK'
  <2>1. pipe' \in Seq(PipeMessage) /\ Len(pipe') <= PipeSize
    BY <1>1, Received
  <2>2. island' \in BOOLEAN
    BY <1>6
  <2>3. UNCHANGED <<hlos, sessions, channels, rsp, om, bt_on_mode, app_callbacks, clients, appInfo,
                    arbiter, awm, gBmm, retryCount, activation, periOff, btss, rx, failed>>
    BY <1>5, <1>6
  <2>4. QED BY <1>7, <2>1, <2>2, <2>3 DEF TypeOK
<1>10. Threads'
  BY <1>6, <1>7 DEF Threads, Over, Stopping, Starting
<1>11. CleanWhenOver'
  BY <1>3, <1>6, <1>7 DEF CleanWhenOver, Over, Starting
<1>12. OneSubscription'
  BY <1>1, <1>6, <1>7 DEF OneSubscription, Over, Booted, Starting
<1>13. Prepared'
  BY <1>6, <1>7, <1>8 DEF Prepared, Booted, Done, Stopping
<1>14. TwoStops'
  <2>1. MayDisable(hlos, pipe)' = 0 /\ MayDisable(hlos, pipe) = 1
    BY <1>2, <1>3, <1>6 DEF MayDisable, One
  <2>2. DoneOnce(om, pipe, thread)' = DoneOnce(om, pipe, thread)
    BY <1>6, <1>7, <1>8 DEF DoneOnce
  <2>3. NumbersTyped
    BY Numbers
  <2>4. QED BY <1>3, <1>6, <1>7, <2>1, <2>2, <2>3, Ones DEF TwoStops, StopsToCome, NumbersTyped
<1>15. OnePipe'
  <2>1. Args(pipe', "BT_ENABLE") \subseteq Args(pipe, "BT_ENABLE")
    BY <1>1, Received
  <2>2. /\ Before(pipe, "PREP_STOP_DONE", "BT_ENABLE") => Before(pipe', "PREP_STOP_DONE", "BT_ENABLE")
        /\ Before(pipe, "BT_DISABLE", "DISCONNECTED") => Before(pipe', "BT_DISABLE", "DISCONNECTED")
    BY <1>1, Received
  <2>3. QED BY <1>2, <1>4, <1>6, <2>1, <2>2 DEF OnePipe
<1>16. HostAgrees'
  BY <1>3, <1>6, <1>7 DEF HostAgrees, Over, Booted, Answered, InitOver
<1>17. InitOnce'
  BY <1>6, <1>7 DEF InitOnce, Booted, Over, Answered, InitOver
<1>18. NoStackCrash'
  BY <1>5 DEF NoStackCrash
<1>19. QED BY <1>9, <1>10, <1>11, <1>12, <1>13, <1>14, <1>15, <1>16, <1>17, <1>18

(* A mock off becomes the request to prepare, and its session is mocked off  *)
(* only once.                                                                *)
LEMMA MockOffKept ==
  ASSUME BInv, bt_state_check_and_mock_off
  PROVE  BInv'
<1> USE DEF BInv
<1>1. Receive("DISCONNECTED") /\ om' = om /\ om.pc = "idle"
  BY Received DEF bt_state_check_and_mock_off
<1>2. UNCHANGED <<om, app_callbacks, clients, appInfo, arbiter, awm, unchangedByOm>>
  BY DEF bt_state_check_and_mock_off
<1>3. /\ \A op : op # "DISCONNECTED" => Num(pipe', op) = Num(pipe, op)
      /\ Num(pipe, "DISCONNECTED") > 0 /\ Num(pipe, "BT_DISABLE") = 0
      /\ Args(pipe', "BT_ENABLE") \subseteq Args(pipe, "BT_ENABLE")
      /\ \A a, b : Before(pipe, a, b) => Before(pipe', a, b)
      /\ pipe' \in Seq(PipeMessage) /\ Len(pipe') <= PipeSize
  <2>1. Num(pipe', "DISCONNECTED") \in Nat
          /\ Num(pipe, "DISCONNECTED") = Num(pipe', "DISCONNECTED") + 1
    BY <1>1, Received
  <2>2. QED BY <1>1, <2>1, Received DEF OnePipe
<1>4. hlos.state \in {"enabling", "on"} => Num(pipe, "BT_ENABLE") > 0 /\ Over
  BY <1>3, Counts DEF HostAgrees, OnePipe
<1> USE DEF unchangedByOm, hlosVars, bmmVars, stackEnv
<1>5. CASE ~MockOffNeeded
  <2>1. UNCHANGED <<bt_on_mode, island, failed, schedVars>>
    BY <1>5 DEF bt_state_check_and_mock_off
  <2> USE DEF schedVars
  <2>2. Threads' /\ CleanWhenOver' /\ OneSubscription' /\ InitOnce' /\ NoStackCrash'
    BY <1>2, <2>1, Frames
  <2>3. TypeOK'
    BY <1>2, <1>3, <2>1 DEF TypeOK, SchedTypeOK
  <2>4. Prepared'
    BY <1>2, <1>3, <2>1 DEF Prepared, Booted, Done, Stopping
  <2>5. TwoStops'
    BY <1>2, <1>3, <2>1 DEF TwoStops, StopsToCome, MayDisable, DoneOnce, Over
  <2>6. OnePipe'
    BY <1>2, <1>3, <2>1 DEF OnePipe, Over
  <2>7. HostAgrees'
    BY <1>2, <1>3, <1>4, <2>1 DEF HostAgrees, Over, Booted, Answered, InitOver
  <2>8. QED BY <2>2, <2>3, <2>4, <2>5, <2>6, <2>7
<1>6. CASE MockOffNeeded
  <2>1. bt_on_mode \in Modes /\ bt_on_mode' = SsrOf(bt_on_mode) /\ island' = FALSE
          /\ BmmPrepareStopReqSend("USER")
    BY <1>6 DEF bt_state_check_and_mock_off, MockOffNeeded
  <2>2. ~Over /\ schedInstance /\ Num(pipe, "BT_ENABLE") = 0
    BY <2>1, Counts DEF CleanWhenOver, Threads, Over, Modes, OnePipe
  <2>3. PutExternal(Msg("PREPARE_STOP", "USER")) /\ failed' = failed
    BY <2>1, <2>2 DEF BmmPrepareStopReqSend
  <2>4. /\ extMsgQueue' \in Seq(BmmMessage) /\ threadEvents' = threadEvents \cup {"EXT_MSG"}
        /\ UNCHANGED <<schedInstance, thread, schedEvents, taskQueue, timers>>
        /\ \A op : op # "PREPARE_STOP" => Num(extMsgQueue', op) = Num(extMsgQueue, op)
        /\ Before(extMsgQueue, "SET_EVENT_MASK", "PREPARE_STOP")
             => Before(extMsgQueue', "SET_EVENT_MASK", "PREPARE_STOP")
        /\ Requests(extMsgQueue, taskQueue)' = Requests(extMsgQueue, taskQueue) + 1
        /\ SchedTypeOK(BmmMessage)'
    <3>1. "USER" \in StopReasons
      BY DEF StopReasons
    <3>2. QED BY <2>3, <3>1, StopRequested
  <2>5. bt_on_mode' \in SsrModes /\ bt_on_mode' \notin Modes
          /\ (bt_on_mode = "OFFLD" => bt_on_mode' = "OFFLD_SSR")
    BY <2>1 DEF SsrOf, SsrModes, Modes
  <2>6. TypeOK'
    <3>1. island' \in BOOLEAN
      BY <2>1
    <3>2. UNCHANGED <<hlos, sessions, channels, rsp, om, app_callbacks, clients, appInfo, arbiter,
                      awm, gBmm, retryCount, activation, periOff, btss, rx, failed>>
      BY <1>2, <2>3
    <3>3. QED BY <1>3, <2>4, <2>5, <3>1, <3>2 DEF TypeOK
  <2>7. Threads'
    BY <1>2, <2>4 DEF Threads, Over, Stopping, Starting
  <2>8. CleanWhenOver'
    BY <1>1, <1>2, <2>1, <2>2, <2>4, <2>5 DEF CleanWhenOver, Over, Starting, Modes
  <2>9. OneSubscription'
    BY <1>1, <1>2, <2>4 DEF OneSubscription, Over, Booted, Starting
  <2>10. Prepared'
    BY <1>2, <1>3, <2>4 DEF Prepared, Booted, Done, Stopping
  <2>11. TwoStops'
    <3>1. MayMockOff(bt_on_mode, om) = 1 /\ MayMockOff(bt_on_mode, om)' = 0
      BY <1>1, <2>1, <2>5 DEF MayMockOff, One
    <3>2. /\ DoneOnce(om, pipe, thread)' = DoneOnce(om, pipe, thread)
          /\ MayDisable(hlos, pipe)' = MayDisable(hlos, pipe)
      BY <1>2, <1>3, <2>4 DEF DoneOnce, MayDisable
    <3>3. NumbersTyped
      BY Numbers
    <3>4. QED BY <1>2, <2>2, <2>4, <3>1, <3>2, <3>3, Ones DEF TwoStops, StopsToCome, NumbersTyped
  <2>12. OnePipe'
    BY <1>2, <1>3, <2>2, <2>4 DEF OnePipe, Over
  <2>13. HostAgrees'
    BY <1>2, <1>3, <1>4, <2>2, <2>4 DEF HostAgrees, Over, Booted, Answered, InitOver
  <2>14. InitOnce'
    BY <1>2, <2>4 DEF InitOnce, Booted, Over, Answered, InitOver
  <2>15. NoStackCrash'
    BY <2>3 DEF NoStackCrash
  <2>16. QED BY <2>6, <2>7, <2>8, <2>9, <2>10, <2>11, <2>12, <2>13, <2>14, <2>15
<1>7. QED BY <1>5, <1>6

(* A confirmation is taken: the stop begins, or there was nothing to stop.   *)
LEMMA MicroStackStopKept ==
  ASSUME BInv, MicroStackStop
  PROVE  BInv'
<1> USE DEF BInv, unchangedByOm, hlosVars, bmmVars, stackEnv, mgrVars
<1>1. Receive("PREP_STOP_DONE") /\ om.pc = "idle"
  BY Received DEF MicroStackStop
<1>2. UNCHANGED <<mgrVars, failed, unchangedByOm>>
  BY DEF MicroStackStop
<1>3. /\ \A op : op # "PREP_STOP_DONE" => Num(pipe', op) = Num(pipe, op)
      /\ Num(pipe, "PREP_STOP_DONE") > 0 /\ Num(pipe', "PREP_STOP_DONE") \in Nat
      /\ Args(pipe', "BT_ENABLE") \subseteq Args(pipe, "BT_ENABLE")
      /\ \A a, b : Before(pipe, a, b) => Before(pipe', a, b)
      /\ pipe' \in Seq(PipeMessage) /\ Len(pipe') <= PipeSize
  <2>1. Num(pipe', "PREP_STOP_DONE") \in Nat
          /\ Num(pipe, "PREP_STOP_DONE") = Num(pipe', "PREP_STOP_DONE") + 1
    BY <1>1, Received
  <2>2. QED BY <1>1, <2>1, Received
<1>4. Done /\ ~StackUntouched
  BY <1>3 DEF Done, StackUntouched
<1>5. Num(pipe, "BT_DISABLE") = 0
        /\ (hlos.state \in {"enabling", "on"} => Num(pipe, "BT_ENABLE") > 0 /\ Over)
  BY <1>4, Counts DEF OnePipe, HostAgrees
<1>6. CASE ~schedInstance
  <2>1. UNCHANGED <<om, schedVars>>
    BY <1>6 DEF MicroStackStop
  <2> USE DEF schedVars
  <2>2. Threads' /\ CleanWhenOver' /\ OneSubscription' /\ InitOnce' /\ NoStackCrash'
    BY <1>2, <2>1, Frames
  <2>3. Over /\ thread = "none" /\ thread' = "none" /\ Over'
    BY <1>6, <2>1 DEF Threads, Over
  <2>4. TypeOK'
    BY <1>2, <1>3, <2>1 DEF TypeOK, SchedTypeOK
  <2>5. Prepared'
    BY <2>3 DEF Prepared, Booted
  <2>6. TwoStops'
    BY <2>3 DEF TwoStops
  <2>7. OnePipe'
    BY <1>2, <1>3, <1>5, <2>3 DEF OnePipe
  <2>8. HostAgrees'
    BY <1>2, <1>3, <1>5, <2>1, <2>3 DEF HostAgrees, OnePipe
  <2>9. QED BY <2>2, <2>4, <2>5, <2>6, <2>7, <2>8
<1>7. CASE schedInstance
  <2>1. CsrSchedStop /\ om'.pc = "stopWait" /\ om'.mode = om.mode
          /\ om' \in [pc : {"stopWait"}, mode : Modes]
    BY <1>7 DEF MicroStackStop, Goto, TypeOK
  <2>2. threadEvents' = threadEvents \cup {"STOP_REQ"}
          /\ UNCHANGED <<schedInstance, thread, schedEvents, extMsgQueue, taskQueue, timers>>
    BY <2>1 DEF CsrSchedStop
  <2>3. ~Over /\ thread # "stopped" /\ thread # "created" /\ Done'
    BY <1>1, <1>4, <1>7, <2>1 DEF Threads, Over, Stopping, Prepared, Done
  <2>4. TypeOK'
    BY <1>2, <1>3, <2>1, <2>2 DEF TypeOK, SchedTypeOK
  <2>5. Threads'
    BY <1>1, <2>1, <2>2, <2>3 DEF Threads, Over, Stopping, Starting
  <2>6. CleanWhenOver'
    BY <1>1, <1>2, <2>1, <2>2, <2>3 DEF CleanWhenOver, Over, Starting
  <2>7. OneSubscription'
    BY <1>1, <1>2, <2>1, <2>2 DEF OneSubscription, Over, Booted, Starting
  <2>8. Prepared'
    BY <1>2, <1>4, <2>2, <2>3 DEF Prepared, Booted
  <2>9. TwoStops'
    <3>1. DoneOnce(om, pipe, thread)' = DoneOnce(om, pipe, thread)
      BY <1>3, <2>1 DEF DoneOnce, One
    <3>2. /\ MayDisable(hlos, pipe)' = MayDisable(hlos, pipe)
          /\ MayMockOff(bt_on_mode, om)' = MayMockOff(bt_on_mode, om)
      BY <1>1, <1>2, <1>3, <2>1 DEF MayMockOff, MayDisable
    <3>3. QED BY <1>2, <2>2, <3>1, <3>2 DEF TwoStops, StopsToCome, Over
  <2>10. OnePipe'
    BY <1>2, <1>3, <1>5, <2>2 DEF OnePipe, Over
  <2>11. HostAgrees'
    BY <1>2, <1>3, <1>5, <2>2 DEF HostAgrees, Over, Booted, Answered, InitOver
  <2>12. InitOnce' /\ NoStackCrash'
    BY <1>2, <2>2, Frames
  <2>13. QED BY <2>4, <2>5, <2>6, <2>7, <2>8, <2>9, <2>10, <2>11, <2>12
<1>8. QED BY <1>6, <1>7

(* The stack's loop has ended: it is told to deinitialise its tasks. *)
LEMMA StackStoppedKept ==
  ASSUME BInv, StackStopped
  PROVE  BInv'
<1> USE DEF BInv, unchangedByOm, hlosVars, bmmVars, stackEnv, mgrVars
<1>1. /\ om.pc = "stopWait" /\ om'.pc = "deinitWait" /\ om'.mode = om.mode
      /\ om' \in [pc : {"deinitWait"}, mode : Modes]
      /\ "STOP_CFM" \in schedEvents /\ schedEvents' = {}
      /\ threadEvents' = threadEvents \cup {"DEINIT_REQ"}
      /\ UNCHANGED <<schedInstance, thread, extMsgQueue, taskQueue, timers>>
  BY DEF StackStopped, At, Goto, TypeOK, StopConfirmed
<1>2. UNCHANGED <<pipe, mgrVars, failed, unchangedByOm>>
  BY DEF StackStopped
<1>3. thread = "stopped" /\ "STOP_REQ" \notin threadEvents /\ ~Over
  BY <1>1 DEF Threads, Over
<1>4. InitOnce' /\ NoStackCrash'
  BY <1>1, <1>2, Frames
<1>5. TypeOK'
  BY <1>1, <1>2 DEF TypeOK, SchedTypeOK
<1>6. Threads'
  BY <1>1, <1>3 DEF Threads, Over, Stopping, Starting
<1>7. CleanWhenOver'
  BY <1>1, <1>2 DEF CleanWhenOver, Over, Starting
<1>8. OneSubscription'
  BY <1>1, <1>2 DEF OneSubscription, Over, Booted, Starting
<1>9. Prepared'
  BY <1>1, <1>2 DEF Prepared, Booted, Done, Stopping
<1>10. TwoStops'
  <2>1. /\ MayMockOff(bt_on_mode, om)' = MayMockOff(bt_on_mode, om)
        /\ DoneOnce(om, pipe, thread)' = DoneOnce(om, pipe, thread)
    BY <1>1, <1>2 DEF MayMockOff, DoneOnce
  <2>2. QED BY <1>1, <1>2, <2>1 DEF TwoStops, StopsToCome, Over
<1>11. OnePipe'
  BY <1>1, <1>2 DEF OnePipe, Over, StackUntouched, Booted, Done, Stopping
<1>12. HostAgrees'
  BY <1>1, <1>2
     DEF HostAgrees, Over, StackUntouched, Booted, Done, Stopping, Starting, Answered, InitOver
<1>13. QED BY <1>4, <1>5, <1>6, <1>7, <1>8, <1>9, <1>10, <1>11, <1>12

(* The stack's thread has ended: the scheduler goes, and what its queues     *)
(* held.                                                                     *)
LEMMA StackDeinitialisedKept ==
  ASSUME BInv, StackDeinitialised
  PROVE  BInv'
<1> USE DEF BInv, unchangedByOm, hlosVars, bmmVars, stackEnv, mgrVars
<1>1. /\ om.pc = "deinitWait" /\ om'.pc = "idle" /\ om'.mode = om.mode
      /\ om' \in [pc : {"idle"}, mode : Modes]
      /\ "DEINIT_CFM" \in schedEvents
      /\ schedInstance' = FALSE /\ thread' = "none" /\ threadEvents' = {} /\ schedEvents' = {}
      /\ extMsgQueue' = <<>> /\ taskQueue' = <<>> /\ timers' = 0
  BY DEF StackDeinitialised, At, Goto, TypeOK, CsrSchedDeinit
<1>2. UNCHANGED <<pipe, mgrVars, failed, unchangedByOm>>
  BY DEF StackDeinitialised
<1>3. thread = "gone" /\ Over /\ Over' /\ ~Booted'
  BY <1>1 DEF Threads, Over, Booted
<1>4. \A op : Num(extMsgQueue', op) = 0 /\ Num(taskQueue', op) = 0
  BY <1>1, NumEmpty
<1>5. TypeOK'
  <2>1. SchedTypeOK(BmmMessage)'
    <3>1. CsrSchedDeinit
      BY DEF StackDeinitialised
    <3>2. schedInstance' \in BOOLEAN
      BY <3>1 DEF CsrSchedDeinit
    <3>3. extMsgQueue' \in Seq(BmmMessage) /\ taskQueue' \in Seq(BmmMessage)
      BY <3>1 DEF CsrSchedDeinit
    <3>4. QED BY <3>1, <3>2, <3>3 DEF CsrSchedDeinit, SchedTypeOK
  <2>2. om' \in [pc : {"idle"}, mode : Modes]
    BY <1>1
  <2>3. QED BY <1>2, <2>1, <2>2 DEF TypeOK
<1>6. Threads'
  BY <1>1 DEF Threads, Over, Stopping, Starting
<1>7. CleanWhenOver'
  BY <1>1, <1>2, <1>3 DEF CleanWhenOver, Starting
<1>8. OneSubscription'
  BY <1>1, <1>3, <1>4, NumEmpty DEF OneSubscription
<1>9. Prepared'
  BY <1>1, <1>3 DEF Prepared
<1>10. TwoStops'
  BY <1>3 DEF TwoStops
<1>11. OnePipe'
  BY <1>2, <1>3 DEF OnePipe
<1>12. HostAgrees'
  BY <1>2, <1>3, Counts DEF HostAgrees, OnePipe
<1>13. InitOnce'
  BY <1>1, <1>2, <1>3, <1>4 DEF InitOnce, CleanWhenOver
<1>14. NoStackCrash'
  BY <1>2 DEF NoStackCrash
<1>15. QED BY <1>5, <1>6, <1>7, <1>8, <1>9, <1>10, <1>11, <1>12, <1>13, <1>14

(* A client's message may end the processor by an assertion, which is not a  *)
(* stack crash.                                                              *)
LEMMA MicrostackMsgKept ==
  ASSUME BInv, offload_mgr_microstack_msg_handler
  PROVE  BInv'
<1> USE DEF BInv, unchangedByOm, hlosVars, bmmVars, stackEnv, mgrVars, schedVars
<1>1. Receive("MICROSTACK_RX") /\ failed' \in {failed, "assert"}
        /\ UNCHANGED <<om, mgrVars, schedVars, unchangedByOm>>
  BY DEF offload_mgr_microstack_msg_handler
<1>2. /\ \A op : op # "MICROSTACK_RX" => Num(pipe', op) = Num(pipe, op)
      /\ Args(pipe', "BT_ENABLE") \subseteq Args(pipe, "BT_ENABLE")
      /\ \A a, b : Before(pipe, a, b) => Before(pipe', a, b)
      /\ pipe' \in Seq(PipeMessage) /\ Len(pipe') <= PipeSize
  BY <1>1, Received
<1>3. Threads' /\ CleanWhenOver' /\ OneSubscription' /\ InitOnce'
  BY <1>1, Frames
<1>4. TypeOK'
  BY <1>1, <1>2 DEF TypeOK, SchedTypeOK
<1>5. NoStackCrash'
  BY <1>1 DEF NoStackCrash
<1>6. Prepared'
  BY <1>1, <1>2 DEF Prepared, Booted, Done, Stopping
<1>7. TwoStops'
  BY <1>1, <1>2 DEF TwoStops, StopsToCome, MayDisable, DoneOnce, Over
<1>8. OnePipe'
  BY <1>1, <1>2 DEF OnePipe, Over, StackUntouched, Booted, Done, Stopping
<1>9. HostAgrees'
  BY <1>1, <1>2
     DEF HostAgrees, Over, StackUntouched, Booted, Done, Stopping, Starting, Answered, InitOver
<1>10. QED BY <1>3, <1>4, <1>5, <1>6, <1>7, <1>8, <1>9

-----------------------------------------------------------------------------
(* The actions of the microstack's thread. *)

(* Where the thread stands while it runs its loop. *)
InLoop == {"turn", "events", "initInd", "postStop", "postRx"}

(* In the loop, the thread does not meet the stop protocol. *)
LEMMA LoopThreads ==
  ASSUME Threads, thread \in InLoop, thread' \in InLoop,
         UNCHANGED <<schedInstance, threadEvents, schedEvents, om>>
  PROVE  Threads' /\ Booted /\ Booted' /\ ~Over /\ ~Over' /\ om.pc # "deinitWait"
BY DEF Threads, Over, Booted, Stopping, Starting, InLoop

(* The BMM task takes a message, ... *)
LEMMA MessageTaken ==
  ASSUME TypeOK, NEW m \in BmmMessage, NEW next, TakeMessage(m, next)
  PROVE  /\ thread = "turn" /\ thread' = next /\ taskQueue' \in Seq(BmmMessage)
         /\ UNCHANGED <<schedInstance, threadEvents, schedEvents, extMsgQueue>>
         /\ \A op : Num(taskQueue, op)
                     = IF m.op = op THEN Num(taskQueue', op) + 1 ELSE Num(taskQueue', op)
         /\ \A op : Num(taskQueue', op) \in Nat
         /\ \A a, b : Before(taskQueue, a, b) => Before(taskQueue', a, b)
         /\ \A a : a # m.op /\ Before(taskQueue, a, m.op) => Num(taskQueue, a) = 0
<1>1. taskQueue \in Seq(BmmMessage) /\ taskQueue # <<>> /\ taskQueue' = Tail(taskQueue)
        /\ Head(taskQueue) = m
  BY Counts DEF TakeMessage
<1>2. taskQueue' \in Seq(BmmMessage)
  BY <1>1
<1>3. \A op : Num(taskQueue, op)
                = IF m.op = op THEN Num(taskQueue', op) + 1 ELSE Num(taskQueue', op)
  <2>1. SUFFICES ASSUME NEW op
                 PROVE  Num(taskQueue, op)
                          = IF m.op = op THEN Num(taskQueue', op) + 1 ELSE Num(taskQueue', op)
    OBVIOUS
  <2>2. QED BY <1>1, NumTail
<1>4. \A op : Num(taskQueue', op) \in Nat
  BY <1>2, NumTypes
<1>5. \A a, b : Before(taskQueue, a, b) => Before(taskQueue', a, b)
  BY <1>1, BeforeTail
<1>6. \A a : a # m.op /\ Before(taskQueue, a, m.op) => Num(taskQueue, a) = 0
  BY <1>1, BeforeHead
<1>7. QED BY <1>2, <1>3, <1>4, <1>5, <1>6 DEF TakeMessage

(* ... and another task sends it one. *)
LEMMA MessageSent ==
  ASSUME TypeOK, NEW m \in BmmMessage, NEW next, OtherTurn(<<m>>, next)
  PROVE  /\ thread = "turn" /\ thread' = next /\ taskQueue' \in Seq(BmmMessage)
         /\ UNCHANGED <<schedInstance, threadEvents, schedEvents, extMsgQueue, timers>>
         /\ \A op : Num(taskQueue', op)
                     = IF m.op = op THEN Num(taskQueue, op) + 1 ELSE Num(taskQueue, op)
         /\ \A op : Num(taskQueue, op) \in Nat
         /\ \A a, b : a # b /\ Before(taskQueue, a, b) /\ m.op # a => Before(taskQueue', a, b)
<1>1. taskQueue \in Seq(BmmMessage) /\ taskQueue' = Append(taskQueue, m)
  <2>1. taskQueue \in Seq(BmmMessage) /\ taskQueue' = taskQueue \o <<m>>
    BY Counts DEF OtherTurn
  <2>2. QED BY <2>1
<1>2. taskQueue' \in Seq(BmmMessage)
  BY <1>1
<1>3. \A op : Num(taskQueue', op)
                = IF m.op = op THEN Num(taskQueue, op) + 1 ELSE Num(taskQueue, op)
  <2>1. SUFFICES ASSUME NEW op
                 PROVE  Num(taskQueue', op)
                          = IF m.op = op THEN Num(taskQueue, op) + 1 ELSE Num(taskQueue, op)
    OBVIOUS
  <2>2. QED BY <1>1, NumAppend
<1>4. \A a, b : a # b /\ Before(taskQueue, a, b) /\ m.op # a => Before(taskQueue', a, b)
  BY <1>1, BeforeAppend
<1>5. QED BY <1>2, <1>3, <1>4, Counts DEF OtherTurn

(* The stack's thread starts, and resets what the last session left in BMM.  *)
LEMMA BmmInitKept ==
  ASSUME BInv, BmmInit
  PROVE  BInv'
<1> USE DEF BInv, unchangedByStack, hlosVars, mgrVars
<1>1. /\ thread = "created" /\ thread' = "turn" /\ threadEvents' = threadEvents \ {"START"}
      /\ UNCHANGED <<schedInstance, schedEvents, extMsgQueue, taskQueue, timers>>
  BY DEF BmmInit, LoopStart
<1>2. /\ gBmm' = [state |-> "INIT_IN_PROGRESS", subscribed |-> FALSE, prepareStopHandle |-> "none"]
      /\ activation' = "pending" /\ periOff' = FALSE /\ btss' = [btss EXCEPT !.down = FALSE]
      /\ rx' = 0
  BY DEF BmmInit
<1>3. UNCHANGED <<rsp, pipe, mgrVars, retryCount, failed, unchangedByStack>>
  BY DEF BmmInit
<1>4. ~Over /\ ~Over' /\ ~Booted /\ Booted' /\ ~Answered /\ ~Answered' /\ ~gBmm'.subscribed
  BY <1>1, <1>2 DEF Over, Booted, Answered
<1>5. timers = 0 /\ taskQueue = <<>> /\ ~Done /\ ~Done' /\ (\A op : Num(taskQueue, op) = 0)
  BY <1>1, <1>3, NumEmpty DEF Prepared, Done, Stopping
<1>6. TypeOK'
  <2>1. SchedTypeOK(BmmMessage)'
    BY <1>1 DEF SchedTypeOK, TypeOK
  <2>2. gBmm' \in [state : {"NOT_INITIALIZED", "INIT_IN_PROGRESS", "INIT_SUCCESS", "INIT_FAILURE"},
                   subscribed : BOOLEAN, prepareStopHandle : {"none", "mgr"}]
    BY <1>2
  <2>3. btss' \in [crashes : 0..MaxBtss, down : BOOLEAN] /\ periOff' \in BOOLEAN
    BY <1>2 DEF TypeOK
  <2>4. rx' \in 0..MaxRx /\ activation' \in {"none", "pending", "done"}
    BY <1>2, BtStateAssumption
  <2>5. QED BY <1>3, <2>1, <2>2, <2>3, <2>4 DEF TypeOK
<1>7. Threads'
  BY <1>1, <1>3 DEF Threads, Over, Stopping, Starting
<1>8. CleanWhenOver'
  BY <1>3, <1>4 DEF CleanWhenOver, Starting
<1>9. OneSubscription'
  BY <1>1, <1>3, <1>4 DEF OneSubscription, One, Starting
<1>10. Prepared'
  BY <1>1, <1>2, <1>4, <1>5 DEF Prepared
<1>11. TwoStops'
  <2>1. OffOwed(thread, periOff)' = OffOwed(thread, periOff)
    BY <1>1, <1>2 DEF OffOwed, One
  <2>2. DoneOnce(om, pipe, thread)' = DoneOnce(om, pipe, thread)
    BY <1>1, <1>3 DEF DoneOnce
  <2>3. QED BY <1>1, <1>3, <1>4, <2>1, <2>2 DEF TwoStops, StopsToCome
<1>12. StackUntouched => StackUntouched'
  BY <1>1, <1>2, <1>5 DEF StackUntouched
<1>13. OnePipe'
  BY <1>3, <1>4, <1>12 DEF OnePipe
<1>14. HostAgrees'
  BY <1>3, <1>4, <1>12 DEF HostAgrees, Starting
<1>15. InitOnce'
  BY <1>1, <1>2, <1>3, <1>4, <1>5 DEF InitOnce, InitOver, One
<1>16. NoStackCrash'
  BY <1>3 DEF NoStackCrash
<1>17. QED BY <1>6, <1>7, <1>8, <1>9, <1>10, <1>11, <1>13, <1>14, <1>15, <1>16

(* The transport's confirmation: awaited no longer, but on its way. *)
LEMMA TransportActivatedKept ==
  ASSUME BInv, NEW status \in {"INIT_SUCCESS", "INIT_FAILURE"}, TransportActivated(status)
  PROVE  BInv'
<1> USE DEF BInv, unchangedByStack, hlosVars, mgrVars, bmmVars
<1> DEFINE m == Msg("ACTIVATE_CFM", status)
<1>1. m \in BmmMessage /\ m.op = "ACTIVATE_CFM"
  BY DEF Msg, BmmMessage
<1>2. activation = "pending" /\ activation' = "done" /\ OtherTurn(<<m>>, "events")
        /\ UNCHANGED <<rsp, pipe, mgrVars, bmmVars, periOff, btss, rx, failed, unchangedByStack>>
  BY DEF TransportActivated
<1>3. /\ thread = "turn" /\ thread' = "events" /\ taskQueue' \in Seq(BmmMessage)
      /\ UNCHANGED <<schedInstance, threadEvents, schedEvents, extMsgQueue, timers>>
      /\ Num(taskQueue', "ACTIVATE_CFM") = Num(taskQueue, "ACTIVATE_CFM") + 1
      /\ Num(taskQueue, "ACTIVATE_CFM") \in Nat
      /\ \A op : op # "ACTIVATE_CFM" => Num(taskQueue', op) = Num(taskQueue, op)
      /\ Before(taskQueue', "SET_EVENT_MASK", "PREPARE_STOP")
  <2> HIDE DEF m
  <2>1. QED BY <1>1, <1>2, MessageSent DEF OneSubscription
<1>4. Threads' /\ Booted /\ Booted' /\ ~Over /\ ~Over'
  BY <1>2, <1>3, LoopThreads DEF InLoop
<1>5. TypeOK'
  <2>1. SchedTypeOK(BmmMessage)'
    BY <1>3 DEF SchedTypeOK, TypeOK
  <2>2. QED BY <1>2, <2>1 DEF TypeOK
<1>6. CleanWhenOver'
  BY <1>2, <1>4 DEF CleanWhenOver, Starting
<1>7. OneSubscription'
  BY <1>2, <1>3, <1>4 DEF OneSubscription, One, Starting
<1>8. Prepared'
  BY <1>2, <1>3, <1>4 DEF Prepared, Done, Stopping
<1>9. TwoStops'
  <2>1. OffOwed(thread, periOff)' = OffOwed(thread, periOff)
    BY <1>2, <1>3 DEF OffOwed
  <2>2. /\ DoneOnce(om, pipe, thread)' = DoneOnce(om, pipe, thread)
        /\ Requests(extMsgQueue, taskQueue)' = Requests(extMsgQueue, taskQueue)
    BY <1>2, <1>3 DEF DoneOnce, Requests
  <2>3. QED BY <1>2, <1>3, <1>4, <2>1, <2>2 DEF TwoStops, StopsToCome
<1>10. StackUntouched => StackUntouched'
  BY <1>2, <1>3, <1>4 DEF StackUntouched, Done, Stopping
<1>11. OnePipe'
  BY <1>2, <1>4, <1>10 DEF OnePipe
<1>12. HostAgrees'
  BY <1>2, <1>3, <1>4, <1>10 DEF HostAgrees, Starting, Answered, InitOver
<1>13. InitOnce'
  <2>1. One(activation = "pending") = 1 /\ One(activation = "pending")' = 0
          /\ One(InitOver)' = One(InitOver)
    BY <1>2 DEF One, InitOver
  <2>2. One(InitOver) \in 0..1
    BY DEF One
  <2>3. QED BY <1>2, <1>3, <1>4, <2>1, <2>2 DEF InitOnce, InitOver, Answered
<1>14. NoStackCrash'
  BY <1>2 DEF NoStackCrash
<1>15. QED BY <1>4, <1>5, <1>6, <1>7, <1>8, <1>9, <1>11, <1>12, <1>13, <1>14

(* The answer to the enable is sent once, before anything may stop the       *)
(* stack.                                                                    *)
LEMMA InitializedIndEndKept ==
  ASSUME BInv, InitializedIndEnd
  PROVE  BInv'
<1> USE DEF BInv, unchangedByStack, hlosVars, bmmVars, stackEnv
<1>1. /\ thread = "initInd" /\ thread' = "events" /\ island' = TRUE
      /\ awm' = IF bt_on_mode = "OFFLD" THEN "ON" ELSE awm
      /\ rsp' = IF hlos.state # "dead" /\ "hci" \in channels THEN Append(rsp, "BT_ENABLE") ELSE rsp
  BY DEF InitializedIndEnd, post_bt_state_to_apss
<1>2. UNCHANGED <<pipe, bt_on_mode, app_callbacks, clients, appInfo, arbiter, bmmVars, stackEnv,
                  failed, unchangedByStack, schedInstance, threadEvents, schedEvents, extMsgQueue,
                  taskQueue, timers>>
  BY DEF InitializedIndEnd
<1>3. Threads' /\ Booted /\ Booted' /\ ~Over /\ ~Over'
  BY <1>1, <1>2, LoopThreads DEF InLoop
<1>4. gBmm.subscribed /\ InitOver /\ ~Answered /\ Answered'
  BY <1>1, <1>2, <1>3 DEF InitOnce, Answered, InitOver
<1>5. TypeOK'
  <2>1. SchedTypeOK(BmmMessage)'
    BY <1>1, <1>2 DEF SchedTypeOK, TypeOK
  <2>2. awm' \in {"ON", "OFF"} /\ island' \in BOOLEAN
    BY <1>1 DEF TypeOK
  <2>3. rsp' \in Seq({"BT_ENABLE", "BT_DISABLE"})
    BY <1>1 DEF TypeOK
  <2>4. QED BY <1>2, <2>1, <2>2, <2>3 DEF TypeOK
<1>6. CleanWhenOver'
  BY <1>1, <1>2, <1>3 DEF CleanWhenOver, Starting
<1>7. OneSubscription'
  BY <1>2, <1>3 DEF OneSubscription, One, Starting
<1>8. Prepared'
  BY <1>1, <1>2, <1>3 DEF Prepared, Done, Stopping
<1>9. TwoStops'
  <2>1. OffOwed(thread, periOff)' = OffOwed(thread, periOff)
    BY <1>1, <1>2 DEF OffOwed
  <2>2. DoneOnce(om, pipe, thread)' = DoneOnce(om, pipe, thread)
    BY <1>1, <1>2 DEF DoneOnce
  <2>3. QED BY <1>2, <1>3, <2>1, <2>2 DEF TwoStops, StopsToCome
<1>10. StackUntouched => StackUntouched'
  BY <1>1, <1>2, <1>3 DEF StackUntouched, Done, Stopping
<1>11. OnePipe'
  BY <1>2, <1>3, <1>10 DEF OnePipe
<1>12. HostAgrees'
  <2>1. hlos.state \notin {"off", "on", "disabling"} /\ Num(pipe, "BT_ENABLE") = 0
    BY <1>3, <1>4, Counts DEF HostAgrees, OnePipe
  <2>2. hlos.state = "enabling" => rsp = <<>>
    BY <1>4 DEF HostAgrees
  <2>3. hlos.state = "enabling" => rsp' \in {<<>>, <<"BT_ENABLE">>}
    BY <1>1, <2>2
  <2>4. QED BY <1>2, <1>3, <1>4, <1>10, <2>1, <2>3 DEF HostAgrees, Starting
<1>13. InitOnce'
  BY <1>1, <1>2, <1>3, <1>4 DEF InitOnce, InitOver, One
<1>14. NoStackCrash'
  BY <1>2 DEF NoStackCrash
<1>15. QED BY <1>3, <1>5, <1>6, <1>7, <1>8, <1>9, <1>11, <1>12, <1>13, <1>14

(* What the initialised indication writes when the manager is registered. *)
LEMMA Initialised ==
  ASSUME TypeOK, "mgr" \in appInfo, InitializedInd
  PROVE  /\ failed' = failed /\ UNCHANGED <<bt_on_mode, awm, island>>
         /\ arbiter' \in BOOLEAN /\ app_callbacks' \in BOOLEAN /\ clients' \in BOOLEAN
         /\ appInfo' \subseteq {"mgr", "client"} /\ "mgr" \in appInfo'
         /\ app_callbacks' = (bt_on_mode = "OFFLD")
<1>1. failed' = failed /\ UNCHANGED <<bt_on_mode, awm, island>> /\ arbiter' \in BOOLEAN
  BY DEF InitializedInd, Callback
<1>2. /\ app_callbacks' = (bt_on_mode = "OFFLD")
      /\ clients' = (clients \/ bt_on_mode = "OFFLD")
      /\ appInfo' = IF bt_on_mode = "OFFLD" THEN appInfo \cup {"client"} ELSE appInfo
  BY DEF InitializedInd, offload_mgr_client_interface_init
<1>3. app_callbacks' \in BOOLEAN /\ clients' \in BOOLEAN
  BY <1>2, Zenon
<1>4. appInfo' \subseteq {"mgr", "client"} /\ "mgr" \in appInfo'
  BY <1>2 DEF TypeOK
<1>5. QED BY <1>1, <1>2, <1>3, <1>4

(* A subscriber is known to the stack: it was registered before it subscribed. *)
LEMMA SubscriberRegistered ==
  ASSUME BInv, Booted, gBmm.subscribed \/ Num(taskQueue, "SET_EVENT_MASK") > 0
  PROVE  om.pc \notin {"register", "mask"} /\ "mgr" \in appInfo
<1>1. ~Over
  BY DEF Booted, Over
<1>2. One(Booted /\ gBmm.subscribed) \in 0..1
        /\ (gBmm.subscribed => One(Booted /\ gBmm.subscribed) = 1)
  BY DEF One
<1>3. Num(extMsgQueue, "SET_EVENT_MASK") \in Nat /\ Num(taskQueue, "SET_EVENT_MASK") \in Nat
  BY Counts DEF BInv
<1>4. om.pc \notin {"register", "mask"}
  <2>1. SUFFICES ASSUME om.pc \in {"register", "mask"} PROVE FALSE
    OBVIOUS
  <2>2. Num(extMsgQueue, "SET_EVENT_MASK") + Num(taskQueue, "SET_EVENT_MASK")
          + One(Booted /\ gBmm.subscribed) = 0
    BY <1>1, <2>1 DEF BInv, OneSubscription
  <2>3. One(Booted /\ gBmm.subscribed) = 0 /\ Num(taskQueue, "SET_EVENT_MASK") = 0
    BY <1>2, <1>3, <2>2
  <2>4. QED BY <1>2, <2>3
<1>5. QED BY <1>1, <1>4 DEF BInv, CleanWhenOver

(* The subscription is taken, and answered at once when the stack is         *)
(* initialised.                                                              *)
LEMMA SetEventMaskKept ==
  ASSUME BInv, BmmSetEventMaskReqHandler
  PROVE  BInv'
<1> USE DEF BInv, unchangedByStack, hlosVars, stackEnv
<1> DEFINE m == Msg("SET_EVENT_MASK", "none")
           next == IF InitOver THEN "initInd" ELSE "events"
<1>1. m \in BmmMessage /\ m.op = "SET_EVENT_MASK"
  BY DEF Msg, BmmMessage
<1>2. TakeMessage(m, next)
        /\ UNCHANGED <<rsp, pipe, retryCount, stackEnv, timers, unchangedByStack>>
  BY DEF BmmSetEventMaskReqHandler
<1>3. /\ thread = "turn" /\ thread' = next /\ taskQueue' \in Seq(BmmMessage)
      /\ UNCHANGED <<schedInstance, threadEvents, schedEvents, extMsgQueue>>
      /\ Num(taskQueue, "SET_EVENT_MASK") = Num(taskQueue', "SET_EVENT_MASK") + 1
      /\ Num(taskQueue', "SET_EVENT_MASK") \in Nat
      /\ \A op : op # "SET_EVENT_MASK" => Num(taskQueue', op) = Num(taskQueue, op)
      /\ Before(taskQueue', "SET_EVENT_MASK", "PREPARE_STOP")
  <2> HIDE DEF m, next
  <2>1. QED BY <1>1, <1>2, MessageTaken DEF OneSubscription
<1>4. Threads' /\ Booted /\ Booted' /\ ~Over /\ ~Over'
  BY <1>2, <1>3, LoopThreads DEF InLoop
<1>5. om.pc \notin {"register", "mask"} /\ "mgr" \in appInfo
  BY <1>3, <1>4, SubscriberRegistered
<1>6. ~gBmm.subscribed /\ Num(taskQueue', "SET_EVENT_MASK") = 0
        /\ Num(extMsgQueue, "SET_EVENT_MASK") = 0
  <2>1. Num(extMsgQueue, "SET_EVENT_MASK") \in Nat
    BY Counts
  <2>2. QED BY <1>3, <1>4, <1>5, <2>1 DEF OneSubscription, One
<1>7. gBmm'.state = gBmm.state /\ gBmm'.subscribed = TRUE
        /\ gBmm'.prepareStopHandle = gBmm.prepareStopHandle
        /\ gBmm' \in [state : {"NOT_INITIALIZED", "INIT_IN_PROGRESS", "INIT_SUCCESS", "INIT_FAILURE"},
                      subscribed : BOOLEAN, prepareStopHandle : {"none", "mgr"}]
  BY DEF BmmSetEventMaskReqHandler, TypeOK
<1>8. /\ failed' = failed /\ UNCHANGED <<bt_on_mode, awm, island>>
      /\ arbiter' \in BOOLEAN /\ app_callbacks' \in BOOLEAN /\ clients' \in BOOLEAN
      /\ appInfo' \subseteq {"mgr", "client"} /\ "mgr" \in appInfo'
  <2>1. CASE InitOver
    BY <1>5, <2>1, Initialised DEF BmmSetEventMaskReqHandler
  <2>2. CASE ~InitOver
    BY <1>5, <2>2 DEF BmmSetEventMaskReqHandler, Callback, mgrVars, TypeOK
  <2>3. QED BY <2>1, <2>2
<1>9. ~Answered /\ ~Answered' /\ (InitOver' <=> InitOver)
  BY <1>3, <1>6, <1>7 DEF Answered, InitOver
<1>10. TypeOK'
  <2>1. SchedTypeOK(BmmMessage)'
    BY <1>2, <1>3 DEF SchedTypeOK, TypeOK
  <2>2. QED BY <1>2, <1>7, <1>8, <2>1 DEF TypeOK
<1>11. CleanWhenOver'
  BY <1>2, <1>4, <1>8 DEF CleanWhenOver, Starting
<1>12. OneSubscription'
  <2>1. One(Booted /\ gBmm.subscribed)' = 1
    BY <1>4, <1>7 DEF One
  <2>2. QED BY <1>2, <1>3, <1>4, <1>5, <1>6, <2>1 DEF OneSubscription, Starting
<1>13. Prepared'
  BY <1>2, <1>3, <1>4, <1>6, <1>7 DEF Prepared, Done, Stopping
<1>14. TwoStops'
  <2>1. OffOwed(thread, periOff)' = OffOwed(thread, periOff)
    BY <1>2, <1>3 DEF OffOwed
  <2>2. /\ DoneOnce(om, pipe, thread)' = DoneOnce(om, pipe, thread)
        /\ Requests(extMsgQueue, taskQueue)' = Requests(extMsgQueue, taskQueue)
    BY <1>2, <1>3 DEF DoneOnce, Requests
  <2>3. QED BY <1>2, <1>3, <1>4, <1>8, <2>1, <2>2 DEF TwoStops, StopsToCome
<1>15. StackUntouched => StackUntouched'
  BY <1>2, <1>3, <1>4 DEF StackUntouched, Done, Stopping
<1>16. OnePipe'
  BY <1>2, <1>4, <1>15 DEF OnePipe
<1>17. HostAgrees'
  BY <1>2, <1>4, <1>8, <1>9, <1>15 DEF HostAgrees, Starting
<1>18. InitOnce'
  BY <1>2, <1>3, <1>4, <1>7, <1>8, <1>9 DEF InitOnce, One
<1>19. NoStackCrash'
  BY <1>8 DEF NoStackCrash
<1>20. QED BY <1>4, <1>10, <1>11, <1>12, <1>13, <1>14, <1>16, <1>17, <1>18, <1>19

(* The transport is up or has failed: the stack is initialised, once. *)
LEMMA ActivateCfmKept ==
  ASSUME BInv, NEW status \in {"INIT_SUCCESS", "INIT_FAILURE"},
         BmmActivateTransportCfmHandler(status)
  PROVE  BInv'
<1> USE DEF BInv, unchangedByStack, hlosVars, stackEnv
<1> DEFINE m == Msg("ACTIVATE_CFM", status)
           next == IF gBmm.subscribed THEN "initInd" ELSE "events"
<1>1. m \in BmmMessage /\ m.op = "ACTIVATE_CFM"
  BY DEF Msg, BmmMessage
<1>2. TakeMessage(m, next)
        /\ UNCHANGED <<rsp, pipe, retryCount, stackEnv, timers, unchangedByStack>>
  BY DEF BmmActivateTransportCfmHandler
<1>3. /\ thread = "turn" /\ thread' = next /\ taskQueue' \in Seq(BmmMessage)
      /\ UNCHANGED <<schedInstance, threadEvents, schedEvents, extMsgQueue>>
      /\ Num(taskQueue, "ACTIVATE_CFM") = Num(taskQueue', "ACTIVATE_CFM") + 1
      /\ Num(taskQueue', "ACTIVATE_CFM") \in Nat
      /\ \A op : op # "ACTIVATE_CFM" => Num(taskQueue', op) = Num(taskQueue, op)
      /\ Before(taskQueue', "SET_EVENT_MASK", "PREPARE_STOP")
  <2> HIDE DEF m, next
  <2>1. QED BY <1>1, <1>2, MessageTaken DEF OneSubscription
<1>4. Threads' /\ Booted /\ Booted' /\ ~Over /\ ~Over'
  BY <1>2, <1>3, LoopThreads DEF InLoop
<1>5. ~InitOver /\ activation # "pending" /\ Num(taskQueue', "ACTIVATE_CFM") = 0
  BY <1>3, <1>4 DEF InitOnce, One
<1>6. gBmm'.state = status /\ gBmm'.subscribed = gBmm.subscribed
        /\ gBmm'.prepareStopHandle = gBmm.prepareStopHandle
        /\ gBmm' \in [state : {"NOT_INITIALIZED", "INIT_IN_PROGRESS", "INIT_SUCCESS", "INIT_FAILURE"},
                      subscribed : BOOLEAN, prepareStopHandle : {"none", "mgr"}]
  BY DEF BmmActivateTransportCfmHandler, TypeOK
<1>7. InitOver'
  BY <1>6 DEF InitOver
<1>8. /\ failed' = failed /\ UNCHANGED <<bt_on_mode, awm, island>>
      /\ arbiter' \in BOOLEAN /\ app_callbacks' \in BOOLEAN /\ clients' \in BOOLEAN
      /\ appInfo' \subseteq {"mgr", "client"} /\ ("mgr" \in appInfo => "mgr" \in appInfo')
  <2>1. CASE gBmm.subscribed
    <3>1. "mgr" \in appInfo
      BY <1>4, <2>1, SubscriberRegistered
    <3>2. QED BY <2>1, <3>1, Initialised DEF BmmActivateTransportCfmHandler
  <2>2. CASE ~gBmm.subscribed
    BY <2>2 DEF BmmActivateTransportCfmHandler, mgrVars, TypeOK
  <2>3. QED BY <2>1, <2>2
<1>9. ~Answered /\ ~Answered'
  BY <1>3, <1>5, <1>6 DEF Answered
<1>10. TypeOK'
  <2>1. SchedTypeOK(BmmMessage)'
    BY <1>2, <1>3 DEF SchedTypeOK, TypeOK
  <2>2. QED BY <1>2, <1>6, <1>8, <2>1 DEF TypeOK
<1>11. CleanWhenOver'
  BY <1>2, <1>4, <1>8 DEF CleanWhenOver, Starting
<1>12. OneSubscription'
  <2>1. One(Booted /\ gBmm.subscribed)' = One(Booted /\ gBmm.subscribed)
    BY <1>4, <1>6 DEF One
  <2>2. QED BY <1>2, <1>3, <1>4, <2>1 DEF OneSubscription, Starting
<1>13. Prepared'
  BY <1>2, <1>3, <1>4, <1>6 DEF Prepared, Done, Stopping
<1>14. TwoStops'
  <2>1. OffOwed(thread, periOff)' = OffOwed(thread, periOff)
    BY <1>2, <1>3 DEF OffOwed
  <2>2. /\ DoneOnce(om, pipe, thread)' = DoneOnce(om, pipe, thread)
        /\ Requests(extMsgQueue, taskQueue)' = Requests(extMsgQueue, taskQueue)
    BY <1>2, <1>3 DEF DoneOnce, Requests
  <2>3. QED BY <1>2, <1>3, <1>4, <1>8, <2>1, <2>2 DEF TwoStops, StopsToCome
<1>15. StackUntouched => StackUntouched'
  BY <1>2, <1>3, <1>4 DEF StackUntouched, Done, Stopping
<1>16. OnePipe'
  BY <1>2, <1>4, <1>15 DEF OnePipe
<1>17. HostAgrees'
  BY <1>2, <1>4, <1>8, <1>9, <1>15 DEF HostAgrees, Starting
<1>18. InitOnce'
  BY <1>2, <1>3, <1>4, <1>5, <1>6, <1>7, <1>8, <1>9 DEF InitOnce, One
<1>19. NoStackCrash'
  BY <1>8 DEF NoStackCrash
<1>20. QED BY <1>4, <1>10, <1>11, <1>12, <1>13, <1>14, <1>16, <1>17, <1>18, <1>19

(* The stack is asked to prepare only by a manager whose subscription it has. *)
LEMMA PrepareStopKept ==
  ASSUME BInv, NEW reason \in StopReasons, BmmPrepareStopReqHandler(reason)
  PROVE  BInv'
<1> USE DEF BInv, unchangedByStack, hlosVars, mgrVars
<1> DEFINE m == Msg("PREPARE_STOP", reason)
<1>1. m \in BmmMessage /\ m.op = "PREPARE_STOP"
  BY DEF Msg, BmmMessage
<1>2. TakeMessage(m, "events")
        /\ UNCHANGED <<rsp, pipe, mgrVars, activation, btss, rx, failed, unchangedByStack>>
  BY DEF BmmPrepareStopReqHandler
<1>3. /\ thread = "turn" /\ thread' = "events" /\ taskQueue' \in Seq(BmmMessage)
      /\ UNCHANGED <<schedInstance, threadEvents, schedEvents, extMsgQueue>>
      /\ Num(taskQueue, "PREPARE_STOP") = Num(taskQueue', "PREPARE_STOP") + 1
      /\ Num(taskQueue', "PREPARE_STOP") \in Nat
      /\ \A op : op # "PREPARE_STOP" => Num(taskQueue', op) = Num(taskQueue, op)
      /\ Before(taskQueue', "SET_EVENT_MASK", "PREPARE_STOP")
      /\ Num(taskQueue, "SET_EVENT_MASK") = 0
  <2> HIDE DEF m
  <2>1. QED BY <1>1, <1>2, MessageTaken DEF OneSubscription
<1>4. Threads' /\ Booted /\ Booted' /\ ~Over /\ ~Over'
  BY <1>2, <1>3, LoopThreads DEF InLoop
<1>5. gBmm.subscribed /\ ~Starting
  <2>1. Num(taskQueue, "PREPARE_STOP") > 0
    BY <1>3
  <2>2. ~Starting /\ Num(extMsgQueue, "SET_EVENT_MASK") = 0
    BY <2>1 DEF OneSubscription
  <2>3. One(Booted /\ gBmm.subscribed) = 1
    BY <1>3, <1>4, <2>2 DEF OneSubscription, Starting, One
  <2>4. QED BY <2>2, <2>3 DEF One
<1>6. /\ gBmm'.state = gBmm.state /\ gBmm'.subscribed = gBmm.subscribed
      /\ gBmm'.prepareStopHandle = "mgr"
      /\ gBmm' \in [state : {"NOT_INITIALIZED", "INIT_IN_PROGRESS", "INIT_SUCCESS", "INIT_FAILURE"},
                    subscribed : BOOLEAN, prepareStopHandle : {"none", "mgr"}]
  BY DEF BmmPrepareStopReqHandler, TypeOK
<1>7. \/ periOff' = TRUE /\ UNCHANGED <<retryCount, timers>>
      \/ retryCount' = retryCount + 1 /\ timers' = timers + 1 /\ periOff' = periOff
  BY DEF BmmPrepareStopReqHandler, BmmStartSchedTaskWaitTimer
<1>8. ~StackUntouched
  BY <1>3 DEF StackUntouched
<1>9. Num(pipe, "BT_DISABLE") = 0 /\ hlos.state \notin {"enabling", "on"}
  BY <1>4, <1>8, Counts DEF OnePipe, HostAgrees
<1>10. Requests(extMsgQueue, taskQueue)' = Requests(extMsgQueue, taskQueue) - 1
         /\ Requests(extMsgQueue, taskQueue) >= 1 /\ OffOwed(thread, periOff) \in 0..1
         /\ OffOwed(thread, periOff)' \in 0..1
         /\ DoneOnce(om, pipe, thread)' = DoneOnce(om, pipe, thread) /\ NumbersTyped
  <2>1. NumbersTyped
    BY Numbers
  <2>2. DoneOnce(om, pipe, thread)' = DoneOnce(om, pipe, thread)
    BY <1>2, <1>3 DEF DoneOnce
  <2>3. OffOwed(thread, periOff) \in 0..1 /\ OffOwed(thread, periOff)' \in 0..1
    BY DEF OffOwed, One
  <2>4. QED BY <1>3, <2>1, <2>2, <2>3 DEF NumbersTyped, Requests
<1>11. TwoStops'
  <2>1. CASE periOff' = TRUE /\ UNCHANGED <<retryCount, timers>>
    <3>1. UNCHANGED <<retryCount, timers>>
      BY <2>1
    <3>2. QED BY <1>2, <1>4, <1>10, <3>1, Ones DEF TwoStops, StopsToCome, NumbersTyped
  <2>2. CASE retryCount' = retryCount + 1 /\ timers' = timers + 1 /\ periOff' = periOff
    <3>1. OffOwed(thread, periOff)' = OffOwed(thread, periOff)
      BY <1>3, <2>2 DEF OffOwed
    <3>2. QED BY <1>2, <1>4, <1>10, <2>2, <3>1, Ones DEF TwoStops, StopsToCome, NumbersTyped
  <2>3. QED BY <1>7, <2>1, <2>2
<1>12. TypeOK'
  <2>1. timers' \in Nat /\ periOff' \in BOOLEAN
    <3>1. timers' \in Nat
      BY <1>7, <1>10 DEF NumbersTyped
    <3>2. periOff \in BOOLEAN
      BY DEF TypeOK
    <3>3. periOff' = TRUE \/ periOff' = periOff
      BY <1>7
    <3>4. QED BY <3>1, <3>2, <3>3
  <2>2. SchedTypeOK(BmmMessage)'
    BY <1>3, <2>1 DEF SchedTypeOK, TypeOK
  <2>3. retryCount' \in 0..(MaxStopRetryAttempts + 3)
    <3>1. retryCount' \in Nat /\ (retryCount' = retryCount \/ retryCount' = retryCount + 1)
      BY <1>7, <1>10 DEF NumbersTyped
    <3>2. retryCount <= 4
      BY <1>4, <1>10, Ones DEF TwoStops, StopsToCome, NumbersTyped
    <3>3. QED BY <1>10, <3>1, <3>2 DEF NumbersTyped, MaxStopRetryAttempts
  <2>4. QED BY <1>2, <1>6, <2>1, <2>2, <2>3 DEF TypeOK
<1>13. CleanWhenOver'
  BY <1>2, <1>4 DEF CleanWhenOver, Starting
<1>14. OneSubscription'
  <2>1. One(Booted /\ gBmm.subscribed)' = One(Booted /\ gBmm.subscribed)
    BY <1>4, <1>6 DEF One
  <2>2. QED BY <1>2, <1>3, <1>4, <1>5, <2>1 DEF OneSubscription, Starting
<1>15. Prepared'
  BY <1>3, <1>4, <1>5, <1>6 DEF Prepared
<1>16. OnePipe'
  BY <1>2, <1>4, <1>9 DEF OnePipe
<1>17. HostAgrees'
  BY <1>2, <1>3, <1>4, <1>6, <1>9 DEF HostAgrees, Answered, InitOver
<1>18. InitOnce'
  BY <1>2, <1>3, <1>4, <1>6 DEF InitOnce, InitOver, Answered
<1>19. NoStackCrash'
  BY <1>2 DEF NoStackCrash
<1>20. QED BY <1>4, <1>11, <1>12, <1>13, <1>14, <1>15, <1>16, <1>17, <1>18, <1>19

(* The controller's answer is taken: a request less, and one timer more. *)
LEMMA BtOffHandlerKept ==
  ASSUME BInv, BmmHciArbiterBtOffIndHandler
  PROVE  BInv'
<1> USE DEF BInv, unchangedByStack, hlosVars, mgrVars, stackEnv
<1> DEFINE m == Msg("BT_OFF", "none")
<1>1. m \in BmmMessage /\ m.op = "BT_OFF"
  BY DEF Msg, BmmMessage
<1>2. TakeMessage(m, "events") /\ retryCount' = retryCount + 1 /\ timers' = timers + 1
        /\ UNCHANGED <<rsp, pipe, mgrVars, gBmm, stackEnv, failed, unchangedByStack>>
  BY DEF BmmHciArbiterBtOffIndHandler, BmmStartSchedTaskWaitTimer
<1>3. /\ thread = "turn" /\ thread' = "events" /\ taskQueue' \in Seq(BmmMessage)
      /\ UNCHANGED <<schedInstance, threadEvents, schedEvents, extMsgQueue>>
      /\ Num(taskQueue, "BT_OFF") = Num(taskQueue', "BT_OFF") + 1
      /\ Num(taskQueue', "BT_OFF") \in Nat
      /\ \A op : op # "BT_OFF" => Num(taskQueue', op) = Num(taskQueue, op)
      /\ Before(taskQueue', "SET_EVENT_MASK", "PREPARE_STOP")
  <2> HIDE DEF m
  <2>1. QED BY <1>1, <1>2, MessageTaken DEF OneSubscription
<1>4. Threads' /\ Booted /\ Booted' /\ ~Over /\ ~Over'
  BY <1>2, <1>3, LoopThreads DEF InLoop
<1>5. gBmm.prepareStopHandle = "mgr"
  BY <1>3, <1>4 DEF Prepared
<1>6. ~StackUntouched
  BY <1>3 DEF StackUntouched
<1>7. Num(pipe, "BT_DISABLE") = 0 /\ hlos.state \notin {"enabling", "on"}
  BY <1>4, <1>6, Counts DEF OnePipe, HostAgrees
<1>8. /\ Requests(extMsgQueue, taskQueue)' = Requests(extMsgQueue, taskQueue) - 1
      /\ Requests(extMsgQueue, taskQueue) >= 1 /\ NumbersTyped
      /\ DoneOnce(om, pipe, thread)' = DoneOnce(om, pipe, thread)
      /\ OffOwed(thread, periOff)' = OffOwed(thread, periOff) /\ OffOwed(thread, periOff) \in 0..1
  <2>1. NumbersTyped
    BY Numbers
  <2>2. DoneOnce(om, pipe, thread)' = DoneOnce(om, pipe, thread)
    BY <1>2, <1>3 DEF DoneOnce
  <2>3. OffOwed(thread, periOff)' = OffOwed(thread, periOff) /\ OffOwed(thread, periOff) \in 0..1
    BY <1>2, <1>3 DEF OffOwed, One
  <2>4. QED BY SMTT(30), <1>3, <2>1, <2>2, <2>3 DEF NumbersTyped, Requests
<1>9. TwoStops'
  BY <1>2, <1>4, <1>8, Ones DEF TwoStops, StopsToCome, NumbersTyped
<1>10. TypeOK'
  <2>1. timers' \in Nat /\ retryCount' \in Nat
    BY <1>2, <1>8 DEF NumbersTyped
  <2>2. SchedTypeOK(BmmMessage)'
    BY <1>3, <2>1 DEF SchedTypeOK, TypeOK
  <2>3. retryCount' \in 0..(MaxStopRetryAttempts + 3)
    <3>1. retryCount <= 4
      BY <1>4, <1>8, Ones DEF TwoStops, StopsToCome, NumbersTyped
    <3>2. QED BY <1>2, <1>8, <2>1, <3>1 DEF NumbersTyped, MaxStopRetryAttempts
  <2>4. QED BY <1>2, <2>2, <2>3 DEF TypeOK
<1>11. CleanWhenOver'
  BY <1>2, <1>4 DEF CleanWhenOver, Starting
<1>12. OneSubscription'
  <2>1. One(Booted /\ gBmm.subscribed)' = One(Booted /\ gBmm.subscribed)
    BY <1>2, <1>4 DEF One
  <2>2. QED BY <1>2, <1>3, <1>4, <2>1 DEF OneSubscription, Starting
<1>13. Prepared'
  BY <1>2, <1>3, <1>4, <1>5 DEF Prepared
<1>14. OnePipe'
  BY <1>2, <1>4, <1>7 DEF OnePipe
<1>15. HostAgrees'
  BY <1>2, <1>3, <1>4, <1>7 DEF HostAgrees, Answered, InitOver
<1>16. InitOnce'
  BY <1>2, <1>3, <1>4 DEF InitOnce, InitOver, Answered
<1>17. NoStackCrash'
  BY <1>2 DEF NoStackCrash
<1>18. QED BY <1>4, <1>9, <1>10, <1>11, <1>12, <1>13, <1>14, <1>15, <1>16, <1>17

(* The crash is told to a state manager that has a callback, or to nobody.   *)
LEMMA BtssCrashHandlerKept ==
  ASSUME BInv, BmmHciArbiterBtssCrashIndHandler
  PROVE  BInv'
<1> USE DEF BInv, unchangedByStack, hlosVars, bmmVars, stackEnv
<1> DEFINE m == Msg("BTSS_CRASH", "none")
<1>1. m \in BmmMessage /\ m.op = "BTSS_CRASH"
  BY DEF Msg, BmmMessage
<1>2. TakeMessage(m, "events")
        /\ UNCHANGED <<rsp, pipe, bt_on_mode, app_callbacks, clients, appInfo, awm, island, bmmVars,
                       stackEnv, timers, unchangedByStack>>
  BY DEF BmmHciArbiterBtssCrashIndHandler
<1>3. /\ thread = "turn" /\ thread' = "events" /\ taskQueue' \in Seq(BmmMessage)
      /\ UNCHANGED <<schedInstance, threadEvents, schedEvents, extMsgQueue>>
      /\ \A op : op # "BTSS_CRASH" => Num(taskQueue', op) = Num(taskQueue, op)
      /\ Before(taskQueue', "SET_EVENT_MASK", "PREPARE_STOP")
  <2> HIDE DEF m
  <2>1. QED BY <1>1, <1>2, MessageTaken DEF OneSubscription
<1>4. Threads' /\ Booted /\ Booted' /\ ~Over /\ ~Over'
  BY <1>2, <1>3, LoopThreads DEF InLoop
<1>5. failed' = failed /\ arbiter' \in BOOLEAN
  <2>1. CASE gBmm.subscribed
    <3>1. "mgr" \in appInfo
      BY <1>4, <2>1, SubscriberRegistered
    <3>2. QED BY <2>1, <3>1 DEF BmmHciArbiterBtssCrashIndHandler, Callback
  <2>2. CASE ~gBmm.subscribed
    BY <2>2 DEF BmmHciArbiterBtssCrashIndHandler, TypeOK
  <2>3. QED BY <2>1, <2>2
<1>6. TypeOK'
  <2>1. SchedTypeOK(BmmMessage)'
    BY <1>2, <1>3 DEF SchedTypeOK, TypeOK
  <2>2. QED BY <1>2, <1>5, <2>1 DEF TypeOK
<1>7. CleanWhenOver'
  BY <1>2, <1>4 DEF CleanWhenOver, Starting
<1>8. OneSubscription'
  BY <1>2, <1>3, <1>4 DEF OneSubscription, Starting
<1>9. Prepared'
  BY <1>2, <1>3, <1>4 DEF Prepared, Done, Stopping
<1>10. TwoStops'
  <2>1. /\ OffOwed(thread, periOff)' = OffOwed(thread, periOff)
        /\ DoneOnce(om, pipe, thread)' = DoneOnce(om, pipe, thread)
        /\ Requests(extMsgQueue, taskQueue)' = Requests(extMsgQueue, taskQueue)
    BY <1>2, <1>3 DEF OffOwed, DoneOnce, Requests
  <2>2. QED BY <1>2, <1>4, <2>1 DEF TwoStops, StopsToCome
<1>11. StackUntouched => StackUntouched'
  BY <1>2, <1>3, <1>4 DEF StackUntouched, Done, Stopping
<1>12. OnePipe'
  BY <1>2, <1>4, <1>11 DEF OnePipe
<1>13. HostAgrees'
  BY <1>2, <1>3, <1>4, <1>11 DEF HostAgrees, Starting, Answered, InitOver
<1>14. InitOnce'
  BY <1>2, <1>3, <1>4 DEF InitOnce, InitOver, Answered
<1>15. NoStackCrash'
  BY <1>5 DEF NoStackCrash
<1>16. QED BY <1>4, <1>6, <1>7, <1>8, <1>9, <1>10, <1>12, <1>13, <1>14, <1>15

(* A timer is over and confirms the request it was for, or waits once more.  *)
LEMMA TimerFireKept ==
  ASSUME BInv, NEW others \in BOOLEAN, schedTaskWaitTimerFire(others)
  PROVE  BInv'
<1> USE DEF BInv, unchangedByStack, hlosVars, stackEnv
<1>1. /\ thread = "turn" /\ timers > 0
      /\ UNCHANGED <<rsp, pipe, bt_on_mode, app_callbacks, clients, appInfo, awm, island, gBmm,
                     stackEnv, unchangedByStack, schedInstance, threadEvents, schedEvents,
                     extMsgQueue, taskQueue>>
  BY DEF schedTaskWaitTimerFire
<1>2. \/ /\ timers' = timers - 1 /\ retryCount' = 0 /\ Callback /\ arbiter' = FALSE
         /\ thread' = "postStop"
      \/ /\ retryCount <= MaxStopRetryAttempts /\ retryCount' = retryCount + 1
         /\ UNCHANGED <<timers, failed, arbiter, thread>>
  <2>1. NumbersTyped
    BY Numbers
  <2>2. CASE CsrSchedIsQueueEmpty(others) \/ RetriesOver
    BY <2>2 DEF schedTaskWaitTimerFire
  <2>3. CASE ~(CsrSchedIsQueueEmpty(others) \/ RetriesOver)
    BY <2>1, <2>3 DEF schedTaskWaitTimerFire, RetriesOver, NumbersTyped, MaxStopRetryAttempts
  <2>4. QED BY <2>2, <2>3
<1>3. Threads' /\ Booted /\ Booted' /\ ~Over /\ ~Over'
  <2>1. thread \in InLoop /\ thread' \in InLoop
    BY <1>1, <1>2 DEF InLoop
  <2>2. QED BY <1>1, <2>1, LoopThreads
<1>4. gBmm.prepareStopHandle = "mgr" /\ gBmm.subscribed /\ "mgr" \in appInfo
  <2>1. gBmm.prepareStopHandle = "mgr" /\ gBmm.subscribed
    BY <1>1, <1>3 DEF Prepared
  <2>2. QED BY <1>3, <2>1, SubscriberRegistered
<1>5. failed' = failed /\ arbiter' \in BOOLEAN
  BY <1>2, <1>4 DEF Callback, TypeOK
<1>6. ~StackUntouched
  BY <1>1 DEF StackUntouched
<1>7. Num(pipe, "BT_DISABLE") = 0 /\ hlos.state \notin {"enabling", "on"}
  BY <1>3, <1>6, Counts DEF OnePipe, HostAgrees
<1>8. /\ NumbersTyped /\ OffOwed(thread, periOff)' = OffOwed(thread, periOff)
      /\ OffOwed(thread, periOff) \in 0..1
  <2>1. NumbersTyped
    BY Numbers
  <2>2. OffOwed(thread, periOff)' = OffOwed(thread, periOff) /\ OffOwed(thread, periOff) \in 0..1
    BY <1>1, <1>2 DEF OffOwed, One
  <2>3. QED BY <2>1, <2>2
<1>9. timers' \in Nat /\ retryCount' \in 0..(MaxStopRetryAttempts + 3)
  BY <1>1, <1>2, <1>8 DEF NumbersTyped, MaxStopRetryAttempts
<1>10. TwoStops'
  <2>1. CASE timers' = timers - 1 /\ retryCount' = 0 /\ thread' = "postStop"
    <3>1. DoneOnce(om, pipe, thread)' = 1 /\ DoneOnce(om, pipe, thread) \in 0..1
      BY <2>1 DEF DoneOnce, One
    <3>2. QED BY <1>1, <1>3, <1>8, <2>1, <3>1, Ones DEF TwoStops, StopsToCome, NumbersTyped
  <2>2. CASE /\ retryCount <= MaxStopRetryAttempts /\ retryCount' = retryCount + 1
             /\ UNCHANGED <<timers, thread>>
    <3>1. DoneOnce(om, pipe, thread)' = DoneOnce(om, pipe, thread)
            /\ DoneOnce(om, pipe, thread) \in 0..1
      BY <1>1, <2>2 DEF DoneOnce, One
    <3>2. QED BY <1>1, <1>3, <1>8, <2>2, <3>1, Ones
              DEF TwoStops, StopsToCome, NumbersTyped, MaxStopRetryAttempts
  <2>3. QED BY <1>2, <2>1, <2>2
<1>11. TypeOK'
  <2>1. SchedTypeOK(BmmMessage)'
    BY <1>1, <1>2, <1>9 DEF SchedTypeOK, TypeOK
  <2>2. QED BY <1>1, <1>5, <1>9, <2>1 DEF TypeOK
<1>12. CleanWhenOver'
  BY <1>1, <1>3 DEF CleanWhenOver, Starting
<1>13. OneSubscription'
  BY <1>1, <1>3 DEF OneSubscription, Starting
<1>14. Prepared'
  BY <1>1, <1>3, <1>4 DEF Prepared, Booted
<1>15. OnePipe'
  BY <1>1, <1>3, <1>7 DEF OnePipe
<1>16. HostAgrees'
  BY <1>1, <1>2, <1>3, <1>7 DEF HostAgrees, Answered, InitOver
<1>17. InitOnce'
  BY <1>1, <1>2, <1>3 DEF InitOnce, InitOver, Answered
<1>18. NoStackCrash'
  BY <1>5 DEF NoStackCrash
<1>19. QED BY <1>3, <1>10, <1>11, <1>12, <1>13, <1>14, <1>15, <1>16, <1>17, <1>18

(* The confirmation goes to the pipe of the manager's thread. *)
LEMMA PostStopDoneKept ==
  ASSUME BInv, PostStopDone
  PROVE  BInv'
<1> USE DEF BInv, unchangedByStack, hlosVars, mgrVars, bmmVars, stackEnv
<1> DEFINE p == Msg("PREP_STOP_DONE", "none")
<1>1. p \in PipeMessage /\ p.op = "PREP_STOP_DONE"
  BY DEF Msg, PipeMessage
<1>2. /\ thread = "postStop" /\ thread' = "turn" /\ pipe' = Append(pipe, p) /\ Len(pipe) < PipeSize
      /\ UNCHANGED <<rsp, mgrVars, bmmVars, stackEnv, failed, unchangedByStack, schedInstance,
                     threadEvents, schedEvents, extMsgQueue, taskQueue, timers>>
  BY DEF PostStopDone, PostFromStack, Offload_Mgr_Post_Event
<1>3. Threads' /\ Booted /\ Booted' /\ ~Over /\ ~Over'
  BY <1>2, LoopThreads DEF InLoop
<1>4. Num(pipe, "BT_ENABLE") = 0
  BY <1>3, Counts DEF OnePipe
<1>5. /\ Num(pipe', "PREP_STOP_DONE") = Num(pipe, "PREP_STOP_DONE") + 1
      /\ Num(pipe, "PREP_STOP_DONE") \in Nat
      /\ \A op : op # "PREP_STOP_DONE" => Num(pipe', op) = Num(pipe, op)
      /\ \A a, b : a # b /\ Before(pipe, a, b) /\ (a # "PREP_STOP_DONE" \/ Num(pipe, b) = 0)
           => Before(pipe', a, b)
      /\ Args(pipe', "BT_ENABLE") \subseteq Args(pipe, "BT_ENABLE")
  <2> HIDE DEF p
  <2>1. QED BY <1>1, <1>2, Posted, Counts
<1>6. Done /\ Done' /\ ~StackUntouched
  BY <1>2, <1>5 DEF Done, StackUntouched
<1>7. Num(pipe, "BT_DISABLE") = 0 /\ hlos.state \notin {"enabling", "on"}
  BY <1>3, <1>4, <1>6, Counts DEF OnePipe, HostAgrees
<1>8. TypeOK'
  <2>1. pipe' \in Seq(PipeMessage) /\ Len(pipe') <= PipeSize
    BY <1>1, <1>2, BtStateAssumption DEF TypeOK
  <2>2. SchedTypeOK(BmmMessage)'
    BY <1>2 DEF SchedTypeOK, TypeOK
  <2>3. QED BY <1>2, <2>1, <2>2 DEF TypeOK
<1>9. CleanWhenOver'
  BY <1>2, <1>3 DEF CleanWhenOver, Starting
<1>10. OneSubscription'
  BY <1>2, <1>3 DEF OneSubscription, Starting
<1>11. Prepared'
  BY <1>2, <1>3, <1>6 DEF Prepared
<1>12. TwoStops'
  <2>1. /\ OffOwed(thread, periOff)' = OffOwed(thread, periOff)
        /\ DoneOnce(om, pipe, thread)' = DoneOnce(om, pipe, thread)
        /\ MayDisable(hlos, pipe)' = MayDisable(hlos, pipe)
    BY <1>2, <1>5 DEF OffOwed, DoneOnce, MayDisable, One
  <2>2. QED BY <1>2, <1>3, <2>1 DEF TwoStops, StopsToCome
<1>13. OnePipe'
  BY <1>2, <1>3, <1>4, <1>5, <1>7 DEF OnePipe
<1>14. HostAgrees'
  BY <1>2, <1>3, <1>7 DEF HostAgrees, Answered, InitOver
<1>15. InitOnce'
  BY <1>2, <1>3 DEF InitOnce, InitOver, Answered
<1>16. NoStackCrash'
  BY <1>2 DEF NoStackCrash
<1>17. QED BY <1>3, <1>8, <1>9, <1>10, <1>11, <1>12, <1>13, <1>14, <1>15, <1>16

(* A client's message goes there too, and is none of the messages that are   *)
(* counted.                                                                  *)
LEMMA PostMicrostackRxKept ==
  ASSUME BInv, PostMicrostackRx
  PROVE  BInv'
<1> USE DEF BInv, unchangedByStack, hlosVars, mgrVars, bmmVars, stackEnv
<1> DEFINE p == Msg("MICROSTACK_RX", "none")
<1>1. p \in PipeMessage /\ p.op = "MICROSTACK_RX"
  BY DEF Msg, PipeMessage
<1>2. /\ thread = "postRx" /\ thread' = "events" /\ pipe' = Append(pipe, p) /\ Len(pipe) < PipeSize
      /\ UNCHANGED <<rsp, mgrVars, bmmVars, stackEnv, failed, unchangedByStack, schedInstance,
                     threadEvents, schedEvents, extMsgQueue, taskQueue, timers>>
  BY DEF PostMicrostackRx, PostFromStack, Offload_Mgr_Post_Event
<1>3. Threads' /\ Booted /\ Booted' /\ ~Over /\ ~Over'
  BY <1>2, LoopThreads DEF InLoop
<1>4. /\ \A op : op # "MICROSTACK_RX" => Num(pipe', op) = Num(pipe, op)
      /\ \A a, b : a # b /\ Before(pipe, a, b) /\ a # "MICROSTACK_RX" => Before(pipe', a, b)
      /\ Args(pipe', "BT_ENABLE") \subseteq Args(pipe, "BT_ENABLE")
  <2> HIDE DEF p
  <2>1. QED BY <1>1, <1>2, Posted
<1>5. TypeOK'
  <2>1. pipe' \in Seq(PipeMessage) /\ Len(pipe') <= PipeSize
    BY <1>1, <1>2, BtStateAssumption DEF TypeOK
  <2>2. SchedTypeOK(BmmMessage)'
    BY <1>2 DEF SchedTypeOK, TypeOK
  <2>3. QED BY <1>2, <2>1, <2>2 DEF TypeOK
<1>6. CleanWhenOver'
  BY <1>2, <1>3 DEF CleanWhenOver, Starting
<1>7. OneSubscription'
  BY <1>2, <1>3 DEF OneSubscription, Starting
<1>8. Prepared'
  BY <1>2, <1>3, <1>4 DEF Prepared, Done, Stopping
<1>9. TwoStops'
  <2>1. /\ OffOwed(thread, periOff)' = OffOwed(thread, periOff)
        /\ DoneOnce(om, pipe, thread)' = DoneOnce(om, pipe, thread)
        /\ MayDisable(hlos, pipe)' = MayDisable(hlos, pipe)
    BY <1>2, <1>4 DEF OffOwed, DoneOnce, MayDisable
  <2>2. QED BY <1>2, <1>3, <2>1 DEF TwoStops, StopsToCome
<1>10. StackUntouched => StackUntouched'
  BY <1>2, <1>3, <1>4 DEF StackUntouched, Done, Stopping
<1>11. OnePipe'
  BY <1>2, <1>3, <1>4, <1>10 DEF OnePipe
<1>12. HostAgrees'
  BY <1>2, <1>3, <1>4, <1>10 DEF HostAgrees, Starting, Answered, InitOver
<1>13. InitOnce'
  BY <1>2, <1>3 DEF InitOnce, InitOver, Answered
<1>14. NoStackCrash'
  BY <1>2 DEF NoStackCrash
<1>15. QED BY <1>3, <1>5, <1>6, <1>7, <1>8, <1>9, <1>11, <1>12, <1>13, <1>14

(* What another thread put is handed to the task, after what the task has.   *)
LEMMA ExternalTaken ==
  ASSUME TypeOK, OneSubscription, taskQueue' = taskQueue \o extMsgQueue, extMsgQueue' = <<>>
  PROVE  /\ taskQueue' \in Seq(BmmMessage) /\ extMsgQueue' \in Seq(BmmMessage)
         /\ \A op : /\ Num(taskQueue', op) \in Nat /\ Num(extMsgQueue', op) = 0
                    /\ Num(taskQueue', op) = Num(taskQueue, op) + Num(extMsgQueue, op)
         /\ Before(taskQueue', "SET_EVENT_MASK", "PREPARE_STOP")
         /\ Before(extMsgQueue', "SET_EVENT_MASK", "PREPARE_STOP")
<1>1. taskQueue \in Seq(BmmMessage) /\ extMsgQueue \in Seq(BmmMessage)
  BY Counts
<1>2. taskQueue' \in Seq(BmmMessage) /\ extMsgQueue' \in Seq(BmmMessage)
  BY <1>1
<1>3. \A op : Num(taskQueue', op) = Num(taskQueue, op) + Num(extMsgQueue, op)
  BY <1>1, NumConcat
<1>4. \A op : Num(extMsgQueue', op) = 0 /\ Num(taskQueue', op) \in Nat
  BY <1>2, NumEmpty, NumTypes
<1>5. Before(extMsgQueue', "SET_EVENT_MASK", "PREPARE_STOP")
  BY NumEmpty
<1>6. Before(taskQueue', "SET_EVENT_MASK", "PREPARE_STOP")
  <2>1. Num(taskQueue, "PREPARE_STOP") = 0 \/ Num(extMsgQueue, "SET_EVENT_MASK") = 0
    BY Counts DEF OneSubscription
  <2>2. QED BY <1>1, <2>1, BeforeConcat DEF OneSubscription
<1>7. QED BY <1>2, <1>3, <1>4, <1>5, <1>6

(* The event wait: what another thread put comes in, and a stop request ends the loop. *)
LEMMA SchedulerWaitKept ==
  ASSUME BInv, SchedulerWait
  PROVE  BInv'
<1> USE DEF BInv, unchangedByStack, hlosVars, mgrVars, bmmVars, stackEnv
<1>1. /\ thread \in {"events", "turn"} /\ threadEvents' = {} /\ UNCHANGED <<schedInstance, timers>>
      /\ \/ taskQueue' = taskQueue \o extMsgQueue /\ extMsgQueue' = <<>>
         \/ UNCHANGED <<taskQueue, extMsgQueue>>
      /\ \/ /\ "STOP_REQ" \in threadEvents /\ thread' = "stopped"
            /\ schedEvents' = schedEvents \cup {"STOP_CFM"}
         \/ thread' = "turn" /\ schedEvents' = schedEvents
  BY DEF SchedulerWait, EventWait, StopSeen
<1>2. UNCHANGED <<rsp, pipe, mgrVars, bmmVars, stackEnv, failed, unchangedByStack>>
  BY DEF SchedulerWait
<1>3. Booted /\ Booted' /\ ~Over /\ ~Over'
  BY <1>1 DEF Booted, Over
<1>4. /\ taskQueue' \in Seq(BmmMessage) /\ extMsgQueue' \in Seq(BmmMessage)
      /\ \A op : /\ Num(taskQueue', op) \in Nat /\ Num(extMsgQueue', op) \in Nat
                 /\ Num(taskQueue', op) + Num(extMsgQueue', op)
                      = Num(taskQueue, op) + Num(extMsgQueue, op)
                 /\ Num(extMsgQueue, op) = 0 => Num(extMsgQueue', op) = 0
      /\ \/ extMsgQueue' = <<>>
         \/ UNCHANGED <<taskQueue, extMsgQueue>>
      /\ Before(taskQueue', "SET_EVENT_MASK", "PREPARE_STOP")
      /\ Before(extMsgQueue', "SET_EVENT_MASK", "PREPARE_STOP")
  <2>1. CASE UNCHANGED <<taskQueue, extMsgQueue>>
    BY <2>1, Counts DEF OneSubscription
  <2>2. CASE taskQueue' = taskQueue \o extMsgQueue /\ extMsgQueue' = <<>>
    BY <2>2, ExternalTaken, Counts
  <2>3. QED BY <1>1, <2>1, <2>2
<1>5. TypeOK'
  <2>1. thread' \in {"turn", "stopped"} /\ schedEvents' \subseteq {"STOP_CFM", "DEINIT_CFM"}
    BY <1>1 DEF TypeOK, SchedTypeOK
  <2>2. SchedTypeOK(BmmMessage)'
    BY <1>1, <1>4, <2>1 DEF SchedTypeOK, TypeOK
  <2>3. QED BY <1>2, <2>2 DEF TypeOK
<1>6. Threads'
  BY <1>1, <1>2 DEF Threads, Over, Stopping, Starting
<1>7. CleanWhenOver'
  BY <1>2, <1>3 DEF CleanWhenOver, Starting
<1>8. OneSubscription'
  <2>1. One(Booted /\ gBmm.subscribed)' = One(Booted /\ gBmm.subscribed)
          /\ One(Booted /\ gBmm.subscribed) \in 0..1
    BY <1>2, <1>3 DEF One
  <2>2. Num(taskQueue', "SET_EVENT_MASK") + Num(extMsgQueue', "SET_EVENT_MASK")
          = Num(taskQueue, "SET_EVENT_MASK") + Num(extMsgQueue, "SET_EVENT_MASK")
    BY <1>4
  <2>3. Num(extMsgQueue', "SET_EVENT_MASK") + Num(taskQueue', "SET_EVENT_MASK")
          + One(Booted /\ gBmm.subscribed)'
        = IF om'.pc \in {"register", "mask"} THEN 0 ELSE 1
    BY <1>2, <1>3, <1>4, <2>1, <2>2, Counts DEF OneSubscription
  <2>4. Num(taskQueue', "PREPARE_STOP") > 0 => Num(extMsgQueue', "SET_EVENT_MASK") = 0
    BY <1>4, NumEmpty DEF OneSubscription
  <2>5. Starting' => Num(extMsgQueue', "PREPARE_STOP") = 0 /\ Num(taskQueue', "PREPARE_STOP") = 0
    <3>1. Num(taskQueue', "PREPARE_STOP") + Num(extMsgQueue', "PREPARE_STOP")
            = Num(taskQueue, "PREPARE_STOP") + Num(extMsgQueue, "PREPARE_STOP")
          /\ Num(taskQueue', "PREPARE_STOP") \in Nat /\ Num(extMsgQueue', "PREPARE_STOP") \in Nat
      BY <1>4
    <3>2. QED BY <1>2, <3>1 DEF OneSubscription, Starting
  <2>6. QED BY <1>4, <2>3, <2>4, <2>5 DEF OneSubscription
<1>9. Num(taskQueue', "BT_OFF") = Num(taskQueue, "BT_OFF")
        /\ Num(taskQueue', "ACTIVATE_CFM") = Num(taskQueue, "ACTIVATE_CFM")
        /\ Num(extMsgQueue', "BT_OFF") = 0 /\ Num(extMsgQueue', "ACTIVATE_CFM") = 0
  BY <1>4, Counts DEF InitOnce
<1>10. Prepared'
  BY <1>1, <1>2, <1>3, <1>9 DEF Prepared, Done, Stopping
<1>11. /\ Requests(extMsgQueue, taskQueue)' = Requests(extMsgQueue, taskQueue)
       /\ Num(taskQueue', "PREPARE_STOP") + Num(extMsgQueue', "PREPARE_STOP")
            = Num(taskQueue, "PREPARE_STOP") + Num(extMsgQueue, "PREPARE_STOP")
       /\ Num(taskQueue', "PREPARE_STOP") \in Nat /\ Num(extMsgQueue', "PREPARE_STOP") \in Nat
  <2>1. NumbersTyped /\ NumbersTyped'
    BY <1>5, Numbers, NumbersNext
  <2>2. Num(taskQueue', "PREPARE_STOP") + Num(extMsgQueue', "PREPARE_STOP")
          = Num(taskQueue, "PREPARE_STOP") + Num(extMsgQueue, "PREPARE_STOP")
    BY <1>4
  <2>3. QED BY <1>9, <2>1, <2>2 DEF Requests, NumbersTyped
<1>12. TwoStops'
  <2>1. /\ OffOwed(thread, periOff)' = OffOwed(thread, periOff)
        /\ DoneOnce(om, pipe, thread)' = DoneOnce(om, pipe, thread)
    BY <1>1, <1>2 DEF OffOwed, DoneOnce
  <2>2. QED BY <1>1, <1>2, <1>3, <1>11, <2>1 DEF TwoStops, StopsToCome
<1>13. StackUntouched => StackUntouched'
  <2>1. SUFFICES ASSUME StackUntouched PROVE StackUntouched'
    OBVIOUS
  <2>2. Num(extMsgQueue', "PREPARE_STOP") = 0 /\ Num(taskQueue', "PREPARE_STOP") = 0
    BY <1>11, <2>1 DEF StackUntouched
  <2>3. ~Done'
    BY <1>1, <1>2, <2>1 DEF StackUntouched, Done, Stopping
  <2>4. Booted' => ~periOff'
    BY <1>2, <1>3, <2>1 DEF StackUntouched
  <2>5. Num(taskQueue', "BT_OFF") = 0 /\ timers' = 0
    BY <1>1, <1>9, <2>1 DEF StackUntouched
  <2>6. QED BY <2>2, <2>3, <2>4, <2>5 DEF StackUntouched
<1>14. OnePipe'
  BY <1>2, <1>3, <1>13 DEF OnePipe
<1>15. HostAgrees'
  BY <1>1, <1>2, <1>3, <1>13 DEF HostAgrees, Starting, Answered, InitOver
<1>16. InitOnce'
  BY <1>1, <1>2, <1>3, <1>9 DEF InitOnce, InitOver, Answered
<1>17. NoStackCrash'
  BY <1>2 DEF NoStackCrash
<1>18. QED BY <1>5, <1>6, <1>7, <1>8, <1>10, <1>12, <1>14, <1>15, <1>16, <1>17

(* A turn that hands a client's message on sends the BMM task nothing. *)
LEMMA MicrostackCbKept ==
  ASSUME BInv, microstack_cb
  PROVE  BInv'
<1> USE DEF BInv, unchangedByStack, hlosVars, mgrVars, bmmVars
<1>1. /\ thread = "turn" /\ thread' = "postRx" /\ rx > 0 /\ rx' = rx - 1
      /\ taskQueue' = taskQueue
      /\ UNCHANGED <<schedInstance, threadEvents, schedEvents, extMsgQueue, timers>>
      /\ UNCHANGED <<rsp, pipe, mgrVars, bmmVars, activation, periOff, btss, failed,
                     unchangedByStack>>
  <2>1. taskQueue \in Seq(BmmMessage) /\ taskQueue' = taskQueue \o <<>>
    BY Counts DEF microstack_cb, OtherTurn
  <2>2. QED BY <2>1 DEF microstack_cb, OtherTurn
<1>2. Threads' /\ Booted /\ Booted' /\ ~Over /\ ~Over'
  BY <1>1, LoopThreads DEF InLoop
<1>3. TypeOK'
  <2>1. rx' \in 0..MaxRx
    BY <1>1, BtStateAssumption DEF TypeOK
  <2>2. SchedTypeOK(BmmMessage)'
    BY <1>1 DEF SchedTypeOK, TypeOK
  <2>3. QED BY <1>1, <2>1, <2>2 DEF TypeOK
<1>4. CleanWhenOver'
  BY <1>1, <1>2 DEF CleanWhenOver, Starting
<1>5. OneSubscription'
  BY <1>1, <1>2 DEF OneSubscription, Starting
<1>6. Prepared'
  BY <1>1, <1>2 DEF Prepared, Done, Stopping
<1>7. TwoStops'
  <2>1. OffOwed(thread, periOff)' = OffOwed(thread, periOff)
          /\ DoneOnce(om, pipe, thread)' = DoneOnce(om, pipe, thread)
    BY <1>1 DEF OffOwed, DoneOnce
  <2>2. QED BY <1>1, <1>2, <2>1 DEF TwoStops, StopsToCome
<1>8. StackUntouched => StackUntouched'
  BY <1>1, <1>2 DEF StackUntouched, Done, Stopping
<1>9. OnePipe'
  BY <1>1, <1>2, <1>8 DEF OnePipe
<1>10. HostAgrees'
  BY <1>1, <1>2, <1>8 DEF HostAgrees, Starting, Answered, InitOver
<1>11. InitOnce'
  BY <1>1, <1>2 DEF InitOnce, InitOver, Answered
<1>12. NoStackCrash'
  BY <1>1 DEF NoStackCrash
<1>13. QED BY <1>2, <1>3, <1>4, <1>5, <1>6, <1>7, <1>9, <1>10, <1>11, <1>12

(* The controller's answer to the off: owed no longer, but on its way. *)
LEMMA BtOffIndKept ==
  ASSUME BInv, BtOffInd
  PROVE  BInv'
<1> USE DEF BInv, unchangedByStack, hlosVars, mgrVars, bmmVars
<1> DEFINE m == Msg("BT_OFF", "none")
<1>1. m \in BmmMessage /\ m.op = "BT_OFF"
  BY DEF Msg, BmmMessage
<1>2. periOff /\ periOff' = FALSE /\ OtherTurn(<<m>>, "events")
        /\ UNCHANGED <<rsp, pipe, mgrVars, bmmVars, activation, btss, rx, failed, unchangedByStack>>
  BY DEF BtOffInd
<1>3. /\ thread = "turn" /\ thread' = "events" /\ taskQueue' \in Seq(BmmMessage)
      /\ UNCHANGED <<schedInstance, threadEvents, schedEvents, extMsgQueue, timers>>
      /\ Num(taskQueue', "BT_OFF") = Num(taskQueue, "BT_OFF") + 1
      /\ Num(taskQueue, "BT_OFF") \in Nat
      /\ \A op : op # "BT_OFF" => Num(taskQueue', op) = Num(taskQueue, op)
      /\ Before(taskQueue', "SET_EVENT_MASK", "PREPARE_STOP")
  <2> HIDE DEF m
  <2>1. QED BY <1>1, <1>2, MessageSent DEF OneSubscription
<1>4. Threads' /\ Booted /\ Booted' /\ ~Over /\ ~Over'
  BY <1>2, <1>3, LoopThreads DEF InLoop
<1>5. ~StackUntouched
  BY <1>2, <1>4 DEF StackUntouched
<1>6. Num(pipe, "BT_DISABLE") = 0 /\ hlos.state \notin {"enabling", "on"}
  BY <1>4, <1>5, Counts DEF OnePipe, HostAgrees
<1>7. TypeOK'
  <2>1. SchedTypeOK(BmmMessage)'
    BY <1>3 DEF SchedTypeOK, TypeOK
  <2>2. periOff' \in BOOLEAN
    BY <1>2
  <2>3. QED BY <1>2, <2>1, <2>2 DEF TypeOK
<1>8. CleanWhenOver'
  BY <1>2, <1>4 DEF CleanWhenOver, Starting
<1>9. OneSubscription'
  BY <1>2, <1>3, <1>4 DEF OneSubscription, One, Starting
<1>10. Prepared'
  BY <1>2, <1>3, <1>4 DEF Prepared
<1>11. TwoStops'
  <2>1. OffOwed(thread, periOff) = 1 /\ OffOwed(thread, periOff)' = 0
    BY <1>2, <1>3 DEF OffOwed, One
  <2>2. DoneOnce(om, pipe, thread)' = DoneOnce(om, pipe, thread)
    BY <1>2, <1>3 DEF DoneOnce
  <2>3. Requests(extMsgQueue, taskQueue)' = Requests(extMsgQueue, taskQueue) + 1
    <3>1. /\ Num(extMsgQueue', "PREPARE_STOP") = Num(extMsgQueue, "PREPARE_STOP")
          /\ Num(taskQueue', "PREPARE_STOP") = Num(taskQueue, "PREPARE_STOP")
          /\ Num(taskQueue', "BT_OFF") = Num(taskQueue, "BT_OFF") + 1
      BY <1>3
    <3>2. NumbersTyped
      BY Numbers
    <3>3. QED BY <3>1, <3>2 DEF Requests, NumbersTyped
  <2>4. UNCHANGED <<retryCount, timers, hlos, pipe, bt_on_mode, om>>
    BY <1>2, <1>3
  <2>5. NumbersTyped
    BY Numbers
  <2>6. QED BY <1>4, <2>1, <2>2, <2>3, <2>4, <2>5, Ones DEF TwoStops, StopsToCome, NumbersTyped
<1>12. OnePipe'
  BY <1>2, <1>4, <1>6 DEF OnePipe
<1>13. HostAgrees'
  BY <1>2, <1>3, <1>4, <1>6 DEF HostAgrees, Answered, InitOver
<1>14. InitOnce'
  BY <1>2, <1>3, <1>4 DEF InitOnce, InitOver, Answered
<1>15. NoStackCrash'
  BY <1>2 DEF NoStackCrash
<1>16. QED BY <1>4, <1>7, <1>8, <1>9, <1>10, <1>11, <1>12, <1>13, <1>14, <1>15

(* The controller crashes: the stack will be told, and nothing else changes. *)
LEMMA BtssCrashKept ==
  ASSUME BInv, BtssCrash
  PROVE  BInv'
<1> USE DEF BInv, unchangedByStack, hlosVars, mgrVars, bmmVars
<1> DEFINE m == Msg("BTSS_CRASH", "none")
<1>1. m \in BmmMessage /\ m.op = "BTSS_CRASH"
  BY DEF Msg, BmmMessage
<1>2. btss' \in [crashes : 0..MaxBtss, down : BOOLEAN] /\ OtherTurn(<<m>>, "events")
        /\ UNCHANGED <<rsp, pipe, mgrVars, bmmVars, activation, periOff, rx, failed,
                       unchangedByStack>>
  BY BtStateAssumption DEF BtssCrash, TypeOK
<1>3. /\ thread = "turn" /\ thread' = "events" /\ taskQueue' \in Seq(BmmMessage)
      /\ UNCHANGED <<schedInstance, threadEvents, schedEvents, extMsgQueue, timers>>
      /\ \A op : op # "BTSS_CRASH" => Num(taskQueue', op) = Num(taskQueue, op)
      /\ Before(taskQueue', "SET_EVENT_MASK", "PREPARE_STOP")
  <2> HIDE DEF m
  <2>1. QED BY <1>1, <1>2, MessageSent DEF OneSubscription
<1>4. Threads' /\ Booted /\ Booted' /\ ~Over /\ ~Over'
  BY <1>2, <1>3, LoopThreads DEF InLoop
<1>5. TypeOK'
  <2>1. SchedTypeOK(BmmMessage)'
    BY <1>3 DEF SchedTypeOK, TypeOK
  <2>2. QED BY <1>2, <2>1 DEF TypeOK
<1>6. CleanWhenOver'
  BY <1>2, <1>4 DEF CleanWhenOver, Starting
<1>7. OneSubscription'
  BY <1>2, <1>3, <1>4 DEF OneSubscription, Starting
<1>8. Prepared'
  BY <1>2, <1>3, <1>4 DEF Prepared, Done, Stopping
<1>9. TwoStops'
  <2>1. /\ OffOwed(thread, periOff)' = OffOwed(thread, periOff)
        /\ DoneOnce(om, pipe, thread)' = DoneOnce(om, pipe, thread)
        /\ Requests(extMsgQueue, taskQueue)' = Requests(extMsgQueue, taskQueue)
    BY <1>2, <1>3 DEF OffOwed, DoneOnce, Requests
  <2>2. QED BY <1>2, <1>3, <1>4, <2>1 DEF TwoStops, StopsToCome
<1>10. StackUntouched => StackUntouched'
  BY <1>2, <1>3, <1>4 DEF StackUntouched, Done, Stopping
<1>11. OnePipe'
  BY <1>2, <1>4, <1>10 DEF OnePipe
<1>12. HostAgrees'
  BY <1>2, <1>3, <1>4, <1>10 DEF HostAgrees, Starting, Answered, InitOver
<1>13. InitOnce'
  BY <1>2, <1>3, <1>4 DEF InitOnce, InitOver, Answered
<1>14. NoStackCrash'
  BY <1>2 DEF NoStackCrash
<1>15. QED BY <1>4, <1>5, <1>6, <1>7, <1>8, <1>9, <1>11, <1>12, <1>13, <1>14

(* The stack's thread ends: its subscriber, the state manager, cleans up. *)
LEMMA BmmDeinitKept ==
  ASSUME BInv, BmmDeinit
  PROVE  BInv'
<1> USE DEF BInv, unchangedByStack, hlosVars, bmmVars, stackEnv
<1>1. /\ thread = "stopped" /\ "DEINIT_REQ" \in threadEvents /\ threadEvents' = {}
      /\ taskQueue' = taskQueue \o extMsgQueue /\ extMsgQueue' = <<>>
      /\ timers' = 0 /\ thread' = "gone" /\ schedEvents' = schedEvents \cup {"DEINIT_CFM"}
      /\ schedInstance' = schedInstance
      /\ UNCHANGED <<pipe, bmmVars, stackEnv, unchangedByStack>>
  BY DEF BmmDeinit, TaskDeinit
<1>2. /\ om.pc = "deinitWait" /\ "STOP_CFM" \notin schedEvents /\ Booted /\ ~Over /\ Over'
      /\ ~Booted' /\ Done /\ ~Starting
  BY <1>1 DEF Threads, Booted, Over, Done, Stopping, Starting
<1>3. gBmm.subscribed /\ "mgr" \in appInfo
  <2>1. gBmm.subscribed
    BY <1>2 DEF Prepared
  <2>2. QED BY <1>2, <2>1, SubscriberRegistered
<1>4. DeinitializedInd /\ failed' = failed
  BY <1>3 DEF BmmDeinit, DeinitializedInd, Callback
<1>5. /\ bt_on_mode' = "DEFAULT" /\ "mgr" \notin appInfo' /\ island' = TRUE /\ app_callbacks' = FALSE
      /\ arbiter' = arbiter /\ awm' = "OFF"
      /\ appInfo' \subseteq {"mgr", "client"} /\ clients' \in BOOLEAN
      /\ rsp' = rsp \/ rsp' = Append(rsp, "BT_DISABLE")
  <2>1. awm' = "OFF"
    BY <1>4 DEF DeinitializedInd, AppManagerIsTold, CleanWhenOver, TypeOK
  <2>2. "mgr" \notin appInfo' /\ appInfo' \subseteq {"mgr", "client"}
    <3>1. appInfo' = appInfo \ {"mgr", "client"} \/ appInfo' = appInfo \ {"mgr"}
      BY <1>4 DEF DeinitializedInd
    <3>2. QED BY <3>1 DEF TypeOK
  <2>3. rsp' = rsp \/ rsp' = Append(rsp, "BT_DISABLE")
    BY <1>4 DEF DeinitializedInd, post_bt_state_to_apss
  <2>4. clients' \in BOOLEAN /\ app_callbacks' = FALSE
    BY <1>4 DEF DeinitializedInd, offload_mgr_client_interface_deinit, TypeOK
  <2>5. QED BY <1>4, <2>1, <2>2, <2>3, <2>4 DEF DeinitializedInd
<1>6. ~StackUntouched
  BY <1>2 DEF StackUntouched
<1>7. /\ Num(pipe, "BT_ENABLE") = 0 /\ Num(pipe, "BT_DISABLE") = 0
      /\ hlos.state \notin {"enabling", "on", "off"}
  BY <1>2, <1>6, Counts DEF OnePipe, HostAgrees
<1>8. retryCount <= MaxStopRetryAttempts + 1
  <2>1. DoneOnce(om, pipe, thread) = 1
    BY <1>2 DEF DoneOnce, One
  <2>2. NumbersTyped
    BY Numbers
  <2>3. QED BY <1>2, <2>1, <2>2, Ones DEF TwoStops, StopsToCome, NumbersTyped, MaxStopRetryAttempts
<1>9. /\ taskQueue' \in Seq(BmmMessage) /\ extMsgQueue' \in Seq(BmmMessage)
      /\ \A op : Num(taskQueue', op) \in Nat /\ Num(extMsgQueue', op) = 0
      /\ Before(taskQueue', "SET_EVENT_MASK", "PREPARE_STOP")
      /\ Before(extMsgQueue', "SET_EVENT_MASK", "PREPARE_STOP")
  BY <1>1, ExternalTaken
<1>10. TypeOK'
  <2>1. SchedTypeOK(BmmMessage)'
    <3>1. schedEvents' \subseteq {"STOP_CFM", "DEINIT_CFM"} /\ schedInstance' \in BOOLEAN
      BY <1>1 DEF SchedTypeOK, TypeOK
    <3>2. QED BY <1>1, <1>9, <3>1 DEF SchedTypeOK
  <2>2. rsp' \in Seq({"BT_ENABLE", "BT_DISABLE"})
    <3>1. rsp \in Seq({"BT_ENABLE", "BT_DISABLE"})
      BY DEF TypeOK
    <3>2. CASE rsp' = rsp
      BY <3>1, <3>2
    <3>3. CASE rsp' = Append(rsp, "BT_DISABLE")
      BY <3>1, <3>3
    <3>4. QED BY <1>5, <3>2, <3>3
  <2>3. island' \in BOOLEAN /\ app_callbacks' \in BOOLEAN
    BY <1>5
  <2>4. QED BY <1>1, <1>4, <1>5, <2>1, <2>2, <2>3 DEF TypeOK
<1>11. Threads'
  BY <1>1, <1>2 DEF Threads, Over, Stopping, Starting
<1>12. CleanWhenOver'
  <2>1. ~Starting'
    BY <1>1, <1>2 DEF Starting
  <2>2. island'
    BY <1>5
  <2>3. QED BY <1>1, <1>2, <1>5, <1>8, <2>1, <2>2 DEF CleanWhenOver
<1>13. OneSubscription'
  <2>1. ~Starting'
    BY <1>1, <1>2 DEF Starting
  <2>2. QED BY <1>2, <1>9, <2>1 DEF OneSubscription
<1>14. Prepared'
  BY <1>1, <1>2 DEF Prepared
<1>15. TwoStops'
  BY <1>2 DEF TwoStops
<1>16. OnePipe'
  BY <1>1, <1>2, <1>7 DEF OnePipe
<1>17. HostAgrees'
  <2>1. hlos.state = "disabling" => rsp = <<>>
    BY <1>2 DEF HostAgrees
  <2>2. hlos.state = "disabling" => rsp' \in {<<>>, <<"BT_DISABLE">>}
    <3>1. Append(<<>>, "BT_DISABLE") = <<"BT_DISABLE">>
      OBVIOUS
    <3>2. QED BY <1>5, <2>1, <3>1
  <2>3. hlos' = hlos /\ pipe' = pipe
    BY <1>1
  <2>4. QED BY <1>2, <1>7, <2>2, <2>3 DEF HostAgrees
<1>18. InitOnce'
  BY <1>1, <1>2, <1>9 DEF InitOnce
<1>19. NoStackCrash'
  BY <1>4 DEF NoStackCrash
<1>20. QED BY <1>10, <1>11, <1>12, <1>13, <1>14, <1>15, <1>16, <1>17, <1>18, <1>19

-----------------------------------------------------------------------------
(* The parts of the invariant hold at the start. *)
LEMMA BInit == Init => BInv
<1> SUFFICES ASSUME Init PROVE BInv
  OBVIOUS
<1> USE DEF Init, SchedInit
<1>1. /\ thread = "none" /\ om.pc = "idle" /\ hlos.state = "off" /\ hlos.mode = "OFFLD"
      /\ pipe = <<>> /\ rsp = <<>> /\ extMsgQueue = <<>> /\ taskQueue = <<>>
      /\ retryCount = 0 /\ timers = 0 /\ Over /\ ~Booted /\ ~Starting /\ ~Stopping
  BY DEF Over, Booted, Starting, Stopping
<1>2. \A op : Num(pipe, op) = 0 /\ Num(extMsgQueue, op) = 0 /\ Num(taskQueue, op) = 0
  BY <1>1, NumEmpty
<1>3. /\ \A a, b : Before(pipe, a, b) /\ Before(extMsgQueue, a, b) /\ Before(taskQueue, a, b)
      /\ \A op : Args(pipe, op) = {}
  <2>1. \A a, b : Before(pipe, a, b) /\ Before(extMsgQueue, a, b) /\ Before(taskQueue, a, b)
    BY <1>1, NumEmpty
  <2>2. \A op : Args(pipe, op) = {}
    BY <1>1 DEF Args, Posns
  <2>3. QED BY <2>1, <2>2
<1>4. TypeOK
  <2>1. SchedTypeOK(BmmMessage)
    <3>1. schedInstance \in BOOLEAN
      OBVIOUS
    <3>2. extMsgQueue \in Seq(BmmMessage) /\ taskQueue \in Seq(BmmMessage)
      OBVIOUS
    <3>3. QED BY <3>1, <3>2 DEF SchedTypeOK
  <2>2. pipe \in Seq(PipeMessage) /\ Len(pipe) <= PipeSize
    BY BtStateAssumption
  <2>3. island \in BOOLEAN /\ app_callbacks \in BOOLEAN /\ clients \in BOOLEAN
          /\ arbiter \in BOOLEAN /\ periOff \in BOOLEAN
    OBVIOUS
  <2>4. btss \in [crashes : 0..MaxBtss, down : BOOLEAN] /\ sessions \in 0..MaxSessions
          /\ rx \in 0..MaxRx
    BY BtStateAssumption
  <2>5. QED BY <2>1, <2>2, <2>3, <2>4 DEF TypeOK, Modes, SsrModes, HalChannels, MaxStopRetryAttempts
<1>5. Threads
  BY <1>1 DEF Threads
<1>6. CleanWhenOver
  BY <1>1 DEF CleanWhenOver, MaxStopRetryAttempts
<1>7. OneSubscription
  BY <1>1, <1>2, <1>3 DEF OneSubscription
<1>8. Prepared /\ TwoStops
  BY <1>1 DEF Prepared, TwoStops
<1>9. OnePipe /\ HostAgrees
  BY <1>1, <1>2, <1>3 DEF OnePipe, HostAgrees
<1>10. InitOnce /\ NoStackCrash
  BY <1>1, <1>2 DEF InitOnce, NoStackCrash
<1>11. QED BY <1>4, <1>5, <1>6, <1>7, <1>8, <1>9, <1>10 DEF BInv

(* A step that changes nothing keeps it. *)
LEMMA BStutters == BInv /\ UNCHANGED vars => BInv'
<1> SUFFICES ASSUME BInv, UNCHANGED vars PROVE BInv'
  OBVIOUS
<1> USE DEF BInv, vars, hlosVars, mgrVars, bmmVars, stackEnv, schedVars
<1>1. TypeOK'
  <2>1. SchedTypeOK(BmmMessage)'
    BY DEF TypeOK, SchedTypeOK
  <2>2. QED BY <2>1 DEF TypeOK
<1>2. QED BY <1>1, Frames

(* Every step keeps it, when a crashed HAL waits before it comes back. *)
LEMMA BNext == ASSUME RestartWaits PROVE BInv /\ [Next]_vars => BInv'
<1> SUFFICES ASSUME BInv, [Next]_vars PROVE BInv'
  OBVIOUS
<1>1. CASE \E m \in Modes : HlosEnable(m)
  BY <1>1, HlosEnableKept
<1>2. CASE \E r \in StopReasons : HlosDisable(r)
  BY <1>2, HlosDisableKept
<1>3. CASE HlosReceive \/ HlosCrash \/ HlosRestart
  BY <1>3, HlosReceiveKept, HlosCrashKept, HlosRestartKept
<1>4. CASE \E c \in HalChannels : ChannelDisconnect(c)
  BY <1>4, ChannelDisconnectKept
<1>5. CASE OffloadManagerThread
  <2>1. CASE bt_state_on_handle \/ MicroStackRegisterAppCb \/ BmmSetEventMaskReqSend \/ RecordMode
    BY <2>1, BtOnKept, RegisterKept, EventMaskKept, RecordModeKept
  <2>2. CASE bt_state_off_handle \/ bt_state_check_and_mock_off \/ MicroStackStop
    BY <2>2, BtOffKept, MockOffKept, MicroStackStopKept
  <2>3. CASE StackStopped \/ StackDeinitialised \/ offload_mgr_microstack_msg_handler
    BY <2>3, StackStoppedKept, StackDeinitialisedKept, MicrostackMsgKept
  <2>4. QED BY <1>5, <2>1, <2>2, <2>3 DEF OffloadManagerThread
<1>6. CASE MicrostackThread
  <2>1. CASE BmmInit \/ SchedulerWait \/ InitializedIndEnd \/ BmmSetEventMaskReqHandler
    BY <2>1, BmmInitKept, SchedulerWaitKept, InitializedIndEndKept, SetEventMaskKept
  <2>2. CASE \E s \in {"INIT_SUCCESS", "INIT_FAILURE"} : BmmActivateTransportCfmHandler(s)
    BY <2>2, ActivateCfmKept
  <2>3. CASE \E r \in StopReasons : BmmPrepareStopReqHandler(r)
    BY <2>3, PrepareStopKept
  <2>4. CASE BmmHciArbiterBtOffIndHandler \/ BmmHciArbiterBtssCrashIndHandler
    BY <2>4, BtOffHandlerKept, BtssCrashHandlerKept
  <2>5. CASE \E others \in BOOLEAN : schedTaskWaitTimerFire(others)
    BY <2>5, TimerFireKept
  <2>6. CASE PostStopDone \/ PostMicrostackRx \/ BmmDeinit
    BY <2>6, PostStopDoneKept, PostMicrostackRxKept, BmmDeinitKept
  <2>7. QED BY <1>6, <2>1, <2>2, <2>3, <2>4, <2>5, <2>6 DEF MicrostackThread
<1>7. CASE Transport
  BY <1>7, TransportActivatedKept DEF Transport
<1>8. CASE microstack_cb \/ BtOffInd \/ BtssCrash
  BY <1>8, MicrostackCbKept, BtOffIndKept, BtssCrashKept
<1>9. CASE UNCHANGED vars
  BY <1>9, BStutters
<1>10. QED BY <1>1, <1>2, <1>3, <1>4, <1>5, <1>6, <1>7, <1>8, <1>9 DEF Next

(* The invariant holds of every behaviour in which a crashed HAL comes back *)
(* only once the low-power side is quiet.                                  *)
THEOREM BInvAlways == ASSUME RestartWaits PROVE Spec => []BInv
<1>1. Init => BInv
  BY BInit
<1>2. BInv /\ [Next]_vars => BInv'
  BY BNext
<1>3. QED BY <1>1, <1>2, PTL DEF Spec

(* Every variable stays of its type; in particular the retry counter of the *)
(* wait before the stop, which nothing resets but its own end, is bounded.  *)
THEOREM BtTypesKept == ASSUME RestartWaits PROVE Spec => []TypeOK
<1>1. BInv => TypeOK
  BY DEF BInv
<1>2. QED BY <1>1, BInvAlways, PTL

(* No request reaches a scheduler that is not there, and the stack never has *)
(* an indication for a state manager without a callback (NoStackCrash).      *)
THEOREM NoStackCrashEver == ASSUME RestartWaits PROVE Spec => []NoStackCrash
<1>1. BInv => NoStackCrash
  BY DEF BInv
<1>2. QED BY <1>1, BInvAlways, PTL

(* However a session ended, nothing of it is left once its scheduler is gone *)
(* (SessionEndsClean).                                                      *)
THEOREM SessionsEndClean == ASSUME RestartWaits PROVE Spec => []SessionEndsClean
<1>1. BInv => SessionEndsClean
  BY DEF BInv, Threads, CleanWhenOver, Over, SessionEndsClean
<1>2. QED BY <1>1, BInvAlways, PTL

-----------------------------------------------------------------------------
(* The clients have callbacks only for a session with offload that the stack *)
(* has announced, and once the announcement is over the app manager knows of  *)
(* it.  The two are written by two reads of bt_on_mode, between which the     *)
(* mode can only be recorded, before the clients have callbacks, or be marked *)
(* as mocked off.                                                             *)
Clients ==
  app_callbacks => /\ Booted /\ gBmm.subscribed /\ bt_on_mode \in {"OFFLD", "OFFLD_SSR"}
                   /\ thread # "initInd" /\ bt_on_mode = "OFFLD" => awm = "ON"

(* A step that leaves callbacks, mode and app manager alone, and neither takes *)
(* the subscription away nor ends an announcement.                          *)
LEMMA ClientsFrame ==
  ASSUME Clients, UNCHANGED <<app_callbacks, bt_on_mode, awm>>,
         gBmm.subscribed => gBmm'.subscribed, Booted => Booted',
         thread = "initInd" => thread' = "initInd"
  PROVE  Clients'
BY DEF Clients

(* What the scheduler's operations do to the place of its thread. *)
LEMMA ThreadMoves ==
  /\ \A m : PutExternal(m) => UNCHANGED thread
  /\ CsrSchedStop \/ StopConfirmed => UNCHANGED thread
  /\ EventWait => thread \in {"events", "turn"} /\ thread' \in {"stopped", "turn"}
  /\ \A m, n : TakeMessage(m, n) => thread = "turn" /\ thread' = n
  /\ \A ms, n : OtherTurn(ms, n) => thread = "turn" /\ thread' = n
BY DEF PutExternal, CsrSchedStop, StopConfirmed, EventWait, TakeMessage, OtherTurn

(* HLOS, and the manager's thread where it writes none of the clients' state. *)
LEMMA ClientsQuiet ==
  ASSUME Clients, TypeOK,
         \/ \E m \in Modes : HlosEnable(m)
         \/ \E r \in StopReasons : HlosDisable(r)
         \/ HlosReceive \/ HlosCrash \/ HlosRestart
         \/ \E c \in HalChannels : ChannelDisconnect(c)
         \/ MicroStackRegisterAppCb \/ BmmSetEventMaskReqSend \/ bt_state_off_handle
         \/ MicroStackStop \/ StackStopped \/ offload_mgr_microstack_msg_handler
  PROVE  Clients'
<1>1. UNCHANGED <<app_callbacks, bt_on_mode, awm, gBmm, thread>>
  BY ThreadMoves
     DEF HlosEnable, HlosDisable, HlosReceive, HlosCrash, HlosRestart, ChannelDisconnect,
         unchangedByHlos, MicroStackRegisterAppCb, BmmSetEventMaskReqSend, bt_state_off_handle,
         BmmPrepareStopReqSend, MicroStackStop, StackStopped, offload_mgr_microstack_msg_handler,
         unchangedByOm, mgrVars, bmmVars, schedVars
<1>2. QED BY <1>1, ClientsFrame DEF Booted

(* The stack's thread, and what runs beside it, where they write none of it. *)
LEMMA ClientsStack ==
  ASSUME Clients, TypeOK,
         \/ SchedulerWait \/ PostStopDone \/ PostMicrostackRx
         \/ \E r \in StopReasons : BmmPrepareStopReqHandler(r)
         \/ BmmHciArbiterBtOffIndHandler \/ BmmHciArbiterBtssCrashIndHandler
         \/ \E others \in BOOLEAN : schedTaskWaitTimerFire(others)
         \/ Transport \/ microstack_cb \/ BtOffInd \/ BtssCrash
  PROVE  Clients'
<1>1. /\ UNCHANGED <<app_callbacks, bt_on_mode, awm>>
      /\ gBmm.subscribed => gBmm'.subscribed
  BY DEF TypeOK, SchedulerWait, PostStopDone, PostMicrostackRx, PostFromStack,
         BmmPrepareStopReqHandler, BmmHciArbiterBtOffIndHandler, BmmHciArbiterBtssCrashIndHandler,
         schedTaskWaitTimerFire, Transport, TransportActivated, microstack_cb, BtOffInd, BtssCrash,
         mgrVars, bmmVars
<1>2. thread # "initInd" /\ thread' \in {"turn", "events", "postStop", "postRx", "stopped", thread}
  BY ThreadMoves
     DEF SchedulerWait, PostStopDone, PostMicrostackRx, PostFromStack,
         BmmPrepareStopReqHandler, BmmHciArbiterBtOffIndHandler, BmmHciArbiterBtssCrashIndHandler,
         schedTaskWaitTimerFire, Transport, TransportActivated, microstack_cb, BtOffInd, BtssCrash
<1>3. QED BY <1>1, <1>2, ClientsFrame DEF Booted

(* The steps that write some of it. *)
LEMMA ClientsWritten ==
  ASSUME Clients, BInv,
         \/ bt_state_on_handle \/ RecordMode \/ bt_state_check_and_mock_off \/ StackDeinitialised
         \/ BmmInit \/ InitializedIndEnd \/ BmmSetEventMaskReqHandler \/ BmmDeinit
         \/ \E s \in {"INIT_SUCCESS", "INIT_FAILURE"} : BmmActivateTransportCfmHandler(s)
  PROVE  Clients'
<1>1. TypeOK /\ Threads
  BY DEF BInv
<1>2. Starting => bt_on_mode = "DEFAULT"
  BY DEF BInv, CleanWhenOver
<1>3. CASE bt_state_on_handle
  <2>1. UNCHANGED <<app_callbacks, bt_on_mode, awm, gBmm>>
    BY <1>3 DEF bt_state_on_handle, unchangedByOm, bmmVars
  <2>2. CASE schedInstance
    <3>1. UNCHANGED thread
      BY <1>3, <2>2 DEF bt_state_on_handle, schedVars
    <3>2. QED BY <2>1, <3>1, ClientsFrame DEF Booted
  <2>3. CASE ~schedInstance
    <3>1. ~Booted
      BY <1>1, <2>3 DEF Threads, Booted
    <3>2. QED BY <2>1, <3>1 DEF Clients
  <2>4. QED BY <2>2, <2>3
<1>4. CASE RecordMode
  <2>1. ~app_callbacks
    BY <1>2, <1>4 DEF Clients, RecordMode, At, Starting
  <2>2. QED BY <1>4, <2>1 DEF RecordMode, Clients
<1>5. CASE bt_state_check_and_mock_off
  <2>1. UNCHANGED <<app_callbacks, awm, gBmm, thread>>
    BY <1>5, ThreadMoves DEF bt_state_check_and_mock_off, unchangedByOm, bmmVars,
                             BmmPrepareStopReqSend, schedVars
  <2>2. bt_on_mode' = bt_on_mode \/ (bt_on_mode \in Modes /\ bt_on_mode' = SsrOf(bt_on_mode))
    BY <1>5 DEF bt_state_check_and_mock_off, MockOffNeeded
  <2>3. QED BY <2>1, <2>2 DEF Clients, Booted, Modes, SsrOf
<1>6. CASE StackDeinitialised
  <2>1. ~Booted
    BY <1>1, <1>6 DEF StackDeinitialised, CsrSchedDeinit, Threads, Booted
  <2>2. QED BY <1>6, <2>1 DEF StackDeinitialised, Clients, mgrVars
<1>7. CASE BmmInit
  <2>1. ~Booted
    BY <1>7 DEF BmmInit, LoopStart, Booted
  <2>2. QED BY <1>7, <2>1 DEF BmmInit, Clients, mgrVars
<1>8. CASE InitializedIndEnd
  <2>1. UNCHANGED <<app_callbacks, bt_on_mode, gBmm>> /\ thread' = "events"
    BY <1>8 DEF InitializedIndEnd, bmmVars
  <2>2. awm' = IF bt_on_mode = "OFFLD" THEN "ON" ELSE awm
    BY <1>8 DEF InitializedIndEnd
  <2>3. QED BY <2>1, <2>2 DEF Clients, Booted
<1>9. CASE BmmSetEventMaskReqHandler
  <2>1. gBmm'.subscribed = TRUE
    BY <1>1, <1>9 DEF BmmSetEventMaskReqHandler, TypeOK
  <2>2. thread = "turn" /\ thread' = IF InitOver THEN "initInd" ELSE "events"
    BY <1>9, ThreadMoves DEF BmmSetEventMaskReqHandler
  <2>3. CASE InitOver
    <3>1. (app_callbacks' => bt_on_mode = "OFFLD") /\ UNCHANGED bt_on_mode
      <4>1. InitializedInd
        BY <1>9, <2>3 DEF BmmSetEventMaskReqHandler
      <4>2. QED BY ONLY Zenon, <4>1 DEF InitializedInd, offload_mgr_client_interface_init
    <3>2. QED BY <2>1, <2>2, <2>3, <3>1 DEF Clients, Booted
  <2>4. CASE ~InitOver
    <3>1. UNCHANGED <<app_callbacks, bt_on_mode, awm>>
      BY <1>9, <2>4 DEF BmmSetEventMaskReqHandler, mgrVars
    <3>2. QED BY <2>1, <2>2, <2>4, <3>1, ClientsFrame DEF Booted
  <2>5. QED BY <2>3, <2>4
<1>10. CASE \E s \in {"INIT_SUCCESS", "INIT_FAILURE"} : BmmActivateTransportCfmHandler(s)
  <2>1. gBmm'.subscribed = gBmm.subscribed
    BY <1>1, <1>10 DEF BmmActivateTransportCfmHandler, TypeOK
  <2>2. thread = "turn" /\ thread' = IF gBmm.subscribed THEN "initInd" ELSE "events"
    BY <1>10, ThreadMoves DEF BmmActivateTransportCfmHandler
  <2>3. CASE gBmm.subscribed
    <3>1. (app_callbacks' => bt_on_mode = "OFFLD") /\ UNCHANGED bt_on_mode
      <4>1. InitializedInd
        BY <1>10, <2>3 DEF BmmActivateTransportCfmHandler
      <4>2. QED BY ONLY Zenon, <4>1 DEF InitializedInd, offload_mgr_client_interface_init
    <3>2. QED BY <2>1, <2>2, <2>3, <3>1 DEF Clients, Booted
  <2>4. CASE ~gBmm.subscribed
    <3>1. UNCHANGED <<app_callbacks, bt_on_mode, awm>>
      BY <1>10, <2>4 DEF BmmActivateTransportCfmHandler, mgrVars
    <3>2. QED BY <2>1, <2>2, <2>4, <3>1, ClientsFrame DEF Booted
  <2>5. QED BY <2>3, <2>4
<1>11. CASE BmmDeinit
  <2>1. CASE gBmm.subscribed
    BY <1>11, <2>1 DEF BmmDeinit, DeinitializedInd, offload_mgr_client_interface_deinit, Clients
  <2>2. CASE ~gBmm.subscribed
    BY <1>11, <2>2 DEF BmmDeinit, Clients, mgrVars
  <2>3. QED BY <2>1, <2>2
<1>12. QED BY <1>3, <1>4, <1>5, <1>6, <1>7, <1>8, <1>9, <1>10, <1>11

(* Both are kept by every step. *)
LEMMA ClientsKept == ASSUME BInv, Clients, [Next]_vars PROVE Clients'
<1>1. TypeOK
  BY DEF BInv
<1>2. CASE Next
  <2>1. CASE OffloadManagerThread
    BY <1>1, <2>1, ClientsQuiet, ClientsWritten DEF OffloadManagerThread
  <2>2. CASE MicrostackThread
    BY <1>1, <2>2, ClientsStack, ClientsWritten DEF MicrostackThread
  <2>3. QED BY <1>1, <1>2, <2>1, <2>2, ClientsQuiet, ClientsStack DEF Next
<1>3. CASE UNCHANGED vars
  BY <1>3 DEF vars, mgrVars, bmmVars, schedVars, Clients, Booted
<1>4. QED BY <1>2, <1>3

(* While Bluetooth is on for HLOS nothing goes by the mode of another session: *)
(* what is recorded is the mode asked for or none yet, and the clients and the *)
(* app manager serve a session with offload only (NoOtherMode).            *)
THEOREM NoOtherModeAlways == ASSUME RestartWaits PROVE Spec => []NoOtherMode
<1>1. Init => Clients
  BY DEF Init, Clients
<1>2. BInv /\ Clients /\ [Next]_vars => Clients'
  BY ClientsKept
<1>3. BInv /\ Clients => NoOtherMode
  <2>1. SUFFICES ASSUME BInv, Clients, hlos.state = "on" PROVE NoOtherMode
    BY DEF NoOtherMode
  <2>2. /\ TypeOK /\ OnePipe /\ CleanWhenOver /\ InitOnce
        /\ HostAgrees
    BY <2>1 DEF BInv
  <2>3. Num(pipe, "BT_ENABLE") = 0
    BY <2>1, <2>2, Counts DEF OnePipe
  <2>4. /\ om.mode = hlos.mode /\ (~Starting => bt_on_mode = om.mode) /\ Answered
    BY <2>1, <2>2, <2>3 DEF HostAgrees
  <2>5. Starting => bt_on_mode = "DEFAULT"
    BY <2>2 DEF CleanWhenOver
  <2>6. bt_on_mode \in {hlos.mode, "DEFAULT"} /\ hlos.mode \in Modes
    BY <2>2, <2>4, <2>5 DEF TypeOK
  <2>7. awm = "ON" => hlos.mode = "OFFLD"
    BY <2>2, <2>6 DEF CleanWhenOver, Modes
  <2>8. app_callbacks => awm = "ON"
    BY <2>1, <2>4, <2>6 DEF Clients, Answered, Modes
  <2>9. QED BY <2>6, <2>7, <2>8 DEF NoOtherMode
<1>4. QED BY <1>1, <1>2, <1>3, BInvAlways, PTL DEF Spec
=============================================================================
