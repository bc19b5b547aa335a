----------------------- MODULE SocketLifecycleProofs -----------------------
(***************************************************************************)
(* SocketOffload implements SocketLifecycle: whatever the two HAL threads, *)
(* the offload manager, the microstack and the microapps do, each socket   *)
(* goes round CLOSED, OPENING, OPENED, CLOSING and skips no state.         *)
(*                                                                         *)
(* SocketOffloadProofs has that one thing answers for a socket.  Here it is *)
(* said which state of the HAL's table each such thing goes with, which     *)
(* closes may stand behind which opens, and what a HAL thread that was     *)
(* interrupted between its check and its update may still find.            *)
(***************************************************************************)
EXTENDS SocketOffloadProofs

(* The states in which an instance stays between two handlers. *)
Early == {"OffloadReq", "OffloadToMicrostackSuccess", "OffloadToMicroappFailure"}
AtRest == Early \cup {"Idle", "Gatt", "OffloadToMicroappSuccess", "UnOffloadReqToMicrostack"}

CloseReqs(s) == {m \in HalToOmMsgs : m.op = "CLOSE_SOCKET" /\ m.id = s}

Opens(s)    == Where(hal2om, OpenReqs(s))
Closes(s)   == Where(hal2om, CloseReqs(s))
Told(s)     == Where(om2hal, {OpenOk(s)})
Failures(s) == Where(om2hal, {OpenFailed(s)})
Closures(s) == Where(om2hal, {Closed(s)})

(* In the queue q no message of N stands behind one of M. *)
Behind(q, M, N) == \A k \in Where(q, M), l \in Where(q, N) : l < k

(* The state of the HAL's entry for s, by what answers for s. *)
Phase(s) ==
  /\ Opens(s) # {} =>
       getState(s) = "OPENING" /\ Told(s) = {} /\ Behind(hal2om, OpenReqs(s), CloseReqs(s))
  /\ \A i \in Serving(s) :
       /\ instances[i].state \in Early =>
            getState(s) = "OPENING" /\ Told(s) = {} /\ Closes(s) = {}
       /\ instances[i].state = "OffloadToMicroappSuccess" =>
            IF Told(s) # {} THEN getState(s) = "OPENING" /\ Closes(s) = {}
            ELSE getState(s) = "CLOSING" \/ (getState(s) = "OPENED" /\ Closes(s) = {})
       /\ instances[i].state = "UnOffloadReqToMicrostack" =>
            getState(s) = "CLOSING" /\ Told(s) = {}
  /\ Failures(s) # {} => getState(s) = "OPENING" /\ Told(s) = {}
  /\ Closures(s) # {} => getState(s) = "CLOSING" /\ Told(s) = {}
  /\ Removing(s) # {} => getState(s) \in {"OPENING", "CLOSING"} /\ Told(s) = {}
  /\ getState(s) = "CLOSED" => Told(s) = {}
  /\ One(Told(s))

(* What a HAL thread has checked may have changed, but not to anything.     *)
Checked ==
  /\ binder.op = "close" => getState(binder.id) # "OPENING"
  /\ rx.op = "close" => getState(rx.id) \in {"OPENED", "CLOSING"}

Rests == \A i \in Slots : instances[i].state \in AtRest

PInv == IInv /\ Rests /\ Checked /\ \A s \in Sockets : Phase(s)
-----------------------------------------------------------------------------
(* The rows of the table for an instance at rest, by the event: from these   *)
(* states the six events lead there, in all others they have no row.        *)
Row(from, evt, to) == Rows(from, evt) # {} /\ NextState(from, evt) = to

(* From a state at rest, each of the six events leads where the table says. *)
LEMMA RestRows ==
  /\ Row("OffloadReq", "OFFLOAD_TO_MICROSTACK_SUCCESS", "OffloadToMicrostackSuccess")
  /\ Row("OffloadReq", "OFFLOAD_TO_MICROSTACK_FAILURE", "OffloadFailure")
  /\ Row("OffloadReq", "UNOFFLOAD_REQ", "UnOffloadReqToMicrostack")
  /\ Row("OffloadToMicrostackSuccess", "UNOFFLOAD_REQ", "UnOffloadReqToMicrostack")
  /\ Row("OffloadToMicrostackSuccess", "OFFLOAD_TO_MICROAPP_SUCCESS", "OffloadToMicroappSuccess")
  /\ Row("OffloadToMicrostackSuccess", "OFFLOAD_TO_MICROAPP_FAILURE", "OffloadToMicroappFailure")
  /\ Row("OffloadToMicroappSuccess", "UNOFFLOAD_REQ", "UnOffloadReqFromHAL")
  /\ Row("OffloadToMicroappFailure", "UNOFFLOAD_FROM_MICROSTACK_SUCCESS", "OffloadFailure")
  /\ Row("UnOffloadReqToMicrostack", "UNOFFLOAD_FROM_MICROSTACK_SUCCESS", "UnoffloadSuccess")
<1>1. ASSUME NEW from, NEW evt, NEW to, Rows(from, evt) = {<<from, evt, to>>}
      PROVE  Row(from, evt, to)
  BY <1>1, OnlyRow DEF Row
<1>2. /\ Rows("OffloadReq", "OFFLOAD_TO_MICROSTACK_SUCCESS")
           = {<<"OffloadReq", "OFFLOAD_TO_MICROSTACK_SUCCESS", "OffloadToMicrostackSuccess">>}
      /\ Rows("OffloadReq", "OFFLOAD_TO_MICROSTACK_FAILURE")
           = {<<"OffloadReq", "OFFLOAD_TO_MICROSTACK_FAILURE", "OffloadFailure">>}
      /\ Rows("OffloadReq", "UNOFFLOAD_REQ")
           = {<<"OffloadReq", "UNOFFLOAD_REQ", "UnOffloadReqToMicrostack">>}
  BY DEF Rows, offload_mgr_state_table
<1>3. /\ Rows("OffloadToMicrostackSuccess", "UNOFFLOAD_REQ")
           = {<<"OffloadToMicrostackSuccess", "UNOFFLOAD_REQ", "UnOffloadReqToMicrostack">>}
      /\ Rows("OffloadToMicrostackSuccess", "OFFLOAD_TO_MICROAPP_SUCCESS")
           = {<<"OffloadToMicrostackSuccess", "OFFLOAD_TO_MICROAPP_SUCCESS",
                "OffloadToMicroappSuccess">>}
      /\ Rows("OffloadToMicrostackSuccess", "OFFLOAD_TO_MICROAPP_FAILURE")
           = {<<"OffloadToMicrostackSuccess", "OFFLOAD_TO_MICROAPP_FAILURE",
                "OffloadToMicroappFailure">>}
  BY DEF Rows, offload_mgr_state_table
<1>4. /\ Rows("OffloadToMicroappSuccess", "UNOFFLOAD_REQ")
           = {<<"OffloadToMicroappSuccess", "UNOFFLOAD_REQ", "UnOffloadReqFromHAL">>}
      /\ Rows("OffloadToMicroappFailure", "UNOFFLOAD_FROM_MICROSTACK_SUCCESS")
           = {<<"OffloadToMicroappFailure", "UNOFFLOAD_FROM_MICROSTACK_SUCCESS", "OffloadFailure">>}
      /\ Rows("UnOffloadReqToMicrostack", "UNOFFLOAD_FROM_MICROSTACK_SUCCESS")
           = {<<"UnOffloadReqToMicrostack", "UNOFFLOAD_FROM_MICROSTACK_SUCCESS", "UnoffloadSuccess">>}
  BY DEF Rows, offload_mgr_state_table
<1>5. QED BY <1>1, <1>2, <1>3, <1>4

(* The pairs of a state at rest and an event of a handler that have a row.   *)
Expected ==
  {<<"OffloadReq", "OFFLOAD_TO_MICROSTACK_SUCCESS">>,
   <<"OffloadReq", "OFFLOAD_TO_MICROSTACK_FAILURE">>,
   <<"OffloadReq", "UNOFFLOAD_REQ">>,
   <<"OffloadToMicrostackSuccess", "UNOFFLOAD_REQ">>,
   <<"OffloadToMicrostackSuccess", "OFFLOAD_TO_MICROAPP_SUCCESS">>,
   <<"OffloadToMicrostackSuccess", "OFFLOAD_TO_MICROAPP_FAILURE">>,
   <<"OffloadToMicroappSuccess", "UNOFFLOAD_REQ">>,
   <<"OffloadToMicroappFailure", "UNOFFLOAD_FROM_MICROSTACK_SUCCESS">>,
   <<"UnOffloadReqToMicrostack", "UNOFFLOAD_FROM_MICROSTACK_SUCCESS">>}

(* No other pair of a state at rest and an event has a row. *)
LEMMA RowsExpected ==
  ASSUME NEW state \in AtRest, NEW evt \in Events, Rows(state, evt) # {}
  PROVE  <<state, evt>> \in Expected
<1>1. PICK row \in offload_mgr_state_table : row[1] = state /\ row[2] = evt
  BY DEF Rows
<1>2. QED BY <1>1 DEF offload_mgr_state_table, Expected, AtRest, Early, Events

(* The states the entry functions leave at once, and where to. *)
LEMMA RestOf ==
  /\ Rest("OffloadFailure") = "Idle" /\ Rest("UnoffloadSuccess") = "Idle"
  /\ Rest("UnOffloadReqFromHAL") = "UnOffloadReqToMicrostack"
  /\ \A state \in AtRest : Rest(state) = state
BY FreeRows DEF Rest, OwnEvent, AtRest, Early

(* What the offload manager says to the microstack and to the microapps of    *)
(* instance i.                                                             *)
CloseReq(i)  == [op |-> "CLOSE_REQ", connId |-> instances[i].pseudo_id]
SetParams(i) == [op |-> "SET_PARAMS_REQ", connId |-> instances[i].pseudo_id]
AppOpen(i)   == [op |-> "OPEN_REQ", id |-> instances[i].id, type |-> instances[i].type,
                 ep |-> instances[i].ep]
AppClose(i)  == [op |-> "CLOSE_CMD", id |-> instances[i].id, ep |-> instances[i].ep]

(* The moves of an instance: the event that is expected in its state, the    *)
(* state it comes to rest in, and all that is said on the way.             *)
Passes(i, from, to) == instances[i].state = from /\ instances'[i].state = to
Silent == UNCHANGED <<om2hal, om2bmm, om2awm>>

Ignores(i) == instances'[i].state = instances[i].state /\ Silent

AsksMicroapp(i) ==
  /\ Passes(i, "OffloadReq", "OffloadToMicrostackSuccess")
  /\ om2awm' = Append(om2awm, AppOpen(i)) /\ UNCHANGED <<om2hal, om2bmm>>

Refuses(i) ==
  /\ Passes(i, "OffloadReq", "Idle")
  /\ om2hal' = Append(om2hal, OpenFailed(instances[i].id)) /\ UNCHANGED <<om2bmm, om2awm>>

Reports(i) ==
  /\ Passes(i, "OffloadToMicrostackSuccess", "OffloadToMicroappSuccess")
  /\ om2hal' = Append(om2hal, OpenOk(instances[i].id))
  /\ om2bmm' = Append(om2bmm, SetParams(i)) /\ UNCHANGED om2awm

TakesBack(i) ==
  /\ Passes(i, "OffloadToMicrostackSuccess", "OffloadToMicroappFailure")
  /\ om2bmm' = Append(om2bmm, CloseReq(i)) /\ UNCHANGED <<om2hal, om2awm>>

(* A close of a socket that is open, and of one that is not yet. *)
Unoffloads(i) ==
  /\ Passes(i, "OffloadToMicroappSuccess", "UnOffloadReqToMicrostack")
  /\ om2bmm' = Append(om2bmm, CloseReq(i))
  /\ om2awm' = Append(om2awm, AppClose(i)) /\ UNCHANGED om2hal

UnoffloadsEarly(i) ==
  /\ instances[i].state \in {"OffloadReq", "OffloadToMicrostackSuccess"}
  /\ instances'[i].state = "UnOffloadReqToMicrostack"
  /\ om2bmm' = Append(om2bmm, CloseReq(i)) /\ UNCHANGED <<om2hal, om2awm>>

GivesUp(i) ==
  /\ Passes(i, "OffloadToMicroappFailure", "Idle")
  /\ om2hal' = Append(om2hal, OpenFailed(instances[i].id)) /\ UNCHANGED <<om2bmm, om2awm>>

Finishes(i) ==
  /\ Passes(i, "UnOffloadReqToMicrostack", "Idle")
  /\ om2hal' = Append(om2hal, Closed(instances[i].id)) /\ UNCHANGED <<om2bmm, om2awm>>

Moves(i, evt) ==
  \/ evt = "OFFLOAD_TO_MICROSTACK_SUCCESS" /\ AsksMicroapp(i)
  \/ evt = "OFFLOAD_TO_MICROSTACK_FAILURE" /\ Refuses(i)
  \/ evt = "OFFLOAD_TO_MICROAPP_SUCCESS" /\ Reports(i)
  \/ evt = "OFFLOAD_TO_MICROAPP_FAILURE" /\ TakesBack(i)
  \/ evt = "UNOFFLOAD_REQ" /\ (Unoffloads(i) \/ UnoffloadsEarly(i))
  \/ evt = "UNOFFLOAD_FROM_MICROSTACK_SUCCESS" /\ (GivesUp(i) \/ Finishes(i))

(* sm_process_evt_with_cb() makes the move of the table, or none when the    *)
(* event is not expected; besides the state it writes the microstack id.    *)
LEMMA EventMoves ==
  ASSUME InstancesTypeOK, Rests, NEW i \in Slots, NEW evt \in Events,
         NEW c \in ConnIds \cup {InvalidConnId}, ProcessEvent(i, evt, c)
  PROVE  /\ \A j \in Slots \ {i} : instances'[j] = instances[j]
         /\ \A j \in Slots : /\ instances'[j].id = instances[j].id
                             /\ instances'[j].type = instances[j].type
                             /\ instances'[j].ep = instances[j].ep
         /\ instances'[i].pseudo_id = c
         /\ IF <<instances[i].state, evt>> \in Expected THEN Moves(i, evt) ELSE Ignores(i)
         /\ Rests'
<1> DEFINE held == [instances EXCEPT ![i].pseudo_id = c]
           state == instances[i].state
           new == NextState(state, evt)
<1>1. /\ held \in [Slots -> [state : SMStates, id : Sockets \cup {NoSocket}, type : Types,
                             ep : Endpoints, pseudo_id : ConnIds \cup {InvalidConnId}]]
      /\ held[i].pseudo_id = c /\ held[i].state = state
      /\ \A j \in Slots \ {i} : held[j] = instances[j]
      /\ \A j \in Slots : /\ held[j].id = instances[j].id /\ held[j].type = instances[j].type
                          /\ held[j].ep = instances[j].ep
  BY DEF InstancesTypeOK
<1>2. state \in AtRest
  BY DEF Rests
<1>3. CASE Rows(state, evt) = {}
  <2>1. instances' = held /\ Silent
    BY <1>3 DEF ProcessEvent, Silent
  <2>2. <<state, evt>> \notin Expected
    BY <1>3, RestRows DEF Row, Expected
  <2> HIDE DEF held, state
  <2>3. instances'[i].state = state /\ Rests'
    BY <1>1, <2>1 DEF Rests, state
  <2>4. QED BY <1>1, <2>1, <2>2, <2>3 DEF Ignores, state
<1>4. CASE Rows(state, evt) # {}
  <2>1. /\ instances' = [held EXCEPT ![i].state = Rest(new)]
        /\ TellHal(i, new) /\ TellMicrostack(i, Rest(new)) /\ TellMicroapp(i, new)
    BY <1>4 DEF ProcessEvent
  <2>2. <<state, evt>> \in Expected
    BY <1>2, <1>4, RowsExpected
  <2> HIDE DEF held
  <2>3. /\ instances'[i].state = Rest(new) /\ instances'[i].pseudo_id = c
        /\ \A j \in Slots \ {i} : instances'[j] = instances[j]
        /\ \A j \in Slots : /\ instances'[j].id = instances[j].id
                            /\ instances'[j].type = instances[j].type
                            /\ instances'[j].ep = instances[j].ep
    BY <1>1, <2>1
  <2> HIDE DEF state, new
  <2>4. Moves(i, evt) /\ instances'[i].state \in AtRest
    <3>1. \A to : Row(state, evt, to) => new = to
      BY DEF Row, new
    <3> USE <2>1, <2>3, <3>1, RestRows, RestOf
            DEF TellHal, TellMicrostack, TellMicroapp, Moves, Passes, state, AtRest, Early,
                CloseReq, SetParams, AppOpen, AppClose, OpenOk, OpenFailed, Closed
    <3>2. CASE state = "OffloadReq" /\ evt = "OFFLOAD_TO_MICROSTACK_SUCCESS"
      <4>1. new = "OffloadToMicrostackSuccess" /\ Rest(new) = new
        BY <3>2
      <4>2. QED BY <3>2, <4>1 DEF AsksMicroapp
    <3>3. CASE state = "OffloadReq" /\ evt = "OFFLOAD_TO_MICROSTACK_FAILURE"
      BY <3>3 DEF Refuses
    <3>4. CASE state = "OffloadToMicrostackSuccess" /\ evt = "OFFLOAD_TO_MICROAPP_SUCCESS"
      BY <3>4 DEF Reports
    <3>5. CASE state = "OffloadToMicrostackSuccess" /\ evt = "OFFLOAD_TO_MICROAPP_FAILURE"
      BY <3>5 DEF TakesBack
    <3>6. CASE state = "OffloadToMicroappSuccess" /\ evt = "UNOFFLOAD_REQ"
      BY <3>6 DEF Unoffloads
    <3>7. CASE /\ state \in {"OffloadReq", "OffloadToMicrostackSuccess"}
               /\ evt = "UNOFFLOAD_REQ"
      BY <3>7 DEF UnoffloadsEarly
    <3>8. CASE /\ state = "OffloadToMicroappFailure"
               /\ evt = "UNOFFLOAD_FROM_MICROSTACK_SUCCESS"
      BY <3>8 DEF GivesUp
    <3>9. CASE /\ state = "UnOffloadReqToMicrostack"
               /\ evt = "UNOFFLOAD_FROM_MICROSTACK_SUCCESS"
      BY <3>9 DEF Finishes
    <3>10. QED BY <2>2, <3>2, <3>3, <3>4, <3>5, <3>6, <3>7, <3>8, <3>9 DEF Expected
  <2>5. Rests'
    BY <2>3, <2>4 DEF Rests
  <2>6. QED BY <2>2, <2>3, <2>4, <2>5 DEF state
<1>5. QED BY <1>3, <1>4

-----------------------------------------------------------------------------
(* Where the messages of a set are after one more is sent. *)
LEMMA WhereAppended ==
  ASSUME NEW D, NEW q \in Seq(D), NEW m \in D, NEW M
  PROVE  /\ Where(q, M) \subseteq 1 .. Len(q) /\ Len(q) \in Nat
         /\ m \notin M => Where(Append(q, m), M) = Where(q, M)
         /\ m \in M => Where(Append(q, m), M) = Where(q, M) \cup {Len(q) + 1}
<1>1. /\ DOMAIN Append(q, m) = 1 .. Len(q) + 1 /\ DOMAIN q = 1 .. Len(q) /\ Len(q) \in Nat
      /\ Append(q, m)[Len(q) + 1] = m
      /\ \A k \in 1 .. Len(q) : Append(q, m)[k] = q[k]
  <2>1. Append(q, m) \in Seq(D) /\ Len(Append(q, m)) = Len(q) + 1
    OBVIOUS
  <2>2. QED BY <2>1
<1>2. QED BY <1>1 DEF Where

(* And after one is read. *)
LEMMA WhereTailed ==
  ASSUME NEW D, NEW q \in Seq(D), q # <<>>, NEW M
  PROVE  /\ Where(q, M) \subseteq 1 .. Len(q) /\ Len(q) \in Nat
         /\ \A k : k \in Where(Tail(q), M) <=> k \in 1 .. Len(q) - 1 /\ k + 1 \in Where(q, M)
         /\ Head(q) \in M <=> 1 \in Where(q, M)
<1>1. /\ DOMAIN q = 1 .. Len(q) /\ Len(q) \in Nat /\ Len(q) > 0 /\ Head(q) = q[1]
      /\ DOMAIN Tail(q) = 1 .. Len(q) - 1
      /\ \A k \in 1 .. Len(q) - 1 : Tail(q)[k] = q[k + 1]
  OBVIOUS
<1>2. QED BY <1>1 DEF Where

(* No N stands behind an M after one is sent that is no N. *)
LEMMA BehindAppended ==
  ASSUME NEW D, NEW q \in Seq(D), NEW m \in D, NEW M, NEW N, Behind(q, M, N), m \notin N
  PROVE  Behind(Append(q, m), M, N)
<1>1. /\ Where(Append(q, m), N) = Where(q, N) /\ Where(q, N) \subseteq 1 .. Len(q)
      /\ Len(q) \in Nat
  BY WhereAppended
<1>2. \A k \in Where(Append(q, m), M) : k \in Where(q, M) \/ k = Len(q) + 1
  BY WhereAppended
<1>3. QED BY <1>1, <1>2 DEF Behind

(* Nor after one is read; and if that was an M, there is no N at all. *)
LEMMA BehindTailed ==
  ASSUME NEW D, NEW q \in Seq(D), q # <<>>, NEW M, NEW N, Behind(q, M, N)
  PROVE  Behind(Tail(q), M, N) /\ (Head(q) \in M => Where(q, N) = {})
<1>1. /\ Where(q, N) \subseteq 1 .. Len(q) /\ Len(q) \in Nat
      /\ \A k : k \in Where(Tail(q), M) <=> k \in 1 .. Len(q) - 1 /\ k + 1 \in Where(q, M)
      /\ \A k : k \in Where(Tail(q), N) <=> k \in 1 .. Len(q) - 1 /\ k + 1 \in Where(q, N)
      /\ Head(q) \in M <=> 1 \in Where(q, M)
  BY WhereTailed
<1>2. ASSUME NEW k \in Where(Tail(q), M), NEW l \in Where(Tail(q), N)
      PROVE  l < k
  <2>1. l + 1 < k + 1 /\ l \in Int /\ k \in Int
    BY <1>1 DEF Behind
  <2>2. QED BY <2>1
<1>3. ASSUME Head(q) \in M
      PROVE  Where(q, N) = {}
  <2>1. \A l \in Where(q, N) : l < 1
    BY <1>1, <1>3 DEF Behind
  <2>2. QED BY <1>1, <2>1
<1>4. QED BY <1>2, <1>3 DEF Behind

(* The calls about s in the queue to the offload manager, after a call about  *)
(* another socket is sent, or any call is read.                            *)
LEMMA CallsKept ==
  ASSUME NEW s \in Sockets, hal2om \in Seq(HalToOmMsgs),
         \/ hal2om' = hal2om
         \/ hal2om # <<>> /\ hal2om' = Tail(hal2om)
         \/ \E m \in HalToOmMsgs : m.id # s /\ hal2om' = Append(hal2om, m)
  PROVE  /\ Opens(s) = {} => Where(hal2om', OpenReqs(s)) = {}
         /\ Closes(s) = {} => Where(hal2om', CloseReqs(s)) = {}
         /\ Behind(hal2om, OpenReqs(s), CloseReqs(s))
              => Behind(hal2om', OpenReqs(s), CloseReqs(s))
<1>1. CASE hal2om' = hal2om
  BY <1>1 DEF Opens, Closes
<1>2. CASE hal2om # <<>> /\ hal2om' = Tail(hal2om)
  <2>1. \A M : Where(hal2om, M) = {} => Where(hal2om', M) = {}
    BY <1>2, WhereTailed
  <2>2. QED BY <1>2, <2>1, BehindTailed DEF Opens, Closes
<1>3. ASSUME NEW m \in HalToOmMsgs, m.id # s, hal2om' = Append(hal2om, m)
      PROVE  /\ Opens(s) = {} => Where(hal2om', OpenReqs(s)) = {}
             /\ Closes(s) = {} => Where(hal2om', CloseReqs(s)) = {}
             /\ Behind(hal2om, OpenReqs(s), CloseReqs(s))
                  => Behind(hal2om', OpenReqs(s), CloseReqs(s))
  <2>1. m \notin OpenReqs(s) /\ m \notin CloseReqs(s)
    BY <1>3 DEF OpenReqs, CloseReqs
  <2>2. \A M : m \notin M => Where(hal2om', M) = Where(hal2om, M)
    BY <1>3, WhereAppended
  <2>3. QED BY <1>3, <2>1, <2>2, BehindAppended DEF Opens, Closes
<1>4. QED BY <1>1, <1>2, <1>3

(* The answers about s in the queue to the HAL, after an answer about another *)
(* socket or a close indication is sent or read.                           *)
Other(m, s) == m.id # s \/ m.op = "CLOSE_IND"

(* They are then the same answers, in the same order. *)
LEMMA AnswersKept ==
  ASSUME NEW s \in Sockets, om2hal \in Seq(OmToHalMsgs),
         \/ om2hal' = om2hal
         \/ om2hal # <<>> /\ om2hal' = Tail(om2hal) /\ Other(Head(om2hal), s)
         \/ \E m \in OmToHalMsgs : Other(m, s) /\ om2hal' = Append(om2hal, m)
  PROVE  /\ Same(Told(s), Where(om2hal', {OpenOk(s)}))
         /\ Same(Failures(s), Where(om2hal', {OpenFailed(s)}))
         /\ Same(Closures(s), Where(om2hal', {Closed(s)}))
<1>1. \A m : Other(m, s) =>
        m \notin {OpenOk(s)} /\ m \notin {OpenFailed(s)} /\ m \notin {Closed(s)}
  BY DEF Other, OpenOk, OpenFailed, Closed
<1>2. CASE om2hal' = om2hal
  BY <1>2, SameRefl DEF Told, Failures, Closures
<1>3. CASE om2hal # <<>> /\ om2hal' = Tail(om2hal) /\ Other(Head(om2hal), s)
  BY <1>1, <1>3, WhereTail DEF Told, Failures, Closures
<1>4. CASE \E m \in OmToHalMsgs : Other(m, s) /\ om2hal' = Append(om2hal, m)
  BY <1>1, <1>4, WhereAppend DEF Told, Failures, Closures
<1>5. QED BY <1>2, <1>3, <1>4

(* A step that changes nothing the phase of s depends on, except that calls    *)
(* of s are read, keeps it.                                                *)
LEMMA PhaseKept ==
  ASSUME NEW s \in Sockets, Phase(s), getState(s)' = getState(s), Serving(s)' = Serving(s),
         \A i \in Serving(s) : instances'[i].state = instances[i].state,
         Opens(s) = {} => Where(hal2om', OpenReqs(s)) = {},
         Closes(s) = {} => Where(hal2om', CloseReqs(s)) = {},
         Behind(hal2om, OpenReqs(s), CloseReqs(s))
           => Behind(hal2om', OpenReqs(s), CloseReqs(s)),
         Same(Told(s), Where(om2hal', {OpenOk(s)})),
         Same(Failures(s), Where(om2hal', {OpenFailed(s)})),
         Same(Closures(s), Where(om2hal', {Closed(s)})),
         Removing(s)' = Removing(s)
  PROVE  Phase(s)'
<1>1. /\ Opens(s)' = Where(hal2om', OpenReqs(s)) /\ Closes(s)' = Where(hal2om', CloseReqs(s))
      /\ Told(s)' = Where(om2hal', {OpenOk(s)})
      /\ Failures(s)' = Where(om2hal', {OpenFailed(s)})
      /\ Closures(s)' = Where(om2hal', {Closed(s)})
      /\ Behind(hal2om, OpenReqs(s), CloseReqs(s))' = Behind(hal2om', OpenReqs(s), CloseReqs(s))
  BY DEF Opens, Closes, Told, Failures, Closures, Where, OpenReqs, CloseReqs, OpenOk, OpenFailed,
         Closed, Behind
<1> USE DEF Phase, Same
<1>2. Opens(s)' # {} => /\ getState(s)' = "OPENING" /\ Told(s)' = {}
                        /\ Behind(hal2om, OpenReqs(s), CloseReqs(s))'
  BY <1>1
<1>3. \A i \in Serving(s)' :
        /\ instances'[i].state \in Early =>
             getState(s)' = "OPENING" /\ Told(s)' = {} /\ Closes(s)' = {}
        /\ instances'[i].state = "OffloadToMicroappSuccess" =>
             IF Told(s)' # {} THEN getState(s)' = "OPENING" /\ Closes(s)' = {}
             ELSE getState(s)' = "CLOSING" \/ (getState(s)' = "OPENED" /\ Closes(s)' = {})
        /\ instances'[i].state = "UnOffloadReqToMicrostack" =>
             getState(s)' = "CLOSING" /\ Told(s)' = {}
  BY <1>1
<1>4. /\ Failures(s)' # {} => getState(s)' = "OPENING" /\ Told(s)' = {}
      /\ Closures(s)' # {} => getState(s)' = "CLOSING" /\ Told(s)' = {}
      /\ Removing(s)' # {} => getState(s)' \in {"OPENING", "CLOSING"} /\ Told(s)' = {}
      /\ getState(s)' = "CLOSED" => Told(s)' = {}
      /\ One(Told(s)')
  BY <1>1
<1>5. QED BY <1>2, <1>3, <1>4 DEF Early, One

-----------------------------------------------------------------------------
(* The last answers of a socket are its failed opens and its closes. *)
LEMMA AnswersAre ==
  ASSUME NEW s \in Sockets, om2hal \in Seq(OmToHalMsgs)
  PROVE  Where(om2hal, LastAnswers(s)) = Failures(s) \cup Closures(s)
<1>1. LastAnswers(s) = {OpenFailed(s), Closed(s)}
  BY DEF LastAnswers, LastAnswer, OmToHalMsgs, Results, OpenFailed, Closed
<1>2. QED BY <1>1 DEF Where, Failures, Closures

(* The ledger of a socket, with the two answers told apart. *)
LEMMA OneAnswers ==
  ASSUME IInv, NEW s \in Sockets
  PROVE  /\ One(Serving(s))
         /\ Opens(s) # {} => /\ Serving(s) = {} /\ Failures(s) = {} /\ Closures(s) = {}
                             /\ Removing(s) = {}
         /\ Serving(s) # {} => Failures(s) = {} /\ Closures(s) = {} /\ Removing(s) = {}
         /\ Failures(s) # {} \/ Closures(s) # {} => Removing(s) = {}
         /\ getState(s) = "CLOSED" <=> /\ Opens(s) = {} /\ Serving(s) = {} /\ Failures(s) = {}
                                       /\ Closures(s) = {} /\ Removing(s) = {}
<1>1. Ledger(Opens(s), Serving(s), Failures(s) \cup Closures(s), Removing(s),
             getState(s) = "CLOSED")
  <2>1. om2hal \in Seq(OmToHalMsgs)
    BY DEF IInv, TypeOK, ChannelsTypeOK
  <2>2. QED BY <2>1, AnswersAre DEF IInv, Books, Opens
<1>2. QED BY <1>1 DEF Ledger

(* A socket that is told of its open is about to be opened. *)
LEMMA ToldOpening ==
  ASSUME PInv, NEW s \in Sockets, Told(s) # {}
  PROVE  /\ getState(s) = "OPENING" /\ Closes(s) = {} /\ Opens(s) = {}
         /\ Failures(s) = {} /\ Closures(s) = {} /\ Removing(s) = {}
         /\ \E i \in Slots : Serving(s) = {i} /\ instances[i].state = "OffloadToMicroappSuccess"
<1>1. /\ Opens(s) = {} /\ Failures(s) = {} /\ Closures(s) = {} /\ Removing(s) = {}
      /\ getState(s) # "CLOSED"
  BY DEF PInv, Phase
<1>2. Serving(s) # {} /\ One(Serving(s))
  BY <1>1, OneAnswers DEF PInv
<1>3. PICK i \in Serving(s) : Serving(s) = {i}
  BY <1>2 DEF One
<1>4. i \in Slots /\ instances[i].state \in AtRest \ {"Idle", "Gatt"}
  BY <1>3 DEF Serving, Live, PInv, Rests
<1>5. instances[i].state = "OffloadToMicroappSuccess"
  BY <1>4 DEF PInv, Phase, AtRest
<1>6. QED BY <1>1, <1>3, <1>4, <1>5 DEF PInv, Phase

(* The steps of the HAL change no instance. *)
LEMMA HalQuiet ==
  ASSUME NEW s \in Sockets, UNCHANGED instances
  PROVE  /\ Serving(s)' = Serving(s) /\ Rests' = Rests
         /\ \A i \in Serving(s) : instances'[i].state = instances[i].state
BY DEF Serving, Live, Rests

(* What CloseSocket does to the socket it is called for, and to the others. *)
LEMMA CloseSocketPhase ==
  ASSUME PInv, NEW s0 \in Sockets, getState(s0) # "OPENING", CloseSocket(s0),
         UNCHANGED <<instances, om2hal>>,
         \A s \in Sockets : Removing(s)' = Removing(s)
  PROVE  \A s \in Sockets :
           /\ Phase(s)'
           /\ getState(s)' = IF s = s0 /\ getState(s) # "CLOSED" THEN "CLOSING" ELSE getState(s)
<1> SUFFICES ASSUME NEW s \in Sockets
             PROVE  /\ Phase(s)'
                    /\ getState(s)' = IF s = s0 /\ getState(s) # "CLOSED" THEN "CLOSING"
                                      ELSE getState(s)
  OBVIOUS
<1> DEFINE m == [op |-> "CLOSE_SOCKET", id |-> s0]
<1>1. /\ hal2om \in Seq(HalToOmMsgs) /\ om2hal \in Seq(OmToHalMsgs)
      /\ m \in HalToOmMsgs /\ m.id = s0 /\ hal2om' = Append(hal2om, m)
      /\ updateState(s0, "CLOSING") /\ Phase(s)
  BY DEF PInv, IInv, TypeOK, ChannelsTypeOK, HalToOmMsgs, CloseSocket
<1>2. getState(s)' = IF s = s0 /\ getState(s) # "CLOSED" THEN "CLOSING" ELSE getState(s)
  BY <1>1 DEF updateState, getState, PInv, IInv, TypeOK, HalTypeOK
<1>3. /\ Serving(s)' = Serving(s)
      /\ \A i \in Serving(s) : instances'[i].state = instances[i].state
  BY HalQuiet
<1>4. CASE s # s0
  <2>1. /\ Same(Told(s), Where(om2hal', {OpenOk(s)}))
        /\ Same(Failures(s), Where(om2hal', {OpenFailed(s)}))
        /\ Same(Closures(s), Where(om2hal', {Closed(s)}))
    BY <1>1, AnswersKept
  <2>2. /\ Opens(s) = {} => Where(hal2om', OpenReqs(s)) = {}
        /\ Closes(s) = {} => Where(hal2om', CloseReqs(s)) = {}
        /\ Behind(hal2om, OpenReqs(s), CloseReqs(s))
             => Behind(hal2om', OpenReqs(s), CloseReqs(s))
    BY <1>1, <1>4, CallsKept
  <2>3. getState(s)' = getState(s)
    BY <1>2, <1>4
  <2> HIDE DEF m
  <2>4. Phase(s)'
    BY <1>1, <1>3, <2>1, <2>2, <2>3, PhaseKept
  <2>5. QED BY <1>2, <2>4
<1>5. CASE s = s0
  <2>1. Opens(s)' = {} /\ Opens(s) = {} /\ Failures(s) = {}
    <3>1. m \notin OpenReqs(s)
      BY DEF OpenReqs
    <3>2. Opens(s)' = Opens(s)
      BY <1>1, <3>1, WhereAppended DEF Opens, Where, OpenReqs
    <3>3. Opens(s) = {} /\ Failures(s) = {}
      BY <1>1, <1>5 DEF Phase
    <3>4. QED BY <3>2, <3>3
  <2>2. Told(s) = {} /\ \A i \in Serving(s) : instances[i].state \notin Early
    BY <1>1, <1>5, ToldOpening DEF Phase
  <2>3. /\ Told(s)' = Told(s) /\ Failures(s)' = Failures(s) /\ Closures(s)' = Closures(s)
    BY DEF Told, Failures, Closures, Where, OpenOk, OpenFailed, Closed
  <2> HIDE DEF m
  <2>4. getState(s)' \in {"CLOSING", "CLOSED"} /\ (getState(s)' = "CLOSED" => getState(s) = "CLOSED")
    BY <1>2, <1>5
  <2>5. getState(s)' = "CLOSED" => /\ Serving(s) = {} /\ Closures(s) = {} /\ Removing(s) = {}
    BY <2>4, OneAnswers DEF PInv
  <2>6. \A i \in Serving(s)' : /\ instances'[i].state \notin Early /\ getState(s)' = "CLOSING"
    BY <1>3, <2>2, <2>4, <2>5
  <2>7. Phase(s)'
    BY <1>3, <2>1, <2>2, <2>3, <2>4, <2>5, <2>6 DEF Phase, One
  <2>8. QED BY <1>2, <2>7
<1>6. QED BY <1>4, <1>5

-----------------------------------------------------------------------------
Phases == \A s \in Sockets : Phase(s)

(* opened() and closed() on the binder thread keep the phases; an entry is made for *)
(* a socket that has none, and closed() takes an open one to CLOSING.      *)
LEMMA BinderPhases ==
  ASSUME PInv, HalStep(StackCall) \/ HalStep(ClosedCommit)
  PROVE  Phases' /\ Rests' /\ Checked' /\ [Lifecycle!LifeNext]_([s \in Sockets |-> stateTable[s].state])
<1> DEFINE life == [s \in Sockets |-> stateTable[s].state]
<1>1. /\ UNCHANGED instances
      /\ hal2om \in Seq(HalToOmMsgs) /\ om2hal \in Seq(OmToHalMsgs) /\ HalTypeOK
      /\ StackCall \/ ClosedCommit
  BY DEF HalStep, PInv, IInv, TypeOK, ChannelsTypeOK
<1>2. Rests'
  BY <1>1 DEF PInv, Rests
<1>3. ASSUME NEW s0 \in Sockets, NEW c \in Contexts, Opened(s0, c)
      PROVE  Phases' /\ Checked' /\ Lifecycle!LifeNext
  <2> DEFINE m == [op |-> "OPEN_SOCKET", id |-> s0, type |-> c.type, ep |-> c.ep]
  <2>1. /\ hal2om' = Append(hal2om, m)
        /\ binder = Resting /\ getState(s0) = "CLOSED"
        /\ stateTable' = [stateTable EXCEPT ![s0] = [state |-> "OPENING", type |-> c.type]]
        /\ UNCHANGED <<binder, rx, om2hal>>
    BY <1>3 DEF Opened
  <2>2. m \in HalToOmMsgs /\ m \in OpenReqs(s0) /\ m \notin CloseReqs(s0) /\ m.id = s0
    BY ContextsAssumption DEF HalToOmMsgs, OpenReqs, CloseReqs
  <2> HIDE DEF m
  <2>3. \A s \in Sockets : getState(s)' = IF s = s0 THEN "OPENING" ELSE getState(s)
    BY <1>1, <2>1 DEF getState, HalTypeOK
  <2>4. ASSUME NEW s \in Sockets, s # s0
        PROVE  Phase(s)'
    <3>1. /\ Opens(s) = {} => Where(hal2om', OpenReqs(s)) = {}
          /\ Closes(s) = {} => Where(hal2om', CloseReqs(s)) = {}
          /\ Behind(hal2om, OpenReqs(s), CloseReqs(s))
               => Behind(hal2om', OpenReqs(s), CloseReqs(s))
      BY <1>1, <2>1, <2>2, <2>4, CallsKept
    <3>2. /\ Same(Told(s), Where(om2hal', {OpenOk(s)}))
          /\ Same(Failures(s), Where(om2hal', {OpenFailed(s)}))
          /\ Same(Closures(s), Where(om2hal', {Closed(s)}))
      BY <1>1, <2>1, AnswersKept
    <3>3. getState(s)' = getState(s) /\ Removing(s)' = Removing(s) /\ Phase(s)
      BY <2>1, <2>3, <2>4 DEF Removing, PInv
    <3>4. /\ Serving(s)' = Serving(s)
          /\ \A i \in Serving(s) : instances'[i].state = instances[i].state
      BY <1>1, HalQuiet
    <3>5. QED BY <3>1, <3>2, <3>3, <3>4, PhaseKept
  <2>5. Phase(s0)'
    <3>1. /\ Opens(s0) = {} /\ Serving(s0) = {} /\ Failures(s0) = {} /\ Closures(s0) = {}
          /\ Removing(s0) = {} /\ Told(s0) = {}
      BY <2>1, OneAnswers DEF PInv, Phase
    <3>2. /\ Serving(s0)' = {} /\ Failures(s0)' = {} /\ Closures(s0)' = {}
          /\ Removing(s0)' = {} /\ Told(s0)' = {}
      BY <1>1, <2>1, <3>1
         DEF Serving, Live, Failures, Closures, Removing, Told, Where, OpenOk, OpenFailed, Closed
    <3>3. /\ Where(hal2om', OpenReqs(s0)) = {Len(hal2om) + 1}
          /\ Where(hal2om', CloseReqs(s0)) = Where(hal2om, CloseReqs(s0))
          /\ Where(hal2om, CloseReqs(s0)) \subseteq 1 .. Len(hal2om) /\ Len(hal2om) \in Nat
      BY <1>1, <2>1, <2>2, <3>1, WhereAppended DEF Opens
    <3>4. Behind(hal2om', OpenReqs(s0), CloseReqs(s0))
      BY <3>3 DEF Behind
    <3>5. /\ Behind(hal2om, OpenReqs(s0), CloseReqs(s0))'
          /\ getState(s0)' = "OPENING"
      BY <2>3, <3>4 DEF Behind, Where, OpenReqs, CloseReqs
    <3>6. QED BY <3>2, <3>5 DEF Phase, One
  <2>6. Checked'
    BY <2>1, <2>3, <1>1 DEF PInv, Checked, Resting, HalTypeOK
  <2>7. Lifecycle!LifeNext
    <3>1. life' = [life EXCEPT ![s0] = "OPENING"] /\ life[s0] = "CLOSED"
      BY <1>1, <2>1 DEF HalTypeOK, getState
    <3>2. Lifecycle!Open(s0)
      BY <3>1 DEF life, Lifecycle!Open, Lifecycle!Step
    <3>3. QED BY <3>2 DEF Lifecycle!LifeNext
  <2>8. QED BY <2>4, <2>5, <2>6, <2>7 DEF Phases
<1>4. ASSUME NEW s0 \in Sockets, ClosedCheck(s0)
      PROVE  Phases' /\ Checked' /\ UNCHANGED life
  <2>1. /\ getState(s0) = "OPENED" /\ binder' = [op |-> "close", id |-> s0]
        /\ UNCHANGED <<stateTable, rx, hal2om, om2hal>>
    BY <1>4 DEF ClosedCheck
  <2>2. \A s \in Sockets : Phase(s)' = Phase(s)
    BY <1>1, <2>1 DEF Phase, Opens, Closes, Told, Failures, Closures, Where, OpenReqs, CloseReqs,
         OpenOk, OpenFailed, Closed, Behind, Serving, Live, Removing, getState
  <2>3. Checked'
    BY <2>1 DEF PInv, Checked, getState
  <2>4. QED BY <2>1, <2>2, <2>3 DEF Phases, PInv
<1>5. CASE ClosedCommit
  <2>1. /\ binder.op = "close" /\ binder.id \in Sockets /\ CloseSocket(binder.id)
        /\ binder' = Resting /\ UNCHANGED <<rx, om2hal>>
    BY <1>1, <1>5 DEF ClosedCommit, HalTypeOK
  <2>2. getState(binder.id) # "OPENING"
    BY <2>1 DEF PInv, Checked
  <2>3. \A s \in Sockets : Removing(s)' = Removing(s)
    BY <2>1 DEF Removing
  <2>4. \A s \in Sockets :
           /\ Phase(s)'
           /\ getState(s)' = IF s = binder.id /\ getState(s) # "CLOSED" THEN "CLOSING"
                             ELSE getState(s)
    BY <1>1, <2>1, <2>2, <2>3, CloseSocketPhase
  <2>5. Checked'
    <3>1. rx.op = "close" => getState(rx.id) \in {"OPENED", "CLOSING"} /\ rx.id \in Sockets
      BY <1>1 DEF PInv, Checked, HalTypeOK
    <3>2. rx.op = "close" => getState(rx.id)' \in {"OPENED", "CLOSING"}
      BY <2>1, <2>4, <3>1
    <3>3. QED BY <2>1, <3>2 DEF Checked, Resting
  <2>6. Lifecycle!LifeNext \/ UNCHANGED life
    <3>1. updateState(binder.id, "CLOSING")
      BY <2>1 DEF CloseSocket
    <3>2. getState(binder.id) \in {"CLOSED", "OPENED", "CLOSING"}
      BY <1>1, <2>1, <2>2 DEF getState, HalTypeOK, HalStates
    <3>3. CASE getState(binder.id) = "OPENED"
      <4>1. life' = [life EXCEPT ![binder.id] = "CLOSING"] /\ life[binder.id] = "OPENED"
        BY <1>1, <2>1, <3>1, <3>3 DEF HalTypeOK, getState, updateState
      <4>2. QED BY <2>1, <4>1 DEF Lifecycle!LifeNext, Lifecycle!Close, Lifecycle!Step
    <3>4. CASE getState(binder.id) = "CLOSED"
      BY <3>1, <3>4 DEF updateState
    <3>5. CASE getState(binder.id) = "CLOSING"
      BY <1>1, <2>1, <3>1, <3>5 DEF HalTypeOK, getState, updateState
    <3>6. QED BY <3>2, <3>3, <3>4, <3>5
  <2>7. QED BY <1>2, <2>4, <2>5, <2>6 DEF Phases
<1>6. QED BY <1>1, <1>2, <1>3, <1>4, <1>5 DEF StackCall

(* A message about s0 that glink_rx_thread reads leaves the phases of the other *)
(* sockets alone, and one about a close those of all.                      *)
LEMMA OthersKept ==
  ASSUME PInv, NEW s0 \in Sockets, NEW s \in Sockets, UNCHANGED <<instances, hal2om>>,
         \/ om2hal # <<>> /\ om2hal' = Tail(om2hal) /\ Head(om2hal).id = s0
         \/ om2hal' = om2hal,
         s # s0 \/ (om2hal # <<>> /\ Head(om2hal).op = "CLOSE_IND"),
         getState(s)' = getState(s), Removing(s)' = Removing(s)
  PROVE  Phase(s)'
<1>1. /\ hal2om \in Seq(HalToOmMsgs) /\ om2hal \in Seq(OmToHalMsgs) /\ Phase(s)
  BY DEF PInv, IInv, TypeOK, ChannelsTypeOK
<1>2. /\ Opens(s) = {} => Where(hal2om', OpenReqs(s)) = {}
      /\ Closes(s) = {} => Where(hal2om', CloseReqs(s)) = {}
      /\ Behind(hal2om, OpenReqs(s), CloseReqs(s))
           => Behind(hal2om', OpenReqs(s), CloseReqs(s))
  BY <1>1, CallsKept
<1>3. /\ Same(Told(s), Where(om2hal', {OpenOk(s)}))
      /\ Same(Failures(s), Where(om2hal', {OpenFailed(s)}))
      /\ Same(Closures(s), Where(om2hal', {Closed(s)}))
  BY <1>1, AnswersKept DEF Other
<1>4. /\ Serving(s)' = Serving(s)
      /\ \A i \in Serving(s) : instances'[i].state = instances[i].state
  BY HalQuiet
<1>5. QED BY <1>1, <1>2, <1>3, <1>4, PhaseKept

(* A last answer that is read leaves the socket in the state in which its     *)
(* entry may be removed.                                                   *)
LEMMA LastAnswerRead ==
  ASSUME PInv, NEW s0 \in Sockets, UNCHANGED <<instances, hal2om, stateTable, binder>>,
         om2hal # <<>>, om2hal' = Tail(om2hal), rx = Resting,
         Head(om2hal) \in {OpenFailed(s0), Closed(s0)}, rx' = [op |-> "remove", id |-> s0]
  PROVE  Phases' /\ Checked'
<1>1. /\ om2hal \in Seq(OmToHalMsgs) /\ Phase(s0) /\ Head(om2hal).id = s0
      /\ \A s \in Sockets : getState(s)' = getState(s)
  BY DEF PInv, IInv, TypeOK, ChannelsTypeOK, OpenFailed, Closed, getState
<1>2. \A s \in Sockets \ {s0} : Phase(s)'
  <2> SUFFICES ASSUME NEW s \in Sockets, s # s0
               PROVE  Phase(s)'
    OBVIOUS
  <2>1. Removing(s)' = Removing(s)
    BY DEF Removing, Resting
  <2>2. QED BY <1>1, <2>1, OthersKept
<1>3. Failures(s0) # {} \/ Closures(s0) # {}
  BY SMTT(30), <1>1, WhereTail DEF Failures, Closures
<1>4. /\ getState(s0) \in {"OPENING", "CLOSING"} /\ Told(s0) = {}
      /\ Opens(s0) = {} /\ Serving(s0) = {}
      /\ Failures(s0) # {} => getState(s0) = "OPENING"
      /\ Closures(s0) # {} => getState(s0) = "CLOSING"
  BY <1>1, <1>3, OneAnswers DEF PInv, Phase
<1>5. \A M : Where(om2hal, M) = {} => Where(om2hal', M) = {}
  BY <1>1, WhereTailed
<1>6. /\ Failures(s0)' # {} => Failures(s0) # {}
      /\ Closures(s0)' # {} => Closures(s0) # {}
      /\ Told(s0)' = {} /\ Opens(s0)' = {} /\ Serving(s0)' = {}
  BY <1>4, <1>5 DEF Failures, Closures, Told, Opens, Serving, Live, Where, OpenReqs, OpenOk,
                    OpenFailed, Closed
<1>7. Phase(s0)'
  BY <1>1, <1>4, <1>6 DEF Phase, One
<1>8. Checked'
  BY <1>1 DEF PInv, Checked, getState
<1>9. QED BY <1>2, <1>7, <1>8 DEF Phases

(* glink_rx_thread keeps the phases; the answers it reads and the entry it     *)
(* removes move the socket on along its cycle.                             *)
LEMMA RxPhases ==
  ASSUME PInv, HalStep(RxThread)
  PROVE  Phases' /\ Rests' /\ Checked' /\ [Lifecycle!LifeNext]_([s \in Sockets |-> stateTable[s].state])
<1> DEFINE life == [s \in Sockets |-> stateTable[s].state]
<1>1. /\ UNCHANGED instances
      /\ hal2om \in Seq(HalToOmMsgs) /\ om2hal \in Seq(OmToHalMsgs) /\ HalTypeOK
      /\ RxThread
  BY DEF HalStep, PInv, IInv, TypeOK, ChannelsTypeOK
<1>2. Rests'
  BY <1>1 DEF PInv, Rests
<1>3. CASE RxOpenCb
  <2> DEFINE m == Head(om2hal)
  <2>1. /\ om2hal # <<>> /\ m.op = "OPEN_RSP" /\ om2hal' = Tail(om2hal) /\ rx = Resting
        /\ UNCHANGED <<binder, hal2om>>
        /\ m \in OmToHalMsgs /\ m.id \in Sockets
    BY <1>1, <1>3, QueueTypes, MessageFields DEF RxOpenCb, Next1
  <2>2. CASE m.status = "SUCCESS"
    <3>1. updateState(m.id, "OPENED") /\ UNCHANGED rx
      BY <1>3, <2>2 DEF RxOpenCb
    <3>2. m = OpenOk(m.id)
      BY <2>1, <2>2 DEF OmToHalMsgs, OpenOk
    <3>3. Told(m.id) # {} /\ (One(Told(m.id)) => Where(om2hal', {OpenOk(m.id)}) = {})
      BY <1>1, <2>1, <3>2, WhereTail DEF Told
    <3>4. PICK s0 \in Sockets : m.id = s0
      BY <2>1
    <3>5. /\ Told(s0) # {} /\ Told(s0)' = {}
      <4>1. One(Told(s0))
        BY DEF PInv, Phase
      <4>2. QED BY <3>3, <3>4, <4>1 DEF Told, Where, OpenOk
    <3> HIDE DEF m
    <3>6. /\ getState(s0) = "OPENING" /\ Closes(s0) = {} /\ Opens(s0) = {}
          /\ Failures(s0) = {} /\ Closures(s0) = {} /\ Removing(s0) = {}
          /\ \E i \in Slots : /\ Serving(s0) = {i}
                              /\ instances[i].state = "OffloadToMicroappSuccess"
      BY <3>4, <3>5, ToldOpening
    <3>7. \A s \in Sockets : getState(s)' = IF s = s0 THEN "OPENED" ELSE getState(s)
      BY <1>1, <3>1, <3>4, <3>6 DEF getState, HalTypeOK, updateState
    <3>8. \A s \in Sockets \ {s0} : Phase(s)'
      <4> SUFFICES ASSUME NEW s \in Sockets, s # s0
                   PROVE  Phase(s)'
        OBVIOUS
      <4>1. getState(s)' = getState(s) /\ Removing(s)' = Removing(s)
        BY <3>1, <3>7 DEF Removing
      <4>2. QED BY <1>1, <2>1, <3>4, <4>1, OthersKept DEF m
    <3>9. Phase(s0)'
      <4>1. \A M : Where(om2hal, M) = {} => Where(om2hal', M) = {}
        BY <1>1, <2>1, WhereTailed
      <4>2. /\ Closes(s0)' = {} /\ Opens(s0)' = {} /\ Failures(s0)' = {} /\ Closures(s0)' = {}
            /\ Removing(s0)' = {} /\ Serving(s0)' = Serving(s0)
        BY <1>1, <2>1, <3>1, <3>6, <4>1
           DEF Closes, Opens, Failures, Closures, Where, Removing, OpenReqs, CloseReqs, OpenFailed,
               Closed, Serving, Live
      <4>3. getState(s0)' = "OPENED"
        BY <3>4, <3>7
      <4>4. \A i \in Serving(s0)' : instances'[i].state = "OffloadToMicroappSuccess"
        BY <1>1, <3>6, <4>2
      <4>5. QED BY <3>5, <4>2, <4>3, <4>4 DEF Phase, One, Early
    <3>10. Checked'
      <4>1. /\ rx.op = "close" => getState(rx.id) \in {"OPENED", "CLOSING"} /\ rx.id \in Sockets
            /\ binder.op = "close" => getState(binder.id) # "OPENING" /\ binder.id \in Sockets
        BY <1>1 DEF PInv, Checked, HalTypeOK
      <4>2. /\ rx.op = "close" => getState(rx.id)' \in {"OPENED", "CLOSING"}
            /\ binder.op = "close" => getState(binder.id)' # "OPENING"
        BY <2>1, <3>1, <3>7, <4>1
      <4>3. QED BY <2>1, <3>1, <4>2 DEF Checked
    <3>11. Lifecycle!LifeNext
      <4>1. life' = [life EXCEPT ![s0] = "OPENED"] /\ life[s0] = "OPENING"
        BY <1>1, <3>1, <3>4, <3>6 DEF HalTypeOK, getState, updateState
      <4>2. QED BY <4>1 DEF Lifecycle!LifeNext, Lifecycle!OpenedComplete, Lifecycle!Step
    <3>12. QED BY <1>2, <3>8, <3>9, <3>10, <3>11 DEF Phases
  <2>3. CASE m.status # "SUCCESS"
    <3>1. rx' = [op |-> "remove", id |-> m.id] /\ UNCHANGED stateTable
      BY <1>3, <2>3 DEF RxOpenCb
    <3>2. m = OpenFailed(m.id)
      BY <2>1, <2>3 DEF OmToHalMsgs, OpenFailed, Results
    <3>3. Phases' /\ Checked'
      BY <1>1, <2>1, <3>1, <3>2, LastAnswerRead
    <3>4. QED BY <1>2, <3>1, <3>3
  <2>4. QED BY <2>2, <2>3
<1>4. CASE RxCloseCb
  <2> DEFINE m == Head(om2hal)
  <2>1. /\ om2hal # <<>> /\ m.op = "CLOSE_RSP" /\ om2hal' = Tail(om2hal) /\ rx = Resting
        /\ UNCHANGED <<binder, hal2om, stateTable>> /\ rx' = [op |-> "remove", id |-> m.id]
        /\ m \in OmToHalMsgs /\ m.id \in Sockets
    BY <1>1, <1>4, QueueTypes, MessageFields DEF RxCloseCb, Next1
  <2>2. m = Closed(m.id)
    BY <2>1 DEF OmToHalMsgs, Closed
  <2>3. Phases' /\ Checked'
    BY <1>1, <2>1, <2>2, LastAnswerRead
  <2>4. QED BY <1>2, <2>1, <2>3
<1>5. CASE RxCloseInd
  <2> DEFINE m == Head(om2hal)
  <2>1. /\ om2hal # <<>> /\ m.op = "CLOSE_IND" /\ om2hal' = Tail(om2hal) /\ rx = Resting
        /\ UNCHANGED <<binder, hal2om, stateTable>>
        /\ m.id \in Sockets
        /\ rx' = IF getState(m.id) = "OPENED" THEN [op |-> "close", id |-> m.id] ELSE Resting
    BY <1>1, <1>5, QueueTypes, MessageFields DEF RxCloseInd, Next1
  <2>2. \A s \in Sockets : Phase(s)'
    <3> SUFFICES ASSUME NEW s \in Sockets
                 PROVE  Phase(s)'
      OBVIOUS
    <3>1. getState(s)' = getState(s) /\ Removing(s)' = Removing(s)
      BY <2>1 DEF getState, Removing, Resting
    <3>2. QED BY <1>1, <2>1, <3>1, OthersKept
  <2>3. Checked'
    BY <2>1 DEF PInv, Checked, getState, Resting
  <2>4. QED BY <1>2, <2>1, <2>2, <2>3 DEF Phases
<1>6. CASE RxClosedCommit
  <2>1. /\ rx.op = "close" /\ rx.id \in Sockets /\ CloseSocket(rx.id)
        /\ rx' = Resting /\ UNCHANGED <<binder, om2hal>>
    BY <1>1, <1>6 DEF RxClosedCommit, HalTypeOK
  <2>2. getState(rx.id) \in {"OPENED", "CLOSING"}
    BY <2>1 DEF PInv, Checked
  <2>3. \A s \in Sockets : Removing(s)' = Removing(s)
    BY <2>1 DEF Removing, Resting
  <2>4. \A s \in Sockets :
           /\ Phase(s)'
           /\ getState(s)' = IF s = rx.id /\ getState(s) # "CLOSED" THEN "CLOSING"
                             ELSE getState(s)
    BY <1>1, <2>1, <2>2, <2>3, CloseSocketPhase
  <2>5. Checked'
    <3>1. binder.op = "close" => getState(binder.id) # "OPENING" /\ binder.id \in Sockets
      BY <1>1 DEF PInv, Checked, HalTypeOK
    <3>2. binder.op = "close" => getState(binder.id)' # "OPENING"
      BY <2>1, <2>4, <3>1
    <3>3. QED BY <2>1, <3>2 DEF Checked, Resting
  <2>6. Lifecycle!LifeNext \/ UNCHANGED life
    <3>1. updateState(rx.id, "CLOSING")
      BY <2>1 DEF CloseSocket
    <3>2. CASE getState(rx.id) = "OPENED"
      <4>1. life' = [life EXCEPT ![rx.id] = "CLOSING"] /\ life[rx.id] = "OPENED"
        BY <1>1, <2>1, <3>1, <3>2 DEF HalTypeOK, getState, updateState
      <4>2. QED BY <2>1, <4>1 DEF Lifecycle!LifeNext, Lifecycle!Close, Lifecycle!Step
    <3>3. CASE getState(rx.id) = "CLOSING"
      BY <1>1, <2>1, <3>1, <3>3 DEF HalTypeOK, getState, updateState
    <3>4. QED BY <2>2, <3>2, <3>3
  <2>7. QED BY <1>2, <2>4, <2>5, <2>6 DEF Phases
<1>7. CASE removeEntry
  <2>0. PICK s0 \in Sockets : rx.id = s0
    BY <1>1, <1>7 DEF removeEntry, HalTypeOK
  <2>1. /\ rx.op = "remove" /\ rx.id = s0 /\ rx' = Resting
        /\ stateTable' = [stateTable EXCEPT ![s0] = NoEntry]
        /\ UNCHANGED <<binder, hal2om, om2hal>>
    BY <1>7, <2>0 DEF removeEntry
  <2>2. Removing(s0) # {}
    BY <2>1, RxTypes DEF PInv, IInv
  <2>3. /\ getState(s0) \in {"OPENING", "CLOSING"} /\ Told(s0) = {}
        /\ Opens(s0) = {} /\ Serving(s0) = {} /\ Failures(s0) = {} /\ Closures(s0) = {}
    BY <2>1, <2>2, OneAnswers DEF PInv, Phase
  <2>4. \A s \in Sockets : getState(s)' = IF s = s0 THEN "CLOSED" ELSE getState(s)
    BY <1>1, <2>1 DEF getState, HalTypeOK, NoEntry
  <2>5. \A s \in Sockets \ {s0} : Phase(s)'
    <3> SUFFICES ASSUME NEW s \in Sockets, s # s0
                 PROVE  Phase(s)'
      OBVIOUS
    <3>1. getState(s)' = getState(s)
      BY <2>4
    <3>2. Removing(s)' = Removing(s)
      BY <2>1 DEF Removing, Resting
    <3>3. QED BY <1>1, <2>1, <3>1, <3>2, OthersKept
  <2>6. Phase(s0)'
    <3>1. /\ Told(s0)' = {} /\ Opens(s0)' = {} /\ Serving(s0)' = {} /\ Failures(s0)' = {}
          /\ Closures(s0)' = {} /\ Removing(s0)' = {}
      <4>1. Removing(s0)' = {}
        BY <2>1 DEF Removing, Resting
      <4>2. QED BY <1>1, <2>1, <2>3, <4>1
         DEF Told, Opens, Failures, Closures, Where, OpenReqs, OpenOk, OpenFailed,
             Closed, Serving, Live
    <3>2. getState(s0)' = "CLOSED"
      BY <2>1, <2>4
    <3>3. QED BY <3>1, <3>2 DEF Phase, One
  <2>7. Checked'
    <3>1. binder.op = "close" => getState(binder.id) # "OPENING" /\ binder.id \in Sockets
      BY <1>1 DEF PInv, Checked, HalTypeOK
    <3>2. binder.op = "close" => getState(binder.id)' # "OPENING"
      BY <2>1, <2>4, <3>1
    <3>3. QED BY <2>1, <3>2 DEF Checked, Resting
  <2>8. Lifecycle!LifeNext
    <3>1. life' = [life EXCEPT ![s0] = "CLOSED"] /\ life[s0] \in {"OPENING", "CLOSING"}
      BY <1>1, <2>1, <2>3 DEF HalTypeOK, getState, NoEntry
    <3>2. QED BY <2>1, <3>1
             DEF Lifecycle!LifeNext, Lifecycle!OpenedComplete, Lifecycle!CloseComplete, Lifecycle!Step
  <2>9. QED BY <1>2, <2>5, <2>6, <2>7, <2>8 DEF Phases
<1>8. QED BY <1>1, <1>3, <1>4, <1>5, <1>6, <1>7 DEF RxThread

-----------------------------------------------------------------------------
(* A move of an instance starts from a state in which it works for a socket. *)
LEMMA ExpectedIsLive ==
  \A state, evt : <<state, evt>> \in Expected =>
    state \in Early \cup {"OffloadToMicroappSuccess", "UnOffloadReqToMicrostack"}
BY DEF Expected, Early

(* An event keeps the phases, when a close that is acted on is still counted:  *)
(* each move takes the socket of its instance from one line of Phase to     *)
(* another.                                                                *)
LEMMA EventPhases ==
  ASSUME PInv, NEW i \in Slots, NEW evt \in Events, NEW c \in ConnIds \cup {InvalidConnId},
         ProcessEvent(i, evt, c), UNCHANGED halVars,
         hal2om' = hal2om \/ (hal2om # <<>> /\ hal2om' = Tail(hal2om)),
         evt = "UNOFFLOAD_REQ" /\ i \in Live => Closes(instances[i].id) # {}
  PROVE  Phases' /\ Rests'
<1>1. /\ hal2om \in Seq(HalToOmMsgs) /\ om2hal \in Seq(OmToHalMsgs) /\ InstancesTypeOK
      /\ Rests /\ LiveIds
  BY DEF PInv, IInv, TypeOK, ChannelsTypeOK
<1>2. /\ \A j \in Slots \ {i} : instances'[j] = instances[j]
      /\ \A j \in Slots : instances'[j].id = instances[j].id
      /\ IF <<instances[i].state, evt>> \in Expected THEN Moves(i, evt) ELSE Ignores(i)
      /\ Rests'
  BY <1>1, EventMoves
<1>3. \A s \in Sockets :
        /\ Opens(s) = {} => Where(hal2om', OpenReqs(s)) = {}
        /\ Closes(s) = {} => Where(hal2om', CloseReqs(s)) = {}
        /\ Behind(hal2om, OpenReqs(s), CloseReqs(s))
             => Behind(hal2om', OpenReqs(s), CloseReqs(s))
        /\ getState(s)' = getState(s) /\ Removing(s)' = Removing(s) /\ Phase(s)
  BY <1>1, CallsKept DEF halVars, getState, Removing, PInv
<1>4. ASSUME NEW s \in Sockets, Serving(s)' = Serving(s),
             \A j \in Serving(s) : instances'[j].state = instances[j].state,
             \/ om2hal' = om2hal
             \/ \E m \in OmToHalMsgs : Other(m, s) /\ om2hal' = Append(om2hal, m)
      PROVE  Phase(s)'
  <2>1. /\ Same(Told(s), Where(om2hal', {OpenOk(s)}))
        /\ Same(Failures(s), Where(om2hal', {OpenFailed(s)}))
        /\ Same(Closures(s), Where(om2hal', {Closed(s)}))
    BY <1>1, <1>4, AnswersKept
  <2>2. QED BY <1>3, <1>4, <2>1, PhaseKept
<1>5. CASE <<instances[i].state, evt>> \notin Expected
  <2>1. Ignores(i)
    BY <1>2, <1>5
  <2>2. \A j \in Slots : instances'[j].state = instances[j].state
    BY <1>2, <2>1 DEF Ignores
  <2>3. \A s \in Sockets : Phase(s)'
    BY <1>2, <1>4, <2>1, <2>2 DEF Ignores, Silent, Serving, Live
  <2>4. QED BY <1>2, <2>3 DEF Phases
<1>6. CASE <<instances[i].state, evt>> \in Expected
  <2>1. /\ Moves(i, evt) /\ i \in Live
        /\ instances[i].state \in Early \cup {"OffloadToMicroappSuccess", "UnOffloadReqToMicrostack"}
    BY <1>2, <1>6, ExpectedIsLive DEF Live, Early
  <2>2. PICK s0 \in Sockets : instances[i].id = s0
    BY <1>1, <2>1, LiveIsLiveStates DEF LiveIds
  <2>3. Serving(s0) = {i}
    <3>1. i \in Serving(s0)
      BY <2>1, <2>2 DEF Serving
    <3>2. QED BY <3>1, OneAnswers DEF PInv, One
  <2>4. /\ OpenOk(s0) \in OmToHalMsgs /\ OpenFailed(s0) \in OmToHalMsgs /\ Closed(s0) \in OmToHalMsgs
        /\ \/ om2hal' = om2hal
           \/ \E m \in {OpenOk(s0), OpenFailed(s0), Closed(s0)} : om2hal' = Append(om2hal, m)
    <3>1. /\ OpenOk(s0) \in OmToHalMsgs /\ OpenFailed(s0) \in OmToHalMsgs
          /\ Closed(s0) \in OmToHalMsgs
      BY DEF OpenOk, OpenFailed, Closed, OmToHalMsgs, Results
    <3>2. QED BY <2>1, <2>2, <3>1 DEF Moves, AsksMicroapp, Refuses, Reports, TakesBack, Unoffloads,
                UnoffloadsEarly, GivesUp, Finishes
  <2>5. \A s \in Sockets \ {s0} : Phase(s)'
    <3> SUFFICES ASSUME NEW s \in Sockets, s # s0
                 PROVE  Phase(s)'
      OBVIOUS
    <3>1. \A j \in Serving(s) : instances'[j].state = instances[j].state
      BY <1>2, <2>2 DEF Serving, Live
    <3>2. Serving(s)' = Serving(s)
      BY <1>2, <2>2 DEF Serving, Live
    <3>3. \A m \in {OpenOk(s0), OpenFailed(s0), Closed(s0)} : Other(m, s)
      BY DEF OpenOk, OpenFailed, Closed, Other
    <3>4. QED BY <1>4, <2>4, <3>1, <3>2, <3>3
  <2>6. /\ Opens(s0) = {} /\ Failures(s0) = {} /\ Closures(s0) = {} /\ Removing(s0) = {}
        /\ getState(s0) # "CLOSED"
    BY <2>3, OneAnswers DEF PInv
  <2>7. /\ Opens(s0)' = {} /\ Removing(s0)' = {} /\ getState(s0)' = getState(s0)
        /\ Closes(s0) = {} => Closes(s0)' = {}
    BY <1>3, <2>6 DEF Opens, Closes, Where, OpenReqs, CloseReqs
  <2>8. /\ om2hal' = om2hal =>
             Failures(s0)' = {} /\ Closures(s0)' = {} /\ Told(s0)' = Told(s0)
        /\ om2hal' = Append(om2hal, OpenOk(s0)) /\ Told(s0) = {} =>
             Failures(s0)' = {} /\ Closures(s0)' = {} /\ Told(s0)' # {} /\ One(Told(s0)')
        /\ om2hal' = Append(om2hal, OpenFailed(s0)) =>
             Closures(s0)' = {} /\ (Told(s0) = {} => Told(s0)' = {})
        /\ om2hal' = Append(om2hal, Closed(s0)) =>
             Failures(s0)' = {} /\ (Told(s0) = {} => Told(s0)' = {})
    <3>1. /\ Told(s0)' = Where(om2hal', {OpenOk(s0)})
          /\ Failures(s0)' = Where(om2hal', {OpenFailed(s0)})
          /\ Closures(s0)' = Where(om2hal', {Closed(s0)})
      BY DEF Told, Failures, Closures, Where, OpenOk, OpenFailed, Closed
    <3>2. /\ OpenOk(s0) # OpenFailed(s0) /\ OpenOk(s0) # Closed(s0) /\ OpenFailed(s0) # Closed(s0)
      BY DEF OpenOk, OpenFailed, Closed
    <3>3. ASSUME NEW m \in OmToHalMsgs, om2hal' = Append(om2hal, m), NEW M, m \notin M
          PROVE  Where(om2hal', M) = Where(om2hal, M)
      BY <1>1, <3>3, WhereAppended
    <3>4. om2hal' = Append(om2hal, OpenOk(s0)) /\ Told(s0) = {} =>
             Where(om2hal', {OpenOk(s0)}) # {} /\ One(Where(om2hal', {OpenOk(s0)}))
      BY <1>1, <2>4, WhereAppend DEF Told
    <3>5. QED BY <2>4, <2>6, <3>1, <3>2, <3>3, <3>4 DEF Told, Failures, Closures
  <2>9. /\ instances[i].state \in Early =>
             getState(s0) = "OPENING" /\ Told(s0) = {} /\ Closes(s0) = {}
        /\ instances[i].state = "UnOffloadReqToMicrostack" =>
             getState(s0) = "CLOSING" /\ Told(s0) = {}
        /\ instances[i].state = "OffloadToMicroappSuccess" /\ Closes(s0) # {} =>
             getState(s0) = "CLOSING" /\ Told(s0) = {}
    BY <1>3, <2>3 DEF Phase
  <2>10. /\ instances'[i].state = "Idle" => Serving(s0)' = {}
         /\ instances'[i].state # "Idle" => Serving(s0)' \subseteq {i}
    BY <1>2, <2>3 DEF Serving, Live
  <2>11. Phase(s0)'
    <3>1. ASSUME instances'[i].state \in Early, getState(s0) = "OPENING", Told(s0) = {},
                 Closes(s0) = {}, om2hal' = om2hal
          PROVE  Phase(s0)'
      BY <2>7, <2>8, <2>10, <3>1 DEF Phase, Early, One
    <3>2. CASE AsksMicroapp(i) \/ TakesBack(i)
      BY <2>9, <3>1, <3>2 DEF AsksMicroapp, TakesBack, Passes, Early
    <3>3. CASE Refuses(i) \/ GivesUp(i)
      <4>1. /\ om2hal' = Append(om2hal, OpenFailed(s0)) /\ instances'[i].state = "Idle"
            /\ instances[i].state \in Early
        BY <2>2, <3>3 DEF Refuses, GivesUp, Passes, Early
      <4>2. QED BY <2>7, <2>8, <2>9, <2>10, <4>1 DEF Phase, One
    <3>4. CASE Reports(i)
      <4>1. /\ om2hal' = Append(om2hal, OpenOk(s0)) /\ instances[i].state \in Early
            /\ instances'[i].state = "OffloadToMicroappSuccess"
        BY <2>2, <3>4 DEF Reports, Passes, Early
      <4>2. QED BY <2>7, <2>8, <2>9, <2>10, <4>1 DEF Phase, Early
    <3>5. CASE evt = "UNOFFLOAD_REQ" /\ UnoffloadsEarly(i)
      <4>1. Closes(s0) # {} /\ instances[i].state \in Early
        BY <2>1, <2>2, <3>5 DEF UnoffloadsEarly, Early
      <4>2. QED BY <2>9, <4>1
    <3>6. CASE evt = "UNOFFLOAD_REQ" /\ Unoffloads(i)
      <4>1. /\ Closes(s0) # {} /\ instances[i].state = "OffloadToMicroappSuccess"
            /\ instances'[i].state = "UnOffloadReqToMicrostack" /\ om2hal' = om2hal
        BY <2>1, <2>2, <3>6 DEF Unoffloads, Passes
      <4>2. QED BY <2>7, <2>8, <2>9, <2>10, <4>1 DEF Phase, One, Early
    <3>7. CASE Finishes(i)
      <4>1. /\ om2hal' = Append(om2hal, Closed(s0)) /\ instances'[i].state = "Idle"
            /\ instances[i].state = "UnOffloadReqToMicrostack"
        BY <2>2, <3>7 DEF Finishes, Passes
      <4>2. QED BY <2>7, <2>8, <2>9, <2>10, <4>1 DEF Phase, One
    <3>8. QED BY <2>1, <3>2, <3>3, <3>4, <3>5, <3>6, <3>7 DEF Moves
  <2>12. QED BY <1>2, <2>5, <2>11 DEF Phases
<1>7. QED BY <1>5, <1>6

(* The slot a new request gets is an idle one.                              *)
LEMMA IdleSlot ==
  ASSUME InstancesTypeOK, find_idle_offload_instance # 0
  PROVE  /\ find_idle_offload_instance \in Slots
         /\ instances[find_idle_offload_instance].state = "Idle"
<1> DEFINE Idles == {j \in Slots : instances[j].state = "Idle"}
<1>1. Idles \in SUBSET Slots /\ find_idle_offload_instance = First(Idles)
  BY DEF find_idle_offload_instance
<1>2. find_idle_offload_instance \in Idles
  <2> HIDE DEF Idles
  <2>1. QED BY <1>1, FirstIsLeast
<1>3. QED BY <1>2

(* An open request that is taken, or refused: no close of the socket stands   *)
(* behind it, for the HAL sends none before it has told of the open.        *)
LEMMA OpenPhases ==
  ASSUME PInv, handle_open_socket, UNCHANGED halVars
  PROVE  Phases' /\ Rests'
<1>1. /\ hal2om \in Seq(HalToOmMsgs) /\ om2hal \in Seq(OmToHalMsgs) /\ InstancesTypeOK
      /\ Rests /\ LiveIds /\ hal2om # <<>> /\ hal2om' = Tail(hal2om)
      /\ Head(hal2om).op = "OPEN_SOCKET"
  BY DEF PInv, IInv, TypeOK, ChannelsTypeOK, handle_open_socket, Next1
<1>2. PICK s0 \in Sockets : Head(hal2om) \in OpenReqs(s0) /\ Head(hal2om).id = s0
  BY <1>1, QueueTypes, MessageFields DEF OpenReqs
<1>3. \A s \in Sockets :
        /\ Opens(s) = {} => Where(hal2om', OpenReqs(s)) = {}
        /\ Closes(s) = {} => Where(hal2om', CloseReqs(s)) = {}
        /\ Behind(hal2om, OpenReqs(s), CloseReqs(s))
             => Behind(hal2om', OpenReqs(s), CloseReqs(s))
        /\ getState(s)' = getState(s) /\ Removing(s)' = Removing(s) /\ Phase(s)
  BY <1>1, CallsKept DEF halVars, getState, Removing, PInv
<1>4. ASSUME NEW s \in Sockets, Serving(s)' = Serving(s),
             \A j \in Serving(s) : instances'[j].state = instances[j].state,
             \/ om2hal' = om2hal
             \/ \E m \in OmToHalMsgs : Other(m, s) /\ om2hal' = Append(om2hal, m)
      PROVE  Phase(s)'
  <2>1. /\ Same(Told(s), Where(om2hal', {OpenOk(s)}))
        /\ Same(Failures(s), Where(om2hal', {OpenFailed(s)}))
        /\ Same(Closures(s), Where(om2hal', {Closed(s)}))
    BY <1>1, <1>4, AnswersKept
  <2>2. QED BY <1>3, <1>4, <2>1, PhaseKept
<1>5. /\ getState(s0) = "OPENING" /\ Told(s0) = {} /\ Closes(s0) = {} /\ Serving(s0) = {}
      /\ Failures(s0) = {} /\ Closures(s0) = {} /\ Removing(s0) = {}
      /\ Opens(s0)' = {} /\ Closes(s0)' = {} /\ Removing(s0)' = {} /\ getState(s0)' = "OPENING"
  <2>1. Opens(s0) # {} /\ (One(Opens(s0)) => Where(hal2om', OpenReqs(s0)) = {})
    BY <1>1, <1>2, WhereTail DEF Opens
  <2>2. /\ getState(s0) = "OPENING" /\ Told(s0) = {} /\ Behind(hal2om, OpenReqs(s0), CloseReqs(s0))
    BY <1>3, <2>1 DEF Phase
  <2>3. Closes(s0) = {}
    BY <1>1, <1>2, <2>2, BehindTailed DEF Closes
  <2>4. Serving(s0) = {} /\ Failures(s0) = {} /\ Closures(s0) = {} /\ Removing(s0) = {}
    BY <2>1, OneAnswers DEF PInv
  <2>5. One(Opens(s0))
    BY DEF PInv, IInv, Books, Ledger, Opens
  <2>6. QED BY <1>3, <2>1, <2>2, <2>3, <2>4, <2>5 DEF Opens, Closes, Where, OpenReqs, CloseReqs
<1>6. CASE find_idle_offload_instance = 0
  <2>1. om2hal' = Append(om2hal, OpenFailed(s0)) /\ instances' = instances
    BY <1>2, <1>6 DEF handle_open_socket, OpenFailed
  <2>2. OpenFailed(s0) \in OmToHalMsgs
    BY DEF OpenFailed, OmToHalMsgs, Results
  <2>3. \A s \in Sockets \ {s0} : Phase(s)'
    <3>1. \A s \in Sockets \ {s0} : Other(OpenFailed(s0), s)
      BY DEF OpenFailed, Other
    <3>2. QED BY <1>4, <2>1, <2>2, <3>1 DEF Serving, Live
  <2>4. Phase(s0)'
    <3>1. Told(s0)' = {} /\ Closures(s0)' = {}
      <4>1. OpenFailed(s0) \notin {OpenOk(s0)} /\ OpenFailed(s0) \notin {Closed(s0)}
        BY DEF OpenFailed, OpenOk, Closed
      <4>2. /\ Where(om2hal', {OpenOk(s0)}) = Told(s0) /\ Where(om2hal', {Closed(s0)}) = Closures(s0)
        BY <1>1, <2>1, <2>2, <4>1, WhereAppended DEF Told, Closures
      <4>3. QED BY <1>5, <4>2 DEF Told, Closures, Where, OpenOk, Closed
    <3>2. Serving(s0)' = {}
      BY <1>5, <2>1 DEF Serving, Live
    <3>3. QED BY <1>5, <3>1, <3>2 DEF Phase, One
  <2>5. QED BY <1>1, <2>1, <2>3, <2>4 DEF Phases, Rests
<1>7. CASE find_idle_offload_instance # 0
  <2>1. PICK i \in Slots : i = find_idle_offload_instance /\ instances[i].state = "Idle"
    BY <1>1, <1>7, IdleSlot
  <2>2. /\ om2hal' = om2hal
        /\ instances' = [instances EXCEPT ![i] =
                           [@ EXCEPT !.state = "OffloadReq", !.id = s0,
                                     !.type = Head(hal2om).type, !.ep = Head(hal2om).ep]]
    BY <1>2, <1>7, <2>1, FreeRows DEF handle_open_socket
  <2>3. /\ instances'[i].state = "OffloadReq" /\ instances'[i].id = s0
        /\ \A j \in Slots \ {i} : instances'[j] = instances[j]
    BY <1>1, <2>2 DEF InstancesTypeOK
  <2>4. ASSUME NEW s \in Sockets, s # s0
        PROVE  Phase(s)'
    <3>1. Serving(s)' = Serving(s)
      BY <2>1, <2>3, <2>4 DEF Serving, Live
    <3>2. \A j \in Serving(s) : instances'[j].state = instances[j].state
      BY <2>1, <2>3 DEF Serving, Live
    <3>3. QED BY <1>4, <2>2, <3>1, <3>2
  <2>5. Phase(s0)'
    <3>1. Serving(s0)' \subseteq {i}
      BY <1>5, <2>3 DEF Serving, Live
    <3>2. /\ Told(s0)' = {} /\ Closures(s0)' = {} /\ Failures(s0)' = {}
      BY <1>5, <2>2 DEF Told, Closures, Failures, Where, OpenOk, Closed, OpenFailed
    <3>3. QED BY <1>5, <2>3, <3>1, <3>2 DEF Phase, Early, One
  <2>6. Rests'
    BY <1>1, <2>3 DEF Rests, AtRest, Early
  <2>7. QED BY <2>4, <2>5, <2>6 DEF Phases
<1>8. QED BY <1>6, <1>7

(* Every handler of the offload manager keeps the phases. *)
LEMMA OmPhases ==
  ASSUME PInv,
         OmStep(FromHal) \/ OmStep(FromMicrostack) \/ OmStep(FromMicroapps) \/ OmStep(GattSessions)
  PROVE  Phases' /\ Rests' /\ Checked' /\ UNCHANGED stateTable
<1>1. /\ UNCHANGED halVars
      /\ FromHal \/ FromMicrostack \/ FromMicroapps \/ GattSessions
      /\ InstancesTypeOK /\ om2hal \in Seq(OmToHalMsgs) /\ hal2om \in Seq(HalToOmMsgs)
      /\ bmm2om \in Seq(BmmToOmMsgs) /\ awm2om \in Seq(AwmToOmMsgs) /\ Rests /\ LiveIds
  BY DEF OmStep, PInv, IInv, TypeOK, ChannelsTypeOK
<1>2. Checked' /\ UNCHANGED stateTable
  BY <1>1 DEF PInv, Checked, halVars, getState
<1>3. \A i \in Slots : instances[i].pseudo_id \in ConnIds \cup {InvalidConnId}
  BY <1>1 DEF InstancesTypeOK
<1>4. ASSUME UNCHANGED instances,
             hal2om' = hal2om \/ (hal2om # <<>> /\ hal2om' = Tail(hal2om)),
             \/ om2hal' = om2hal
             \/ \E m \in OmToHalMsgs : m.op = "CLOSE_IND" /\ om2hal' = Append(om2hal, m)
      PROVE  Phases' /\ Rests'
  <2>1. ASSUME NEW s \in Sockets
        PROVE  Phase(s)'
    <3>1. /\ Opens(s) = {} => Where(hal2om', OpenReqs(s)) = {}
          /\ Closes(s) = {} => Where(hal2om', CloseReqs(s)) = {}
          /\ Behind(hal2om, OpenReqs(s), CloseReqs(s))
               => Behind(hal2om', OpenReqs(s), CloseReqs(s))
      BY <1>1, <1>4, CallsKept
    <3>2. /\ Same(Told(s), Where(om2hal', {OpenOk(s)}))
          /\ Same(Failures(s), Where(om2hal', {OpenFailed(s)}))
          /\ Same(Closures(s), Where(om2hal', {Closed(s)}))
      BY <1>1, <1>4, AnswersKept DEF Other
    <3>3. getState(s)' = getState(s) /\ Removing(s)' = Removing(s) /\ Phase(s)
      BY <1>1 DEF halVars, getState, Removing, PInv
    <3>4. /\ Serving(s)' = Serving(s)
          /\ \A i \in Serving(s) : instances'[i].state = instances[i].state
      BY <1>4, HalQuiet
    <3>5. QED BY <3>1, <3>2, <3>3, <3>4, PhaseKept
  <2>2. QED BY <1>1, <1>4, <2>1 DEF Phases, Rests
<1>5. CASE handle_open_socket
  BY <1>1, <1>2, <1>5, OpenPhases
<1>6. CASE handle_close_socket
  <2>1. /\ hal2om # <<>> /\ Head(hal2om).op = "CLOSE_SOCKET" /\ hal2om' = Tail(hal2om)
        /\ Head(hal2om) \in HalToOmMsgs /\ Head(hal2om).id \in Sockets
    BY <1>1, <1>6, QueueTypes, MessageFields DEF handle_close_socket, Next1
  <2>2. CASE Drop
    BY <1>2, <1>4, <2>1, <2>2 DEF Drop
  <2>3. CASE \E i \in Slots : /\ i = find_by_socket_id(Head(hal2om).id)
                              /\ ProcessEvent(i, "UNOFFLOAD_REQ", instances[i].pseudo_id)
    <3>1. PICK i \in Slots : /\ i = find_by_socket_id(Head(hal2om).id)
                             /\ ProcessEvent(i, "UNOFFLOAD_REQ", instances[i].pseudo_id)
      BY <2>3
    <3>2. instances[i].id = Head(hal2om).id
      <4> DEFINE found == {j \in Slots : instances[j].id = Head(hal2om).id}
      <4>1. found \in SUBSET Slots /\ i = First(found) /\ 0 \notin Slots
        BY <3>1 DEF find_by_socket_id, Slots
      <4>2. i \in found
        <5> HIDE DEF found
        <5>1. QED BY <4>1, FirstIsLeast
      <4>3. QED BY <4>2
    <3>3. Closes(instances[i].id) # {}
      <4>1. Head(hal2om) \in CloseReqs(instances[i].id)
        BY <2>1, <3>2 DEF CloseReqs
      <4>2. QED BY <1>1, <2>1, <4>1, WhereTail DEF Closes
    <3>4. QED BY <1>1, <1>2, <1>3, <2>1, <3>1, <3>3, EventPhases DEF Events
  <2>4. QED BY <1>1, <1>6, <2>2, <2>3, LookUps DEF handle_close_socket
<1>7. CASE microstack_offload_cfm
  <2>1. /\ Head(bmm2om).context \in Slots /\ Head(bmm2om).connId \in ConnIds \cup {InvalidConnId}
        /\ UNCHANGED hal2om
    BY <1>1, <1>7, QueueTypes, MessageFields DEF microstack_offload_cfm, Next1
  <2>2. \E evt \in Events \ {"UNOFFLOAD_REQ"} :
           ProcessEvent(Head(bmm2om).context, evt, Head(bmm2om).connId)
    BY <1>7 DEF microstack_offload_cfm, Events
  <2>3. QED BY <1>1, <1>2, <2>1, <2>2, EventPhases
<1>8. CASE microstack_unoffload_cfm
  <2>1. \/ UNCHANGED <<om2hal, instances>>
        \/ \E i \in Slots :
              ProcessEvent(i, "UNOFFLOAD_FROM_MICROSTACK_SUCCESS", instances[i].pseudo_id)
    BY <1>1, <1>8, LookUps DEF microstack_unoffload_cfm, Drop
  <2>2. UNCHANGED hal2om
    BY <1>8 DEF microstack_unoffload_cfm
  <2>3. QED BY <1>1, <1>2, <1>3, <1>4, <2>1, <2>2, EventPhases DEF Events
<1>9. CASE uapp_open_socket_res
  <2>1. \/ UNCHANGED <<om2hal, instances>>
        \/ \E i \in Slots, evt \in Events \ {"UNOFFLOAD_REQ"} :
              ProcessEvent(i, evt, instances[i].pseudo_id)
    BY <1>1, <1>9, LookUps DEF uapp_open_socket_res, Drop, Events
  <2>2. UNCHANGED hal2om
    BY <1>9 DEF uapp_open_socket_res
  <2>3. QED BY <1>1, <1>2, <1>3, <1>4, <2>1, <2>2, EventPhases
<1>10. CASE uapp_socket_close_ind
  <2> DEFINE m == [op |-> "CLOSE_IND", id |-> Head(awm2om).id]
  <2>1. /\ om2hal' = Append(om2hal, m) /\ UNCHANGED <<instances, hal2om>>
        /\ Head(awm2om).id \in Sockets
    BY <1>1, <1>10, QueueTypes, MessageFields DEF uapp_socket_close_ind, Next1
  <2>2. m \in OmToHalMsgs /\ m.op = "CLOSE_IND"
    BY <2>1 DEF OmToHalMsgs
  <2> HIDE DEF m
  <2>3. QED BY <1>2, <1>4, <2>1, <2>2
<1>11. CASE GattSessions
  <2>1. UNCHANGED <<om2hal, hal2om>>
    BY <1>11 DEF GattSessions, gatt_offload, gatt_clear_offload_data, channels
  <2>2. PICK i \in Slots :
          /\ \A j \in Slots \ {i} : instances'[j] = instances[j]
          /\ {instances[i].state, instances'[i].state} = {"Idle", "Gatt"}
    <3>1. CASE gatt_offload
      <4>1. PICK i \in Slots : i = find_idle_offload_instance /\ instances[i].state = "Idle"
        BY <1>1, <3>1, IdleSlot DEF gatt_offload
      <4>2. instances' = [instances EXCEPT ![i] = [@ EXCEPT !.state = "Gatt", !.id = NoSocket]]
        BY <3>1, <4>1 DEF gatt_offload
      <4>3. QED BY <1>1, <4>1, <4>2 DEF InstancesTypeOK
    <3>2. ASSUME NEW i \in Slots, gatt_clear_offload_data(i)
          PROVE  /\ \A j \in Slots \ {i} : instances'[j] = instances[j]
                 /\ {instances[i].state, instances'[i].state} = {"Idle", "Gatt"}
      BY <1>1, <3>2 DEF gatt_clear_offload_data, InstancesTypeOK
    <3>3. QED BY <1>11, <3>1, <3>2 DEF GattSessions
  <2>3. Rests'
    BY <1>1, <2>2 DEF Rests, AtRest
  <2>4. i \notin Live /\ Live' = Live
    BY <2>2 DEF Live
  <2>5. ASSUME NEW s \in Sockets
        PROVE  Phase(s)'
    <3>1. /\ Serving(s)' = Serving(s)
          /\ \A j \in Serving(s) : instances'[j].state = instances[j].state
      BY <2>2, <2>4 DEF Serving, Live
    <3>2. /\ Opens(s) = {} => Where(hal2om', OpenReqs(s)) = {}
          /\ Closes(s) = {} => Where(hal2om', CloseReqs(s)) = {}
          /\ Behind(hal2om, OpenReqs(s), CloseReqs(s))
               => Behind(hal2om', OpenReqs(s), CloseReqs(s))
      BY <1>1, <2>1, CallsKept
    <3>3. /\ Same(Told(s), Where(om2hal', {OpenOk(s)}))
          /\ Same(Failures(s), Where(om2hal', {OpenFailed(s)}))
          /\ Same(Closures(s), Where(om2hal', {Closed(s)}))
      BY <1>1, <2>1, AnswersKept
    <3>4. getState(s)' = getState(s) /\ Removing(s)' = Removing(s) /\ Phase(s)
      BY <1>1 DEF halVars, getState, Removing, PInv
    <3>5. QED BY <3>1, <3>2, <3>3, <3>4, PhaseKept
  <2>6. QED BY <1>2, <2>3, <2>5 DEF Phases
<1>12. QED BY <1>1, <1>5, <1>6, <1>7, <1>8, <1>9, <1>10, <1>11
          DEF FromHal, FromMicrostack, FromMicroapps

-----------------------------------------------------------------------------
(* The parties behind the offload manager do not touch what a phase is about. *)
LEMMA OthersPhases ==
  ASSUME PInv, UNCHANGED <<halVars, instances, hal2om, om2hal>>
  PROVE  Phases' /\ Rests' /\ Checked' /\ UNCHANGED stateTable
<1>1. UNCHANGED <<stateTable, rx, binder>>
  BY DEF halVars
<1>2. \A s \in Sockets : Phase(s)' = Phase(s)
  BY <1>1 DEF Phase, Opens, Closes, Told, Failures, Closures, Where, OpenReqs, CloseReqs,
       OpenOk, OpenFailed, Closed, Behind, Serving, Live, Removing, getState
<1>3. Checked' /\ Rests'
  BY <1>1 DEF PInv, Checked, getState, Rests
<1>4. QED BY <1>1, <1>2, <1>3 DEF Phases, PInv

(* The phases hold at the start, when nothing is in any queue. *)
LEMMA PhasesInit == Init => PInv
<1> SUFFICES ASSUME Init
             PROVE  PInv
  OBVIOUS
<1>1. IInv
  BY InitInv
<1>2. Rests /\ Checked
  BY DEF Init, HalInit, InstancesInit, Rests, AtRest, Checked, Resting
<1>3. ASSUME NEW s \in Sockets
      PROVE  Phase(s)
  <2>1. /\ Opens(s) = {} /\ Told(s) = {} /\ Failures(s) = {} /\ Closures(s) = {}
    BY DEF Init, ChannelsInit, Opens, Told, Failures, Closures, Where
  <2>2. Serving(s) = {} /\ Removing(s) = {}
    BY DEF Init, HalInit, InstancesInit, Serving, Live, Removing, Resting
  <2>3. QED BY <2>1, <2>2 DEF Phase, One
<1>4. QED BY <1>1, <1>2, <1>3 DEF PInv

(* Every step keeps them, and moves one socket on along its cycle or none. *)
LEMMA PhasesNext ==
  PInv /\ [Next]_vars =>
    PInv' /\ [Lifecycle!LifeNext]_([s \in Sockets |-> stateTable[s].state])
<1> SUFFICES ASSUME PInv, [Next]_vars
             PROVE  PInv' /\ [Lifecycle!LifeNext]_([s \in Sockets |-> stateTable[s].state])
  OBVIOUS
<1>1. IInv' /\ IInv
  BY NextInv DEF PInv
<1>2. /\ Phases' /\ Rests' /\ Checked'
      /\ [Lifecycle!LifeNext]_([s \in Sockets |-> stateTable[s].state])
  <2>1. CASE HalStep(StackCall) \/ HalStep(ClosedCommit)
    BY <2>1, BinderPhases
  <2>2. CASE HalStep(RxThread)
    BY <2>2, RxPhases
  <2>3. CASE \/ OmStep(FromHal) \/ OmStep(FromMicrostack) \/ OmStep(FromMicroapps)
             \/ OmStep(GattSessions)
    BY <2>3, OmPhases
  <2>4. CASE BmmStep(Microstack)
    BY <1>1, <2>4, BmmTypes, OthersPhases DEF IInv
  <2>5. CASE \/ AwmStep(AppManager)
             \/ AwmStep(\E t \in Types, s \in Sockets : close_socket_qapi(t, s))
    BY <1>1, <2>5, AwmTypes, OthersPhases DEF IInv
  <2>6. CASE UNCHANGED vars
    BY <2>6, OthersPhases DEF vars, channels
  <2>7. QED BY <2>1, <2>2, <2>3, <2>4, <2>5, <2>6 DEF Next
<1>3. QED BY <1>1, <1>2 DEF PInv, Phases

(* What answers for a socket goes with the state of its entry, in every        *)
(* behaviour.                                                              *)
THEOREM PhasesAlways == Spec => []PInv
<1>1. QED BY PhasesInit, PhasesNext, PTL DEF Spec

(* Socket offload implements SocketLifecycle, safety part: no answer reaches a *)
(* socket that does not wait for it, for any number of sockets and slots,   *)
(* whatever else the tables are used for, and whichever of the HAL's two    *)
(* threads is interrupted between its check and its update.                 *)
THEOREM LifecycleKept == Spec => LifecycleSafety
<1>1. Init => Lifecycle!LifeInit
  BY DEF Init, HalInit, Lifecycle!LifeInit, NoEntry
<1>2. PInv /\ [Next]_vars => [Lifecycle!LifeNext]_([s \in Sockets |-> stateTable[s].state])
  BY PhasesNext
<1>3. QED BY <1>1, <1>2, PhasesAlways, PTL DEF Spec, LifecycleSafety, Lifecycle!LifeSafety
=============================================================================
