------------------------------ MODULE GattUapp -------------------------------
(***************************************************************************)
(* The GATT microapps on the AWM: the sessions each of them holds, and the  *)
(* reads it has asked for.                                                 *)
(***************************************************************************)
EXTENDS GattChannels

CONSTANTS
  UappRoom,        \* UappRoom[e]: GATT_OFFLOAD_UAPP_MAX_SESSIONS
  UappMaxChars     \* GATT_OFFLOAD_UAPP_SESSIONS_MAX_CHARS

ASSUME UappAssumption ==
  UappRoom \in [Endpoints -> Nat \ {0}] /\ UappMaxChars \in Nat

VARIABLES
  activated,   \* the endpoints whose qapi_gatt_app_activate() has been called
  table,       \* table[e]: gatt_uapps[].sessionId
  asked        \* asked[s]: the reads of s that the app waits for

uappVars == <<activated, table, asked>>

Places(e) == 1 .. UappRoom[e]

UappTypeOK ==
  /\ activated \subseteq Endpoints
  /\ \A e \in Endpoints : table[e] \in [Places(e) -> Sessions \cup {NoSession}]
  /\ \A s \in Sessions : asked[s] \in 0 .. reg[s].reads

UappInit ==
  /\ activated = {}
  /\ table = [e \in Endpoints |-> [k \in Places(e) |-> NoSession]]
  /\ asked = [s \in Sessions |-> 0]

-----------------------------------------------------------------------------
Free(e) == {k \in Places(e) : table[e][k] = NoSession}
Holds(e, s) == \E k \in Places(e) : table[e][k] = s
Held(s) == \E e \in Endpoints : Holds(e, s)

(* Only the first place with the session is cleared. *)
uapp_clear_session(e, s) ==
  LET with == {k \in Places(e) : table[e][k] = s}
  IN table' = [table EXCEPT ![e] = [k \in Places(e) |->
                  IF k \in with /\ \A l \in with : k <= l THEN NoSession ELSE @[k]]]

Say(m) == awm2om' = Append(awm2om, m)

(* The app is told that a session has ended, and waits for it no more. *)
StopsAsking(s) == asked' = [asked EXCEPT ![s] = 0]

(* An app for which no session is meant plays no part. *)
qapi_gatt_app_activate(e) ==
  /\ e \notin activated /\ \E s \in Sessions : reg[s].ep = e
  /\ activated' = activated \cup {e}
  /\ Say([op |-> "APP_REG_REQ", ep |-> e])
  /\ UNCHANGED <<table, asked, om2awm>>

(* gattRegisterServiceReq(): the session gets the first free place, and is   *)
(* refused without one.  A list too long for its array is a decoding error, *)
(* and no answer is sent.                                                  *)
Decoded(s) == reg[s].chars <= UappMaxChars

RegisterServiceReq ==
  /\ Next1(om2awm, "REG_REQ")
  /\ om2awm' = Tail(om2awm)
  /\ LET s == Head(om2awm).id
         free == Free(Head(om2awm).ep)
     IN /\ table' = [table EXCEPT ![Head(om2awm).ep] =
                       [k \in DOMAIN @ |->
                          IF Decoded(s) /\ k \in free /\ \A l \in free : k <= l THEN s ELSE @[k]]]
        /\ awm2om' = IF Decoded(s)
                     THEN Append(awm2om, [op |-> "REGISTERED_RESP", id |-> s, ok |-> free # {}])
                     ELSE awm2om
  /\ UNCHANGED <<activated, asked>>

UnregisterServiceReq ==
  /\ Next1(om2awm, "UNREG_REQ")
  /\ om2awm' = Tail(om2awm)
  /\ LET m == Head(om2awm)
     IN /\ uapp_clear_session(m.ep, m.id)
        /\ StopsAsking(m.id)
        /\ Say([op |-> "UNREGISTERED_RESP", id |-> m.id])
  /\ UNCHANGED activated

(* gattCharOperation(): the app is called, whether it holds the session or   *)
(* not.                                                                    *)
CharOperation ==
  /\ Next1(om2awm, "OP_RSP")
  /\ om2awm' = Tail(om2awm)
  /\ asked' = [asked EXCEPT ![Head(om2awm).id] = IF @ = 0 THEN 0 ELSE @ - 1]
  /\ UNCHANGED <<activated, table, awm2om>>

gatt_app_mgr_cb == RegisterServiceReq \/ UnregisterServiceReq \/ CharOperation

(* The calls of the apps themselves. *)
qapi_gatt_unregister_service(s) ==
  \E e \in Endpoints :
     /\ Holds(e, s)
     /\ uapp_clear_session(e, s)
     /\ StopsAsking(s)
     /\ Say([op |-> "UNREGISTERED_IND", id |-> s])
     /\ UNCHANGED <<activated, om2awm>>

qapi_gatt_client_read_char_req(s) ==
  /\ Held(s) /\ asked[s] < reg[s].reads
  /\ asked' = [asked EXCEPT ![s] = @ + 1]
  /\ Say([op |-> "CHAR_REQ", id |-> s])
  /\ UNCHANGED <<activated, table, om2awm>>
=============================================================================
