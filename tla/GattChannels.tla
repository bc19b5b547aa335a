---------------------------- MODULE GattChannels ----------------------------
(***************************************************************************)
(* What the parties of GATT offload say to one another.                    *)
(*                                                                         *)
(*   GATT HAL (Android)    --hal2om-->  GATT profile manager (ADSP)        *)
(*   GATT profile manager  --om2hal-->  GATT HAL                           *)
(*   GATT profile manager  --om2bs-->   GATT layer of the microstack       *)
(*   GATT layer            --bs2om-->   GATT profile manager               *)
(*   GATT profile manager  --om2awm-->  GATT microapps (AWM)               *)
(*   GATT microapps        --awm2om-->  GATT profile manager               *)
(*                                                                         *)
(* Each is first-in first-out, as in SocketChannels.  A characteristic is  *)
(* stood for by the session that registers it: no two sessions share one.  *)
(***************************************************************************)
EXTENDS Integers, Sequences, FiniteSets

CONSTANTS
  Sessions,        \* the session ids the Android stack uses
  NoSession,       \* GATT_OFFLOAD_INVALID_SESSION_ID
  Endpoints,       \* the GATT microapps
  NoEndpoint,      \* the GATT id of a microapp that the microstack does not know yet
  Acls,            \* the LE connections; the microstack keeps one btConnId for each
  NoAcl,           \* CSR_BT_CONN_ID_INVALID
  Services,        \* the pairs of a role and a service UUID
  NoService,       \* what a cleared slot holds in their place
  Registrations,   \* the registrations of all sessions the stack may have in mind
  NumInstances,    \* MAX_OFFLOAD_INSTANCES
  Adversities      \* what the surroundings may do although the code is not up to it

ASSUME GattMarksAssumption ==
  /\ NoSession \notin Sessions /\ NoEndpoint \notin Endpoints
  /\ NoAcl \notin Acls /\ NoService \notin Services

ASSUME RegistrationsAssumption ==
  Registrations \subseteq
    [Sessions -> [ep : Endpoints, acl : Acls, service : Services, chars : Nat \ {0},
                  reads : Nat]]

(* Each is explained where its guard is: GattOffload, and for the filters    *)
(* GattMicrostack.                                                         *)
ASSUME AdversitiesAssumption ==
  Adversities \subseteq {"registrations", "closings", "clear", "acls", "channel", "filters"}

ASSUME NumInstancesAssumption == NumInstances \in Nat \ {0}

Slots == 1 .. NumInstances

VARIABLES
  reg,       \* reg[s]: the endpoint, connection and service of s, how many characteristics
             \* it has, and how many reads its app has waiting at most (a bound)
  hal2om, om2hal, om2bs, bs2om, om2awm, awm2om,
  failed     \* the ADSP has followed a null pointer

channels == <<hal2om, om2hal, om2bs, bs2om, om2awm, awm2om>>

HalToOmMsgs == [op : {"REGISTER", "UNREGISTER"}, id : Sessions] \cup [op : {"CLEAR"}, acl : Acls]

OmToHalMsgs ==
  [op : {"REGISTER_RSP"}, id : Sessions, ok : BOOLEAN]
    \cup [op : {"UNREGISTER_RSP"}, id : Sessions] \cup [op : {"CLEAR_RSP"}, acl : Acls]

(* inst and why are the callback context: the instance a request is made     *)
(* for, 0 for a clear, and what for.                                       *)
EnableReqs ==
  [op : {"ENABLE_REQ"}, inst : Slots, why : {"ENABLE", "DISABLE"}, acl : Acls \cup {NoAcl},
   ep : Endpoints \cup {NoEndpoint}, offloadId : Nat, handles : SUBSET Sessions]
DisableReqs ==
  [op : {"DISABLE_REQ"}, inst : Slots, why : {"DISABLE"}, acl : Acls \cup {NoAcl}, ids : SUBSET Nat]
    \cup [op : {"DISABLE_REQ"}, inst : {0}, why : {"CLEAR"}, acl : Acls, ids : {{}}]
ReadReqs ==
  [op : {"READ_REQ"}, ep : Endpoints, acl : Acls \cup {NoAcl}, handle : Sessions]

OmToBsMsgs ==
  [op : {"REGISTER_REQ"}, ep : Endpoints] \cup [op : {"CONN_INFO_REQ"}, inst : Slots, acl : Acls]
    \cup EnableReqs \cup DisableReqs \cup ReadReqs

BsToOmMsgs ==
  [op : {"REGISTER_CFM"}, ep : Endpoints]
    \cup [op : {"CONN_INFO_CFM"}, inst : Slots, ok : BOOLEAN]
    \cup [op : {"ENABLE_CFM"}, inst : Slots, why : {"ENABLE", "DISABLE"}, ok : BOOLEAN,
          offloadId : Nat]
    \cup [op : {"DISABLE_CFM"}, inst : Slots, why : {"DISABLE"}, acl : Acls \cup {NoAcl}]
    \cup [op : {"DISABLE_CFM"}, inst : {0}, why : {"CLEAR"}, acl : Acls]
    \cup [op : {"READ_CFM"}, ep : Endpoints, acl : Acls \cup {NoAcl}, handle : Sessions]

OmToAwmMsgs == [op : {"REG_REQ", "UNREG_REQ", "OP_RSP"}, id : Sessions, ep : Endpoints]

AwmToOmMsgs ==
  [op : {"APP_REG_REQ"}, ep : Endpoints]
    \cup [op : {"REGISTERED_RESP"}, id : Sessions, ok : BOOLEAN]
    \cup [op : {"UNREGISTERED_RESP", "UNREGISTERED_IND", "CHAR_REQ"}, id : Sessions]

(* DisableReqs holds SUBSET Nat, which TLC cannot list but can test with. *)
ChannelsTypeOK ==
  /\ reg \in Registrations
  /\ hal2om \in Seq(HalToOmMsgs)
  /\ om2hal \in Seq(OmToHalMsgs)
  /\ om2bs \in Seq(OmToBsMsgs)
  /\ bs2om \in Seq(BsToOmMsgs)
  /\ om2awm \in Seq(OmToAwmMsgs)
  /\ awm2om \in Seq(AwmToOmMsgs)
  /\ failed \in BOOLEAN

ChannelsInit ==
  /\ reg \in Registrations
  /\ hal2om = <<>> /\ om2hal = <<>>
  /\ om2bs = <<>> /\ bs2om = <<>>
  /\ om2awm = <<>> /\ awm2om = <<>>
  /\ failed = FALSE

(* The messages still in a queue. *)
InFlight(queue) == {queue[k] : k \in DOMAIN queue}

(* The next message of a queue is one with this operation. *)
Next1(queue, op) == queue # <<>> /\ Head(queue).op = op
=============================================================================
