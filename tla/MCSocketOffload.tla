--------------------------- MODULE MCSocketOffload ---------------------------
(***************************************************************************)
(* SocketOffload on small instances.                                       *)
(***************************************************************************)
EXTENDS SocketOffload, TLC

CONSTANTS s1, s2, s3

MCLow16 == [s \in Sockets |-> s]

(* Both protocols with their own microapps. *)
MatchedContexts ==
  {[type |-> "RFCOMM", ep |-> "rfcommEp"], [type |-> "LE_COC", ep |-> "lecocEp"]}

(* One protocol, also handed to the microapp of the other one. *)
MixedContexts ==
  {[type |-> "RFCOMM", ep |-> "rfcommEp"], [type |-> "RFCOMM", ep |-> "lecocEp"]}

(* Both protocols, and an endpoint of the other one. *)
CrossedContexts == MatchedContexts \cup MixedContexts

(* Also an endpoint that nobody registered. *)
AllContexts == MixedContexts \cup {[type |-> "RFCOMM", ep |-> "unknownEp"]}

Symmetric == Permutations(Sockets)
=============================================================================
