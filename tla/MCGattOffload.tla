---------------------------- MODULE MCGattOffload ----------------------------
(***************************************************************************)
(* GattOffload with two sessions, each way in which two can meet.          *)
(***************************************************************************)
EXTENDS GattOffload

CONSTANTS s1, s2, e1, e2, a1, a2, v1, v2

Registration(e, a, v, reads) ==
  [ep |-> e, acl |-> a, service |-> v, chars |-> 1, reads |-> reads]
Two(r, t) == [s \in Sessions |-> IF s = s1 THEN r ELSE t]

(* One service shared, where the microapp serves both (e1) or has no room    *)
(* for the second (e2); two services of a connection, where the manager    *)
(* has room for both (e1) or not (e2); and one service of two connections. *)
MCRegistrations ==
  {Two(Registration(e1, a1, v1, 1), Registration(e1, a1, v1, 0)),
   Two(Registration(e2, a1, v1, 1), Registration(e2, a1, v1, 1)),
   Two(Registration(e1, a1, v1, 0), Registration(e1, a1, v2, 0)),
   Two(Registration(e2, a1, v1, 2), Registration(e2, a1, v2, 1)),
   Two(Registration(e1, a1, v1, 0), Registration(e1, a2, v1, 0))}

MCMaxServices == [e \in Endpoints |-> IF e = e1 THEN 2 ELSE 1]
MCUappRoom == MCMaxServices
=============================================================================
