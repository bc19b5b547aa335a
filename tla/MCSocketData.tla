---------------------------- MODULE MCSocketData ----------------------------
(***************************************************************************)
(* SocketData on a small instance.                                         *)
(***************************************************************************)
EXTENDS SocketData

MCLow16 == [s \in Sockets |-> s]
RfcommOnly == {[type |-> "RFCOMM", ep |-> "rfcommEp"]}
=============================================================================
