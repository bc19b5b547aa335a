--------------------------- MODULE SocketLifecycle ---------------------------
(***************************************************************************)
(* What socket offload promises to the Android stack, socket by socket: an  *)
(* open is answered, by success or by failure; a socket that was opened    *)
(* stays so until it is closed, by the stack or by the microapp; a close   *)
(* is answered; and the id may then be used again.                         *)
(***************************************************************************)
CONSTANT Sockets

VARIABLE life

LifeInit == life = [s \in Sockets |-> "CLOSED"]

Step(s, from, to) == life[s] = from /\ life' = [life EXCEPT ![s] = to]

Open(s) == Step(s, "CLOSED", "OPENING")
OpenedComplete(s) == Step(s, "OPENING", "OPENED") \/ Step(s, "OPENING", "CLOSED")
Close(s) == Step(s, "OPENED", "CLOSING")
CloseComplete(s) == Step(s, "CLOSING", "CLOSED")

LifeNext == \E s \in Sockets : Open(s) \/ OpenedComplete(s) \/ Close(s) \/ CloseComplete(s)

(* Whatever happens, a socket moves along this cycle only. *)
LifeSafety == LifeInit /\ [][LifeNext]_life

(* And the two answers do come. *)
LifeSpec ==
  /\ LifeSafety
  /\ \A s \in Sockets : WF_life(OpenedComplete(s)) /\ WF_life(CloseComplete(s))
=============================================================================
