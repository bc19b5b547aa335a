------------------------- MODULE MicrostackScheduler -------------------------
(***************************************************************************)
(* The scheduler that runs the microstack: one instance, one thread, the   *)
(* queue of the BMM task, and the events through which another thread      *)
(* starts it, puts messages on its external queue and stops it.  The       *)
(* queues of the other tasks, the background interrupts and the memory     *)
(* pools are left out.  An operator named after a C function is the part   *)
(* of it that changes this state; BtStateMgr says who calls it and when.   *)
(*                                                                         *)
(* The thread stands at "turn" after its event wait: it runs the timers    *)
(* that are due, then handles at most one message, which takes it to       *)
(* "events", where it waits again.  A thread at "turn" with nothing to do  *)
(* is one blocked in the wait.                                             *)
(***************************************************************************)
EXTENDS Naturals, Sequences

VARIABLES
  schedInstance,   \* schedInstance # NULL
  thread,          \* where the thread of the instance is
  threadEvents,    \* the bits set in thread->eventHandle
  schedEvents,     \* the bits set in instance->eventHandle
  extMsgQueue,     \* messages put by another thread
  taskQueue,       \* the queue of the BMM task
  timers           \* how many schedTaskWait timers are running

schedVars == <<schedInstance, thread, threadEvents, schedEvents, extMsgQueue, taskQueue, timers>>

SchedTypeOK(Message) ==
  /\ schedInstance \in BOOLEAN
  /\ thread \in {"none", "created", "turn", "initInd", "postStop", "postRx", "events",
                "stopped", "gone"}
  /\ threadEvents \subseteq {"START", "EXT_MSG", "STOP_REQ", "DEINIT_REQ"}
  /\ schedEvents \subseteq {"STOP_CFM", "DEINIT_CFM"}
  /\ extMsgQueue \in Seq(Message)
  /\ taskQueue \in Seq(Message)
  /\ timers \in Nat

SchedInit ==
  /\ schedInstance = FALSE
  /\ thread = "none"
  /\ threadEvents = {}
  /\ schedEvents = {}
  /\ extMsgQueue = <<>>
  /\ taskQueue = <<>>
  /\ timers = 0

-----------------------------------------------------------------------------
(* The callers' side: the offload manager's thread. *)

(* CsrSchedInit() and CsrSched(): the thread is created and told to start.  *)
(* CsrSched() returns: the build waits for the exit in CsrSchedStop().      *)
CsrSched ==
  /\ schedInstance' = TRUE
  /\ thread' = "created"
  /\ threadEvents' = {"START"}
  /\ schedEvents' = {}
  /\ extMsgQueue' = <<>>
  /\ taskQueue' = <<>>
  /\ timers' = 0

(* do_put_message() from another thread than the scheduler's. *)
PutExternal(m) ==
  /\ extMsgQueue' = Append(extMsgQueue, m)
  /\ threadEvents' = threadEvents \cup {"EXT_MSG"}
  /\ UNCHANGED <<schedInstance, thread, schedEvents, taskQueue, timers>>

(* CsrSchedStop() up to the first wait of processStopEvt() for the thread.  *)
CsrSchedStop ==
  /\ threadEvents' = threadEvents \cup {"STOP_REQ"}
  /\ UNCHANGED <<schedInstance, thread, schedEvents, extMsgQueue, taskQueue, timers>>

(* The thread has stopped: it is told to run its tasks' deinit functions.   *)
StopConfirmed ==
  /\ "STOP_CFM" \in schedEvents
  /\ schedEvents' = {}
  /\ threadEvents' = threadEvents \cup {"DEINIT_REQ"}
  /\ UNCHANGED <<schedInstance, thread, extMsgQueue, taskQueue, timers>>

(* The end of processStopEvt(), then CsrSchedDeinit(). *)
CsrSchedDeinit ==
  /\ "DEINIT_CFM" \in schedEvents
  /\ schedInstance' = FALSE
  /\ thread' = "none"
  /\ threadEvents' = {}
  /\ schedEvents' = {}
  /\ extMsgQueue' = <<>>
  /\ taskQueue' = <<>>
  /\ timers' = 0

-----------------------------------------------------------------------------
(* The scheduler thread's side: CsrSchedLoop(). *)

(* The first wait: other bits that came with START are set again. *)
LoopStart ==
  /\ thread = "created"
  /\ "START" \in threadEvents
  /\ threadEvents' = threadEvents \ {"START"}
  /\ thread' = "turn"
  /\ UNCHANGED <<schedInstance, schedEvents, extMsgQueue, taskQueue, timers>>

(* One turn of the BMM task, which takes the thread to `next`. *)
TakeMessage(m, next) ==
  /\ thread = "turn"
  /\ taskQueue # <<>>
  /\ m = Head(taskQueue)
  /\ taskQueue' = Tail(taskQueue)
  /\ thread' = next
  /\ UNCHANGED <<schedInstance, threadEvents, schedEvents, extMsgQueue>>

(* One turn of another task, that sends the BMM task the messages of `ms`.  *)
OtherTurn(ms, next) ==
  /\ thread = "turn"
  /\ taskQueue' = taskQueue \o ms
  /\ thread' = next
  /\ UNCHANGED <<schedInstance, threadEvents, schedEvents, extMsgQueue, timers>>

StopSeen == "STOP_REQ" \in threadEvents

(* The event wait of the loop, which does not block while the task queue    *)
(* holds a message.  A stop request ends the loop, whatever the queue holds. *)
EventWait ==
  /\ \/ thread = "events"
     \/ thread = "turn" /\ taskQueue = <<>> /\ threadEvents # {}
  /\ threadEvents' = {}
  /\ IF "EXT_MSG" \in threadEvents
     THEN taskQueue' = taskQueue \o extMsgQueue /\ extMsgQueue' = <<>>
     ELSE UNCHANGED <<taskQueue, extMsgQueue>>
  /\ IF StopSeen
     THEN thread' = "stopped" /\ schedEvents' = schedEvents \cup {"STOP_CFM"}
     ELSE thread' = "turn" /\ UNCHANGED schedEvents
  /\ UNCHANGED <<schedInstance, timers>>

(* CsrSchedIsQueueEmpty(): it looks at the tasks' queues, not at the         *)
(* external one; `others` says whether another task's queue holds anything.  *)
CsrSchedIsQueueEmpty(others) == taskQueue = <<>> /\ ~others

(* After the deinit request: CsrSchedInstanceTaskDeinit(), then the thread   *)
(* confirms and ends.  The messages that are left are never handled.         *)
TaskDeinit ==
  /\ thread = "stopped"
  /\ "DEINIT_REQ" \in threadEvents
  /\ threadEvents' = {}
  /\ taskQueue' = taskQueue \o extMsgQueue
  /\ extMsgQueue' = <<>>
  /\ timers' = 0
  /\ thread' = "gone"
  /\ schedEvents' = schedEvents \cup {"DEINIT_CFM"}
  /\ UNCHANGED schedInstance
=============================================================================
