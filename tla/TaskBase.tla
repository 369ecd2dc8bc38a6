------------------------------ MODULE TaskBase ------------------------------
(***************************************************************************)
(* IsgwTaskBase, the base class of tasks with threads of their own: a      *)
(* queue with a high water mark, threads that take messages from it, and   *)
(* a stop that puts one mark behind the messages.  A thread that takes the *)
(* mark puts a new one for the next thread and ends.                       *)
(*                                                                         *)
(* ACE_Message_Queue is external: getq waits while it is empty; putq waits *)
(* while it is full, or fails at once when it is given a time.  The mark   *)
(* has no bytes, but putting it waits as well.                             *)
(***************************************************************************)
EXTENDS Integers, Sequences

CONSTANTS
  Workers,    \* thread_num_ of them
  Messages,   \* bound: the messages put while the task lives
  HighWater,  \* high_water_mark, in messages
  Stop        \* the MB_STOP block

VARIABLES
  taskQ,    \* msg_queue_
  worker,   \* by worker: "get", "handing" the mark on, "ended" by it, "failed"
  stopper,  \* the thread that calls stop: "not yet", "asks", "waits", "returned"
  early,    \* messages put before stop was called, and accepted
  late,     \* ... and after
  handled   \* messages given to process()

vars == <<taskQ, worker, stopper, early, late, handled>>

Init ==
  /\ taskQ = <<>>
  /\ worker = [w \in Workers |-> "get"]
  /\ stopper = "not yet"
  /\ early = {} /\ late = {} /\ handled = {}

\* the mark has no bytes
IsFull == Len(SelectSeq(taskQ, LAMBDA m : m # Stop)) >= HighWater

\* put(buffer): it does not wait, and fails when the queue is full
Put(m) ==
  /\ m \notin early \cup late
  /\ ~IsFull
  /\ taskQ' = Append(taskQ, m)
  /\ IF stopper = "not yet"
     THEN early' = early \cup {m} /\ UNCHANGED late
     ELSE late' = late \cup {m} /\ UNCHANGED early
  /\ UNCHANGED <<worker, stopper, handled>>

\* A plausible slip: the mark is put in front, so that stopping is quick.
PutMarkInFront == taskQ' = <<Stop>> \o taskQ

PutMark == taskQ' = Append(taskQ, Stop)

CallStop ==
  /\ stopper = "not yet"
  /\ stopper' = "asks"
  /\ UNCHANGED <<taskQ, worker, early, late, handled>>

\* stop: the mark is put once there is room, then wait()
AskedToStop ==
  /\ stopper = "asks"
  /\ ~IsFull
  /\ PutMark
  /\ stopper' = "waits"
  /\ UNCHANGED <<worker, early, late, handled>>

Ended(w) == worker[w] \in {"ended", "failed"}

Waited ==
  /\ stopper = "waits"
  /\ \A w \in Workers : Ended(w)
  /\ stopper' = "returned"
  /\ UNCHANGED <<taskQ, worker, early, late, handled>>

\* svc: a message is processed; when process fails the thread ends.
Take(w) ==
  /\ worker[w] = "get"
  /\ taskQ # <<>> /\ Head(taskQ) # Stop
  /\ taskQ' = Tail(taskQ)
  /\ handled' = handled \cup {Head(taskQ)}
  /\ \E next \in {"get", "failed"} : worker' = [worker EXCEPT ![w] = next]
  /\ UNCHANGED <<stopper, early, late>>

TakeMark(w) ==
  /\ worker[w] = "get"
  /\ taskQ # <<>> /\ Head(taskQ) = Stop
  /\ taskQ' = Tail(taskQ)
  /\ worker' = [worker EXCEPT ![w] = "handing"]
  /\ UNCHANGED <<stopper, early, late, handled>>

\* A plausible slip: the thread that takes the mark just ends.
KeepMark(w) ==
  /\ worker[w] = "handing"
  /\ worker' = [worker EXCEPT ![w] = "ended"]
  /\ UNCHANGED <<taskQ, stopper, early, late, handled>>

HandOn(w) ==
  /\ worker[w] = "handing"
  /\ ~IsFull
  /\ PutMark
  /\ worker' = [worker EXCEPT ![w] = "ended"]
  /\ UNCHANGED <<stopper, early, late, handled>>

WorkerStep(w) == Take(w) \/ TakeMark(w) \/ HandOn(w)

Next ==
  \/ \E m \in Messages : Put(m)
  \/ CallStop \/ AskedToStop \/ Waited
  \/ \E w \in Workers : WorkerStep(w)

\* the threads are scheduled; nobody has to put, or to call stop
Fairness ==
  /\ WF_vars(AskedToStop) /\ WF_vars(Waited)
  /\ \A w \in Workers : WF_vars(WorkerStep(w))

Spec == Init /\ [][Next]_vars /\ Fairness

-----------------------------------------------------------------------------
TypeOK ==
  /\ taskQ \in Seq(Messages \cup {Stop})
  /\ worker \in [Workers -> {"get", "handing", "ended", "failed"}]
  /\ stopper \in {"not yet", "asks", "waits", "returned"}
  /\ early \subseteq Messages /\ late \subseteq Messages
  /\ handled \subseteq early \cup late

\* When stop returns, every message that was accepted before it was called
\* has been processed, however the threads shared the messages and the mark,
\* unless they all failed and left none to read on (:43-47, :71-89).
AcceptedIsProcessed ==
  stopper = "returned" /\ (\E w \in Workers : worker[w] = "ended")
    => early \subseteq handled

\* stop returns: the mark goes from thread to thread until all have ended.
\* It may not when messages are still put after it, which can fill the queue
\* under the last thread that hands the mark on (:76), nor when all threads
\* have failed on a full queue, where the mark waits for room for ever (:45).
StopReturns ==
  stopper = "asks" ~>
    \/ stopper = "returned"
    \/ late # {}
    \/ \A w \in Workers : worker[w] = "failed"
=============================================================================
