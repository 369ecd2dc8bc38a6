----------------------------- MODULE ObjectQue -----------------------------
(***************************************************************************)
(* Inside ACE_Object_Que, the pool of blank objects that Isgw takes as a   *)
(* whole.  The queue que_imp_ has a lock of its own, but what its enqueue  *)
(* or dequeue returned is kept in the member ret_, which the threads share *)
(* without a lock, and is read back from there.                            *)
(***************************************************************************)
EXTENDS Integers, Sequences, FiniteSets

CONSTANTS
  Threads,  \* the reactor and the workers
  Objs,     \* addresses of objects: all the memory there is
  Size,     \* msg_counts: objects the pool is opened for
  None

VARIABLES
  que,   \* que_imp_
  ret,   \* ret_: -1, or anything else for success
  live,  \* objects allocated and not deleted
  thr    \* by thread: where it is, the object it holds, what its call returned

vars == <<que, ret, live, thr>>

Pooled == {que[i] : i \in DOMAIN que}
Results == {-1, 0}

Init ==
  /\ que \in [1 .. Size -> Objs]
  /\ Cardinality(Pooled) = Size
  /\ live = Pooled
  /\ ret = 0
  /\ thr = [t \in Threads |-> [pc |-> "out", obj |-> None, res |-> 0]]

Goto(t, pc, obj, res) == thr' = [thr EXCEPT ![t] = [pc |-> pc, obj |-> obj, res |-> res]]

\* que_imp_.enqueue, with a deadline already past: -1 when the queue is full
EnqueueCall(t) ==
  LET obj == thr[t].obj IN
  /\ thr[t].pc = "out"
  /\ obj # None
  /\ \/ /\ Len(que) < Size
        /\ que' = Append(que, obj)
        /\ Goto(t, "enqueued", obj, 0)
     \/ /\ Len(que) >= Size
        /\ Goto(t, "enqueued", obj, -1)
        /\ UNCHANGED que
  /\ UNCHANGED <<ret, live>>

\* que_imp_.dequeue: -1 when the queue is empty, and the item is not touched
DequeueCall(t) ==
  /\ thr[t].pc = "out"
  /\ thr[t].obj = None
  /\ \/ /\ que # <<>>
        /\ que' = Tail(que)
        /\ Goto(t, "dequeued", Head(que), 0)
     \/ /\ que = <<>>
        /\ Goto(t, "dequeued", None, -1)
        /\ UNCHANGED que
  /\ UNCHANGED <<ret, live>>

\* the result of the call is assigned to ret_
Assign(t) ==
  /\ thr[t].pc \in {"enqueued", "dequeued"}
  /\ ret' = thr[t].res
  /\ thr' = [thr EXCEPT ![t].pc = IF @ = "enqueued" THEN "put" ELSE "got"]
  /\ UNCHANGED <<que, live>>

\* enqueue: when ret_ is -1 the object is deleted; the caller's pointer is
\* cleared either way
EnqueueTest(t) ==
  /\ thr[t].pc = "put"
  /\ live' = IF ret = -1 THEN live \ {thr[t].obj} ELSE live
  /\ Goto(t, "out", None, 0)
  /\ UNCHANGED <<que, ret>>

\* dequeue: when ret_ is -1 a new object takes the place of the item (NULL
\* when there is no memory); otherwise the item is handed out as it is
DequeueTest(t) ==
  /\ thr[t].pc = "got"
  /\ \/ /\ ret = -1
        /\ \E obj \in Objs \ live :
             /\ live' = live \cup {obj}
             /\ Goto(t, "out", obj, 0)
     \/ /\ ret = -1
        /\ live = Objs
        /\ Goto(t, "out", None, 0)
        /\ UNCHANGED live
     \/ /\ ret # -1
        /\ Goto(t, "out", thr[t].obj, 0)
        /\ UNCHANGED live
  /\ UNCHANGED <<que, ret>>

Next == \E t \in Threads :
  \/ EnqueueCall(t) \/ DequeueCall(t) \/ Assign(t)
  \/ EnqueueTest(t) \/ DequeueTest(t)

Spec == Init /\ [][Next]_vars

-----------------------------------------------------------------------------
TypeOK ==
  /\ que \in Seq(Objs)
  /\ ret \in Results
  /\ live \subseteq Objs
  /\ thr \in [Threads -> [pc : {"out", "enqueued", "put", "dequeued", "got"},
                          obj : Objs \cup {None}, res : Results]]

\* An object is deleted only when it did not get into the pool ("when enqueue
\* fails this blank object is dropped", ACE_Object_Que::enqueue): the pool
\* never holds, and so never hands out, an object that was deleted.
PooledIsLive == Pooled \subseteq live
=============================================================================
