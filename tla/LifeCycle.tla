------------------------------ MODULE LifeCycle ------------------------------
(***************************************************************************)
(* The life of the processes: ACEApp, from the point where init has read   *)
(* its configuration and ISGWApp has started its parts (ace_app.cpp:185).  *)
(*                                                                         *)
(* With no children the process runs the reactor until SIGINT ends its     *)
(* loop, and then quit_app waits for the messages that are queued.  With   *)
(* -c the parent forks its children and waits for SIGINT in its own loop;  *)
(* it then signals its process group and waits for every child.  The       *)
(* SIGCHLD handler is never installed (:143), so that tweak_child, which   *)
(* would clear the slot of a lost child, is never called.                  *)
(*                                                                         *)
(* SIGTERM and SIGCHLD are ignored (:139-140), and a child inherits that.  *)
(* While SIGCHLD is ignored an ended child leaves nothing to wait for.     *)
(*                                                                         *)
(* External: fork may fail, and a child may end by itself (a crash, or     *)
(* init_log failing); signals reach a process at any point.                *)
(***************************************************************************)
EXTENDS Integers, FiniteSets

CONSTANTS
  ChildNums,  \* child_proc_num: values to consider, 0 among them
  MaxQueued   \* bound: messages queued when the loop ends

VARIABLES
  childNum,  \* child_proc_num of this run
  at,        \* where the first process is
  slot,      \* the loop variable of parent_hatch and parent_quit
  isQuit,    \* is_quit_
  loopDone,  \* the reactor's loop has been told to end
  forked,    \* slots of child_pids that hold a pid
  kid,       \* by slot: its child
  reaps,     \* SIGCHLD is SIG_DFL: an ended child has to be waited for
  queued     \* ISGWMgrSvc::message_count of the first process

vars == <<childNum, at, slot, isQuit, loopDone, forked, kid, reaps, queued>>

Kids == 0 .. childNum - 1
MaxKids == CHOOSE n \in ChildNums : \A m \in ChildNums : m <= n
\* a child is "starting" until it ignores SIGINT; a zombie has ended and has
\* not been waited for
Running == {"starting", "running", "ending"}

\* A plausible slip: daemon_main resets its loop first, as parent_main does.
EntryResets(n) == IF n > 0 THEN "test" ELSE "reset"

Entry(n) == IF n > 0 THEN "test" ELSE "loop"

Init ==
  /\ childNum \in ChildNums
  /\ at = Entry(childNum)
  /\ slot = 0
  /\ isQuit = FALSE /\ loopDone = FALSE
  /\ forked = {}
  /\ kid = [i \in 0 .. MaxKids - 1 |-> "none"]
  /\ reaps = FALSE
  /\ queued \in 0 .. MaxQueued

\* daemon_quit, quit_main.  Once parent_quit has begun SIGINT is ignored.
Sigint ==
  /\ at \in {"test", "hatch", "sleep", "reset", "loop"}
  /\ isQuit' = TRUE
  /\ loopDone' = TRUE
  /\ UNCHANGED <<childNum, at, slot, forked, kid, reaps, queued>>

-----------------------------------------------------------------------------
\* kill(0, SIGTERM): the children ignore it, and so does the parent.
TellChildren == UNCHANGED kid

\* parent_main; parent_quit first sets SIGCHLD back and signals the group
Test ==
  /\ at = "test"
  /\ slot' = 0
  /\ IF isQuit
     THEN at' = "waiting" /\ reaps' = TRUE /\ TellChildren
     ELSE at' = "hatch" /\ UNCHANGED <<reaps, kid>>
  /\ UNCHANGED <<childNum, isQuit, loopDone, forked, queued>>

\* parent_hatch: fork into each slot; a failure is slept over.  The parent
\* comes here once (its loop ends only to quit), when all slots are empty.
Hatch ==
  /\ at = "hatch" /\ slot \in Kids
  /\ \/ /\ forked' = forked \cup {slot}
        /\ kid' = [kid EXCEPT ![slot] = "starting"]
        /\ slot' = slot + 1
        /\ UNCHANGED at
     \/ /\ at' = "sleep"
        /\ UNCHANGED <<forked, kid, slot>>
  /\ UNCHANGED <<childNum, isQuit, loopDone, reaps, queued>>

Slept ==
  /\ at = "sleep"
  /\ at' = "hatch"
  /\ slot' = slot + 1
  /\ UNCHANGED <<childNum, isQuit, loopDone, forked, kid, reaps, queued>>

Hatched ==
  /\ at = "hatch" /\ slot \notin Kids
  /\ at' = "reset"
  /\ UNCHANGED <<childNum, slot, isQuit, loopDone, forked, kid, reaps, queued>>

\* A SIGINT that came since is_quit_ was looked at is forgotten here.
ResetLoop ==
  /\ at = "reset"
  /\ loopDone' = FALSE
  /\ at' = "loop"
  /\ UNCHANGED <<childNum, slot, isQuit, forked, kid, reaps, queued>>

\* run_reactor_event_loop, daemon_main
LoopEnds ==
  /\ at = "loop"
  /\ loopDone
  /\ at' = IF childNum > 0 THEN "test" ELSE "quit_app"
  /\ UNCHANGED <<childNum, slot, isQuit, loopDone, forked, kid, reaps, queued>>

-----------------------------------------------------------------------------
\* parent_quit.  waitpid(0) waits for any child, and fails when there is none.
Gone(i) == kid[i] \notin Running
Reaped(i) == kid' = [kid EXCEPT ![i] = "gone"]
NextSlot ==
  /\ slot' = slot + 1
  /\ UNCHANGED <<childNum, at, isQuit, loopDone, forked, reaps, queued>>

\* A plausible slip: any return of waitpid is taken for the child's end, that
\* of a call another signal (SIGUSR1) has interrupted, too.
WaitUnlooped ==
  /\ at = "waiting" /\ slot \in Kids
  /\ UNCHANGED kid
  /\ NextSlot

WaitForChild ==
  /\ at = "waiting" /\ slot \in Kids
  /\ \/ slot \in forked /\ Gone(slot) /\ Reaped(slot)
     \/ slot \notin forked /\ \E i \in Kids : kid[i] = "zombie" /\ Reaped(i)
     \/ slot \notin forked /\ (\A i \in Kids : kid[i] \in {"none", "gone"})
        /\ UNCHANGED kid
  /\ NextSlot

ParentQuits ==
  /\ at = "waiting" /\ slot \notin Kids
  /\ at' = "quit_app"
  /\ UNCHANGED <<childNum, slot, isQuit, loopDone, forked, kid, reaps, queued>>

\* ISGWApp::quit_app: the time it waits is never counted (isgw_app.cpp:236)
\* and the worker threads go on taking messages.
Drain ==
  /\ at = "quit_app" /\ queued > 0
  /\ queued' = queued - 1
  /\ UNCHANGED <<childNum, at, slot, isQuit, loopDone, forked, kid, reaps>>

QuitApp ==
  /\ at = "quit_app" /\ queued = 0
  /\ at' = "ended"
  /\ UNCHANGED <<childNum, slot, isQuit, loopDone, forked, kid, reaps, queued>>

-----------------------------------------------------------------------------
\* A child: until it ignores SIGINT (:492) one that is sent to the group may
\* end its loop, if it comes after the loop was reset.
ChildStarts(i) ==
  /\ kid[i] = "starting"
  /\ \E next \in {"running", "ending"} : kid' = [kid EXCEPT ![i] = next]
  /\ UNCHANGED <<childNum, at, slot, isQuit, loopDone, forked, reaps, queued>>

\* daemon_main has returned, quit_app, exit; or it ends by itself
End(i) == kid' = [kid EXCEPT ![i] = IF reaps THEN "zombie" ELSE "gone"]

ChildEnds(i) ==
  /\ kid[i] = "ending"
  /\ End(i)
  /\ UNCHANGED <<childNum, at, slot, isQuit, loopDone, forked, reaps, queued>>

ChildDies(i) ==
  /\ kid[i] \in {"starting", "running"}
  /\ End(i)
  /\ UNCHANGED <<childNum, at, slot, isQuit, loopDone, forked, reaps, queued>>

Own ==
  \/ Test \/ Hatch \/ Slept \/ Hatched \/ ResetLoop \/ LoopEnds
  \/ WaitForChild \/ ParentQuits \/ Drain \/ QuitApp

Next ==
  \/ Sigint \/ Own
  \/ \E i \in Kids : ChildStarts(i) \/ ChildEnds(i) \/ ChildDies(i)

\* Processes and worker threads run; signals and deaths need not come.
Fairness ==
  /\ WF_vars(Own)
  /\ \A i \in 0 .. MaxKids - 1 :
       WF_vars(i \in Kids /\ (ChildStarts(i) \/ ChildEnds(i)))

Spec == Init /\ [][Next]_vars /\ Fairness

-----------------------------------------------------------------------------
TypeOK ==
  /\ childNum \in ChildNums
  /\ at \in {"test", "hatch", "sleep", "reset", "loop", "waiting", "quit_app",
             "ended"}
  /\ slot \in 0 .. childNum
  /\ isQuit \in BOOLEAN /\ loopDone \in BOOLEAN /\ reaps \in BOOLEAN
  /\ forked \subseteq Kids
  /\ kid \in [0 .. MaxKids - 1 -> {"none", "starting", "running", "ending",
                                   "zombie", "gone"}]
  /\ queued \in 0 .. MaxQueued

\* The parent outlives its children and leaves no zombie it has a pid of,
\* though a slot whose fork failed makes it wait for whichever child ends
\* next, and children that ended before cannot be waited for (:521-552).
ParentIsLast ==
  at \in {"quit_app", "ended"} =>
    \A i \in Kids : kid[i] \in {"none", "gone"}

\* A process without children ends after SIGINT, whenever it comes, provided
\* the worker threads empty their queue.
SigintEnds == childNum = 0 /\ isQuit ~> at = "ended"

\* "tell child to quit" (:529): the children end once the parent quits.
ChildrenQuit == at = "waiting" ~> \A i \in Kids : Gone(i)
=============================================================================
