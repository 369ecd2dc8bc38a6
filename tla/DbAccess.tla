------------------------------ MODULE DbAccess ------------------------------
(***************************************************************************)
(* The pool of database connections: PlatDbAccess, and the connection      *)
(* PlatDbConn it keeps in each slot.                                       *)
(*                                                                         *)
(* A call holds the lock of its slot from get_conn_index to its return, so *)
(* that the slot it chose is all it read outside the lock.  A call that    *)
(* finds the server gone disconnects and is made once more, over a new     *)
(* connection; when the second attempt fails too the object is deleted.    *)
(*                                                                         *)
(* The server is external: a session it keeps for a connection, the        *)
(* statements that session has not committed, and what is committed.  The  *)
(* client library does not reconnect by itself.  A statement whose answer  *)
(* is lost has been carried out or has not.                                *)
(***************************************************************************)
EXTENDS Integers, FiniteSets

CONSTANTS
  Callers,      \* threads
  DbSlots,      \* 0 .. conn_nums_ - 1
  Statements,   \* sqls.size() of a transaction
  DbMaxFails,   \* max_fail_times_
  None

VARIABLES
  dbConn,   \* by slot: None, or the connection and its session
  dbLock,   \* by slot: who holds db_conn_lock_
  dbFails,  \* fail_times_, counted up to DbMaxFails + 1
  dbRecent, \* the last failure is less than recon_interval_ ago
  dbUp,     \* the server accepts connections
  call,     \* by thread: its call
  applied   \* by thread: how often each statement of its call is committed

vars == <<dbConn, dbLock, dbFails, dbRecent, dbUp, call, applied>>

DbOps == {"query", "multi", "update", "trans"}
Steps == 1 .. Statements

\* flag: conn_flag_; alive: the server has the session; gone: the client
\* library knows it has not; pend: the statements of its open transaction.
Session == [flag : {0, 1}, alive : BOOLEAN, gone : BOOLEAN,
            pend : SUBSET (Callers \X Steps)]
Fresh == [flag |-> 1, alive |-> TRUE, gone |-> FALSE, pend |-> {}]
Off == [flag |-> 0, alive |-> FALSE, gone |-> FALSE, pend |-> {}]
Connected(c) == c # None /\ c.flag = 1

NoCall == [pc |-> "idle", op |-> "query", slot |-> CHOOSE s \in DbSlots : TRUE,
           try |-> 1, i |-> 1, ret |-> None]

\* PlatDbAccess::init has connected every slot.
Init ==
  /\ dbConn = [s \in DbSlots |-> Fresh]
  /\ dbLock = [s \in DbSlots |-> None]
  /\ dbFails = 0
  /\ dbRecent = FALSE
  /\ dbUp = TRUE
  /\ call = [t \in Callers |-> NoCall]
  /\ applied = [t \in Callers |-> [k \in Steps |-> 0]]

At(t, pc) == call[t].pc = pc
Here(t) == dbConn[call[t].slot]

-----------------------------------------------------------------------------
\* what the statements in S do once they are committed
Apply(S) ==
  applied' = [t \in Callers |-> [k \in Steps |->
    IF <<t, k>> \in S /\ applied[t][k] < 2 THEN applied[t][k] + 1
    ELSE applied[t][k]]]

\* PlatDbAccess::fini deletes the connection.  fail_times_ is counted under the
\* lock of one slot; that an increment may be lost to another slot's is left out.
fini(s) ==
  /\ dbFails' = IF dbFails > DbMaxFails THEN dbFails ELSE dbFails + 1
  /\ dbRecent' = TRUE
  /\ dbConn' = [dbConn EXCEPT ![s] = None]

Return(t, ret) ==
  /\ call' = [call EXCEPT ![t].pc = "idle", ![t].ret = ret]
  /\ dbLock' = [dbLock EXCEPT ![call[t].slot] = None]

\* A plausible slip: the guard is left out.
SlotIsShared(s) == TRUE

SlotIsFree(s) == dbLock[s] = None

Avoided == dbFails > DbMaxFails /\ dbRecent

\* get_conn_index (any slot), the guard of the slot, get_db_conn
Begin(t, op, s) ==
  /\ At(t, "idle")
  /\ SlotIsFree(s)
  /\ LET new == [NoCall EXCEPT !.op = op, !.slot = s]
         enter == /\ call' = [call EXCEPT ![t] = [new EXCEPT !.pc = "run"]]
                  /\ dbLock' = [dbLock EXCEPT ![s] = t]
                  /\ dbFails' = 0
                  /\ UNCHANGED dbRecent
         refuse == /\ call' = [call EXCEPT ![t] = [new EXCEPT !.ret = "lost"]]
                   /\ UNCHANGED dbLock
     IN \/ /\ Avoided
           /\ refuse
           /\ UNCHANGED <<dbConn, dbFails, dbRecent>>
        \/ /\ ~Avoided /\ dbConn[s] # None
           /\ enter
           /\ UNCHANGED dbConn
        \/ /\ ~Avoided /\ dbConn[s] = None /\ dbUp
           /\ dbConn' = [dbConn EXCEPT ![s] = Fresh]
           /\ enter
        \/ /\ ~Avoided /\ dbConn[s] = None
           /\ fini(s)
           /\ refuse
  /\ applied' = [applied EXCEPT ![t] = [k \in Steps |-> 0]]
  /\ UNCHANGED dbUp

\* An attempt returns -1; c is what it leaves in the slot.  The first time
\* it is made again, the second time the object is deleted.
Lost(t, c) ==
  LET s == call[t].slot IN
  \/ /\ call[t].try = 1
     /\ call' = [call EXCEPT ![t].pc = "run", ![t].try = 2, ![t].i = 1]
     /\ dbConn' = [dbConn EXCEPT ![s] = c]
     /\ UNCHANGED <<dbLock, dbFails, dbRecent>>
  \/ /\ call[t].try = 2
     /\ fini(s)
     /\ Return(t, "lost")

\* conn_flag_ is 0: connect first
Reconnect(t) ==
  /\ At(t, "run")
  /\ Here(t) # None /\ Here(t).flag = 0
  /\ \/ /\ dbUp
        /\ dbConn' = [dbConn EXCEPT ![call[t].slot] = Fresh]
        /\ UNCHANGED <<dbLock, dbFails, dbRecent, call>>
     \/ Lost(t, Off)
  /\ UNCHANGED <<dbUp, applied>>

Answers(c) == Connected(c) /\ c.alive /\ ~c.gone

\* exec_query, exec_multi_query and exec_update when the server answers
Answered(t) ==
  /\ At(t, "run")
  /\ call[t].op # "trans"
  /\ Answers(Here(t))
  /\ \/ /\ Return(t, "ok")
        /\ Apply(IF call[t].op = "update" THEN {<<t, 1>>} ELSE {})
     \/ /\ Return(t, "error")
        /\ UNCHANGED applied
  /\ UNCHANGED <<dbConn, dbFails, dbRecent, dbUp>>

\* ... and when it does not: disconnect
Unanswered(t) ==
  /\ At(t, "run")
  /\ call[t].op # "trans"
  /\ Connected(Here(t))
  /\ Lost(t, Off)
  /\ \/ UNCHANGED applied
     \/ /\ call[t].op = "update" /\ Answers(Here(t))
        /\ Apply({<<t, 1>>})
  /\ UNCHANGED dbUp

SetGone(t) ==
  dbConn' = [dbConn EXCEPT ![call[t].slot] =
               [@ EXCEPT !.alive = FALSE, !.gone = TRUE, !.pend = {}]]

\* mysql_next_result fails after the first results: they are all there is,
\* and the call returns 0.
Truncated(t) ==
  /\ At(t, "run")
  /\ call[t].op = "multi"
  /\ Connected(Here(t)) /\ ~Here(t).gone
  /\ SetGone(t)
  /\ Return(t, "ok")
  /\ UNCHANGED <<dbFails, dbRecent, dbUp, applied>>

\* exec_trans: "start transaction" commits what the session has open
Start(t) ==
  /\ At(t, "run")
  /\ call[t].op = "trans"
  /\ Connected(Here(t))
  /\ \/ /\ Answers(Here(t))
        /\ call' = [call EXCEPT ![t].pc = "statement"]
        /\ Apply(Here(t).pend)
        /\ dbConn' = [dbConn EXCEPT ![call[t].slot].pend = {}]
        /\ UNCHANGED dbLock
     \/ /\ SetGone(t)
        /\ Return(t, "error")
        /\ UNCHANGED applied
  /\ UNCHANGED <<dbFails, dbRecent, dbUp>>

\* A plausible slip: the failed statement is reported and no more.
NoRollback(t) == UNCHANGED dbConn

Rollback(t) == dbConn' = [dbConn EXCEPT ![call[t].slot].pend = {}]

Statement(t) ==
  /\ At(t, "statement")
  /\ Answers(Here(t))
  /\ \/ /\ dbConn' = [dbConn EXCEPT ![call[t].slot].pend =
                        @ \cup {<<t, call[t].i>>}]
        /\ call' = [call EXCEPT
             ![t].pc = IF call[t].i = Statements THEN "commit" ELSE "statement",
             ![t].i = IF call[t].i = Statements THEN @ ELSE @ + 1]
        /\ UNCHANGED dbLock
     \/ Rollback(t) /\ Return(t, "none")    \* it affects no row
     \/ Rollback(t) /\ Return(t, "error")
  /\ UNCHANGED <<dbFails, dbRecent, dbUp, applied>>

StatementLost(t) ==
  /\ At(t, "statement")
  /\ Connected(Here(t))
  /\ Lost(t, Off)
  /\ UNCHANGED <<dbUp, applied>>

\* whatever the errno, it is returned and the object is kept
CommitFails(t) ==
  /\ SetGone(t)
  /\ Return(t, "error")
  /\ UNCHANGED <<dbFails, dbRecent>>

Commit(t) ==
  /\ At(t, "commit")
  /\ Connected(Here(t))
  /\ \/ /\ Answers(Here(t))
        /\ Apply(Here(t).pend)
        /\ dbConn' = [dbConn EXCEPT ![call[t].slot].pend = {}]
        /\ Return(t, "ok")
        /\ UNCHANGED <<dbFails, dbRecent>>
     \/ /\ CommitFails(t)
        /\ \/ UNCHANGED applied
           \/ Answers(Here(t)) /\ Apply(Here(t).pend)
  /\ UNCHANGED dbUp

-----------------------------------------------------------------------------
\* The server: a session that ends rolls back.
Ended(c) == IF Connected(c) THEN [c EXCEPT !.alive = FALSE, !.pend = {}] ELSE c

SessionDies(s) ==
  /\ Connected(dbConn[s]) /\ dbConn[s].alive
  /\ dbConn' = [dbConn EXCEPT ![s] = Ended(@)]
  /\ UNCHANGED <<dbLock, dbFails, dbRecent, dbUp, call, applied>>

ServerStops ==
  /\ dbUp
  /\ dbUp' = FALSE
  /\ dbConn' = [s \in DbSlots |-> Ended(dbConn[s])]
  /\ UNCHANGED <<dbLock, dbFails, dbRecent, call, applied>>

ServerStarts ==
  /\ ~dbUp
  /\ dbUp' = TRUE
  /\ UNCHANGED <<dbConn, dbLock, dbFails, dbRecent, call, applied>>

IntervalPasses ==
  /\ dbRecent
  /\ dbRecent' = FALSE
  /\ UNCHANGED <<dbConn, dbLock, dbFails, dbUp, call, applied>>

Next ==
  \/ \E t \in Callers :
       \/ \E op \in DbOps, s \in DbSlots : Begin(t, op, s)
       \/ Reconnect(t) \/ Answered(t) \/ Unanswered(t) \/ Truncated(t)
       \/ Start(t) \/ Statement(t) \/ StatementLost(t) \/ Commit(t)
  \/ \E s \in DbSlots : SessionDies(s)
  \/ ServerStops \/ ServerStarts \/ IntervalPasses

Spec == Init /\ [][Next]_vars

-----------------------------------------------------------------------------
TypeOK ==
  /\ dbConn \in [DbSlots -> Session \cup {None}]
  /\ dbLock \in [DbSlots -> Callers \cup {None}]
  /\ dbFails \in 0 .. DbMaxFails + 1
  /\ dbRecent \in BOOLEAN
  /\ dbUp \in BOOLEAN
  /\ call \in [Callers -> [pc : {"idle", "run", "statement", "commit"},
       op : DbOps, slot : DbSlots, try : {1, 2}, i : Steps,
       ret : {None, "ok", "none", "error", "lost"}]]
  /\ applied \in [Callers -> [Steps -> 0 .. 2]]

\* Through rollbacks, lost connections, the second attempt and a commit whose
\* outcome is unknown, a transaction takes effect whole and once, or not at
\* all (plat_db_conn.cpp:193-246, plat_db_access.cpp:385-397).
TransIsAtomic ==
  \A t \in Callers :
    call[t].op = "trans" =>
      \/ \A k \in Steps : applied[t][k] = 0
      \/ \A k \in Steps : applied[t][k] = 1

\* What a call reports as done is done, though other threads use the same
\* connections: 0 with rows affected means committed, 0 without rows means
\* rolled back (plat_db_conn.cpp:229-244).
ReportIsTrue ==
  \A t \in Callers :
    call[t].pc = "idle" =>
      /\ call[t].op = "trans" /\ call[t].ret = "ok" =>
           \A k \in Steps : applied[t][k] >= 1
      /\ call[t].op = "trans" /\ call[t].ret \in {"none", "lost"} =>
           \A k \in Steps : applied[t][k] = 0
      /\ call[t].op = "update" /\ call[t].ret = "ok" => applied[t][1] >= 1
=============================================================================
