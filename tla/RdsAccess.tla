------------------------------ MODULE RdsAccess ------------------------------
(***************************************************************************)
(* Redis access: RdsSvr and its handles, each a hiredis context with a     *)
(* lock and the number of the database the context is believed to be in.   *)
(*                                                                         *)
(* A thread uses the handle its thread id selects, of the master or, for   *)
(* some methods, of the replica.  get_handle looks at the context and      *)
(* connects, and with a password runs AUTH, before the lock of the handle  *)
(* is taken.  A method then selects its database, if it does so at all and *)
(* the handle is not believed to be in it already, runs its command, and   *)
(* on failure frees the context for the next get_handle to connect again.  *)
(* Neither AUTH nor SELECT looks at the reply: only a lost connection is a *)
(* failure of theirs, and an error the server answers is none.             *)
(*                                                                         *)
(* The methods differ in few things, and a record names them; the keys and *)
(* values they carry are left out.                                         *)
(***************************************************************************)
EXTENDS Integers, FiniteSets

CONSTANTS
  Tids,     \* threads
  RdsConns, \* conn_num: handles to each server
  HasSlave, \* slave_ip is configured
  HasPasswd,\* password is configured
  Dbs,      \* databases callers name, 0 among them
  MaxCmds,  \* bound: commands of a method that runs one per element
  None

VARIABLES
  idx,    \* by thread: its thread id modulo conn_num
  rc,     \* by handle: its context, or None
  dbid,   \* by handle: Handle::dbid
  rlock,  \* by handle: who holds its mutex
  rthr,   \* by thread: the method it is in
  kept,   \* history, by handle: no method has been on it, or the last one had
          \* no command to try the context with, or returned without a reply
  users   \* history, by handle: the threads that have called on it

vars == <<idx, rc, dbid, rlock, rthr, kept, users>>

Handles == (0 .. RdsConns - 1) \X {"master", "slave"}

\* err: hiredis has seen it fail; alive: the server has it; auth: the server
\* takes commands on it; db: where it is.  refused, a history: the server has
\* answered a SELECT on it with an error, and none with success since.  The
\* last three no longer matter once it is dead.
Context == [err : BOOLEAN, alive : BOOLEAN, auth : BOOLEAN, db : Dbs,
            refused : BOOLEAN]
NewContext == [err |-> FALSE, alive |-> TRUE, auth |-> ~HasPasswd, db |-> 0,
               refused |-> FALSE]
\* a context is returned when connecting fails, too
FailedContext == [NewContext EXCEPT !.err = TRUE, !.alive = FALSE]

-----------------------------------------------------------------------------
(***************************************************************************)
(* The methods.                                                            *)
(*   select   it calls sel_database; otherwise it runs in whatever db the  *)
(*            context is in                                                *)
(*   roles    the servers get_handle may choose between                    *)
(*   dbs      the databases a caller may name                              *)
(*   cmds     how many commands it may run                                 *)
(*   resets   the outcomes of a command after which it calls rst_handle    *)
(*   tests    it does not touch a context that is not there                *)
(* A command has no reply ("null": the connection failed or timed out), an *)
(* error as reply, a reply of a type it did not ask for ("odd") or the     *)
(* reply it asked for ("ok").                                              *)
(***************************************************************************)
Write == [select |-> TRUE, roles |-> {"master"}, dbs |-> Dbs, cmds |-> {1},
          resets |-> {"null", "error"}, tests |-> TRUE]
Reading == [Write EXCEPT !.roles = {"master", "slave"}]
InAnyDb(m) == [m EXCEPT !.select = FALSE, !.tests = FALSE]
\* an empty list is refused once the database is selected
OfList(m) == [m EXCEPT !.cmds = {0, 1}]
ForEach(m) == [m EXCEPT !.cmds = 0 .. MaxCmds]

del_key == Write
expire_key == Write
redis_time == [Write EXCEPT !.dbs = {0}, !.resets = {"null", "error", "odd"}]
ttl == InAnyDb(Reading)
get_string_val == Reading
set_string_val == Write
inc_string_val == Write
get_set == InAnyDb(Write)
get_sset_list_by_score == Reading
get_sset_list == Reading
get_sset_score == ForEach(Reading)
get_sset_rank == ForEach(Reading)
set_sset_list == OfList(Write)
inc_sset_list == Write
del_sset_list == OfList(Write)
get_sset_num == Reading
get_hash_field == Write
get_hash_field_all == Write
set_hash_field == Write
\* without a reply it returns and keeps the context
inc_hash_field == [Write EXCEPT !.resets = {"error", "odd"}]
del_hash_field == Write
get_hash_field_num == InAnyDb(Write)
hexists == InAnyDb(Write)
get_list_num == InAnyDb(Reading)
get_list_range == InAnyDb(Reading)
pub_msg == InAnyDb(Reading)
eval_exec == Write
eval_multi_command == [InAnyDb(Write) EXCEPT !.tests = TRUE]
\* these two change the list, on the master or on the replica
push_list_value == InAnyDb(Reading)
pop_list_value == InAnyDb(Reading)
add_geo_list == OfList(Write)
get_geo_list == Reading

Methods ==
  { del_key, expire_key, redis_time, ttl, get_string_val, set_string_val,
    inc_string_val, get_set, get_sset_list_by_score, get_sset_list,
    get_sset_score, get_sset_rank, set_sset_list, inc_sset_list,
    del_sset_list, get_sset_num, get_hash_field, get_hash_field_all,
    set_hash_field, inc_hash_field, del_hash_field, get_hash_field_num,
    hexists, get_list_num, get_list_range, pub_msg, eval_exec,
    eval_multi_command, push_list_value, pop_list_value, add_geo_list,
    get_geo_list }

-----------------------------------------------------------------------------
\* what a call needs of its method once it has its handle
Rest(m) == [select |-> m.select, resets |-> m.resets, tests |-> m.tests]
Outside == [pc |-> "idle", m |-> Rest(Write), d |-> 0,
            h |-> <<0, "master">>, n |-> 1]

\* RdsSvr::init has tried to connect the handles, and to run AUTH on them.
Init ==
  /\ idx \in [Tids -> 0 .. RdsConns - 1]
  /\ rc \in [Handles -> {NewContext, [NewContext EXCEPT !.auth = TRUE], FailedContext}]
  /\ dbid = [h \in Handles |-> 0]
  /\ rlock = [h \in Handles |-> None]
  /\ rthr = [t \in Tids |-> Outside]
  /\ kept = [h \in Handles |-> TRUE]
  /\ users = [h \in Handles |-> {}]

At(t, pc) == rthr[t].pc = pc
Goto(t, pc) == rthr' = [rthr EXCEPT ![t].pc = pc]
Ctx(t) == rc[rthr[t].h]
Usable(c) == c.alive /\ ~c.err

Return(t, keeps) ==
  /\ rthr' = [rthr EXCEPT ![t] = Outside]
  /\ kept' = [kept EXCEPT ![rthr[t].h] = keeps]
  /\ rlock' = [rlock EXCEPT ![rthr[t].h] = None]

\* A plausible slip: the database is remembered over the reset.
rst_handle_keeps_db(h) ==
  /\ rc' = [rc EXCEPT ![h] = None]
  /\ UNCHANGED dbid

\* redisFree, and back to database 0
rst_handle(h) ==
  /\ rc' = [rc EXCEPT ![h] = None]
  /\ dbid' = [dbid EXCEPT ![h] = 0]

\* get_handle: the handle of the thread, and a look at its context
Call(t, m, d) ==
  /\ At(t, "idle")
  /\ d \in m.dbs
  /\ \E role \in IF HasSlave THEN m.roles ELSE {"master"}, n \in m.cmds :
       LET h == <<idx[t], role>> IN
       /\ rthr' = [rthr EXCEPT ![t] =
            [pc |-> IF rc[h] = None THEN "connect" ELSE "lock",
             m |-> Rest(m), d |-> d, h |-> h, n |-> n]]
       /\ users' = [users EXCEPT ![h] = @ \cup {t}]
  /\ UNCHANGED <<idx, rc, dbid, rlock, kept>>

\* get_handle: no lock is held, and what others have put there is overwritten
Connect(t) ==
  /\ At(t, "connect")
  /\ \E c \in {NewContext, FailedContext} : rc' = [rc EXCEPT ![rthr[t].h] = c]
  /\ Goto(t, IF HasPasswd THEN "auth" ELSE "lock")
  /\ UNCHANGED <<idx, dbid, rlock, kept, users>>

\* get_handle, still without a lock: AUTH on whatever context is there by now.
\* One that is freed while AUTH waits counts as freed before.
Auth(t) ==
  LET h == rthr[t].h IN
  /\ At(t, "auth")
  /\ Ctx(t) # None
  /\ \/ rc' = [rc EXCEPT ![h] = FailedContext]
     \/ /\ Usable(Ctx(t))
        /\ \E ok \in BOOLEAN : rc' = [rc EXCEPT ![h].auth = @ \/ ok]
  /\ Goto(t, "lock")
  /\ UNCHANGED <<idx, dbid, rlock, kept, users>>

\* redisCommand on a null pointer, in get_handle
AuthCrash(t) ==
  /\ At(t, "auth")
  /\ Ctx(t) = None
  /\ Goto(t, "lost")
  /\ UNCHANGED <<idx, rc, dbid, rlock, kept, users>>

Lock(t) ==
  LET h == rthr[t].h IN
  /\ At(t, "lock")
  /\ rlock[h] = None
  /\ rlock' = [rlock EXCEPT ![h] = t]
  /\ Goto(t, IF rthr[t].m.select THEN "select" ELSE "command")
  /\ UNCHANGED <<idx, rc, dbid, kept, users>>

\* A plausible slip: get_handle is trusted to have connected.
NoContextAsFound(t) == FALSE

\* There is no context: the method returns -1, or -10.
NoContext(t) == rthr[t].m.tests /\ Ctx(t) = None

Refuse(t) ==
  /\ rthr[t].pc \in {"select", "command"}
  /\ NoContext(t)
  /\ Return(t, FALSE)
  /\ UNCHANGED <<idx, rc, dbid, users>>

\* A plausible slip: the context stays when the database cannot be selected.
SelectFailsOnly(h) ==
  /\ rc' = [rc EXCEPT ![h] = FailedContext]
  /\ UNCHANGED dbid

SelectFails(h) == rst_handle(h)

\* sel_database
Select(t) ==
  LET h == rthr[t].h
      d == rthr[t].d
  IN
  /\ At(t, "select") /\ ~NoContext(t)
  /\ \/ /\ dbid[h] = d                       \* it is taken to be there
        /\ Goto(t, "command")
        /\ UNCHANGED <<rc, dbid, rlock, kept>>
     \/ /\ dbid[h] # d
        /\ Ctx(t) # None /\ Usable(Ctx(t))
        /\ \/ /\ Ctx(t).auth
              /\ rc' = [rc EXCEPT ![h].db = d, ![h].refused = FALSE]
           \/ rc' = [rc EXCEPT ![h].refused = TRUE]  \* reply->type is not read
        /\ dbid' = [dbid EXCEPT ![h] = d]
        /\ Goto(t, "command")
        /\ UNCHANGED <<rlock, kept>>
     \/ /\ dbid[h] # d
        /\ SelectFails(h)
        /\ Return(t, FALSE)
  /\ UNCHANGED <<idx, users>>

Outcomes(c) ==
  {"null"} \cup (IF Usable(c) THEN {"error"} ELSE {})
           \cup (IF Usable(c) /\ c.auth THEN {"ok", "odd"} ELSE {})

\* How a method that has a reply, or has none, goes on.
Command(t) ==
  LET h == rthr[t].h
      m == rthr[t].m
  IN
  /\ At(t, "command") /\ ~NoContext(t)
  /\ Ctx(t) # None
  /\ \/ /\ rthr[t].n = 0
        /\ Return(t, TRUE)
        /\ UNCHANGED <<rc, dbid>>
     \/ /\ rthr[t].n > 0
        /\ \E out \in Outcomes(Ctx(t)) :
             \/ /\ out \in m.resets
                /\ rst_handle(h)
                /\ Return(t, FALSE)
             \/ /\ out \notin m.resets
                /\ rc' = IF out = "null" THEN [rc EXCEPT ![h] = FailedContext] ELSE rc
                /\ IF rthr[t].n > 1
                   THEN /\ rthr' = [rthr EXCEPT ![t].n = @ - 1]
                        /\ UNCHANGED <<rlock, kept>>
                   ELSE Return(t, out = "null")
                /\ UNCHANGED dbid
  /\ UNCHANGED <<idx, users>>

\* ... in the method
Crash(t) ==
  /\ At(t, "command") /\ ~NoContext(t)
  /\ Ctx(t) = None
  /\ Goto(t, "crashed")
  /\ UNCHANGED <<idx, rc, dbid, rlock, kept, users>>

Crashed == \E t \in Tids : At(t, "crashed") \/ At(t, "lost")

\* The server ends a connection.
ContextDies(h) ==
  /\ rc[h] # None /\ rc[h].alive
  /\ rc' = [rc EXCEPT ![h] = [NewContext EXCEPT !.alive = FALSE]]
  /\ UNCHANGED <<idx, dbid, rlock, rthr, kept, users>>

Next ==
  /\ ~Crashed
  /\ \/ \E t \in Tids :
          \/ \E m \in Methods, d \in Dbs : Call(t, m, d)
          \/ Connect(t) \/ Auth(t) \/ AuthCrash(t) \/ Lock(t) \/ Refuse(t) \/ Select(t)
          \/ Command(t) \/ Crash(t)
     \/ \E h \in Handles : ContextDies(h)

Spec == Init /\ [][Next]_vars

-----------------------------------------------------------------------------
TypeOK ==
  /\ idx \in [Tids -> 0 .. RdsConns - 1]
  /\ rc \in [Handles -> Context \cup {None}]
  /\ dbid \in [Handles -> Dbs]
  /\ rlock \in [Handles -> Tids \cup {None}]
  /\ rthr \in [Tids ->
       [pc : {"idle", "connect", "auth", "lock", "select", "command",
              "crashed", "lost"},
        m : {Rest(m) : m \in Methods}, d : Dbs, h : Handles,
        n : 0 .. MaxCmds]]
  /\ kept \in [Handles -> BOOLEAN]
  /\ users \in [Handles -> SUBSET Tids]

\* no other thread has called on the handle
Alone(t) == users[rthr[t].h] = {t}

\* A method that names a database runs its commands there, whatever contexts
\* were lost and replaced since the handle was last in it (:154-189), unless
\* the server has answered the last SELECT on this context with an error, which
\* is remembered as success (:172-185).  Once two threads share the handle
\* this cannot be said: one may put a new context, in database 0, under the
\* other (:142-144).
CommandInItsDb ==
  \A t \in Tids :
    Alone(t) /\ At(t, "command") /\ rthr[t].m.select
    /\ Usable(Ctx(t)) /\ ~Ctx(t).refused
      => Ctx(t).db = rthr[t].d

\* Threads that share a handle free each other's context between get_handle
\* and the lock; the methods that go through sel_database, or test, never run
\* their command without one (:166, :301).  The others do, and so does the AUTH
\* of get_handle (:147), of all methods, but only on a handle that is shared.
TestedIsThere ==
  \A t \in Tids :
    /\ At(t, "crashed") => ~rthr[t].m.tests
    /\ At(t, "command") /\ rthr[t].m.select => Ctx(t) # None
    /\ At(t, "lost") \/ (At(t, "auth") /\ Ctx(t) = None) => ~Alone(t)

\* Once its callers are out, a handle holds no context that hiredis knows to
\* be dead, which no get_handle would replace (:142): unless the last method
\* had no command to run, or was inc_hash_field (:1784-1790), or init left it
\* there and no method has been on it.
DeadContextIsDropped ==
  \A h \in Handles :
    /\ rc[h] # None /\ rc[h].err
    /\ \A t \in Tids : idx[t] = h[1] => At(t, "idle")
    => kept[h]
=============================================================================
