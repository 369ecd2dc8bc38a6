------------------------------- MODULE Proxy -------------------------------
(***************************************************************************)
(* IsgwProxy: the servers of a port are fetched from an admin server once  *)
(* in a while, and requests go round them, past those that failed too      *)
(* often in a row.                                                         *)
(*                                                                         *)
(* The list and its counters are shared by the threads under a mutex, but  *)
(* the time of the last refresh is read without it, the list is fetched    *)
(* without it, and the outcome of a request is recorded, by the name of    *)
(* the server, after the list may have been replaced.                      *)
(*                                                                         *)
(* External: the admin servers and the servers.  A call of one of them has *)
(* an answer within the timeout or has not.                                *)
(***************************************************************************)
EXTENDS Integers, Sequences

CONSTANTS
  Users,        \* threads that share the proxy
  Hosts,        \* servers an admin server may name
  MaxHosts,     \* bound: how many it names
  MaxFailTimes, \* max_fail_times_
  None

VARIABLES
  list,    \* servers_: names and fail counts, counted up to MaxFailTimes
  index,   \* server_index_
  due,     \* now > last_refresh_time_ + refresh_server_interval_
  user     \* by thread: where it is, and what it holds

vars == <<list, index, due, user>>

Entry == [host : Hosts, fail : 0 .. MaxFailTimes]
Named(hosts) == [i \in DOMAIN hosts |-> [host |-> hosts[i], fail |-> 0]]
Away == [pc |-> "away", host |-> None, fetched |-> <<>>]

Init ==
  /\ list = <<>>
  /\ index = 0
  /\ due = TRUE
  /\ user = [u \in Users |-> Away]

At(u, pc) == user[u].pc = pc
Goto(u, pc) == user' = [user EXCEPT ![u].pc = pc]

\* server_index_ counts from 0
Size == Len(list)
Server(i) == list[i + 1]
Unavailable(i) == Server(i).fail >= MaxFailTimes

-----------------------------------------------------------------------------
Ask(u) ==
  /\ At(u, "away")
  /\ Goto(u, IF due THEN "fetch" ELSE "pick")
  /\ UNCHANGED <<list, index, due>>

\* get_servers; the time is looked at again, as it was read before the fetch
Fetch(u) ==
  /\ user[u].pc \in {"fetch", "fetch late"}
  /\ \/ \E n \in 1 .. MaxHosts : \E hosts \in [1 .. n -> Hosts] :
          user' = [user EXCEPT
            ![u].pc = IF At(u, "fetch") THEN "refresh" ELSE "pick",
            ![u].fetched = IF At(u, "fetch") THEN hosts ELSE <<>>]
     \/ Goto(u, "pick")
  /\ UNCHANGED <<list, index, due>>

\* A plausible slip: the round goes on where it was in the list before.
KeepIndex == UNCHANGED index

ResetIndex == index' = 0

\* Threads that began to fetch before this will find their time is over.
Refresh(u) ==
  /\ At(u, "refresh")
  /\ list' = Named(user[u].fetched)
  /\ ResetIndex
  /\ due' = FALSE
  /\ user' = [v \in Users |->
       IF v = u THEN [user[u] EXCEPT !.pc = "pick", !.fetched = <<>>]
       ELSE IF At(v, "fetch") THEN [user[v] EXCEPT !.pc = "fetch late"]
       ELSE user[v]]

\* the first server after the current one that is available, up to and not
\* including the current one; when there is none, the next one
Round(k) == (index + k) % Size
Candidates == {k \in 1 .. Size - 1 : ~Unavailable(Round(k))}
Chosen == IF Candidates = {} THEN Round(1)
          ELSE Round(CHOOSE k \in Candidates : \A j \in Candidates : k <= j)

Pick(u) ==
  /\ At(u, "pick")
  /\ \/ /\ Size = 0
        /\ user' = [user EXCEPT ![u] = Away]
        /\ UNCHANGED index
     \/ /\ Size > 0
        /\ index' = Chosen
        /\ user' = [user EXCEPT ![u].pc = "exchange",
                                ![u].host = Server(Chosen).host]
  /\ UNCHANGED <<list, due>>

\* get(server): connect, send, and read up to the end of a line, in time
Exchange(u) ==
  /\ At(u, "exchange")
  /\ \E out \in {"answered", "failed"} : Goto(u, out)
  /\ UNCHANGED <<list, index, due>>

\* get: the outcome is counted for every entry with the name of the server
Count(u) ==
  /\ user[u].pc \in {"answered", "failed"}
  /\ list' = [i \in DOMAIN list |->
       IF list[i].host # user[u].host THEN list[i]
       ELSE [list[i] EXCEPT !.fail =
               IF At(u, "answered") THEN 0
               ELSE IF @ < MaxFailTimes THEN @ + 1 ELSE @]]
  /\ user' = [user EXCEPT ![u] = Away]
  /\ UNCHANGED <<index, due>>

IntervalPasses ==
  /\ ~due
  /\ due' = TRUE
  /\ UNCHANGED <<list, index, user>>

Next ==
  \/ \E u \in Users :
       Ask(u) \/ Fetch(u) \/ Refresh(u) \/ Pick(u) \/ Exchange(u) \/ Count(u)
  \/ IntervalPasses

Spec == Init /\ [][Next]_vars

-----------------------------------------------------------------------------
TypeOK ==
  /\ list \in Seq(Entry) /\ Len(list) <= MaxHosts
  /\ index \in Nat
  /\ due \in BOOLEAN
  /\ user \in [Users ->
       [pc : {"away", "fetch", "fetch late", "refresh", "pick", "exchange",
              "answered", "failed"},
        host : Hosts \cup {None}, fetched : Seq(Hosts)]]
  /\ \A u \in Users : Len(user[u].fetched) <= MaxHosts

\* The current server is one of the list, though the list may be replaced by
\* a shorter one between any two calls: the search for an available server
\* stops where it began, and would not stop at all otherwise (:147-154).
IndexInList == index = 0 \/ index < Size

\* "Servers that are not available are skipped; when none is, one is taken at
\* random" (isgw_proxy.h:42).
UnavailableIsSkipped ==
  [][\A u \in Users :
       At(u, "pick") /\ user'[u].pc = "exchange" =>
         \/ ~Unavailable(index')
         \/ \A i \in 0 .. Size - 1 : Unavailable(i)]_vars
=============================================================================
