------------------------------ MODULE Gateway ------------------------------
(***************************************************************************)
(* What a Teaf process promises its clients, with no buffers, queues,      *)
(* threads or descriptors: a request it receives owes its client at most   *)
(* one reply, or two when it is both processed here and forwarded; every   *)
(* reply pays one that was owed, to the client that sent the request, and  *)
(* a reply may be dropped but never invented.                              *)
(***************************************************************************)
EXTENDS Integers, Sequences, FiniteSets

CONSTANTS
  Clients,
  MaxReq,   \* bound: requests received
  None

VARIABLES
  nreq,     \* requests received
  owner,    \* by request: the client it came from
  most,     \* by request: the replies it may get in all
  due,      \* by request: replies still owed
  got       \* by client: the requests of the replies sent to it, in order

vars == <<nreq, owner, most, due, got>>

Reqs == 0 .. MaxReq - 1

Init ==
  /\ nreq = 0
  /\ owner = [r \in Reqs |-> None]
  /\ most = [r \in Reqs |-> 1]
  /\ due = [r \in Reqs |-> 0]
  /\ got = [c \in Clients |-> <<>>]

\* a request is received; it may be refused at once
Receive(c) ==
  /\ nreq < MaxReq
  /\ nreq' = nreq + 1
  /\ owner' = [owner EXCEPT ![nreq] = c]
  /\ \E n \in {1, 2} : most' = [most EXCEPT ![nreq] = n]
  /\ \E n \in {0, 1} : due' = [due EXCEPT ![nreq] = n]
  /\ UNCHANGED got

Answers(r) == Cardinality({i \in DOMAIN got[owner[r]] : got[owner[r]][i] = r})

\* the request will be answered here and by a backend
Fork(r) ==
  /\ due[r] = 1
  /\ Answers(r) + due[r] < most[r]
  /\ due' = [due EXCEPT ![r] = 2]
  /\ UNCHANGED <<nreq, owner, most, got>>

Answer(r) ==
  /\ due[r] > 0
  /\ due' = [due EXCEPT ![r] = @ - 1]
  /\ got' = [got EXCEPT ![owner[r]] = Append(@, r)]
  /\ UNCHANGED <<nreq, owner, most>>

\* replies that will not come: their senders or their receivers are gone
Drop(R) ==
  /\ R # {}
  /\ \A r \in R : due[r] > 0
  /\ due' = [r \in Reqs |-> IF r \in R THEN due[r] - 1 ELSE due[r]]
  /\ UNCHANGED <<nreq, owner, most, got>>

Next ==
  \/ \E c \in Clients : Receive(c)
  \/ \E r \in Reqs : Fork(r) \/ Answer(r)
  \/ \E R \in SUBSET Reqs : Drop(R)

Spec == Init /\ [][Next]_vars
=============================================================================
