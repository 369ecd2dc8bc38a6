---------------------------- MODULE IsgwGateway ----------------------------
(***************************************************************************)
(* The request path implements Gateway.  A reply is owed by every buffer   *)
(* that can still become one: it carries the request and its worker has    *)
(* not decided to recycle it; or by the backend.                           *)
(***************************************************************************)
EXTENDS Isgw

Recycling(b) == \E w \in Workers :
  wk[w].pc = "done" /\ ~wk[w].ack /\ wk[w].buf = b

\* a request only to be forwarded, whose forwarding buffer is not there yet,
\* is owed by its worker; once that is in ISGWAck, by the forwarding buffer
Owing(id) == {b \in Bufs : msg[b] # None /\ msg[b].id = id /\ ~Recycling(b)}
Asked(id) == {p \in backend : p.id = id}

Due == [id \in 0 .. MaxReq - 1 |-> Cardinality(Owing(id)) + Cardinality(Asked(id))]

Most == [id \in 0 .. MaxReq - 1 |-> IF flag[id] = 2 THEN 2 ELSE 1]

Promise == INSTANCE Gateway WITH due <- Due, most <- Most

\* Every step of the request path is one the clients were promised, or none
\* of their business.
ImplementsGateway == Promise!Spec
=============================================================================
