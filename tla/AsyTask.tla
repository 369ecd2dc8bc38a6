------------------------------ MODULE AsyTask ------------------------------
(***************************************************************************)
(* Answers of a backend that are processed here: ASYTask and its map of    *)
(* contexts, and the queue ISGWCIntf fills for it.                         *)
(*                                                                         *)
(* A worker inserts the context of a request and then sends the request on *)
(* (PlatConnMgrAsy::send).  The answer comes over a connection the reactor *)
(* reads; unless the request asked for it to be passed through, it is      *)
(* queued, and a thread of ASYTask takes it, takes its context out of the  *)
(* map and calls back.  The map drops old contexts when it is over its     *)
(* limit.  Each request makes one backend call here.                       *)
(*                                                                         *)
(* TCP and UDP requests are numbered by counters of their own, so that one *)
(* of each may have the same number.  To the comparator of the map each of *)
(* such twins is then before the other.  A std::map puts the newer one     *)
(* right in front of the older one; while both are there it always finds   *)
(* the older one, and the newer one only if that is not below the other in *)
(* the tree, which is not modelled: it may find it or miss it.             *)
(***************************************************************************)
EXTENDS Integers, Sequences, FiniteSets

CONSTANTS
  TcpSeqs,     \* msg_seq of the requests that came over TCP
  UdpSeqs,     \* ... and over UDP
  AsyThreads,  \* threads of ASYTask
  MaxRecords,  \* MAX_ASYR_RECORED
  AsyQueSize,  \* MSG_QUE_SIZE_C
  None

VARIABLES
  stage,   \* by request: "new", "inserted", "sent", "failed"
  rec,     \* requests that have a context in asyr_map_
  front,   \* requests whose context went in front of that of an older twin
  aged,    \* requests whose context is older than DISCARD_TIME
  wire,    \* answers the backends have still to deliver
  asyQ,    \* ISGWCIntf::queue_
  taken,   \* by thread: None, or the answer it is at, and how far it is
  served   \* by request: None, or how its answer was dealt with

vars == <<stage, rec, front, aged, wire, asyQ, taken, served>>

AsyReqs == {"tcp"} \X TcpSeqs \cup {"udp"} \X UdpSeqs
Seq_no(r) == r[2]
Twins(r) == {q \in AsyReqs \ {r} : Seq_no(q) = Seq_no(r)}

Init ==
  /\ stage = [r \in AsyReqs |-> "new"]
  /\ rec = {} /\ front = {} /\ aged = {} /\ wire = {}
  /\ asyQ = <<>>
  /\ taken = [t \in AsyThreads |-> None]
  /\ served = [r \in AsyReqs |-> None]

\* The map is ordered by msg_seq, the largest first.  Erasing its first
\* element moves the iterator in front of the map (:62-64), which is
\* undefined: what the scan goes on to erase cannot be said.
First(S, inFront) ==
  CHOOSE r \in S : \A q \in S \ {r} :
    Seq_no(r) > Seq_no(q) \/ (r \in inFront /\ q \in Twins(r))

Purged(S, inFront) ==
  LET old == S \cap aged
      first == First(S, inFront)
  IN
  IF Cardinality(S) <= MaxRecords THEN {S}
  ELSE IF old # {} /\ first \in aged
       THEN {S \ D : D \in {D \in SUBSET old : first \in D}}
       ELSE {S \ old}

Insert(r) ==
  /\ stage[r] = "new"
  /\ stage' = [stage EXCEPT ![r] = "inserted"]
  /\ front' = IF Twins(r) \cap rec # {} THEN front \cup {r} ELSE front
  /\ rec' \in Purged(rec \cup {r}, front')
  /\ UNCHANGED <<aged, wire, asyQ, taken, served>>

\* A plausible slip: the request goes out before its context is there.
ReadyAtOnce(r) == stage[r] \in {"new", "inserted"} /\ r \notin wire

Ready(r) == stage[r] = "inserted"

\* When sending fails the context stays.
Send(r) ==
  /\ Ready(r)
  /\ \/ /\ wire' = wire \cup {r}
        /\ stage' = [stage EXCEPT ![r] = IF @ = "new" THEN @ ELSE "sent"]
     \/ /\ stage' = [stage EXCEPT ![r] = "failed"]
        /\ UNCHANGED wire
  /\ UNCHANGED <<rec, front, aged, asyQ, taken, served>>

Leave(r, how) == served' = [served EXCEPT ![r] = how]

\* ISGWCIntf::process: passed through, queued, or dropped at a full queue
Arrive(r) ==
  /\ r \in wire
  /\ wire' = wire \ {r}
  /\ \/ Leave(r, "passed") /\ UNCHANGED asyQ
     \/ /\ Len(asyQ) < AsyQueSize
        /\ asyQ' = Append(asyQ, r)
        /\ UNCHANGED served
     \/ /\ Len(asyQ) = AsyQueSize
        /\ Leave(r, "dropped")
        /\ UNCHANGED asyQ
  /\ UNCHANGED <<stage, rec, front, aged, taken>>

\* The connection to the backends ends, by itself or because process found no
\* buffer for an answer.
ConnectionLost ==
  /\ wire # {}
  /\ wire' = {}
  /\ UNCHANGED <<stage, rec, front, aged, asyQ, taken, served>>

Take(t) ==
  /\ taken[t] = None
  /\ asyQ # <<>>
  /\ taken' = [taken EXCEPT ![t] = [req |-> Head(asyQ), at |-> "find"]]
  /\ asyQ' = Tail(asyQ)
  /\ UNCHANGED <<stage, rec, front, aged, wire, served>>

\* What find may say of a context that is there.
FoundOr(r) == IF r \in front /\ Twins(r) \cap rec # {} THEN {"own", "missed"} ELSE {"own"}

\* find and erase, under the lock of the map
Find(t) ==
  /\ taken[t] # None /\ taken[t].at = "find"
  /\ LET r == taken[t].req IN
     \E how \in IF r \in rec THEN FoundOr(r) ELSE {"none"} :
       /\ taken' = [taken EXCEPT ![t].at = how]
       /\ rec' = IF how = "own" THEN rec \ {r} ELSE rec
  /\ UNCHANGED <<stage, front, aged, wire, asyQ, served>>

\* The callback of the context, or the default one with an empty context.
\* The answer is handed to ISGWAck, or recycled when there is to be none.
CallBack(t) ==
  /\ taken[t] # None /\ taken[t].at # "find"
  /\ Leave(taken[t].req, taken[t].at)
  /\ taken' = [taken EXCEPT ![t] = None]
  /\ UNCHANGED <<stage, rec, front, aged, wire, asyQ>>

Age(r) ==
  /\ r \in rec \ aged
  /\ aged' = aged \cup {r}
  /\ UNCHANGED <<stage, rec, front, wire, asyQ, taken, served>>

Next ==
  \/ \E r \in AsyReqs : Insert(r) \/ Send(r) \/ Arrive(r) \/ Age(r)
  \/ ConnectionLost
  \/ \E t \in AsyThreads : Take(t) \/ Find(t) \/ CallBack(t)

Spec == Init /\ [][Next]_vars

-----------------------------------------------------------------------------
TypeOK ==
  /\ stage \in [AsyReqs -> {"new", "inserted", "sent", "failed"}]
  /\ rec \subseteq AsyReqs /\ front \subseteq AsyReqs
  /\ aged \subseteq AsyReqs /\ wire \subseteq AsyReqs
  /\ asyQ \in Seq(AsyReqs)
  /\ taken \in [AsyThreads -> {None} \cup
       [req : AsyReqs, at : {"find", "own", "missed", "none"}]]
  /\ served \in [AsyReqs -> {None, "passed", "dropped", "own", "missed", "none"}]

\* An answer finds the context of its request, however fast it is and
\* whatever the map drops meanwhile for being over its limit, unless the
\* context had been there for longer than DISCARD_TIME (:54-67, :109-120), or
\* there is an older request with the same number whose context was there when
\* its own was inserted: then it may be missed (asy_prot.h:75).
ContextIsFound ==
  \A r \in AsyReqs :
    /\ served[r] = "none" => r \in aged
    /\ served[r] = "missed" =>
         \E q \in Twins(r) : stage[q] # "new" /\ q \notin front
=============================================================================
