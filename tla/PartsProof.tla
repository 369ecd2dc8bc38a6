----------------------------- MODULE PartsProof -----------------------------
(***************************************************************************)
(* Proofs about the parts of the framework that run beside the requests:   *)
(* the list of servers, the queues of tasks, the contexts of requests that *)
(* were sent on, and the parent with its children. Each step of Parts is a *)
(* step of one part, or leaves it alone; each part has an invariant of its *)
(* own. The invariants of all the parts together make every part typed.    *)
(***************************************************************************)
EXTENDS ConnPoolProof, DataAccessProof, FramingProof

-----------------------------------------------------------------------------
(* Service discovery (IsgwProxy).                                          *)

LEMMA ProxStep == [Next]_vars => [Prox!Next]_(Prox!vars)
BY DEF Next, vars, others, proxVars, Prox!vars

\* get_svr leaves its loops with a position of the list.
LEMMA ProxChosen ==
  ASSUME Prox!TypeOK, Prox!Size > 0
  PROVE  Prox!Chosen \in 0 .. Prox!Size - 1
<1>1. Prox!Size \in Nat /\ index \in Nat
  BY LenProperties DEF Prox!TypeOK, Prox!Size
<1>2. \A k \in Nat : Prox!Round(k) \in 0 .. Prox!Size - 1
  BY <1>1 DEF Prox!Round
<1>3. CASE Prox!Candidates = {}
  BY <1>2, <1>3 DEF Prox!Chosen
<1>4. CASE Prox!Candidates # {}
  <2>1. Prox!Candidates \in SUBSET Nat
    BY DEF Prox!Candidates
  <2>2. \E k \in Prox!Candidates : \A j \in Prox!Candidates : k <= j
    BY <1>4, <2>1, LeastNatural
  <2>3. (CHOOSE k \in Prox!Candidates : \A j \in Prox!Candidates : k <= j) \in Prox!Candidates
    BY <2>2
  <2> QED BY <1>2, <1>4, <2>1, <2>3 DEF Prox!Chosen
<1> QED BY <1>3, <1>4


\* The fields of a caller, with fetched a list of hosts of any length.
ProxUser == [pc : {"away", "fetch", "fetch late", "refresh", "pick",
                   "exchange", "answered", "failed"},
             host : Hosts \cup {None}, fetched : Seq(Hosts)]
\* A caller holds at most as many hosts as the router returns.
ProxFits(r) == r \in ProxUser /\ Len(r.fetched) <= MaxHosts

\* The index of the last server used is one of the list that is there now, or
\* is 0 when there is none: refreshing the list and choosing from it happen
\* under the one lock, and the first of them resets the index.
ProxInv ==
  /\ list \in Seq(Prox!Entry) /\ Len(list) <= MaxHosts
  /\ index \in Nat /\ Prox!IndexInList
  /\ due \in BOOLEAN
  /\ user \in [Threads -> ProxUser]
  /\ \A u \in Threads : ProxFits(user[u])
 
LEMMA ProxInvTypes == ProxInv => Prox!TypeOK
BY DEF ProxInv, Prox!TypeOK, ProxFits, ProxUser

LEMMA ProxUserStep ==
  ASSUME ProxInv, NEW u \in Threads, NEW r, ProxFits(r),
         user' = [user EXCEPT ![u] = r]
  PROVE  /\ user' \in [Threads -> ProxUser]
         /\ \A v \in Threads : ProxFits(user'[v])
BY DEF ProxInv, ProxFits

LEMMA ProxFitsWith ==
  ASSUME NEW r, ProxFits(r),
         NEW pc \in {"away", "fetch", "fetch late", "refresh", "pick",
                   "exchange", "answered", "failed"},
         NEW f \in Seq(Hosts), Len(f) <= MaxHosts
  PROVE  ProxFits([r EXCEPT !.pc = pc, !.fetched = f])
BY DEF ProxFits, ProxUser

LEMMA ProxRoom == 0 <= MaxHosts
BY ProxAssumption

LEMMA ProxFitsEmptied ==
  ASSUME NEW r, ProxFits(r),
         NEW pc \in {"away", "fetch", "fetch late", "refresh", "pick",
                   "exchange", "answered", "failed"}
  PROVE  ProxFits([r EXCEPT !.pc = pc, !.fetched = <<>>])
<1>1. PICK none : none = <<>>
  OBVIOUS
<1>2. none \in Seq(Hosts) /\ Len(none) = 0
  <2>1. <<>> \in Seq(Hosts) /\ Len(<<>>) = 0
    BY EmptySeq
  <2> QED BY <1>1, <2>1, Zenon
<1>4. Len(none) <= MaxHosts
  BY <1>2, ProxRoom, Zenon
<1>3. ProxFits([r EXCEPT !.pc = pc, !.fetched = none])
  BY <1>2, <1>4, ProxFitsWith
<1> QED BY <1>1, <1>3

LEMMA ProxSteps == ProxInv /\ [Prox!Next]_(Prox!vars) => ProxInv'
<1> SUFFICES ASSUME ProxInv, [Prox!Next]_(Prox!vars) PROVE ProxInv'
  OBVIOUS
<1>0. Len(list) \in Nat /\ list \in [1 .. Len(list) -> Prox!Entry]
  BY LenProperties DEF ProxInv
<1>e. <<>> \in Seq(Hosts) /\ Len(<<>>) = 0
  BY EmptySeq
<1>u. \A u \in Threads : user[u] \in ProxUser /\ ProxFits(user[u])
  BY DEF ProxInv
<1>a. ProxFits(Prox!Away)
  BY <1>e, ProxAssumption DEF ProxFits, ProxUser, Prox!Away
<1>g. ASSUME NEW u \in Threads, NEW pc \in {"away", "fetch", "fetch late", "refresh", "pick",
                   "exchange", "answered", "failed"}, Prox!Goto(u, pc), UNCHANGED <<list, index, due>>
      PROVE ProxInv'
  <2>1. ProxFits([user[u] EXCEPT !.pc = pc])
    BY <1>u DEF ProxFits, ProxUser
  <2>2. user' = [user EXCEPT ![u] = [user[u] EXCEPT !.pc = pc]]
    BY <1>g DEF Prox!Goto
  <2> QED BY <1>g, <2>1, <2>2, ProxUserStep DEF ProxInv, Prox!IndexInList, Prox!Size
<1>1. ASSUME NEW u \in Threads, Prox!Ask(u) PROVE ProxInv'
  BY <1>1, <1>g DEF Prox!Ask
<1>2. ASSUME NEW u \in Threads, Prox!Fetch(u) PROVE ProxInv'
  <2>1. CASE Prox!Goto(u, "pick")
    BY <2>1, <1>2, <1>g DEF Prox!Fetch
  <2>2. CASE ~Prox!Goto(u, "pick")
    <3>0. PICK n \in 1 .. MaxHosts : \E hosts \in [1 .. n -> Hosts] :
          user' = [user EXCEPT
            ![u].pc = IF Prox!At(u, "fetch") THEN "refresh" ELSE "pick",
            ![u].fetched = IF Prox!At(u, "fetch") THEN hosts ELSE <<>>]
      BY <1>2, <2>2 DEF Prox!Fetch
    <3>1. PICK hosts \in [1 .. n -> Hosts] :
          user' = [user EXCEPT
            ![u].pc = IF Prox!At(u, "fetch") THEN "refresh" ELSE "pick",
            ![u].fetched = IF Prox!At(u, "fetch") THEN hosts ELSE <<>>]
      BY <3>0
    <3>2. hosts \in Seq(Hosts) /\ Len(hosts) = n
      BY SeqDef, ProxAssumption
    <3> DEFINE r == [user[u] EXCEPT !.pc = IF Prox!At(u, "fetch") THEN "refresh" ELSE "pick",
         !.fetched = IF Prox!At(u, "fetch") THEN hosts ELSE <<>>]
    <3>3. ProxFits(r)
      <4>1. CASE Prox!At(u, "fetch")
        <5>1. Len(hosts) <= MaxHosts
          BY <3>2, ProxAssumption
        <5>3. ProxFits(user[u]) /\ hosts \in Seq(Hosts)
          BY <3>2, <1>u
        <5>1a. ProxFits([user[u] EXCEPT !.pc = "refresh", !.fetched = hosts])
          BY <5>1, <5>3, ProxFitsWith
        <5>2. r = [user[u] EXCEPT !.pc = "refresh", !.fetched = hosts]
          BY <4>1, Zenon
        <5> QED BY <5>1a, <5>2, Zenon
      <4>2. CASE ~Prox!At(u, "fetch")
        <5>1. ProxFits([user[u] EXCEPT !.pc = "pick", !.fetched = <<>>])
          BY <1>u, ProxFitsEmptied
        <5>2. r = [user[u] EXCEPT !.pc = "pick", !.fetched = <<>>]
          BY <4>2, Zenon
        <5> QED BY <5>1, <5>2, Zenon
      <4> QED BY <4>1, <4>2
    <3>4. user' = [user EXCEPT ![u] = r]
      BY <3>1, <1>u DEF ProxUser
    <3> QED BY <1>2, <3>3, <3>4, ProxUserStep DEF ProxInv, Prox!IndexInList, Prox!Size, Prox!Fetch
  <2> QED BY <2>1, <2>2
<1>3. ASSUME NEW u \in Threads, Prox!Refresh(u) PROVE ProxInv'
  <2>1. list' \in Seq(Prox!Entry) /\ Len(list') <= MaxHosts
    <3> DEFINE hosts == user[u].fetched
    <3>1. hosts \in Seq(Hosts) /\ Len(hosts) <= MaxHosts
      BY <1>u DEF ProxFits, ProxUser
    <3>2. hosts \in [DOMAIN hosts -> Hosts]
      BY <3>1, LenProperties
    <3>3. Prox!Named(hosts) \in [DOMAIN hosts -> Prox!Entry]
      BY <3>2, ProxAssumption DEF Prox!Named, Prox!Entry
    <3> HIDE DEF hosts
    <3>4. Prox!Named(hosts) \in Seq(Prox!Entry) /\ Len(Prox!Named(hosts)) = Len(hosts)
      BY <3>1, <3>3, MappedSeq
    <3> QED BY <1>3, <3>1, <3>4 DEF Prox!Refresh, hosts
  <2>2. \A v \in Threads : ProxFits(user'[v])
    <3> SUFFICES ASSUME NEW v \in Threads PROVE ProxFits(user'[v])
      OBVIOUS
    <3>1. user'[v] = IF v = u THEN [user[u] EXCEPT !.pc = "pick", !.fetched = <<>>]
       ELSE IF Prox!At(v, "fetch") THEN [user[v] EXCEPT !.pc = "fetch late"]
       ELSE user[v]
      BY <1>3 DEF Prox!Refresh
    <3>2. ProxFits([user[u] EXCEPT !.pc = "pick", !.fetched = <<>>])
      BY <1>u, ProxFitsEmptied
    <3>3. ProxFits([user[v] EXCEPT !.pc = "fetch late"])
      BY <1>u DEF ProxFits, ProxUser
    <3> QED BY <3>1, <3>2, <3>3, <1>u
  <2>3. user' \in [Threads -> ProxUser]
    <3>1. user' = [v \in Threads |-> user'[v]]
      BY <1>3 DEF Prox!Refresh
    <3> QED BY <2>2, <3>1 DEF ProxFits
  <2> QED BY <1>3, <2>1, <2>2, <2>3 DEF ProxInv, Prox!IndexInList, Prox!Refresh, Prox!ResetIndex
<1>4. ASSUME NEW u \in Threads, Prox!Pick(u) PROVE ProxInv'
  <2>1. CASE Prox!Size = 0
    BY <2>1, <1>4, <1>a, <1>0, ProxUserStep DEF ProxInv, Prox!IndexInList, Prox!Size, Prox!Pick
  <2>2. CASE Prox!Size > 0
    <3>1. Prox!Chosen \in 0 .. Prox!Size - 1
      BY <2>2, ProxInvTypes, ProxChosen
    <3> DEFINE r == [user[u] EXCEPT !.pc = "exchange", !.host = Prox!Server(Prox!Chosen).host]
    <3>2. Prox!Server(Prox!Chosen).host \in Hosts
      BY <3>1, <1>0 DEF Prox!Server, Prox!Size, Prox!Entry
    <3>3. ProxFits(r)
      BY <3>2, <1>u DEF ProxFits, ProxUser
    <3>4. /\ index' = Prox!Chosen /\ UNCHANGED <<list, due>>
          /\ user' = [user EXCEPT ![u].pc = "exchange",
                                  ![u].host = Prox!Server(Prox!Chosen).host]
      BY <1>4, <2>2, ~(Prox!Size = 0) DEF Prox!Pick
    <3>5. user' = [user EXCEPT ![u] = r]
      BY <3>4, <1>u DEF ProxUser
    <3> HIDE DEF r
    <3>6. user' \in [Threads -> ProxUser] /\ \A v \in Threads : ProxFits(user'[v])
      BY <3>3, <3>5, ProxUserStep
    <3> QED BY <3>1, <3>4, <3>6, <1>0 DEF ProxInv, Prox!IndexInList, Prox!Size
  <2> QED BY <2>1, <2>2, <1>0 DEF Prox!Size
<1>5. ASSUME NEW u \in Threads, Prox!Exchange(u) PROVE ProxInv'
  BY <1>5, <1>g DEF Prox!Exchange
<1>6. ASSUME NEW u \in Threads, Prox!Count(u) PROVE ProxInv'
  <2>1. list' \in [DOMAIN list -> Prox!Entry]
    BY <1>6, <1>0, ProxAssumption DEF Prox!Count, Prox!Entry
  <2>2. list' \in Seq(Prox!Entry) /\ Len(list') = Len(list)
    BY <2>1, MappedSeq DEF ProxInv
  <2> QED BY <1>6, <2>2, <1>a, ProxUserStep DEF ProxInv, Prox!IndexInList, Prox!Size, Prox!Count
<1>7. ASSUME Prox!IntervalPasses PROVE ProxInv'
  BY <1>7 DEF Prox!IntervalPasses, ProxInv, Prox!IndexInList, Prox!Size
<1>8. CASE UNCHANGED Prox!vars
  BY <1>8 DEF Prox!vars, ProxInv, Prox!IndexInList, Prox!Size
<1> QED BY <1>1, <1>2, <1>3, <1>4, <1>5, <1>6, <1>7, <1>8 DEF Prox!Next

LEMMA ProxFirst == Prox!Init => ProxInv
<1>1. <<>> \in Seq(Prox!Entry) /\ <<>> \in Seq(Hosts) /\ Len(<<>>) = 0
  BY EmptySeq
<1> QED BY <1>1, ProxAssumption DEF Prox!Init, ProxInv, ProxFits, ProxUser, Prox!Away, Prox!IndexInList

\* The invariant holds in every state of every execution of the parts.
THEOREM ProxAlways == Spec => []ProxInv
<1>1. Init => ProxInv
  BY ProxFirst DEF Init
<1>2. ProxInv /\ [Next]_vars => ProxInv'
  BY ProxStep, ProxSteps
<1> QED BY <1>1, <1>2, PTL DEF Spec

\* Whenever it is used, index_ is a position of the list of servers, however
\* long the list the router returned before was (IsgwProxy::refresh and
\* choose the server under one lock, refresh resets the index).
THEOREM ServerInList == Spec => []IndexInList
<1>1. ProxInv => IndexInList
  BY DEF ProxInv, IndexInList
<1> QED BY <1>1, ProxAlways, PTL

-----------------------------------------------------------------------------
(* Tasks with a queue of their own (IsgwTaskBase).                         *)

\* Some worker has taken the mark of stop.
TaskMarked == \E w \in Threads : worker[w] \in {"handing", "ended"}
\* m is in the queue, and no mark is before it.
TaskIsAhead(m) ==
  \E i \in 1 .. Len(taskQ) :
    taskQ[i] = m /\ \A j \in 1 .. i : taskQ[j] # None
\* A message accepted before stop was called is processed, or it is in the queue
\* before every mark: the mark is put once, last, and a worker that takes it
\* puts it last again. Once a worker has it, no such message is left.
TaskInv ==
  /\ Task!TypeOK
  /\ stopper \in {"not yet", "asks"} =>
       ~TaskMarked /\ \A i \in 1 .. Len(taskQ) : taskQ[i] # None
  /\ \A m \in early : m \in handled \/ TaskIsAhead(m)
  /\ \A i \in 1 .. Len(taskQ) : taskQ[i] # None => taskQ[i] \in early \cup late
  /\ TaskMarked => early \subseteq handled

\* What is put last leaves what is ahead where it is.
LEMMA TaskKeeps ==
  ASSUME TaskInv, NEW x, taskQ' = Append(taskQ, x), x \in Messages \cup {None}
  PROVE  /\ taskQ' \in Seq(Messages \cup {None})
         /\ Len(taskQ') = Len(taskQ) + 1
         /\ \A i \in 1 .. Len(taskQ) : taskQ'[i] = taskQ[i]
         /\ taskQ'[Len(taskQ) + 1] = x
         /\ \A i \in 1 .. Len(taskQ') :
              taskQ'[i] = x \/ (i \in 1 .. Len(taskQ) /\ taskQ'[i] = taskQ[i])
         /\ Len(taskQ) + 1 \in 1 .. Len(taskQ')
         /\ \A m : TaskIsAhead(m) => TaskIsAhead(m)'
<1>1. taskQ \in Seq(Messages \cup {None}) /\ Len(taskQ) \in Nat
  BY LenProperties DEF TaskInv, Task!TypeOK
<1>2. /\ taskQ' \in Seq(Messages \cup {None})
      /\ Len(taskQ') = Len(taskQ) + 1
      /\ \A i \in 1 .. Len(taskQ) : taskQ'[i] = taskQ[i]
      /\ taskQ'[Len(taskQ) + 1] = x
  BY <1>1, AppendProperties
<1>3. ASSUME NEW m, TaskIsAhead(m) PROVE TaskIsAhead(m)'
  <2>1. PICK i \in 1 .. Len(taskQ) : taskQ[i] = m /\ \A j \in 1 .. i : taskQ[j] # None
    BY <1>3 DEF TaskIsAhead
  <2>2. i \in 1 .. Len(taskQ') /\ taskQ'[i] = m /\ \A j \in 1 .. i : taskQ'[j] # None
    BY <1>1, <1>2, <2>1
  <2> QED BY <2>2 DEF TaskIsAhead
<1>4. \A i \in 1 .. Len(taskQ') :
        taskQ'[i] = x \/ (i \in 1 .. Len(taskQ) /\ taskQ'[i] = taskQ[i])
  BY <1>1, <1>2
<1>5. Len(taskQ) + 1 \in 1 .. Len(taskQ')
  BY <1>1, <1>2
<1> QED BY <1>2, <1>3, <1>4, <1>5

\* Taking the first leaves ahead what was ahead, unless it is what is taken.
LEMMA TaskTakes ==
  ASSUME TaskInv, taskQ # <<>>, taskQ' = Tail(taskQ)
  PROVE  /\ taskQ' \in Seq(Messages \cup {None})
         /\ Len(taskQ) > 0
         /\ Len(taskQ') = Len(taskQ) - 1
         /\ \A i \in 1 .. Len(taskQ') : i + 1 \in 1 .. Len(taskQ) /\ taskQ'[i] = taskQ[i + 1]
         /\ Head(taskQ) = taskQ[1]
         /\ taskQ[1] \in Messages \cup {None}
         /\ \A m : TaskIsAhead(m) => taskQ[1] # None /\ (taskQ[1] = m \/ TaskIsAhead(m)')
<1>1. taskQ \in Seq(Messages \cup {None}) /\ Len(taskQ) \in Nat
  BY LenProperties DEF TaskInv, Task!TypeOK
<1>2. /\ taskQ' \in Seq(Messages \cup {None})
      /\ Len(taskQ) > 0
      /\ Len(taskQ') = Len(taskQ) - 1
      /\ \A i \in 1 .. Len(taskQ') : i + 1 \in 1 .. Len(taskQ) /\ taskQ'[i] = taskQ[i + 1]
      /\ Head(taskQ) = taskQ[1]
      /\ taskQ[1] \in Messages \cup {None}
  BY <1>1, HeadTailProperties, ElementOfSeq, EmptySeq
<1>3. ASSUME NEW m, TaskIsAhead(m)
      PROVE  taskQ[1] # None /\ (taskQ[1] = m \/ TaskIsAhead(m)')
  <2>1. PICK i \in 1 .. Len(taskQ) : taskQ[i] = m /\ \A j \in 1 .. i : taskQ[j] # None
    BY <1>3 DEF TaskIsAhead
  <2>2. CASE i = 1
    BY <2>1, <2>2
  <2>3. CASE i > 1
    <3>1. i - 1 \in 1 .. Len(taskQ')
      BY <1>1, <1>2, <2>1, <2>3
    <3>2. taskQ'[i - 1] = m /\ \A j \in 1 .. i - 1 : taskQ'[j] # None
      BY <1>1, <1>2, <2>1, <2>3, <3>1
    <3>3. TaskIsAhead(m)'
      BY <3>1, <3>2 DEF TaskIsAhead
    <3> QED BY <3>3, <2>1
  <2> QED BY <2>1, <2>2, <2>3, <1>1
<1> QED BY <1>2, <1>3

LEMMA TaskSteps == TaskInv /\ [Task!Next]_(Task!vars) => TaskInv'
<1> SUFFICES ASSUME TaskInv, [Task!Next]_(Task!vars) PROVE TaskInv'
  OBVIOUS
<1>0. Len(taskQ) \in Nat
  BY LenProperties DEF TaskInv, Task!TypeOK
<1>n. stopper \in {"not yet", "asks"} => \A i \in 1 .. Len(taskQ) : taskQ[i] # None
  BY DEF TaskInv
<1>q. \A i \in 1 .. Len(taskQ) : taskQ[i] # None => taskQ[i] \in early \cup late
  BY DEF TaskInv
<1>1. ASSUME NEW m \in Messages, Task!Put(m) PROVE TaskInv'
  <2>1. taskQ' = Append(taskQ, m) /\ m \in Messages \cup {None} /\ m # None
    BY <1>1, TaskAssumption DEF Task!Put
  <2>2. /\ taskQ' \in Seq(Messages \cup {None})
        /\ taskQ'[Len(taskQ) + 1] = m
        /\ \A i \in 1 .. Len(taskQ') :
             taskQ'[i] = m \/ (i \in 1 .. Len(taskQ) /\ taskQ'[i] = taskQ[i])
        /\ Len(taskQ) + 1 \in 1 .. Len(taskQ')
        /\ \A n : TaskIsAhead(n) => TaskIsAhead(n)'
    BY <2>1, TaskKeeps
  <2>3. UNCHANGED TaskMarked /\ UNCHANGED <<worker, stopper, handled>>
    BY <1>1 DEF Task!Put, TaskMarked
  <2>4. CASE stopper = "not yet"
    <3>1. early' = early \cup {m} /\ late' = late
      BY <1>1, <2>4 DEF Task!Put
    <3>2. \A i \in 1 .. Len(taskQ') : taskQ'[i] # None
      BY <1>n, <2>1, <2>2, <2>4
    <3>3. TaskIsAhead(m)'
      <4>1. Len(taskQ) + 1 \in 1 .. Len(taskQ') /\ taskQ'[Len(taskQ) + 1] = m
        BY <2>2
      <4>2. \A j \in 1 .. Len(taskQ) + 1 : taskQ'[j] # None
        <5>1. \A j \in 1 .. Len(taskQ) + 1 : j \in 1 .. Len(taskQ')
          BY <1>0, <4>1
        <5> QED BY <3>2, <5>1
      <4> QED BY <4>1, <4>2 DEF TaskIsAhead
    <3>4. ~TaskMarked
      BY <2>4 DEF TaskInv
    <3>5. \A i \in 1 .. Len(taskQ') : taskQ'[i] \in early' \cup late'
      BY <1>n, <1>q, <2>2, <3>1, <2>4
    <3> HIDE DEF TaskMarked, TaskIsAhead
    <3> QED BY <2>1, <2>2, <2>3, <3>1, <3>2, <3>3, <3>4, <3>5 DEF TaskInv, Task!TypeOK
  <2>5. CASE stopper # "not yet"
    <3>1. late' = late \cup {m} /\ early' = early
      BY <1>1, <2>5 DEF Task!Put
    <3>2. stopper \in {"not yet", "asks"} => \A i \in 1 .. Len(taskQ') : taskQ'[i] # None
      BY <1>n, <2>1, <2>2
    <3>5. \A i \in 1 .. Len(taskQ') : taskQ'[i] # None => taskQ'[i] \in early' \cup late'
      BY <1>q, <2>2, <3>1
    <3> QED BY <2>1, <2>2, <2>3, <3>1, <3>2, <3>5 DEF TaskInv, Task!TypeOK
  <2> QED BY <2>4, <2>5
<1>2. ASSUME Task!CallStop PROVE TaskInv'
  <2>1. /\ UNCHANGED <<taskQ, worker, early, late, handled>>
        /\ stopper = "not yet" /\ stopper' = "asks"
    BY <1>2 DEF Task!CallStop
  <2>2. UNCHANGED TaskMarked /\ \A m : TaskIsAhead(m) => TaskIsAhead(m)'
    BY <2>1 DEF TaskMarked, TaskIsAhead
  <2>3. Task!TypeOK'
    BY <2>1 DEF TaskInv, Task!TypeOK
  <2>4. ~TaskMarked /\ \A i \in 1 .. Len(taskQ) : taskQ[i] # None
    BY <2>1 DEF TaskInv
  <2>5. ~TaskMarked' /\ \A i \in 1 .. Len(taskQ') : taskQ'[i] # None
    BY <2>1, <2>2, <2>4
  <2>6. \A m \in early' : m \in handled' \/ TaskIsAhead(m)'
    BY <2>1, <2>2 DEF TaskInv
  <2>7. \A i \in 1 .. Len(taskQ') : taskQ'[i] # None => taskQ'[i] \in early' \cup late'
    BY <1>q, <2>1
  <2> HIDE DEF TaskMarked, TaskIsAhead
  <2> QED BY <2>3, <2>5, <2>6, <2>7 DEF TaskInv
<1>m. ASSUME Task!PutMark PROVE 
        /\ taskQ' \in Seq(Messages \cup {None})
        /\ \A n : TaskIsAhead(n) => TaskIsAhead(n)'
        /\ \A i \in 1 .. Len(taskQ') : taskQ'[i] # None => i \in 1 .. Len(taskQ) /\ taskQ'[i] = taskQ[i]
  <2>1. taskQ' = Append(taskQ, None)
    BY <1>m DEF Task!PutMark
  <2>2. /\ taskQ' \in Seq(Messages \cup {None})
        /\ Len(taskQ') = Len(taskQ) + 1
        /\ \A i \in 1 .. Len(taskQ) : taskQ'[i] = taskQ[i]
        /\ taskQ'[Len(taskQ) + 1] = None
        /\ \A n : TaskIsAhead(n) => TaskIsAhead(n)'
    BY <2>1, TaskKeeps
  <2> QED BY <1>0, <2>2
<1>3. ASSUME Task!AskedToStop PROVE TaskInv'
  <2>1. Task!PutMark
    BY <1>3 DEF Task!AskedToStop
  <2>2. UNCHANGED <<worker, early, late, handled, TaskMarked>> /\ stopper' = "waits"
    BY <1>3 DEF Task!AskedToStop, TaskMarked
  <2> QED BY <2>2, <1>m, <2>1 DEF TaskInv, Task!TypeOK
<1>4. ASSUME Task!Waited PROVE TaskInv'
  BY <1>4 DEF Task!Waited, TaskInv, Task!TypeOK, TaskMarked, TaskIsAhead
<1>t. ASSUME taskQ # <<>>, taskQ' = Tail(taskQ)
      PROVE /\ taskQ' \in Seq(Messages \cup {None})
            /\ Head(taskQ) = taskQ[1] /\ taskQ[1] \in Messages \cup {None}
            /\ 1 \in 1 .. Len(taskQ)
            /\ \A i \in 1 .. Len(taskQ') : i + 1 \in 1 .. Len(taskQ) /\ taskQ'[i] = taskQ[i + 1]
            /\ \A m : TaskIsAhead(m) => taskQ[1] # None /\ (taskQ[1] = m \/ TaskIsAhead(m)')
  <2>1. Len(taskQ) > 0
    BY <1>t, TaskTakes
  <2>2. 1 \in 1 .. Len(taskQ)
    BY <1>0, <2>1
  <2> QED BY <1>t, <2>2, TaskTakes
<1>5. ASSUME NEW w \in Threads, Task!Take(w) PROVE TaskInv'
  <2>1. taskQ # <<>> /\ taskQ' = Tail(taskQ) /\ Head(taskQ) # None
    BY <1>5 DEF Task!Take
  <2>2. handled' = handled \cup {taskQ[1]} /\ UNCHANGED <<stopper, early, late>> /\ taskQ[1] # None
    BY <1>5, <1>t, <2>1 DEF Task!Take
  <2>3. worker' \in [Threads -> {"get", "handing", "ended", "failed"}] /\ UNCHANGED TaskMarked
    BY <1>5 DEF Task!Take, TaskInv, Task!TypeOK, TaskMarked
  <2>4. \A m \in early : m \in handled' \/ TaskIsAhead(m)'
    BY <1>t, <2>1, <2>2 DEF TaskInv
  <2>5. taskQ[1] \in early \cup late
    BY <1>q, <1>t, <2>1, <2>2
  <2>6. \A i \in 1 .. Len(taskQ') : taskQ'[i] # None => taskQ'[i] \in early \cup late
    BY <1>q, <1>t, <2>1
  <2>7. stopper \in {"not yet", "asks"} => \A i \in 1 .. Len(taskQ') : taskQ'[i] # None
    BY <1>n, <1>t, <2>1
  <2> QED BY <1>t, <2>1, <2>2, <2>3, <2>4, <2>5, <2>6, <2>7 DEF TaskInv, Task!TypeOK
<1>6. ASSUME NEW w \in Threads, Task!TakeMark(w) PROVE TaskInv'
  <2>1. taskQ # <<>> /\ taskQ' = Tail(taskQ) /\ Head(taskQ) = None
    BY <1>6 DEF Task!TakeMark
  <2>2. UNCHANGED <<stopper, early, late, handled>> /\ taskQ[1] = None
    BY <1>6, <1>t, <2>1 DEF Task!TakeMark
  <2>3. worker' \in [Threads -> {"get", "handing", "ended", "failed"}]
    BY <1>6 DEF Task!TakeMark, TaskInv, Task!TypeOK
  <2>4. early \subseteq handled
    BY <1>t, <2>1, <2>2 DEF TaskInv
  <2>5. stopper \notin {"not yet", "asks"}
    BY <1>n, <1>t, <2>1, <2>2
  <2>6. \A i \in 1 .. Len(taskQ') : taskQ'[i] # None => taskQ'[i] \in early \cup late
    BY <1>q, <1>t, <2>1
  <2> QED BY <1>t, <2>1, <2>2, <2>3, <2>4, <2>5, <2>6 DEF TaskInv, Task!TypeOK
<1>7. ASSUME NEW w \in Threads, Task!HandOn(w) PROVE TaskInv'
  <2>1. Task!PutMark
    BY <1>7 DEF Task!HandOn
  <2>2. UNCHANGED <<stopper, early, late, handled>> /\ TaskMarked
    BY <1>7 DEF Task!HandOn, TaskMarked
  <2>3. worker' \in [Threads -> {"get", "handing", "ended", "failed"}]
    BY <1>7 DEF Task!HandOn, TaskInv, Task!TypeOK
  <2>4. early \subseteq handled /\ stopper \notin {"not yet", "asks"}
    BY <2>2 DEF TaskInv
  <2> QED BY <1>m, <2>1, <2>2, <2>3, <2>4 DEF TaskInv, Task!TypeOK
<1>8. CASE UNCHANGED Task!vars
  <2>1. UNCHANGED <<taskQ, worker, stopper, early, late, handled>>
    BY <1>8 DEF Task!vars
  <2>2. UNCHANGED TaskMarked /\ \A m : TaskIsAhead(m)' <=> TaskIsAhead(m)
    BY <2>1 DEF TaskMarked, TaskIsAhead
  <2> QED BY <2>1, <2>2 DEF Task!vars, TaskInv, Task!TypeOK, TaskMarked, TaskIsAhead
<1> QED BY <1>1, <1>2, <1>3, <1>4, <1>5, <1>6, <1>7, <1>8 DEF Task!Next, Task!WorkerStep

LEMMA TaskStep == [Next]_vars => [Task!Next]_(Task!vars)
BY DEF Next, vars, others, taskVars, Task!vars

LEMMA TaskFirst == Task!Init => TaskInv
<1> SUFFICES ASSUME Task!Init PROVE TaskInv
  OBVIOUS
<1>1. taskQ \in Seq(Messages \cup {None}) /\ Len(taskQ) = 0
  BY EmptySeq DEF Task!Init
<1>2. 1 .. Len(taskQ) = {}
  BY <1>1
<1> QED BY <1>1, <1>2 DEF Task!Init, TaskInv, Task!TypeOK, TaskMarked

\* The invariant holds in every state of every execution of the parts.
THEOREM TaskAlways == Spec => []TaskInv
<1>1. Init => TaskInv
  BY TaskFirst DEF Init
<1>2. TaskInv /\ [Next]_vars => TaskInv'
  BY TaskStep, TaskSteps
<1> QED BY <1>1, <1>2, PTL DEF Spec

\* When stop returns and some worker ended by the mark, every message accepted before
\* stop was called has been processed (IsgwTaskBase: putq, svc and stop, the mark passed
\* on from worker to worker).
THEOREM AllAccepted == Spec => []AcceptedIsProcessed
<1>1. TaskInv => AcceptedIsProcessed
  BY DEF TaskInv, TaskMarked, AcceptedIsProcessed, Task!AcceptedIsProcessed
<1> QED BY <1>1, TaskAlways, PTL

-----------------------------------------------------------------------------
(* Answers processed here (ASYTask).                                       *)

\* What a thread has of an answer it processes.
AsyTaken == [req : Asy!AsyReqs, at : {"find", "own", "missed", "none"}]
\* The answer to r is in the queue; thread t has it.
AsyQueued(r) == \E i \in 1 .. Len(asyQ) : asyQ[i] = r
AsyHas(t, r) == taken[t] # None /\ taken[t].req = r
\* The answer to a request is at one place: the wire, the queue or a thread.
AsyOnce ==
  /\ \A i, j \in 1 .. Len(asyQ) : asyQ[i] = asyQ[j] => i = j
  /\ \A t, u \in Threads : \A r \in Asy!AsyReqs : AsyHas(t, r) /\ AsyHas(u, r) => t = u
  /\ \A r \in Asy!AsyReqs : AsyQueued(r) => r \notin wire
  /\ \A t \in Threads : \A r \in Asy!AsyReqs : AsyHas(t, r) => r \notin wire /\ ~AsyQueued(r)
AsySent(r) == r \in wire \/ AsyQueued(r) \/ \E t \in Threads : AsyHas(t, r)
\* A context is taken from the pool only by the answer to its own request, or
\* because it is too old: until then it is there.
AsyKept ==
  /\ \A r \in Asy!AsyReqs : AsySent(r) => stage[r] \in {"sent", "failed"}
  /\ \A r \in Asy!AsyReqs : stage[r] = "inserted" => r \in rec \cup aged
  /\ \A r \in wire : r \in rec \cup aged
  /\ \A i \in 1 .. Len(asyQ) : asyQ[i] \in rec \cup aged
  /\ \A t \in Threads : taken[t] # None =>
       /\ taken[t].at = "find" => taken[t].req \in rec \cup aged
       /\ taken[t].at = "none" => taken[t].req \in aged
\* A request whose context went in front of another's had a twin before it, and a
\* twin has no other twin: so the older one is not in front of anything.
AsyFront ==
  /\ \A r \in rec : stage[r] # "new"
  /\ \A r \in front : \E q \in Asy!Twins(r) : stage[q] # "new" /\ q \notin front
  /\ \A t \in Threads : taken[t] # None /\ taken[t].at = "missed" => taken[t].req \in front
\* Answers were served without a context for two reasons only.
AsyServed ==
  \A r \in Asy!AsyReqs : /\ served[r] = "none" => r \in aged
                         /\ served[r] = "missed" => r \in front
AsyInv == Asy!TypeOK /\ AsyOnce /\ AsyKept /\ AsyFront /\ AsyServed

LEMMA AsyInvImplies == AsyInv => Asy!ContextIsFound
BY DEF AsyInv, AsyFront, AsyServed, Asy!ContextIsFound

\* There are two counters, so a number is given twice at most.
LEMMA AsyTwins ==
  ASSUME NEW r \in Asy!AsyReqs, NEW q \in Asy!Twins(r)
  PROVE  q # r /\ q \in Asy!AsyReqs /\ \A p \in Asy!Twins(q) : p = r
<1>1. ASSUME NEW x \in Asy!AsyReqs
      PROVE  x = <<x[1], x[2]>> /\ x[1] \in {"tcp", "udp"}
  BY DEF Asy!AsyReqs
<1>2. q \in Asy!AsyReqs /\ q # r /\ q[2] = r[2]
  BY DEF Asy!Twins, Asy!Seq_no
<1>5. ASSUME NEW x \in Asy!AsyReqs, NEW y \in Asy!AsyReqs, x[1] = y[1], x[2] = y[2]
      PROVE  x = y
  <2>1. x = <<x[1], x[2]>>
    BY <1>1
  <2>2. y = <<y[1], y[2]>>
    BY <1>1
  <2> QED BY <1>5, <2>1, <2>2, Zenon
<1>3. q[1] # r[1]
  BY <1>2, <1>5
<1>4. ASSUME NEW p \in Asy!Twins(q) PROVE p = r
  <2>1. p \in Asy!AsyReqs /\ p # q /\ p[2] = q[2]
    BY DEF Asy!Twins, Asy!Seq_no
  <2>2. p[1] # q[1]
    BY <1>2, <1>5, <2>1
  <2>3. /\ p[1] \in {"tcp", "udp"}
        /\ q[1] \in {"tcp", "udp"}
        /\ r[1] \in {"tcp", "udp"}
    <3>1. p \in Asy!AsyReqs /\ q \in Asy!AsyReqs
      BY <1>2, <2>1
    <3> QED BY <3>1, <1>1, Zenon
  <2>4. p[1] = r[1] /\ p[2] = r[2]
    BY <1>2, <1>3, <2>1, <2>2, <2>3
  <2> QED BY <1>5, <2>1, <2>4
<1> QED BY <1>2, <1>4

\* Contexts go, requests go on, and nothing else is found missing.
LEMMA AsyFrontStays ==
  ASSUME AsyFront, UNCHANGED front, rec \subseteq Asy!AsyReqs, rec' \subseteq rec,
         \A r \in Asy!AsyReqs : stage[r] # "new" => stage'[r] # "new",
         \A t \in Threads : taken'[t] # None /\ taken'[t].at = "missed" =>
                              taken'[t].req \in front
  PROVE  AsyFront'
BY DEF AsyFront, Asy!Twins

LEMMA AsyPurged ==
  ASSUME NEW S, NEW F, NEW T \in Asy!Purged(S, F)
  PROVE  T \subseteq S /\ S \subseteq T \cup aged
BY DEF Asy!Purged

LEMMA AsyTypes ==
  AsyInv => /\ Len(asyQ) \in Nat
            /\ \A i \in 1 .. Len(asyQ) : asyQ[i] \in Asy!AsyReqs
            /\ \A t \in Threads : taken[t] = None \/ taken[t] \in AsyTaken
BY LenProperties, ElementOfSeq DEF AsyInv, Asy!TypeOK, AsyTaken

\* Requests that were sent stay where they are when only contexts change.
LEMMA AsyStays ==
  ASSUME UNCHANGED <<wire, asyQ, taken>>
  PROVE  /\ UNCHANGED AsyOnce
         /\ \A r : AsySent(r)' <=> AsySent(r)
BY DEF AsyOnce, AsySent, AsyQueued, AsyHas

LEMMA AsySteps == AsyInv /\ [Asy!Next]_(Asy!vars) => AsyInv'
<1> SUFFICES ASSUME AsyInv, [Asy!Next]_(Asy!vars) PROVE AsyInv'
  OBVIOUS
<1>0. /\ Len(asyQ) \in Nat
      /\ \A i \in 1 .. Len(asyQ) : asyQ[i] \in Asy!AsyReqs
      /\ \A t \in Threads : taken[t] = None \/ taken[t] \in AsyTaken
  BY AsyTypes
<1>t. rec \subseteq Asy!AsyReqs
  BY DEF AsyInv, Asy!TypeOK
<1>n. None \notin AsyTaken /\ None \notin {"passed", "dropped", "own", "missed", "none"}
  BY AsyAssumption DEF AsyTaken
<1>1. ASSUME NEW r \in Asy!AsyReqs, Asy!Insert(r) PROVE AsyInv'
  <2>1. AsyOnce' /\ \A q : AsySent(q)' <=> AsySent(q)
    BY <1>1, AsyStays DEF Asy!Insert, AsyInv
  <2>2. rec' \subseteq rec \cup {r} /\ rec \cup {r} \subseteq rec' \cup aged
    BY <1>1, AsyPurged DEF Asy!Insert
  <2>3. ~AsySent(r)
    BY <1>1 DEF Asy!Insert, AsyInv, AsyKept
  <2>4. AsyKept'
    <3>1. /\ stage[r] = "new" /\ stage' = [stage EXCEPT ![r] = "inserted"]
          /\ UNCHANGED <<aged, wire, asyQ, taken>>
      BY <1>1 DEF Asy!Insert
    <3>2. stage \in [Asy!AsyReqs -> {"new", "inserted", "sent", "failed"}]
      BY DEF AsyInv, Asy!TypeOK
    <3> HIDE DEF AsySent
    <3> QED BY <2>1, <2>2, <2>3, <3>1, <3>2 DEF AsyInv, AsyKept
  <2>5. Asy!TypeOK'
    BY <1>1, <2>2 DEF AsyInv, Asy!TypeOK, Asy!Insert
  <2>6. /\ stage[r] = "new" /\ stage' = [stage EXCEPT ![r] = "inserted"]
        /\ front' = IF Asy!Twins(r) \cap rec # {} THEN front \cup {r} ELSE front
        /\ UNCHANGED <<aged, taken, served>>
    BY <1>1 DEF Asy!Insert
  <2>7. \A q : q # r => (stage'[q] # "new" <=> stage[q] # "new")
    BY <2>6 DEF AsyInv, Asy!TypeOK
  <2>8. \A q \in rec' : stage'[q] # "new"
    BY <2>2, <2>6, <2>7 DEF AsyInv, AsyFront, Asy!TypeOK
  <2>9. r \notin front' \/ \E q \in Asy!Twins(r) : stage'[q] # "new" /\ q \notin front'
    <3>1. CASE Asy!Twins(r) \cap rec = {} /\ r \notin front
      BY <2>6, <3>1
    <3>2. CASE r \in front
      <4>1. PICK q \in Asy!Twins(r) : stage[q] # "new" /\ q \notin front
        BY <3>2 DEF AsyInv, AsyFront
      <4> QED BY <2>6, <2>7, <4>1, AsyTwins
    <3>3. CASE Asy!Twins(r) \cap rec # {}
      <4>1. PICK q \in Asy!Twins(r) : q \in rec
        BY <3>3
      <4>2. stage[q] # "new" /\ q # r /\ \A p \in Asy!Twins(q) : p = r
        BY <4>1, AsyTwins DEF AsyInv, AsyFront
      <4>3. q \notin front
        BY <2>6, <4>2 DEF AsyInv, AsyFront
      <4> QED BY <2>6, <2>7, <4>2, <4>3
    <3> QED BY <3>1, <3>2, <3>3
  <2>10. ASSUME NEW q \in front, q # r
         PROVE  \E p \in Asy!Twins(q) : stage'[p] # "new" /\ p \notin front'
    <3>1. PICK p \in Asy!Twins(q) : stage[p] # "new" /\ p \notin front
      BY DEF AsyInv, AsyFront
    <3> QED BY <2>6, <2>7, <3>1
  <2>11. AsyFront'
    <3>1. \A q \in front' : \E p \in Asy!Twins(q) : stage'[p] # "new" /\ p \notin front'
      BY <2>6, <2>9, <2>10
    <3>2. \A t \in Threads : taken'[t] # None /\ taken'[t].at = "missed" => taken'[t].req \in front'
      BY <2>6 DEF AsyInv, AsyFront
    <3> QED BY <2>8, <3>1, <3>2 DEF AsyFront, Asy!Twins
  <2>12. AsyServed'
    BY <2>6 DEF AsyInv, AsyServed
  <2> QED BY <2>1, <2>4, <2>5, <2>11, <2>12 DEF AsyInv
<1>2. ASSUME NEW r \in Asy!AsyReqs, Asy!Send(r) PROVE AsyInv'
  <2>1. /\ stage[r] = "inserted" /\ UNCHANGED <<rec, front, aged, asyQ, taken, served>>
        /\ \/ wire' = wire \cup {r} /\ stage' = [stage EXCEPT ![r] = "sent"]
           \/ UNCHANGED wire /\ stage' = [stage EXCEPT ![r] = "failed"]
    <3>1. stage \in [Asy!AsyReqs -> {"new", "inserted", "sent", "failed"}]
      BY DEF AsyInv, Asy!TypeOK
    <3> QED BY <1>2, <3>1 DEF Asy!Send, Asy!Ready
  <2>2. ~AsySent(r) /\ r \in rec \cup aged
    BY <2>1 DEF AsyInv, AsyKept
  <2>3. \A q : AsyQueued(q)' <=> AsyQueued(q)
    BY <2>1 DEF AsyQueued
  <2>4. \A q, t : AsyHas(t, q)' <=> AsyHas(t, q)
    BY <2>1 DEF AsyHas
  <2>5. stage' \in [Asy!AsyReqs -> {"new", "inserted", "sent", "failed"}]
    BY <2>1 DEF AsyInv, Asy!TypeOK
  <2>6. AsyOnce'
    <3>1. \A t \in Threads : ~AsyHas(t, r)
      BY <2>2 DEF AsySent
    <3>2. ~AsyQueued(r)
      BY <2>2 DEF AsySent
    <3> HIDE DEF AsyHas, AsyQueued
    <3>3. \A i, j \in 1 .. Len(asyQ') : asyQ'[i] = asyQ'[j] => i = j
      BY <2>1 DEF AsyOnce, AsyInv
    <3> QED BY <2>1, <2>3, <2>4, <3>1, <3>2, <3>3 DEF AsyInv, AsyOnce
  <2>7. AsyKept'
    <3>1. \A q \in Asy!AsyReqs : AsySent(q)' => stage'[q] \in {"sent", "failed"}
      <4> SUFFICES ASSUME NEW q \in Asy!AsyReqs, AsySent(q)' PROVE stage'[q] \in {"sent", "failed"}
        OBVIOUS
      <4>1. AsySent(q) \/ q = r
        BY <2>1, <2>3, <2>4 DEF AsySent
      <4> HIDE DEF AsySent
      <4> QED BY <4>1, <2>1, <2>5 DEF AsyInv, AsyKept, Asy!TypeOK
    <3>2. \A q \in Asy!AsyReqs : stage'[q] = "inserted" => q \in rec' \cup aged'
      BY <2>1 DEF AsyInv, AsyKept, Asy!TypeOK
    <3>3. /\ \A q \in wire' : q \in rec' \cup aged'
          /\ \A i \in 1 .. Len(asyQ') : asyQ'[i] \in rec' \cup aged'
          /\ \A t \in Threads : taken'[t] # None =>
               /\ taken'[t].at = "find" => taken'[t].req \in rec' \cup aged'
               /\ taken'[t].at = "none" => taken'[t].req \in aged'
      BY <2>1, <2>2 DEF AsyInv, AsyKept
    <3> QED BY <3>1, <3>2, <3>3 DEF AsyKept
  <2>8. Asy!TypeOK'
    BY <2>1, <2>5 DEF AsyInv, Asy!TypeOK
  <2>9. AsyFront'
    <3>1. \A q \in Asy!AsyReqs : stage[q] # "new" => stage'[q] # "new"
      BY <2>1 DEF AsyInv, Asy!TypeOK
    <3> QED BY <1>t, <2>1, <3>1, AsyFrontStays DEF AsyInv, AsyFront
  <2> QED BY <2>1, <2>6, <2>7, <2>8, <2>9 DEF AsyInv, AsyServed
\* fewer answers are on their way, the rest stays
<1>w. ASSUME wire' \subseteq wire, UNCHANGED <<stage, rec, front, aged, asyQ, taken>>
      PROVE  AsyOnce' /\ AsyKept' /\ AsyFront'
  <2>1. \A q : AsyQueued(q)' <=> AsyQueued(q)
    BY <1>w DEF AsyQueued
  <2>2. \A q, t : AsyHas(t, q)' <=> AsyHas(t, q)
    BY <1>w DEF AsyHas
  <2>3. \A q : AsySent(q)' => AsySent(q)
    BY <1>w, <2>1, <2>2 DEF AsySent
  <2>4. \A i, j \in 1 .. Len(asyQ') : asyQ'[i] = asyQ'[j] => i = j
    BY <1>w DEF AsyOnce, AsyInv
  <2> HIDE DEF AsyHas, AsyQueued, AsySent
  <2>5. AsyOnce'
    BY <1>w, <2>1, <2>2, <2>4 DEF AsyInv, AsyOnce
  <2>6. AsyKept'
    BY <1>w, <2>3 DEF AsyInv, AsyKept
  <2>7. AsyFront'
    BY <1>t, <1>w, AsyFrontStays DEF AsyInv, AsyFront
  <2> QED BY <2>5, <2>6, <2>7
<1>3. ASSUME NEW r \in Asy!AsyReqs, Asy!Arrive(r) PROVE AsyInv'
  <2>0. r \in wire /\ wire' = wire \ {r} /\ UNCHANGED <<stage, rec, front, aged, taken>>
    BY <1>3 DEF Asy!Arrive
  <2>1. CASE UNCHANGED asyQ
    <3>1. AsyOnce' /\ AsyKept' /\ AsyFront'
      BY <1>w, <2>0, <2>1
    <3>2. \E how \in {"passed", "dropped"} : served' = [served EXCEPT ![r] = how] \/ served' = served
      BY <1>3 DEF Asy!Arrive, Asy!Leave
    <3>3. Asy!TypeOK' /\ AsyServed'
      BY <2>0, <2>1, <3>2 DEF AsyInv, Asy!TypeOK, AsyServed
    <3> QED BY <3>1, <3>3 DEF AsyInv
  <2>2. CASE asyQ' = Append(asyQ, r) /\ UNCHANGED served
    <3>1. /\ asyQ' \in Seq(Asy!AsyReqs)
          /\ Len(asyQ') = Len(asyQ) + 1
          /\ \A i \in 1 .. Len(asyQ) : asyQ'[i] = asyQ[i]
          /\ asyQ'[Len(asyQ) + 1] = r
      BY <2>2, AppendProperties DEF AsyInv, Asy!TypeOK
    <3>2. \A i \in 1 .. Len(asyQ') :
             (i \in 1 .. Len(asyQ) /\ asyQ'[i] = asyQ[i]) \/ (i = Len(asyQ) + 1 /\ asyQ'[i] = r)
      BY <1>0, <3>1
    <3>3. ~AsyQueued(r) /\ \A t \in Threads : ~AsyHas(t, r)
      BY <2>0 DEF AsyInv, AsyOnce
    <3>4. \A q : AsyQueued(q)' => AsyQueued(q) \/ q = r
      BY <3>2 DEF AsyQueued
    <3>5. \A i, j \in 1 .. Len(asyQ') : asyQ'[i] = asyQ'[j] => i = j
      <4> SUFFICES ASSUME NEW i \in 1 .. Len(asyQ'), NEW j \in 1 .. Len(asyQ'), asyQ'[i] = asyQ'[j]
                   PROVE i = j
        OBVIOUS
      <4>1. \A k \in 1 .. Len(asyQ) : asyQ[k] # r
        BY <3>3 DEF AsyQueued
      <4> QED BY <3>2, <4>1 DEF AsyInv, AsyOnce
    <3>6. \A q, t : AsyHas(t, q)' <=> AsyHas(t, q)
      BY <2>0 DEF AsyHas
    <3>7. AsyOnce'
      <4> HIDE DEF AsyHas, AsyQueued
      <4> QED BY <2>0, <3>3, <3>4, <3>5, <3>6 DEF AsyInv, AsyOnce
    <3>8. \A q : AsySent(q)' => AsySent(q)
      BY <2>0, <3>4, <3>6 DEF AsySent
    <3>9. AsyKept'
      <4>1. \A i \in 1 .. Len(asyQ') : asyQ'[i] \in rec \cup aged
        BY <2>0, <3>2 DEF AsyInv, AsyKept
      <4> HIDE DEF AsySent
      <4> QED BY <2>0, <3>8, <4>1 DEF AsyInv, AsyKept
    <3>10. Asy!TypeOK' /\ AsyServed'
      BY <2>0, <2>2, <3>1 DEF AsyInv, Asy!TypeOK, AsyServed
    <3>11. AsyFront'
      BY <1>t, <2>0, AsyFrontStays DEF AsyInv, AsyFront
    <3> QED BY <3>7, <3>9, <3>10, <3>11 DEF AsyInv
  <2> QED BY <1>3, <2>1, <2>2 DEF Asy!Arrive
<1>4. ASSUME NEW r \in Asy!AsyReqs, Asy!Age(r) PROVE AsyInv'
  <2>1. AsyOnce' /\ \A q : AsySent(q)' <=> AsySent(q)
    BY <1>4, AsyStays DEF Asy!Age, AsyInv
  <2>2. AsyKept'
    BY <1>4, <2>1 DEF AsyInv, AsyKept, Asy!Age
  <2>3. AsyFront'
    BY <1>t, <1>4, AsyFrontStays DEF AsyInv, AsyFront, Asy!Age
  <2> QED BY <1>4, <2>1, <2>2, <2>3 DEF AsyInv, Asy!Age, Asy!TypeOK, AsyServed
<1>5. ASSUME Asy!ConnectionLost PROVE AsyInv'
  <2>1. AsyOnce' /\ AsyKept' /\ AsyFront'
    BY <1>5, <1>w DEF Asy!ConnectionLost
  <2> QED BY <1>5, <2>1 DEF AsyInv, Asy!ConnectionLost, Asy!TypeOK, AsyServed
<1>6. ASSUME NEW t \in Threads, Asy!Take(t) PROVE AsyInv'
  <2>0. /\ taken[t] = None /\ asyQ # <<>> /\ asyQ' = Tail(asyQ)
        /\ taken' = [taken EXCEPT ![t] = [req |-> Head(asyQ), at |-> "find"]]
        /\ UNCHANGED <<stage, rec, front, aged, wire, served>>
    BY <1>6 DEF Asy!Take
  <2>1. /\ asyQ' \in Seq(Asy!AsyReqs)
        /\ 1 \in 1 .. Len(asyQ)
        /\ Head(asyQ) = asyQ[1]
        /\ \A i \in 1 .. Len(asyQ') : i + 1 \in 1 .. Len(asyQ) /\ i + 1 # 1 /\ asyQ'[i] = asyQ[i + 1]
    <3>1. asyQ \in Seq(Asy!AsyReqs)
      BY DEF AsyInv, Asy!TypeOK
    <3>2. /\ asyQ' \in Seq(Asy!AsyReqs) /\ Len(asyQ') = Len(asyQ) - 1
          /\ Head(asyQ) = asyQ[1] /\ Len(asyQ) > 0
          /\ \A i \in 1 .. Len(asyQ') : asyQ'[i] = asyQ[i + 1]
      BY <2>0, <3>1, <1>0, HeadTailProperties, EmptySeq
    <3> QED BY <3>2, <1>0
  <2>r. PICK r : r = asyQ[1]
    OBVIOUS
  <2>2. r \in Asy!AsyReqs /\ AsyQueued(r) /\ r \notin wire /\ \A u \in Threads : ~AsyHas(u, r)
    BY <1>0, <2>1, <2>r DEF AsyQueued, AsyInv, AsyOnce
  <2>3. \A q : AsyQueued(q)' => AsyQueued(q)
    BY <2>1 DEF AsyQueued
  <2>4. ~AsyQueued(r)'
    <3>1. \A i, j \in 1 .. Len(asyQ) : asyQ[i] = asyQ[j] => i = j
      BY DEF AsyInv, AsyOnce
    <3>2. ASSUME NEW i \in 1 .. Len(asyQ'), asyQ'[i] = r PROVE FALSE
      <4>1. i + 1 \in 1 .. Len(asyQ) /\ i + 1 # 1 /\ asyQ[i + 1] = asyQ[1]
        BY <3>2, <2>1, <2>r
      <4>2. i + 1 = 1
        BY <3>1, <4>1, <2>1
      <4> QED BY <4>1, <4>2
    <3> QED BY <3>2 DEF AsyQueued
  <2>5. \A u \in Threads : taken'[u] = IF u = t THEN [req |-> r, at |-> "find"] ELSE taken[u]
    BY <2>0, <2>1, <2>r DEF AsyInv, Asy!TypeOK
  <2>6. [req |-> r, at |-> "find"] \in AsyTaken
    BY <2>2 DEF AsyTaken
  <2>7. \A u \in Threads : \A q : AsyHas(u, q)' <=> IF u = t THEN q = r ELSE AsyHas(u, q)
    BY <2>5, <2>6, <1>n DEF AsyHas
  <2>8. \A i, j \in 1 .. Len(asyQ') : asyQ'[i] = asyQ'[j] => i = j
    <3>1. \A i, j \in 1 .. Len(asyQ) : asyQ[i] = asyQ[j] => i = j
      BY DEF AsyInv, AsyOnce
    <3> SUFFICES ASSUME NEW i \in 1 .. Len(asyQ'), NEW j \in 1 .. Len(asyQ'), asyQ'[i] = asyQ'[j]
                 PROVE i = j
      OBVIOUS
    <3>2. i + 1 = j + 1
      BY <3>1, <2>1
    <3> QED BY <3>2
  <2>9. AsyOnce'
    <3>1. \A u, v \in Threads : \A q \in Asy!AsyReqs : AsyHas(u, q)' /\ AsyHas(v, q)' => u = v
      <4>1. \A u, v \in Threads : \A q \in Asy!AsyReqs : AsyHas(u, q) /\ AsyHas(v, q) => u = v
        BY DEF AsyInv, AsyOnce
      <4> HIDE DEF AsyHas
      <4> QED BY <2>2, <2>7, <4>1
    <3>2. \A q \in Asy!AsyReqs : AsyQueued(q)' => q \notin wire'
      <4>1. \A q \in Asy!AsyReqs : AsyQueued(q) => q \notin wire
        BY DEF AsyInv, AsyOnce
      <4> HIDE DEF AsyQueued
      <4> QED BY <2>0, <2>3, <4>1
    <3>3. \A u \in Threads : \A q \in Asy!AsyReqs : AsyHas(u, q)' => q \notin wire' /\ ~AsyQueued(q)'
      <4>1. \A u \in Threads : \A q \in Asy!AsyReqs : AsyHas(u, q) => q \notin wire /\ ~AsyQueued(q)
        BY DEF AsyInv, AsyOnce
      <4> HIDE DEF AsyHas, AsyQueued
      <4> QED BY <2>0, <2>2, <2>3, <2>4, <2>7, <4>1
    <3> HIDE DEF AsyHas, AsyQueued
    <3> QED BY <2>8, <3>1, <3>2, <3>3 DEF AsyOnce
  <2>10. \A q : AsySent(q)' => AsySent(q)
    BY <2>0, <2>2, <2>3, <2>7 DEF AsySent
  <2>11. AsyKept'
    <3>1. r \in rec \cup aged /\ \A i \in 1 .. Len(asyQ') : asyQ'[i] \in rec \cup aged
      BY <2>1, <2>r DEF AsyInv, AsyKept
    <3>2. \A u \in Threads : taken'[u] # None =>
               /\ taken'[u].at = "find" => taken'[u].req \in rec \cup aged
               /\ taken'[u].at = "none" => taken'[u].req \in aged
      BY <2>5, <3>1 DEF AsyInv, AsyKept
    <3> HIDE DEF AsySent
    <3> QED BY <2>0, <2>10, <3>1, <3>2 DEF AsyInv, AsyKept
  <2>12. Asy!TypeOK'
    BY <2>0, <2>1, <2>6, <2>r DEF AsyInv, Asy!TypeOK, AsyTaken
  <2>13. AsyFront'
    <3>1. \A u \in Threads : taken'[u] # None /\ taken'[u].at = "missed" => taken'[u].req \in front
      BY <2>5 DEF AsyInv, AsyFront
    <3> QED BY <1>t, <2>0, <3>1, AsyFrontStays DEF AsyInv
  <2> QED BY <2>0, <2>9, <2>11, <2>12, <2>13 DEF AsyInv, AsyServed
<1>7. ASSUME NEW t \in Threads, Asy!Find(t) PROVE AsyInv'
  <2> DEFINE r == taken[t].req
  <2>10. /\ taken[t] \in AsyTaken /\ taken[t].at = "find"
         /\ UNCHANGED <<stage, front, aged, wire, asyQ, served>>
    BY <1>7, <1>0 DEF Asy!Find
  <2>11. PICK found \in IF r \in rec THEN Asy!FoundOr(r) ELSE {"none"} :
           /\ taken' = [taken EXCEPT ![t].at = found]
           /\ rec' = IF found = "own" THEN rec \ {r} ELSE rec
    BY <1>7 DEF Asy!Find
  <2>12. /\ found \in {"own", "missed", "none"}
         /\ found = "missed" => r \in front
         /\ found = "none" => r \notin rec
    BY <2>11 DEF Asy!FoundOr
  <2>0. /\ taken[t] \in AsyTaken /\ taken[t].at = "find"
        /\ taken' = [taken EXCEPT ![t].at = found]
        /\ rec' \subseteq rec /\ rec \ {r} \subseteq rec'
        /\ UNCHANGED <<stage, front, aged, wire, asyQ, served>>
    BY <2>10, <2>11
  <2>1. \A u \in Threads : taken'[u] = IF u = t THEN [taken[t] EXCEPT !.at = found] ELSE taken[u]
    BY <2>0 DEF AsyInv, Asy!TypeOK
  <2>2. [taken[t] EXCEPT !.at = found] \in AsyTaken /\ [taken[t] EXCEPT !.at = found].req = r
        /\ [taken[t] EXCEPT !.at = found].at = found
    BY <2>0, <2>12 DEF AsyTaken
  <2>3. \A u \in Threads : \A q : AsyHas(u, q)' <=> AsyHas(u, q)
    BY <2>0, <2>1, <2>2, <1>n DEF AsyHas
  <2>4. \A q : AsyQueued(q)' <=> AsyQueued(q)
    BY <2>0 DEF AsyQueued
  <2>5. r \in Asy!AsyReqs /\ AsyHas(t, r) /\ r \notin wire /\ ~AsyQueued(r) /\ r \in rec \cup aged
    BY <2>0, <1>n DEF AsyInv, AsyOnce, AsyKept, AsyHas, AsyTaken
  <2>6. AsyOnce'
    <3>1. \A i, j \in 1 .. Len(asyQ') : asyQ'[i] = asyQ'[j] => i = j
      BY <2>0 DEF AsyOnce, AsyInv
    <3> HIDE DEF AsyHas, AsyQueued, r
    <3> QED BY <2>0, <2>3, <2>4, <3>1 DEF AsyInv, AsyOnce
  <2>7. AsySent(r) /\ \A q : AsySent(q)' <=> AsySent(q)
    BY <2>0, <2>3, <2>4, <2>5 DEF AsySent
  <2>8. AsyKept'
    <3>1. \A q \in Asy!AsyReqs : AsySent(q)' => stage[q] \in {"sent", "failed"}
      BY <2>7 DEF AsyInv, AsyKept
    <3>2. \A q \in Asy!AsyReqs : stage[q] = "inserted" => q \in rec' \cup aged
      <4>1. stage[r] # "inserted"
        BY <2>5, <2>7 DEF AsyInv, AsyKept
      <4> QED BY <2>0, <4>1 DEF AsyInv, AsyKept
    <3>3. \A q \in wire : q \in rec' \cup aged
      BY <2>0, <2>5 DEF AsyInv, AsyKept
    <3>4. \A i \in 1 .. Len(asyQ) : asyQ[i] \in rec' \cup aged
      <4>1. \A i \in 1 .. Len(asyQ) : asyQ[i] # r
        BY <2>5 DEF AsyQueued
      <4> QED BY <4>1, <2>0 DEF AsyInv, AsyKept
    <3>5. \A u \in Threads : taken'[u] # None =>
               /\ taken'[u].at = "find" => taken'[u].req \in rec' \cup aged
               /\ taken'[u].at = "none" => taken'[u].req \in aged
      <4> SUFFICES ASSUME NEW u \in Threads, taken'[u] # None
                   PROVE /\ taken'[u].at = "find" => taken'[u].req \in rec' \cup aged
                         /\ taken'[u].at = "none" => taken'[u].req \in aged
        OBVIOUS
      <4>1. CASE u = t
        <5>1. taken'[u].req = r /\ taken'[u].at = found /\ found # "find" /\ (found = "none" => r \in aged)
          BY <4>1, <2>1, <2>2, <2>5, <2>12
        <5> QED BY <5>1
      <4>2. CASE u # t
        <5>1. taken'[u] = taken[u] /\ taken[u] # None
          BY <4>2, <2>1
        <5>2. taken[u].req # r
          <6>1. taken[u] \in AsyTaken
            BY <5>1, <1>0
          <6>2. taken[u].req = r => AsyHas(u, r)
            BY <5>1 DEF AsyHas
          <6> QED BY <6>2, <2>5, <4>2 DEF AsyInv, AsyOnce
        <5> HIDE DEF r
        <5> QED BY <5>1, <5>2, <2>0 DEF AsyInv, AsyKept
      <4> QED BY <4>1, <4>2
    <3> HIDE DEF AsySent, r
    <3> QED BY <2>0, <3>1, <3>2, <3>3, <3>4, <3>5 DEF AsyKept
  <2>9. Asy!TypeOK'
    BY <2>0, <2>2 DEF AsyInv, Asy!TypeOK, AsyTaken
  <2>13. AsyFront'
    <3>1. \A u \in Threads : taken'[u] # None /\ taken'[u].at = "missed" => taken'[u].req \in front
      BY <2>1, <2>2, <2>12 DEF AsyInv, AsyFront
    <3> QED BY <1>t, <2>0, <3>1, AsyFrontStays DEF AsyInv
  <2> QED BY <2>0, <2>6, <2>8, <2>9, <2>13 DEF AsyInv, AsyServed
<1>8. ASSUME NEW t \in Threads, Asy!CallBack(t) PROVE AsyInv'
  <2>0. /\ taken[t] # None /\ taken[t] \in AsyTaken /\ taken[t].at \in {"own", "missed", "none"}
        /\ served' = [served EXCEPT ![taken[t].req] = taken[t].at]
        /\ taken' = [taken EXCEPT ![t] = None]
        /\ UNCHANGED <<stage, rec, front, aged, wire, asyQ>>
    BY <1>8, <1>0 DEF Asy!CallBack, Asy!Leave, AsyTaken
  <2>1. \A u \in Threads : taken'[u] = IF u = t THEN None ELSE taken[u]
    BY <2>0 DEF AsyInv, Asy!TypeOK
  <2>2. \A q : AsyQueued(q)' <=> AsyQueued(q)
    BY <2>0 DEF AsyQueued
  <2>3. \A u \in Threads : \A q : AsyHas(u, q)' => AsyHas(u, q)
    BY <2>1 DEF AsyHas
  <2>4. \A q : AsySent(q)' => AsySent(q)
    BY <2>0, <2>2, <2>3 DEF AsySent
  <2>5. AsyOnce'
    <3>1. \A i, j \in 1 .. Len(asyQ') : asyQ'[i] = asyQ'[j] => i = j
      BY <2>0 DEF AsyOnce, AsyInv
    <3> HIDE DEF AsyHas, AsyQueued
    <3> QED BY <2>0, <2>2, <2>3, <3>1 DEF AsyInv, AsyOnce
  <2>6. AsyKept'
    <3>1. \A u \in Threads : taken'[u] # None =>
               /\ taken'[u].at = "find" => taken'[u].req \in rec \cup aged
               /\ taken'[u].at = "none" => taken'[u].req \in aged
      BY <2>1 DEF AsyInv, AsyKept
    <3> HIDE DEF AsySent
    <3> QED BY <2>0, <2>4, <3>1 DEF AsyInv, AsyKept
  <2>7. Asy!TypeOK'
    BY <2>0 DEF AsyInv, Asy!TypeOK, AsyTaken
  <2>8. AsyServed'
    <3>1. /\ taken[t].at = "none" => taken[t].req \in aged
          /\ taken[t].at = "missed" => taken[t].req \in front
      BY <2>0 DEF AsyInv, AsyKept, AsyFront
    <3> QED BY <2>0, <3>1 DEF AsyInv, AsyServed, Asy!TypeOK
  <2>9. AsyFront'
    <3>1. \A u \in Threads : taken'[u] # None /\ taken'[u].at = "missed" => taken'[u].req \in front
      BY <2>1 DEF AsyInv, AsyFront
    <3> QED BY <1>t, <2>0, <3>1, AsyFrontStays DEF AsyInv
  <2> QED BY <2>5, <2>6, <2>7, <2>8, <2>9 DEF AsyInv
<1>9. CASE UNCHANGED Asy!vars
  <2>1. UNCHANGED <<stage, rec, front, aged, wire, asyQ, taken, served>>
    BY <1>9 DEF Asy!vars
  <2>2. AsyOnce' /\ AsyKept' /\ AsyFront'
    BY <2>1, <1>w
  <2> QED BY <2>1, <2>2 DEF AsyInv, Asy!TypeOK, AsyServed
<1> QED BY <1>1, <1>2, <1>3, <1>4, <1>5, <1>6, <1>7, <1>8, <1>9 DEF Asy!Next

LEMMA AsyStep == [Next]_vars => [Asy!Next]_(Asy!vars)
BY DEF Next, vars, others, asyVars, Asy!vars

LEMMA AsyFirst == Asy!Init => AsyInv
<1> SUFFICES ASSUME Asy!Init PROVE AsyInv
  OBVIOUS
<1>1. asyQ \in Seq(Asy!AsyReqs) /\ Len(asyQ) = 0
  BY EmptySeq DEF Asy!Init
<1>2. 1 .. Len(asyQ) = {}
  BY <1>1
<1>3. \A q : ~AsySent(q) /\ ~AsyQueued(q) /\ \A t \in Threads : ~AsyHas(t, q)
  BY <1>2 DEF Asy!Init, AsySent, AsyQueued, AsyHas
<1>4. AsyOnce
  BY <1>2, <1>3 DEF AsyOnce
<1>5. AsyKept
  BY <1>2, <1>3 DEF AsyKept, Asy!Init
<1>6. Asy!TypeOK /\ AsyServed
  BY <1>1, AsyAssumption DEF Asy!Init, Asy!TypeOK, AsyServed
<1>7. AsyFront
  BY DEF AsyFront, Asy!Init
<1> QED BY <1>4, <1>5, <1>6, <1>7 DEF AsyInv

\* The invariant holds in every state of every execution of the parts.
THEOREM AsyAlways == Spec => []AsyInv
<1>1. Init => AsyInv
  BY AsyFirst DEF Init
<1>2. AsyInv /\ [Next]_vars => AsyInv'
  BY AsyStep, AsySteps
<1> QED BY <1>1, <1>2, PTL DEF Spec

\* An answer is given its own request's context; or none because the context had grown
\* too old, or because an older request over the other protocol has the same number and
\* the map missed it (ASYTask: insert before send, find and erase by ASYRKey).
THEOREM OwnContext == Spec => []ContextIsFound
<1>1. AsyInv => ContextIsFound
  BY AsyInvImplies DEF ContextIsFound
<1> QED BY <1>1, AsyAlways, PTL

-----------------------------------------------------------------------------
(* The life of the processes (ACEApp).                                     *)

\* Waiting goes through the slots in order, and the children before the slot
\* are gone: that, not the count alone, is why none is left at the end.
LifeInv ==
  /\ Life!TypeOK
  /\ at = "sleep" => slot \in Life!Kids
  /\ at = "waiting" =>
       \A i \in Life!Kids : i < slot => kid[i] \in {"none", "gone"}
  /\ \A i \in Life!Kids : i \notin forked => kid[i] = "none"
  /\ Life!ParentIsLast

LEMMA LifeKids ==
  ASSUME childNum \in ChildNums
  PROVE  childNum \in Nat /\ Life!Kids \subseteq 0 .. Life!MaxKids - 1
<1>1. PICK n \in ChildNums : \A m \in ChildNums : m <= n
  BY LifeAssumption
<1>2. Life!MaxKids \in ChildNums /\ \A m \in ChildNums : m <= Life!MaxKids
  BY <1>1 DEF Life!MaxKids
<1> QED BY <1>2, LifeAssumption DEF Life!Kids

LEMMA LifeSteps == LifeInv /\ [Life!Next]_(Life!vars) => LifeInv'
<1> SUFFICES ASSUME LifeInv, [Life!Next]_(Life!vars) PROVE LifeInv'
  OBVIOUS
<1>0. childNum \in Nat /\ Life!Kids \subseteq 0 .. Life!MaxKids - 1 /\ slot \in 0 .. childNum
  BY LifeKids DEF LifeInv, Life!TypeOK
<1>k. UNCHANGED childNum => UNCHANGED Life!Kids
  BY DEF Life!Kids
<1>s. \A i : i \in Life!Kids <=> i \in 0 .. childNum - 1
  BY DEF Life!Kids
<1> USE DEF LifeInv, Life!TypeOK, Life!ParentIsLast
<1>1. CASE Life!Sigint
  BY <1>1, <1>k DEF Life!Sigint
<1>2. CASE Life!Test
  <2>1. slot' \in 0 .. childNum /\ \A i \in Life!Kids : ~(i < slot')
    BY <1>2, <1>0, <1>s DEF Life!Test
  <2> QED BY <1>2, <1>k, <2>1 DEF Life!Test, Life!TellChildren
<1>3. CASE Life!Hatch
  <2>1. CASE at' = "sleep" /\ UNCHANGED <<forked, kid, slot>>
    BY <1>3, <2>1, <1>0, <1>k, <1>s DEF Life!Hatch
  <2>2. CASE /\ forked' = forked \cup {slot} /\ kid' = [kid EXCEPT ![slot] = "starting"]
             /\ slot' = slot + 1 /\ UNCHANGED at
    <3>1. slot' \in 0 .. childNum /\ slot \in 0 .. Life!MaxKids - 1
      BY <1>3, <2>2, <1>0, <1>s DEF Life!Hatch
    <3> QED BY <1>3, <2>2, <1>0, <1>k, <3>1 DEF Life!Hatch
  <2> QED BY <1>3, <2>1, <2>2 DEF Life!Hatch
<1>4. CASE Life!Slept
  BY <1>4, <1>0, <1>k, <1>s DEF Life!Slept
<1>5. CASE Life!Hatched
  BY <1>5, <1>0, <1>k DEF Life!Hatched
<1>6. CASE Life!ResetLoop
  BY <1>6, <1>0, <1>k DEF Life!ResetLoop
<1>7. CASE Life!LoopEnds
  BY <1>7, <1>0, <1>k, <1>s DEF Life!LoopEnds
<1>8. CASE Life!WaitForChild
  <2>1. /\ at = "waiting" /\ slot \in Life!Kids /\ slot' = slot + 1
        /\ UNCHANGED <<childNum, at, isQuit, loopDone, forked, reaps, queued>>
    BY <1>8 DEF Life!WaitForChild, Life!NextSlot
  <2>2. \/ UNCHANGED kid /\ (slot \notin forked)
        \/ slot \in forked /\ kid' = [kid EXCEPT ![slot] = "gone"]
        \/ /\ slot \notin forked
           /\ \E i \in Life!Kids : kid[i] = "zombie" /\ kid' = [kid EXCEPT ![i] = "gone"]
    BY <1>8 DEF Life!WaitForChild, Life!Reaped
  <2>3. \A i \in Life!Kids : kid'[i] = kid[i] \/ (kid'[i] = "gone" /\ i \in forked)
    BY <1>0, <2>2
  <2>4. \A i \in Life!Kids : i < slot' => kid'[i] \in {"none", "gone"}
    <3>1. kid'[slot] \in {"none", "gone"}
      BY <1>0, <2>1, <2>2
    <3> QED BY <1>0, <1>s, <2>1, <2>3, <3>1
  <2>5. kid' \in [0 .. Life!MaxKids - 1 -> {"none", "starting", "running", "ending",
                                   "zombie", "gone"}]
    BY <1>0, <2>1, <2>2
  <2>6. slot' \in 0 .. childNum
    BY <1>0, <1>s, <2>1
  <2> QED BY <1>k, <2>1, <2>3, <2>4, <2>5, <2>6
<1>9. CASE Life!ParentQuits
  <2>1. slot = childNum
    BY <1>9, <1>0, <1>s DEF Life!ParentQuits
  <2>2. \A i \in Life!Kids : i < slot
    BY <2>1, <1>0, <1>s
  <2> QED BY <1>9, <1>k, <2>2 DEF Life!ParentQuits
<1>10. CASE Life!Drain
  <2>1. queued' \in 0 .. MaxQueued
    BY <1>10, LifeAssumption DEF Life!Drain
  <2> QED BY <1>10, <1>k, <2>1 DEF Life!Drain
<1>11. CASE Life!QuitApp
  BY <1>11, <1>0, <1>k DEF Life!QuitApp
<1>12. ASSUME NEW i \in Life!Kids, Life!ChildStarts(i) \/ Life!ChildEnds(i) \/ Life!ChildDies(i)
       PROVE  LifeInv'
  <2>1. /\ kid[i] \in Life!Running
        /\ \E next \in {"running", "ending", "zombie", "gone"} : kid' = [kid EXCEPT ![i] = next]
        /\ UNCHANGED <<childNum, at, slot, isQuit, loopDone, forked, reaps, queued>>
    BY <1>12 DEF Life!ChildStarts, Life!ChildEnds, Life!ChildDies, Life!End, Life!Running
  <2>2. \A j \in Life!Kids : kid[j] \in {"none", "gone"} => kid'[j] = kid[j]
    BY <1>0, <2>1 DEF Life!Running
  <2>3. \A j \in Life!Kids : j \notin forked => kid'[j] = "none"
    BY <2>2
  <2>4. kid' \in [0 .. Life!MaxKids - 1 -> {"none", "starting", "running", "ending",
                                   "zombie", "gone"}]
    BY <1>0, <2>1
  <2> QED BY <1>k, <2>1, <2>2, <2>3, <2>4
<1>13. CASE UNCHANGED Life!vars
  BY <1>13, <1>k DEF Life!vars
<1> QED BY <1>1, <1>2, <1>3, <1>4, <1>5, <1>6, <1>7, <1>8, <1>9, <1>10, <1>11,
          <1>12, <1>13 DEF Life!Next, Life!Own

LEMMA LifeStep == [Next]_vars => [Life!Next]_(Life!vars)
BY DEF Next, vars, others, lifeVars, Life!vars

LEMMA LifeFirst == Life!Init => LifeInv
<1> SUFFICES ASSUME Life!Init PROVE LifeInv
  OBVIOUS
<1>1. childNum \in ChildNums
  BY DEF Life!Init
<1>2. childNum \in Nat /\ Life!Kids \subseteq 0 .. Life!MaxKids - 1
  BY <1>1, LifeKids
<1>3. at \in {"test", "loop"} /\ slot = 0
  BY DEF Life!Init, Life!Entry
<1>4. \A i \in Life!Kids : kid[i] = "none"
  BY <1>2 DEF Life!Init
<1>5. Life!TypeOK
  <2>1. slot \in 0 .. childNum
    BY <1>2, <1>3
  <2>2. kid \in [0 .. Life!MaxKids - 1 -> {"none", "starting", "running", "ending",
                                   "zombie", "gone"}]
    BY DEF Life!Init
  <2> QED BY <1>1, <1>3, <2>1, <2>2 DEF Life!Init, Life!TypeOK
<1> QED BY <1>3, <1>4, <1>5 DEF LifeInv, Life!ParentIsLast

\* The invariant holds in every state of every execution of the parts.
THEOREM LifeAlways == Spec => []LifeInv
<1>1. Init => LifeInv
  BY LifeFirst DEF Init
<1>2. LifeInv /\ [Next]_vars => LifeInv'
  BY LifeStep, LifeSteps
<1> QED BY <1>1, <1>2, PTL DEF Spec

\* A parent that quits leaves no child running (ACEApp::run waits for every
\* child it forked before quit_app).
THEOREM ParentOutlives == Spec => []ParentIsLast
<1>1. LifeInv => ParentIsLast
  BY DEF LifeInv, ParentIsLast
<1> QED BY <1>1, LifeAlways, PTL

-----------------------------------------------------------------------------
(* All the parts.                                                          *)

LEMMA AllTyped ==
  ConnInv /\ DbInv /\ RdsInv /\ TaskInv /\ AsyInv /\ FrameInv /\ LifeInv /\ ProxInv => TypeOK
<1> SUFFICES ASSUME ConnInv, DbInv, RdsInv, TaskInv, AsyInv, FrameInv, LifeInv, ProxInv
             PROVE  TypeOK
  OBVIOUS
<1>1. Conn!TypeOK /\ Db!TypeOK /\ Rds!TypeOK
  BY ConnInvImplies, DbInvImplies, RdsInvImplies
<1>2. Task!TypeOK /\ Asy!TypeOK /\ Life!TypeOK
  BY DEF TaskInv, AsyInv, LifeInv
<1>3. Frame!TypeOK /\ Prox!TypeOK
  BY FrameTypes, ProxInvTypes
<1> QED BY <1>1, <1>2, <1>3 DEF TypeOK

\* The state of every part keeps within what its module says of it: no queue, count,
\* buffer or index leaves its range, whatever the other parts do.
THEOREM PartsTyped == Spec => []TypeOK
<1> QED BY AllTyped, ConnAlways, DbAlways, RdsAlways, TaskAlways, AsyAlways, FrameAlways,
           LifeAlways, ProxAlways, PTL
=============================================================================
