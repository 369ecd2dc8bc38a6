--------------------------- MODULE DataAccessProof ----------------------------
(***************************************************************************)
(* Proofs about the access to stored data: to the database (PlatDbAccess,  *)
(* PlatDbConn), as the part Db of Parts, and to Redis (RdsSvr), as the     *)
(* part Rds.                                                               *)
(***************************************************************************)
EXTENDS Parts, TLAPS

-----------------------------------------------------------------------------
(* The database.                                                           *)

DbRecord ==
  [pc : {"idle", "run", "statement", "commit"}, op : Db!DbOps, slot : DbSlots,
   try : {1, 2}, i : Db!Steps, ret : {None, "ok", "none", "error", "lost"}]
DbStates == Db!Session \cup {None}
DbCounts == [Db!Steps -> 0 .. 2]

\* The statements 1 .. k of thread t, as a session keeps them before the commit.
Done(t, k) == {t} \X (1 .. k)

\* What a session keeps uncommitted is what the thread that holds it has executed.
DbHolds(t, r, l, c) ==
  /\ r.pc # "idle" => l = t /\ c # None
  /\ r.pc = "run" => c.pend = {}
  /\ r.pc = "statement" /\ Db!Answers(c) => c.pend = Done(t, r.i - 1)
  /\ r.pc = "commit" /\ Db!Answers(c) => c.pend = Done(t, Statements)

\* What a thread was told agrees with what was applied for it.
DbTold(r, a) ==
  /\ r.pc = "run" => r.i = 1
  /\ r.pc \in {"statement", "commit"} => r.op = "trans"
  /\ r.op = "trans" /\ r.pc # "idle" => \A k \in Db!Steps : a[k] = 0
  /\ r.op = "trans" /\ r.pc = "idle" =>
       /\ (\A k \in Db!Steps : a[k] = 0) \/ (\A k \in Db!Steps : a[k] = 1)
       /\ r.ret = "ok" => \A k \in Db!Steps : a[k] = 1
       /\ r.ret \in {"none", "lost"} => \A k \in Db!Steps : a[k] = 0
  /\ r.op = "update" /\ r.pc = "idle" /\ r.ret = "ok" => a[1] >= 1

\* A session nobody holds has nothing uncommitted.
DbRests(l, c) == l = None /\ c # None => c.pend = {}

DbTypes ==
  /\ dbConn \in [DbSlots -> DbStates]
  /\ dbLock \in [DbSlots -> Threads \cup {None}]
  /\ call \in [Threads -> DbRecord]
  /\ applied \in [Threads -> DbCounts]

\* These hold of each thread and its slot, and of each slot.
DbAll ==
  /\ DbTypes
  /\ \A t \in Threads : DbHolds(t, call[t], dbLock[call[t].slot], dbConn[call[t].slot])
  /\ \A t \in Threads : DbTold(call[t], applied[t])
  /\ \A s \in DbSlots : DbRests(dbLock[s], dbConn[s])

DbRest ==
  /\ dbFails \in 0 .. DbMaxFails + 1
  /\ dbRecent \in BOOLEAN
  /\ dbUp \in BOOLEAN

\* The inductive invariant of the access to the database.
DbInv == DbAll /\ DbRest

LEMMA DbInvImplies == DbInv => Db!TypeOK /\ Db!TransIsAtomic /\ Db!ReportIsTrue
<1> SUFFICES ASSUME DbInv PROVE Db!TypeOK /\ Db!TransIsAtomic /\ Db!ReportIsTrue
  OBVIOUS
<1>1. Db!TypeOK
  BY DEF DbInv, DbAll, DbTypes, DbRest, Db!TypeOK, DbStates, DbRecord, DbCounts
<1>2. ASSUME NEW t \in Threads PROVE DbTold(call[t], applied[t])
  BY DEF DbInv, DbAll
<1>3. Db!TransIsAtomic
  BY <1>2 DEF DbTold, Db!TransIsAtomic
<1>4. Db!ReportIsTrue
  <2> SUFFICES ASSUME NEW t \in Threads, call[t].pc = "idle"
      PROVE /\ call[t].op = "trans" /\ call[t].ret = "ok" =>
                  \A k \in Db!Steps : applied[t][k] >= 1
            /\ call[t].op = "trans" /\ call[t].ret \in {"none", "lost"} =>
                  \A k \in Db!Steps : applied[t][k] = 0
            /\ call[t].op = "update" /\ call[t].ret = "ok" => applied[t][1] >= 1
    BY DEF Db!ReportIsTrue
  <2> QED BY <1>2 DEF DbTold
<1> QED BY <1>1, <1>3, <1>4

LEMMA DbKnown ==
  ASSUME DbAll, NEW t \in Threads
  PROVE  /\ call[t] \in DbRecord /\ call[t].slot \in DbSlots
         /\ dbConn[call[t].slot] \in DbStates
         /\ dbLock[call[t].slot] \in Threads \cup {None}
         /\ applied[t] \in DbCounts
         /\ DbHolds(t, call[t], dbLock[call[t].slot], dbConn[call[t].slot])
         /\ DbTold(call[t], applied[t])
         /\ DbRests(dbLock[call[t].slot], dbConn[call[t].slot])
BY DEF DbAll, DbTypes, DbRecord

LEMMA DbSame ==
  ASSUME DbAll, NEW s \in DbSlots, NEW t \in Threads
  PROVE  /\ dbConn = [dbConn EXCEPT ![s] = dbConn[s]]
         /\ dbLock = [dbLock EXCEPT ![s] = dbLock[s]]
         /\ applied = [applied EXCEPT ![t] = applied[t]]
         /\ call = [call EXCEPT ![t] = call[t]]
BY DEF DbAll, DbTypes

\* a step of a thread on the slot it holds, takes or lets go
LEMMA DbMoves ==
  ASSUME DbAll, NEW t \in Threads, NEW r \in DbRecord, NEW s \in DbSlots,
         dbLock[s] \in {t, None},
         NEW c \in DbStates, NEW l \in {t, None}, NEW a \in DbCounts,
         call' = [call EXCEPT ![t] = r], dbConn' = [dbConn EXCEPT ![s] = c],
         dbLock' = [dbLock EXCEPT ![s] = l], applied' = [applied EXCEPT ![t] = a],
         DbRests(l, c), DbTold(r, a), r.slot = s, DbHolds(t, r, l, c)
  PROVE  DbAll'
<1>0. \A q \in DbSlots \ {s} : dbConn'[q] = dbConn[q] /\ dbLock'[q] = dbLock[q]
  BY DEF DbAll, DbTypes
<1>9. dbConn'[s] = c /\ dbLock'[s] = l
  BY DEF DbAll, DbTypes
<1>8. /\ call'[t] = r /\ applied'[t] = a
      /\ \A u \in Threads \ {t} : call'[u] = call[u] /\ applied'[u] = applied[u]
  BY DEF DbAll, DbTypes
<1>1. DbTypes'
  BY DEF DbAll, DbTypes
<1>2. ASSUME NEW u \in Threads
      PROVE  DbHolds(u, call'[u], dbLock'[call'[u].slot], dbConn'[call'[u].slot])
  <2>1. CASE u = t
    BY <2>1, <1>9, <1>8
  <2>2. CASE u # t
    <3>1. call'[u] = call[u] /\ call[u].slot \in DbSlots
          /\ DbHolds(u, call[u], dbLock[call[u].slot], dbConn[call[u].slot])
      BY <2>2, <1>8, DbKnown
    <3>3. CASE call[u].slot # s
      BY <3>1, <3>3, <1>0
    <3>4. CASE call[u].slot = s
      <4>1. call[u].pc = "idle"
        BY <2>2, <3>1, <3>4, DbAssumption DEF DbHolds
      <4> QED BY <4>1, <3>1 DEF DbHolds
    <3> QED BY <3>3, <3>4
  <2> QED BY <2>1, <2>2
<1>3. \A u \in Threads : DbTold(call'[u], applied'[u])
  BY <1>8 DEF DbAll
<1>4. \A q \in DbSlots : DbRests(dbLock'[q], dbConn'[q])
  BY <1>0, <1>9 DEF DbAll
<1> QED BY <1>1, <1>2, <1>3, <1>4 DEF DbAll

LEMMA DbEnded ==
  ASSUME NEW c \in DbStates
  PROVE  /\ Db!Ended(c) \in DbStates
         /\ \/ Db!Ended(c) = c
            \/ /\ c # None /\ Db!Ended(c) # None
               /\ Db!Ended(c).pend = {} /\ ~Db!Answers(Db!Ended(c))
<1>1. CASE ~Db!Connected(c)
  BY <1>1 DEF Db!Ended
<1>2. CASE Db!Connected(c)
  <2> DEFINE d == [c EXCEPT !.alive = FALSE, !.pend = {}]
  <2>1. Db!Ended(c) = d /\ c # None /\ c \in Db!Session
    BY <1>2 DEF Db!Ended, Db!Connected, DbStates
  <2>2. d \in Db!Session /\ d.alive = FALSE /\ d.pend = {}
    BY <2>1 DEF Db!Session
  <2> HIDE DEF d
  <2>3. ~Db!Answers(d)
    BY <2>2 DEF Db!Answers
  <2>4. d # None
    BY <2>2, DbAssumption
  <2> QED BY <2>1, <2>2, <2>3, <2>4 DEF DbStates
<1> QED BY <1>1, <1>2

\* a step of the server: sessions end
LEMMA DbTurns ==
  ASSUME DbAll, UNCHANGED <<dbLock, call, applied>>,
         dbConn' \in [DbSlots -> DbStates],
         \A s \in DbSlots : dbConn'[s] = dbConn[s] \/ dbConn'[s] = Db!Ended(dbConn[s])
  PROVE  DbAll'
<1>1. ASSUME NEW s \in DbSlots
      PROVE  \/ dbConn'[s] = dbConn[s]
             \/ /\ dbConn'[s].pend = {} /\ ~Db!Answers(dbConn'[s])
                /\ dbConn[s] # None /\ dbConn'[s] # None
  <2>1. dbConn[s] \in DbStates
    BY DEF DbAll, DbTypes
  <2> QED BY <2>1, DbEnded
<1>2. DbTypes'
  BY DEF DbAll, DbTypes
<1>3. ASSUME NEW u \in Threads
      PROVE  DbHolds(u, call[u], dbLock[call[u].slot], dbConn'[call[u].slot])
  BY <1>1, DbKnown DEF DbHolds
<1>4. \A s \in DbSlots : DbRests(dbLock[s], dbConn'[s])
  BY <1>1 DEF DbAll, DbRests
<1> QED BY <1>2, <1>3, <1>4 DEF DbAll

LEMMA DbServer ==
  ASSUME DbAll,
         (\E s \in DbSlots : Db!SessionDies(s)) \/ Db!ServerStops
  PROVE  DbAll'
<1>0. dbConn \in [DbSlots -> DbStates] /\ \A s \in DbSlots : Db!Ended(dbConn[s]) \in DbStates
  BY DbEnded DEF DbAll, DbTypes
<1>1. ASSUME NEW s \in DbSlots, Db!SessionDies(s) PROVE DbAll'
  <2>1. dbConn' = [dbConn EXCEPT ![s] = Db!Ended(dbConn[s])]
        /\ UNCHANGED <<dbLock, call, applied>>
    BY <1>1 DEF Db!SessionDies
  <2> QED BY <1>0, <2>1, DbTurns
<1>2. CASE Db!ServerStops
  <2>1. dbConn' = [s \in DbSlots |-> Db!Ended(dbConn[s])]
        /\ UNCHANGED <<dbLock, call, applied>>
    BY <1>2 DEF Db!ServerStops
  <2> QED BY <1>0, <2>1, DbTurns
<1> QED BY <1>1, <1>2

-----------------------------------------------------------------------------
LEMMA DbNoCall == Db!NoCall \in DbRecord
<1>1. (CHOOSE s \in DbSlots : TRUE) \in DbSlots
  BY DbAssumption
<1>2. 1 \in Db!Steps
  BY DbAssumption DEF Db!Steps
<1> QED BY <1>1, <1>2 DEF Db!NoCall, DbRecord, Db!DbOps

LEMMA DbSessions ==
  /\ Db!Fresh \in Db!Session /\ Db!Fresh.pend = {}
  /\ Db!Off \in Db!Session /\ Db!Off.pend = {} /\ ~Db!Answers(Db!Off)
BY DEF Db!Fresh, Db!Off, Db!Session, Db!Answers, Db!Connected

\* what a thread's own statements do once they are committed
After(a, K) ==
  [k \in Db!Steps |-> IF k \in K /\ a[k] < 2 THEN a[k] + 1 ELSE a[k]]

LEMMA DbApplies ==
  ASSUME DbAll, NEW t \in Threads, NEW K, Db!Apply({t} \X K)
  PROVE  /\ applied' = [applied EXCEPT ![t] = After(applied[t], K)]
         /\ After(applied[t], K) \in DbCounts
<1>1. \A u \in Threads : applied[u] \in DbCounts
  BY DEF DbAll, DbTypes
<1>2. After(applied[t], K) \in DbCounts
  BY <1>1 DEF After, DbCounts
<1>3. ASSUME NEW u \in Threads, u # t
      PROVE  [k \in Db!Steps |-> IF <<u, k>> \in {t} \X K /\ applied[u][k] < 2
                                 THEN applied[u][k] + 1 ELSE applied[u][k]] = applied[u]
  BY <1>1, <1>3 DEF DbCounts
<1>4. [k \in Db!Steps |-> IF <<t, k>> \in {t} \X K /\ applied[t][k] < 2
                          THEN applied[t][k] + 1 ELSE applied[t][k]] = After(applied[t], K)
  BY DEF After
<1> QED BY <1>2, <1>3, <1>4 DEF Db!Apply, DbAll, DbTypes

LEMMA DbAppliesNone ==
  ASSUME DbAll, Db!Apply({}) PROVE UNCHANGED applied
<1>1. \A u \in Threads : applied[u] \in DbCounts
  BY DEF DbAll, DbTypes
<1>2. \A u \in Threads : [k \in Db!Steps |-> applied[u][k]] = applied[u]
  BY <1>1 DEF DbCounts
<1> QED BY <1>2 DEF Db!Apply, DbAll, DbTypes

LEMMA DbHeld ==
  ASSUME DbAll, NEW t \in Threads, call[t].pc # "idle"
  PROVE  /\ call[t].slot \in DbSlots /\ dbLock[call[t].slot] = t
         /\ dbLock = [dbLock EXCEPT ![call[t].slot] = t]
         /\ dbConn[call[t].slot] \in Db!Session /\ dbConn[call[t].slot] # None
BY DbKnown, DbSame DEF DbHolds, DbStates

LEMMA DbReturns ==
  ASSUME DbAll, NEW t \in Threads, call[t].pc # "idle",
         NEW ret \in {"ok", "none", "error", "lost"}, Db!Return(t, ret),
         NEW c \in DbStates, dbConn' = [dbConn EXCEPT ![call[t].slot] = c],
         c # None => c.pend = {},
         NEW a \in DbCounts, applied' = [applied EXCEPT ![t] = a],
         call[t].op = "trans" =>
           \/ (\A k \in Db!Steps : a[k] = 0) /\ ret # "ok"
           \/ (\A k \in Db!Steps : a[k] = 1) /\ ret \in {"ok", "error"},
         call[t].op = "update" /\ ret = "ok" => a[1] >= 1
  PROVE  DbAll'
<1> DEFINE s == call[t].slot
           r == [call[t] EXCEPT !.pc = "idle", !.ret = ret]
<1>1. s \in DbSlots /\ dbLock[s] = t
  BY DbHeld
<1>2. call' = [call EXCEPT ![t] = r] /\ dbLock' = [dbLock EXCEPT ![s] = None]
  BY DEF Db!Return, DbAll, DbTypes
<1>3. r \in DbRecord /\ r.pc = "idle" /\ r.slot = s /\ r.op = call[t].op /\ r.ret = ret
  BY DbKnown DEF DbRecord
<1> HIDE DEF r
<1>4. DbHolds(t, r, None, c) /\ DbRests(None, c)
  BY <1>3 DEF DbHolds, DbRests
<1>5. DbTold(r, a)
  BY <1>3 DEF DbTold
<1> HIDE DEF s
<1> QED BY <1>1, <1>2, <1>3, <1>4, <1>5, DbMoves DEF s

LEMMA DbLost ==
  ASSUME DbAll, NEW t \in Threads, call[t].pc # "idle", Db!Lost(t, Db!Off),
         NEW a \in DbCounts, applied' = [applied EXCEPT ![t] = a],
         call[t].op = "trans" => a = applied[t]
  PROVE  DbAll'
<1> DEFINE s == call[t].slot
           r == [call[t] EXCEPT !.pc = "run", !.try = 2, !.i = 1]
<1>0. call[t].op = "trans" => \A k \in Db!Steps : a[k] = 0
  BY DbKnown DEF DbTold
<1>1. CASE /\ call' = [call EXCEPT ![t].pc = "run", ![t].try = 2, ![t].i = 1]
           /\ dbConn' = [dbConn EXCEPT ![s] = Db!Off]
           /\ UNCHANGED <<dbLock, dbFails, dbRecent>>
  <2>1. s \in DbSlots /\ dbLock[s] = t /\ dbLock = [dbLock EXCEPT ![s] = t]
    BY DbHeld
  <2>2. call' = [call EXCEPT ![t] = r] /\ dbLock' = [dbLock EXCEPT ![s] = t]
    BY <1>1, <2>1 DEF DbAll, DbTypes
  <2>3. 1 \in Db!Steps
    BY DbAssumption DEF Db!Steps
  <2>4. r \in DbRecord /\ r.pc = "run" /\ r.slot = s /\ r.op = call[t].op /\ r.i = 1
    BY <2>3, DbKnown DEF DbRecord
  <2> HIDE DEF r
  <2>5. Db!Off \in DbStates /\ Db!Off # None /\ Db!Off.pend = {}
    BY DbSessions, DbAssumption DEF DbStates
  <2>6. DbHolds(t, r, t, Db!Off) /\ DbRests(t, Db!Off)
    BY <2>4, <2>5 DEF DbHolds, DbRests
  <2>7. DbTold(r, a)
    BY <1>0, <2>4 DEF DbTold
  <2> HIDE DEF s
  <2> QED BY <1>1, <2>1, <2>2, <2>4, <2>5, <2>6, <2>7, DbMoves DEF s
<1>2. CASE Db!fini(s) /\ Db!Return(t, "lost")
  <2>1. dbConn' = [dbConn EXCEPT ![s] = None]
    BY <1>2 DEF Db!fini
  <2>2. None \in DbStates
    BY DEF DbStates
  <2> QED BY <1>0, <1>2, <2>1, <2>2, DbReturns
<1> QED BY <1>1, <1>2 DEF Db!Lost

LEMMA DbBegins ==
  ASSUME DbAll, NEW t \in Threads, NEW op \in Db!DbOps, NEW s \in DbSlots,
         Db!Begin(t, op, s)
  PROVE  DbAll'
<1> DEFINE new == [Db!NoCall EXCEPT !.op = op, !.slot = s]
           run == [new EXCEPT !.pc = "run"]
           no == [new EXCEPT !.ret = "lost"]
           a == [k \in Db!Steps |-> 0]
<1>1. dbLock[s] = None /\ applied' = [applied EXCEPT ![t] = a]
  BY DEF Db!Begin, Db!SlotIsFree
<1>2. a \in DbCounts /\ \A k \in Db!Steps : a[k] = 0
  BY DEF DbCounts
<1>3. /\ run \in DbRecord /\ run.pc = "run" /\ run.slot = s /\ run.i = 1
      /\ no \in DbRecord /\ no.pc = "idle" /\ no.slot = s /\ no.ret = "lost"
  <2>1. Db!NoCall.pc = "idle" /\ Db!NoCall.i = 1
    BY DEF Db!NoCall
  <2> QED BY <2>1, DbNoCall DEF DbRecord
<1>4. /\ dbConn[s] \in DbStates /\ (dbConn[s] # None => dbConn[s].pend = {})
      /\ dbConn = [dbConn EXCEPT ![s] = dbConn[s]]
      /\ dbLock = [dbLock EXCEPT ![s] = None]
  <2>1. DbRests(dbLock[s], dbConn[s])
    BY DEF DbAll
  <2> QED BY <1>1, <2>1, DbSame DEF DbAll, DbTypes, DbRests
<1> HIDE DEF a
<1>5. ASSUME NEW c \in DbStates, c # None, c.pend = {},
             dbConn' = [dbConn EXCEPT ![s] = c], call' = [call EXCEPT ![t] = run],
             dbLock' = [dbLock EXCEPT ![s] = t]
      PROVE  DbAll'
  <2> HIDE DEF run
  <2>1. DbHolds(t, run, t, c) /\ DbRests(t, c) /\ DbTold(run, a)
    BY <1>2, <1>3, <1>5, DbAssumption DEF DbHolds, DbRests, DbTold
  <2> QED BY <1>1, <1>2, <1>3, <1>5, <2>1, DbMoves
<1>6. ASSUME NEW c \in DbStates, c # None => c.pend = {},
             dbConn' = [dbConn EXCEPT ![s] = c], call' = [call EXCEPT ![t] = no],
             UNCHANGED dbLock
      PROVE  DbAll'
  <2> HIDE DEF no
  <2>1. DbHolds(t, no, None, c) /\ DbRests(None, c) /\ DbTold(no, a)
    BY <1>2, <1>3, <1>6 DEF DbHolds, DbRests, DbTold
  <2>2. dbLock' = [dbLock EXCEPT ![s] = None]
    BY <1>4, <1>6
  <2> QED BY <1>1, <1>2, <1>3, <1>6, <2>1, <2>2, DbMoves
<1>7. CASE Db!Avoided
  BY <1>4, <1>6, <1>7 DEF Db!Begin
<1>8. CASE ~Db!Avoided /\ dbConn[s] # None
  BY <1>4, <1>5, <1>8 DEF Db!Begin
<1>9. CASE ~Db!Avoided /\ dbConn[s] = None
  <2>1. CASE dbConn' = [dbConn EXCEPT ![s] = Db!Fresh] /\ call' = [call EXCEPT ![t] = run]
             /\ dbLock' = [dbLock EXCEPT ![s] = t]
    <3>1. Db!Fresh \in DbStates /\ Db!Fresh # None /\ Db!Fresh.pend = {}
      BY DbSessions, DbAssumption DEF DbStates
    <3> QED BY <1>5, <2>1, <3>1
  <2>2. CASE dbConn' = [dbConn EXCEPT ![s] = None] /\ call' = [call EXCEPT ![t] = no]
             /\ UNCHANGED dbLock
    <3>1. None \in DbStates
      BY DEF DbStates
    <3> QED BY <1>6, <2>2, <3>1
  <2> QED BY <1>9, <2>1, <2>2 DEF Db!Begin, Db!fini
<1> QED BY <1>7, <1>8, <1>9

\* a call goes on with its slot locked
LEMMA DbGoesOn ==
  ASSUME DbAll, NEW t \in Threads, call[t].pc # "idle", UNCHANGED <<dbLock, applied>>,
         NEW r \in DbRecord, r.pc # "idle", r.slot = call[t].slot, r.op = call[t].op,
         call' = [call EXCEPT ![t] = r],
         NEW c \in Db!Session, dbConn' = [dbConn EXCEPT ![call[t].slot] = c],
         DbHolds(t, r, t, c), r.pc = "run" => r.i = 1,
         r.pc \in {"statement", "commit"} => r.op = "trans"
  PROVE  DbAll'
<1> DEFINE s == call[t].slot
<1>1. /\ s \in DbSlots /\ dbLock[s] = t /\ dbLock' = [dbLock EXCEPT ![s] = t]
      /\ applied' = [applied EXCEPT ![t] = applied[t]]
  BY DbHeld, DbSame
<1>2. c \in DbStates /\ DbRests(t, c)
  BY DbAssumption DEF DbStates, DbRests
<1>3. DbTold(r, applied[t]) /\ applied[t] \in DbCounts
  BY DbKnown DEF DbTold
<1> HIDE DEF s
<1> QED BY <1>1, <1>2, <1>3, DbMoves DEF s

LEMMA DbStill ==
  ASSUME DbAll, NEW t \in Threads, UNCHANGED applied
  PROVE  applied' = [applied EXCEPT ![t] = applied[t]] /\ applied[t] \in DbCounts
BY DbKnown DEF DbAll, DbTypes

LEMMA DbZeros ==
  ASSUME DbAll, NEW t \in Threads, call[t].pc # "idle", call[t].op = "trans"
  PROVE  applied[t] \in DbCounts /\ \A k \in Db!Steps : applied[t][k] = 0
BY DbKnown DEF DbTold

LEMMA DbSetsGone ==
  ASSUME DbAll, NEW t \in Threads, call[t].pc # "idle", Db!SetGone(t)
  PROVE  \E c \in Db!Session : /\ dbConn' = [dbConn EXCEPT ![call[t].slot] = c]
                              /\ c.pend = {}
<1> DEFINE s == call[t].slot
           c == [dbConn[s] EXCEPT !.alive = FALSE, !.gone = TRUE, !.pend = {}]
<1>1. s \in DbSlots /\ dbConn[s] \in Db!Session
  BY DbHeld
<1>2. c \in Db!Session /\ c.pend = {}
  BY <1>1 DEF Db!Session
<1>3. dbConn' = [dbConn EXCEPT ![s] = c]
  BY DEF Db!SetGone
<1> QED BY <1>2, <1>3

LEMMA DbEmpties ==
  ASSUME NEW c \in Db!Session, NEW P \in SUBSET (Threads \X Db!Steps)
  PROVE  [c EXCEPT !.pend = P] \in Db!Session /\ [c EXCEPT !.pend = P].pend = P
BY DEF Db!Session

LEMMA DbReconnects ==
  ASSUME DbAll, NEW t \in Threads, Db!Reconnect(t)
  PROVE  DbAll'
<1>1. call[t].pc = "run" /\ UNCHANGED applied
  BY DEF Db!Reconnect, Db!At
<1>2. CASE Db!Lost(t, Db!Off)
  BY <1>1, <1>2, DbLost, DbStill
<1>3. CASE dbConn' = [dbConn EXCEPT ![call[t].slot] = Db!Fresh] /\ UNCHANGED <<dbLock, call>>
  <2>1. call' = [call EXCEPT ![t] = call[t]]
    BY <1>3 DEF DbAll, DbTypes
  <2>2. DbHolds(t, call[t], t, Db!Fresh)
    BY <1>1, DbSessions, DbAssumption DEF DbHolds
  <2>3. call[t] \in DbRecord /\ call[t].i = 1
    BY <1>1, DbKnown DEF DbTold
  <2> QED BY <1>1, <1>3, <2>1, <2>2, <2>3, DbSessions, DbGoesOn
<1> QED BY <1>2, <1>3 DEF Db!Reconnect

LEMMA DbAnswered ==
  ASSUME DbAll, NEW t \in Threads, Db!Answered(t)
  PROVE  DbAll'
<1> DEFINE s == call[t].slot
<1>1. call[t].pc = "run" /\ call[t].op # "trans"
  BY DEF Db!Answered, Db!At
<1>2. /\ dbConn[s] \in DbStates /\ dbConn[s].pend = {}
      /\ dbConn' = [dbConn EXCEPT ![s] = dbConn[s]]
  BY <1>1, DbKnown, DbSame DEF Db!Answered, DbHolds
<1>3. ASSUME UNCHANGED applied
      PROVE  applied' = [applied EXCEPT ![t] = applied[t]] /\ applied[t] \in DbCounts
  BY <1>3, DbStill
<1>4. CASE Db!Return(t, "error") /\ UNCHANGED applied
  BY <1>1, <1>2, <1>3, <1>4, DbReturns
<1>5. CASE Db!Return(t, "ok") /\ call[t].op # "update" /\ Db!Apply({})
  <2>1. UNCHANGED applied
    BY <1>5, DbAppliesNone
  <2>2. PICK a \in DbCounts : applied' = [applied EXCEPT ![t] = a]
    BY <1>3, <2>1
  <2> QED BY <1>1, <1>2, <1>5, <2>2, DbReturns
<1>6. CASE Db!Return(t, "ok") /\ call[t].op = "update" /\ Db!Apply({<<t, 1>>})
  <2> DEFINE a == After(applied[t], {1})
  <2>1. {<<t, 1>>} = {t} \X {1}
    OBVIOUS
  <2>2. applied' = [applied EXCEPT ![t] = a] /\ a \in DbCounts
    BY <1>6, <2>1, DbApplies
  <2>3. 1 \in Db!Steps /\ applied[t][1] \in 0 .. 2
    BY DbKnown, DbAssumption DEF Db!Steps, DbCounts
  <2>4. a[1] >= 1
    BY <2>3 DEF After
  <2> HIDE DEF a
  <2> QED BY <1>1, <1>2, <1>6, <2>2, <2>4, DbReturns
<1> QED BY <1>4, <1>5, <1>6 DEF Db!Answered

LEMMA DbUnanswered ==
  ASSUME DbAll, NEW t \in Threads, Db!Unanswered(t)
  PROVE  DbAll'
<1>1. call[t].pc = "run" /\ call[t].op # "trans" /\ Db!Lost(t, Db!Off)
  BY DEF Db!Unanswered, Db!At
<1>2. CASE UNCHANGED applied
  BY <1>1, <1>2, DbLost, DbStill
<1>3. CASE Db!Apply({<<t, 1>>})
  <2> DEFINE a == After(applied[t], {1})
  <2>1. {<<t, 1>>} = {t} \X {1}
    OBVIOUS
  <2>2. applied' = [applied EXCEPT ![t] = a] /\ a \in DbCounts
    BY <1>3, <2>1, DbApplies
  <2> HIDE DEF a
  <2> QED BY <1>1, <2>2, DbLost
<1> QED BY <1>2, <1>3 DEF Db!Unanswered

LEMMA DbTruncated ==
  ASSUME DbAll, NEW t \in Threads, Db!Truncated(t)
  PROVE  DbAll'
<1>1. /\ call[t].pc = "run" /\ call[t].op = "multi" /\ Db!SetGone(t)
      /\ Db!Return(t, "ok") /\ UNCHANGED applied
  BY DEF Db!Truncated, Db!At
<1>2. PICK c \in Db!Session : /\ dbConn' = [dbConn EXCEPT ![call[t].slot] = c]
                              /\ c.pend = {}
  BY <1>1, DbSetsGone
<1>3. c \in DbStates
  BY DEF DbStates
<1>4. applied' = [applied EXCEPT ![t] = applied[t]] /\ applied[t] \in DbCounts
  BY <1>1, DbStill
<1> QED BY <1>1, <1>2, <1>3, <1>4, DbReturns

LEMMA DbStarts ==
  ASSUME DbAll, NEW t \in Threads, Db!Start(t)
  PROVE  DbAll'
<1> DEFINE s == call[t].slot
           r == [call[t] EXCEPT !.pc = "statement"]
           c == [dbConn[s] EXCEPT !.pend = {}]
<1>1. call[t].pc = "run" /\ call[t].op = "trans"
  BY DEF Db!Start, Db!At
<1>2. s \in DbSlots /\ dbConn[s] \in Db!Session /\ dbConn[s].pend = {}
  BY <1>1, DbHeld, DbKnown DEF DbHolds
<1>3. CASE /\ call' = [call EXCEPT ![t].pc = "statement"] /\ Db!Apply(dbConn[s].pend)
           /\ dbConn' = [dbConn EXCEPT ![s].pend = {}] /\ UNCHANGED dbLock
  <2>1. UNCHANGED applied
    BY <1>2, <1>3, DbAppliesNone
  <2>2. call' = [call EXCEPT ![t] = r] /\ dbConn' = [dbConn EXCEPT ![s] = c]
    BY <1>3
  <2>3. c \in Db!Session /\ c.pend = {}
    BY <1>2, DbEmpties
  <2>4. /\ r \in DbRecord /\ r.pc = "statement" /\ r.slot = s /\ r.op = call[t].op
        /\ r.i = 1
    BY <1>1, DbKnown DEF DbRecord, DbTold
  <2> HIDE DEF c, r
  <2>5. DbHolds(t, r, t, c)
    <3>1. Done(t, r.i - 1) = {}
      BY <2>4 DEF Done
    <3> QED BY <2>3, <2>4, <3>1, DbAssumption DEF DbHolds
  <2> QED BY <1>1, <1>3, <2>1, <2>2, <2>3, <2>4, <2>5, DbGoesOn
<1>4. CASE Db!SetGone(t) /\ Db!Return(t, "error") /\ UNCHANGED applied
  <2>2. PICK d \in Db!Session : /\ dbConn' = [dbConn EXCEPT ![s] = d]
                                /\ d.pend = {}
    BY <1>1, <1>4, DbSetsGone
  <2>3. d \in DbStates
    BY DEF DbStates
  <2>4. applied' = [applied EXCEPT ![t] = applied[t]] /\ applied[t] \in DbCounts
    BY <1>4, DbStill
  <2>5. \A k \in Db!Steps : applied[t][k] = 0
    BY <1>1, DbZeros
  <2> QED BY <1>1, <1>4, <2>2, <2>3, <2>4, <2>5, DbReturns
<1> QED BY <1>3, <1>4 DEF Db!Start, Db!Here

LEMMA DbStatements ==
  ASSUME DbAll, NEW t \in Threads, Db!Statement(t)
  PROVE  DbAll'
<1> DEFINE s == call[t].slot
           i == call[t].i
<1>1. call[t].pc = "statement" /\ UNCHANGED applied /\ Db!Answers(dbConn[s])
  BY DEF Db!Statement, Db!At, Db!Here
<1>2. s \in DbSlots /\ dbConn[s] \in Db!Session /\ i \in Db!Steps
      /\ dbConn[s].pend = Done(t, i - 1) /\ call[t].op = "trans"
  BY <1>1, DbHeld, DbKnown DEF DbHolds, DbTold, DbRecord
<1>3. ASSUME NEW ret \in {"none", "error"}, Db!Rollback(t), Db!Return(t, ret)
      PROVE  DbAll'
  <2> DEFINE d == [dbConn[s] EXCEPT !.pend = {}]
  <2>1. dbConn' = [dbConn EXCEPT ![s] = d]
    BY <1>3 DEF Db!Rollback
  <2>2. d \in DbStates /\ d.pend = {}
    BY <1>2, DbEmpties DEF DbStates
  <2>4. applied' = [applied EXCEPT ![t] = applied[t]] /\ applied[t] \in DbCounts
    BY <1>1, DbStill
  <2>5. \A k \in Db!Steps : applied[t][k] = 0
    BY <1>1, <1>2, DbZeros
  <2> HIDE DEF d
  <2> QED BY <1>1, <1>3, <2>1, <2>2, <2>4, <2>5, DbReturns
<1>4. CASE /\ dbConn' = [dbConn EXCEPT ![s].pend = @ \cup {<<t, i>>}]
           /\ call' = [call EXCEPT
                ![t].pc = IF i = Statements THEN "commit" ELSE "statement",
                ![t].i = IF i = Statements THEN @ ELSE @ + 1]
           /\ UNCHANGED dbLock
  <2> DEFINE pc == IF i = Statements THEN "commit" ELSE "statement"
             j == IF i = Statements THEN i ELSE i + 1
             r == [call[t] EXCEPT !.pc = pc, !.i = j]
             P == dbConn[s].pend \cup {<<t, i>>}
             c == [dbConn[s] EXCEPT !.pend = P]
  <2>1. i \in 1 .. Statements /\ Statements \in Nat
    BY <1>2, DbAssumption DEF Db!Steps
  <2>2. P = Done(t, i)
    BY <1>2, <2>1 DEF Done
  <2>3. P \in SUBSET (Threads \X Db!Steps)
    BY <2>1, <2>2 DEF Done, Db!Steps
  <2>4. c \in Db!Session /\ c.pend = P
    BY <1>2, <2>3, DbEmpties
  <2>5. call' = [call EXCEPT ![t] = r] /\ dbConn' = [dbConn EXCEPT ![s] = c]
    BY <1>4 DEF DbAll, DbTypes
  <2>6. j \in Db!Steps /\ pc \in {"commit", "statement"}
        /\ (pc = "statement" => j = i + 1) /\ (pc = "commit" => i = Statements)
    BY <2>1 DEF Db!Steps
  <2> HIDE DEF c, P, pc, j
  <2>7. r \in DbRecord /\ r.pc = pc /\ r.slot = s /\ r.op = call[t].op /\ r.i = j
    BY <2>6, DbKnown DEF DbRecord
  <2> HIDE DEF r
  <2>8. DbHolds(t, r, t, c)
    <3>1. c # None
      BY <2>4, DbAssumption
    <3>2. pc = "statement" => r.i - 1 = i
      BY <2>1, <2>6, <2>7
    <3> QED BY <2>2, <2>4, <2>6, <2>7, <3>1, <3>2 DEF DbHolds
  <2> QED BY <1>1, <1>2, <1>4, <2>4, <2>5, <2>6, <2>7, <2>8, DbGoesOn
<1> QED BY <1>3, <1>4 DEF Db!Statement

LEMMA DbCommits ==
  ASSUME DbAll, NEW t \in Threads, Db!Commit(t)
  PROVE  DbAll'
<1> DEFINE s == call[t].slot
           a == After(applied[t], Db!Steps)
<1>1. call[t].pc = "commit"
  BY DEF Db!Commit, Db!At
<1>2. s \in DbSlots /\ dbConn[s] \in Db!Session /\ call[t].op = "trans"
      /\ (Db!Answers(dbConn[s]) => dbConn[s].pend = {t} \X Db!Steps)
  BY <1>1, DbHeld, DbKnown DEF DbHolds, DbTold, Done, Db!Steps
<1>3. ASSUME Db!Answers(dbConn[s]), Db!Apply(dbConn[s].pend)
      PROVE  /\ applied' = [applied EXCEPT ![t] = a] /\ a \in DbCounts
             /\ \A k \in Db!Steps : a[k] = 1
  <2>1. applied' = [applied EXCEPT ![t] = a] /\ a \in DbCounts
    BY <1>2, <1>3, DbApplies
  <2>2. \A k \in Db!Steps : a[k] = 1
    BY <1>1, <1>2, DbZeros DEF After
  <2> QED BY <2>1, <2>2
<1>4. CASE /\ Db!Answers(dbConn[s]) /\ Db!Apply(dbConn[s].pend)
           /\ dbConn' = [dbConn EXCEPT ![s].pend = {}] /\ Db!Return(t, "ok")
  <2> DEFINE d == [dbConn[s] EXCEPT !.pend = {}]
  <2>1. dbConn' = [dbConn EXCEPT ![s] = d]
    BY <1>4
  <2>2. d \in DbStates /\ d.pend = {}
    BY <1>2, DbEmpties DEF DbStates
  <2>3. applied' = [applied EXCEPT ![t] = a] /\ a \in DbCounts /\ \A k \in Db!Steps : a[k] = 1
    BY <1>3, <1>4
  <2> HIDE DEF d, a
  <2> QED BY <1>1, <1>2, <1>4, <2>1, <2>2, <2>3, DbReturns
<1>5. CASE Db!CommitFails(t) /\ (UNCHANGED applied \/ (Db!Answers(dbConn[s]) /\ Db!Apply(dbConn[s].pend)))
  <2>1. Db!Return(t, "error") /\ Db!SetGone(t)
    BY <1>5 DEF Db!CommitFails
  <2>2. PICK d \in Db!Session : /\ dbConn' = [dbConn EXCEPT ![s] = d]
                                /\ d.pend = {}
    BY <1>1, <2>1, DbSetsGone
  <2>3. d \in DbStates
    BY DEF DbStates
  <2>4. CASE UNCHANGED applied
    <3>1. applied' = [applied EXCEPT ![t] = applied[t]] /\ applied[t] \in DbCounts
      BY <2>4, DbStill
    <3>2. \A k \in Db!Steps : applied[t][k] = 0
      BY <1>1, <1>2, DbZeros
    <3> QED BY <1>1, <1>2, <2>1, <2>2, <2>3, <3>1, <3>2, DbReturns
  <2>5. CASE Db!Answers(dbConn[s]) /\ Db!Apply(dbConn[s].pend)
    <3>1. applied' = [applied EXCEPT ![t] = a] /\ a \in DbCounts /\ \A k \in Db!Steps : a[k] = 1
      BY <1>3, <2>5
    <3> HIDE DEF a
    <3> QED BY <1>1, <1>2, <2>1, <2>2, <2>3, <3>1, DbReturns
  <2> QED BY <1>5, <2>4, <2>5
<1> QED BY <1>4, <1>5 DEF Db!Commit, Db!Here

-----------------------------------------------------------------------------
LEMMA DbRestStep == DbInv /\ [Db!Next]_(Db!vars) => DbRest'
<1> SUFFICES ASSUME DbInv, [Db!Next]_(Db!vars) PROVE DbRest'
  OBVIOUS
<1>0. DbRest /\ DbMaxFails \in Nat
  BY DbAssumption DEF DbInv
<1>a. ASSUME UNCHANGED <<dbFails, dbRecent, dbUp>> PROVE DbRest'
  BY <1>0, <1>a DEF DbRest
<1>b. ASSUME NEW s, Db!fini(s), UNCHANGED dbUp PROVE DbRest'
  BY <1>0, <1>b DEF DbRest, Db!fini
<1>c. ASSUME NEW t, NEW c, Db!Lost(t, c), UNCHANGED dbUp PROVE DbRest'
  BY <1>a, <1>b, <1>c DEF Db!Lost
<1>1. ASSUME NEW t \in Threads, NEW op \in Db!DbOps, NEW s \in DbSlots, Db!Begin(t, op, s)
      PROVE  DbRest'
  <2>1. CASE Db!fini(s)
    BY <1>1, <1>b, <2>1 DEF Db!Begin
  <2>2. CASE ~Db!fini(s)
    <3>1. dbFails' \in {0, dbFails} /\ UNCHANGED <<dbRecent, dbUp>>
      BY <1>1, <2>2 DEF Db!Begin
    <3> QED BY <1>0, <3>1 DEF DbRest
  <2> QED BY <2>1, <2>2
<1>2. ASSUME NEW t \in Threads,
             Db!Reconnect(t) \/ Db!Unanswered(t) \/ Db!StatementLost(t)
      PROVE  DbRest'
  BY <1>2, <1>a, <1>c DEF Db!Reconnect, Db!Unanswered, Db!StatementLost
<1>3. ASSUME NEW t \in Threads,
             Db!Answered(t) \/ Db!Truncated(t) \/ Db!Start(t) \/ Db!Statement(t)
               \/ Db!Commit(t)
      PROVE  DbRest'
  BY <1>3, <1>a DEF Db!Answered, Db!Truncated, Db!Start, Db!Statement, Db!Commit,
                    Db!CommitFails
<1>4. CASE (\E s \in DbSlots : Db!SessionDies(s)) \/ Db!ServerStops \/ Db!ServerStarts
           \/ Db!IntervalPasses
  BY <1>0, <1>4 DEF DbRest, Db!SessionDies, Db!ServerStops, Db!ServerStarts, Db!IntervalPasses
<1>5. CASE UNCHANGED Db!vars
  BY <1>5, <1>a DEF Db!vars
<1> QED BY <1>1, <1>2, <1>3, <1>4, <1>5 DEF Db!Next

LEMMA DbUnchanged ==
  ASSUME DbAll, UNCHANGED <<dbConn, dbLock, call, applied>> PROVE DbAll'
BY DEF DbAll, DbTypes

LEMMA DbAllStep == DbInv /\ [Db!Next]_(Db!vars) => DbAll'
<1> SUFFICES ASSUME DbInv, [Db!Next]_(Db!vars) PROVE DbAll'
  OBVIOUS
<1>0. DbAll
  BY DEF DbInv
<1>1. ASSUME NEW t \in Threads, NEW op \in Db!DbOps, NEW s \in DbSlots, Db!Begin(t, op, s)
      PROVE  DbAll'
  BY <1>0, <1>1, DbBegins
<1>2. ASSUME NEW t \in Threads, Db!Reconnect(t) PROVE DbAll'
  BY <1>0, <1>2, DbReconnects
<1>3. ASSUME NEW t \in Threads, Db!Answered(t) PROVE DbAll'
  BY <1>0, <1>3, DbAnswered
<1>4. ASSUME NEW t \in Threads, Db!Unanswered(t) PROVE DbAll'
  BY <1>0, <1>4, DbUnanswered
<1>5. ASSUME NEW t \in Threads, Db!Truncated(t) PROVE DbAll'
  BY <1>0, <1>5, DbTruncated
<1>6. ASSUME NEW t \in Threads, Db!Start(t) PROVE DbAll'
  BY <1>0, <1>6, DbStarts
<1>7. ASSUME NEW t \in Threads, Db!Statement(t) PROVE DbAll'
  BY <1>0, <1>7, DbStatements
<1>8. ASSUME NEW t \in Threads, Db!StatementLost(t) PROVE DbAll'
  BY <1>0, <1>8, DbLost, DbStill DEF Db!StatementLost, Db!At
<1>9. ASSUME NEW t \in Threads, Db!Commit(t) PROVE DbAll'
  BY <1>0, <1>9, DbCommits
<1>10. CASE (\E s \in DbSlots : Db!SessionDies(s)) \/ Db!ServerStops
  BY <1>0, <1>10, DbServer
<1>11. CASE Db!ServerStarts \/ Db!IntervalPasses \/ UNCHANGED Db!vars
  BY <1>0, <1>11, DbUnchanged DEF Db!ServerStarts, Db!IntervalPasses, Db!vars
<1> QED BY <1>1, <1>2, <1>3, <1>4, <1>5, <1>6, <1>7, <1>8, <1>9, <1>10, <1>11
        DEF Db!Next

LEMMA DbFirst == Db!Init => DbInv
<1> SUFFICES ASSUME Db!Init PROVE DbInv
  OBVIOUS
<1>1. DbTypes
  BY DbNoCall, DbSessions DEF Db!Init, DbTypes, DbStates, DbCounts
<1>2. \A s \in DbSlots : DbRests(dbLock[s], dbConn[s])
  BY DbSessions DEF Db!Init, DbRests
<1>3. \A t \in Threads : call[t] = Db!NoCall
  BY DEF Db!Init
<1>4. DbRest
  <2>1. 0 \in 0 .. DbMaxFails + 1
    BY DbAssumption
  <2> QED BY <2>1 DEF Db!Init, DbRest
<1>5. \A t, l, c, a : DbHolds(t, Db!NoCall, l, c) /\ DbTold(Db!NoCall, a)
  BY DEF DbHolds, DbTold, Db!NoCall
<1> QED BY <1>1, <1>2, <1>3, <1>4, <1>5 DEF DbInv, DbAll

LEMMA DbStep == [Next]_vars => [Db!Next]_(Db!vars)
BY DEF Next, vars, others, dbVars, Db!vars

\* The invariant holds in every state of every execution of the parts.
THEOREM DbAlways == Spec => []DbInv
<1>1. Init => DbInv
  BY DbFirst DEF Init
<1>2. DbInv /\ [Next]_vars => DbInv'
  BY DbStep, DbAllStep, DbRestStep DEF DbInv
<1> QED BY <1>1, <1>2, PTL DEF Spec

\* A transaction is applied whole or not at all, whenever the session dies, the
\* server stops or the connection is made again (PlatDbAccess::exec_trans).
THEOREM WholeOrNotAtAll == Spec => []TransIsAtomic
<1>1. DbInv => TransIsAtomic
  BY DbInvImplies DEF TransIsAtomic
<1> QED BY <1>1, DbAlways, PTL

\* A caller told that its update or transaction was done finds it done, and one told
\* that a transaction was not done finds nothing of it.
THEOREM ReportedIsDone == Spec => []ReportIsTrue
<1>1. DbInv => ReportIsTrue
  BY DbInvImplies DEF ReportIsTrue
<1> QED BY <1>1, DbAlways, PTL

-----------------------------------------------------------------------------
(* Redis.                                                                  *)

\* The fields of a caller, with what its method still has to do.
RdsRecord ==
  [pc : {"idle", "connect", "auth", "lock", "select", "command", "crashed", "lost"},
   m : {Rds!Rest(m) : m \in Rds!Methods}, d : Dbs, h : Rds!Handles,
   n : 0 .. MaxCmds]
RdsStates == Rds!Context \cup {None}

\* At most one thread has used the handle h: the handles are chosen per thread, and
\* where two came to share one its database and its context are nobody's promise.
Lone(h) == \A t, u \in users[h] : t = u

\* A thread between select and its commands holds the lock of its handle, and has a
\* context if it selected a database.
RdsHolds(t, r, l, c) ==
  /\ r.pc \in {"select", "command"} => l = t
  /\ r.pc = "command" /\ r.m.select => c # None
  /\ r.pc = "crashed" => ~r.m.tests

\* A caller is among the users of the handle its index names.
RdsPlaced(t, r) == r.pc # "idle" => r.h[1] = idx[t] /\ t \in users[r.h]

\* Where nobody else uses the handle, it is as the caller left it: what get_handle
\* has put there is still there for AUTH.
RdsKnows(r, c, d) ==
  /\ r.pc = "connect" => c = None
  /\ r.pc = "auth" => c # None
  /\ r.pc # "lost"
  /\ r.pc = "command" /\ r.m.select => d = r.d

\* dbid is the database the context is in, 0 where there is none; what is remembered
\* over a SELECT that was answered with an error says nothing.
RdsInDb(c, d) ==
  /\ c = None => d = 0
  /\ c # None /\ Rds!Usable(c) /\ ~c.refused => c.db = d

RdsTypes ==
  /\ idx \in [Threads -> 0 .. RdsConns - 1]
  /\ rc \in [Rds!Handles -> RdsStates]
  /\ dbid \in [Rds!Handles -> Dbs]
  /\ rlock \in [Rds!Handles -> Threads \cup {None}]
  /\ rthr \in [Threads -> RdsRecord]
  /\ kept \in [Rds!Handles -> BOOLEAN]
  /\ users \in [Rds!Handles -> SUBSET Threads]

\* A context with an error is kept because a method keeps it, or is in use still.
RdsDead(h) ==
  rc[h] # None /\ rc[h].err =>
    kept[h] = TRUE \/ \E t \in Threads : rthr[t].pc # "idle" /\ rthr[t].h = h

\* The inductive invariant of the access to Redis.
RdsInv ==
  /\ RdsTypes
  /\ \A t \in Threads : RdsHolds(t, rthr[t], rlock[rthr[t].h], rc[rthr[t].h])
  /\ \A t \in Threads : RdsPlaced(t, rthr[t])
  /\ \A t \in Threads :
       Lone(rthr[t].h) => RdsKnows(rthr[t], rc[rthr[t].h], dbid[rthr[t].h])
  /\ \A h \in Rds!Handles : Lone(h) => RdsInDb(rc[h], dbid[h])
  /\ \A h \in Rds!Handles : RdsDead(h)

LEMMA RdsKnown ==
  ASSUME RdsInv, NEW t \in Threads
  PROVE  /\ rthr[t] \in RdsRecord /\ rthr[t].h \in Rds!Handles
         /\ rc[rthr[t].h] \in RdsStates /\ dbid[rthr[t].h] \in Dbs
         /\ rlock[rthr[t].h] \in Threads \cup {None}
         /\ kept[rthr[t].h] \in BOOLEAN
         /\ RdsHolds(t, rthr[t], rlock[rthr[t].h], rc[rthr[t].h])
         /\ RdsPlaced(t, rthr[t])
         /\ Lone(rthr[t].h) => RdsKnows(rthr[t], rc[rthr[t].h], dbid[rthr[t].h])
         /\ Lone(rthr[t].h) => RdsInDb(rc[rthr[t].h], dbid[rthr[t].h])
         /\ RdsDead(rthr[t].h)
BY DEF RdsInv, RdsTypes, RdsRecord

LEMMA RdsInvImplies ==
  RdsInv => /\ Rds!TypeOK /\ Rds!CommandInItsDb /\ Rds!TestedIsThere
            /\ Rds!DeadContextIsDropped
<1> SUFFICES ASSUME RdsInv
    PROVE  Rds!TypeOK /\ Rds!CommandInItsDb /\ Rds!TestedIsThere /\ Rds!DeadContextIsDropped
  OBVIOUS
<1>1. Rds!TypeOK
  BY DEF RdsInv, RdsTypes, Rds!TypeOK, RdsStates, RdsRecord
<1>2. Rds!CommandInItsDb
  <2> SUFFICES ASSUME NEW t \in Threads, Rds!Alone(t), Rds!At(t, "command"),
                      rthr[t].m.select, Rds!Usable(Rds!Ctx(t)), ~Rds!Ctx(t).refused
               PROVE  Rds!Ctx(t).db = rthr[t].d
    BY DEF Rds!CommandInItsDb
  <2>1. Lone(rthr[t].h)
    BY DEF Lone, Rds!Alone
  <2>2. RdsKnows(rthr[t], rc[rthr[t].h], dbid[rthr[t].h])
        /\ RdsInDb(rc[rthr[t].h], dbid[rthr[t].h])
        /\ RdsHolds(t, rthr[t], rlock[rthr[t].h], rc[rthr[t].h])
    BY <2>1, RdsKnown
  <2> QED BY <2>2 DEF RdsKnows, RdsInDb, RdsHolds, Rds!At, Rds!Ctx
<1>3. Rds!TestedIsThere
  <2>1. ASSUME NEW t \in Threads, Rds!Alone(t)
        PROVE  rthr[t].pc # "lost" /\ (rthr[t].pc = "auth" => rc[rthr[t].h] # None)
    <3>1. Lone(rthr[t].h)
      BY <2>1 DEF Lone, Rds!Alone
    <3> QED BY <3>1, RdsKnown DEF RdsKnows
  <2>2. ASSUME NEW t \in Threads
        PROVE  RdsHolds(t, rthr[t], rlock[rthr[t].h], rc[rthr[t].h])
    BY RdsKnown
  <2> QED BY <2>1, <2>2 DEF RdsHolds, Rds!TestedIsThere, Rds!At, Rds!Ctx
<1>4. Rds!DeadContextIsDropped
  <2> SUFFICES ASSUME NEW h \in Rds!Handles, rc[h] # None, rc[h].err,
                      \A t \in Threads : idx[t] = h[1] => Rds!At(t, "idle")
               PROVE  kept[h]
    BY DEF Rds!DeadContextIsDropped
  <2>1. RdsDead(h)
    BY DEF RdsInv
  <2>2. \A t \in Threads : rthr[t].h = h => rthr[t].pc = "idle"
    BY RdsKnown DEF RdsPlaced, Rds!At
  <2> QED BY <2>1, <2>2 DEF RdsDead
<1> QED BY <1>1, <1>2, <1>3, <1>4

-----------------------------------------------------------------------------
MethodRecord == [select : BOOLEAN, roles : SUBSET {"master", "slave"},
                 dbs : SUBSET Dbs, cmds : SUBSET (0 .. MaxCmds),
                 resets : SUBSET {"null", "error", "odd"}, tests : BOOLEAN]

MethodFits(m) == m \in MethodRecord /\ (m.select => m.tests)

LEMMA RdsMethods == \A m \in Rds!Methods : MethodFits(m)
<1>0. {1} \subseteq 0 .. MaxCmds /\ {0, 1} \subseteq 0 .. MaxCmds
  BY RdsAssumption
<1>1. MethodFits(Rds!Write)
  BY <1>0 DEF MethodFits, MethodRecord, Rds!Write
<1>2. MethodFits(Rds!Reading)
  BY <1>1 DEF MethodFits, MethodRecord, Rds!Reading
<1>3. ASSUME NEW m, MethodFits(m)
      PROVE  MethodFits(Rds!InAnyDb(m)) /\ MethodFits(Rds!OfList(m))
             /\ MethodFits(Rds!ForEach(m))
  BY <1>0, <1>3 DEF MethodFits, MethodRecord, Rds!InAnyDb, Rds!OfList, Rds!ForEach
<1>4. MethodFits(Rds!redis_time)
  BY <1>1, RdsAssumption DEF MethodFits, MethodRecord, Rds!redis_time
<1>5. MethodFits(Rds!inc_hash_field)
  BY <1>1 DEF MethodFits, MethodRecord, Rds!inc_hash_field
<1>6. MethodFits(Rds!eval_multi_command)
  BY <1>1, <1>3 DEF MethodFits, MethodRecord, Rds!eval_multi_command
<1> QED
  BY <1>1, <1>2, <1>3, <1>4, <1>5, <1>6
  DEF Rds!Methods, Rds!del_key, Rds!expire_key, Rds!ttl, Rds!get_string_val,
      Rds!set_string_val, Rds!inc_string_val, Rds!get_set,
      Rds!get_sset_list_by_score, Rds!get_sset_list, Rds!get_sset_score,
      Rds!get_sset_rank, Rds!set_sset_list, Rds!inc_sset_list,
      Rds!del_sset_list, Rds!get_sset_num, Rds!get_hash_field,
      Rds!get_hash_field_all, Rds!set_hash_field, Rds!del_hash_field,
      Rds!get_hash_field_num, Rds!hexists, Rds!get_list_num,
      Rds!get_list_range, Rds!pub_msg, Rds!eval_exec, Rds!push_list_value,
      Rds!pop_list_value, Rds!add_geo_list, Rds!get_geo_list

LEMMA RdsRests ==
  ASSUME NEW r \in RdsRecord
  PROVE  r.m.select \in BOOLEAN /\ r.m.tests \in BOOLEAN /\ (r.m.select => r.m.tests)
<1>1. PICK m \in Rds!Methods : r.m = Rds!Rest(m)
  BY DEF RdsRecord
<1>2. MethodFits(m)
  BY RdsMethods
<1> QED BY <1>1, <1>2 DEF MethodFits, MethodRecord, Rds!Rest

LEMMA RdsOutside == Rds!Outside \in RdsRecord
<1>1. <<0, "master">> \in Rds!Handles
  BY RdsAssumption DEF Rds!Handles
<1>2. Rds!Write \in Rds!Methods
  BY DEF Rds!Methods, Rds!del_key
<1>3. 1 \in 0 .. MaxCmds /\ 0 \in Dbs
  BY RdsAssumption
<1> QED BY <1>1, <1>2, <1>3 DEF Rds!Outside, RdsRecord

LEMMA RdsOutsideFits ==
  \A t, l, c, d : /\ RdsHolds(t, Rds!Outside, l, c) /\ RdsKnows(Rds!Outside, c, d)
                  /\ RdsPlaced(t, Rds!Outside) /\ Rds!Outside.pc = "idle"
BY DEF RdsHolds, RdsKnows, RdsPlaced, Rds!Outside

\* a step of a thread that has its handle
LEMMA RdsMoves ==
  ASSUME RdsInv, NEW t \in Threads, rthr[t].pc # "idle", UNCHANGED <<idx, users>>,
         NEW h, h = rthr[t].h,
         NEW r \in RdsRecord, NEW c \in RdsStates, NEW d \in Dbs,
         NEW l \in Threads \cup {None}, NEW k \in BOOLEAN,
         rthr' = [rthr EXCEPT ![t] = r], rc' = [rc EXCEPT ![h] = c],
         dbid' = [dbid EXCEPT ![h] = d], kept' = [kept EXCEPT ![h] = k],
         rlock' = [rlock EXCEPT ![h] = l],
         l = rlock[h] \/ (l \in {t, None} /\ rlock[h] \in {t, None}),
         c = None => rlock[h] = t \/ rc[h] = None,
         r = Rds!Outside \/ (r.h = h /\ r.pc \notin {"idle", "connect"}),
         RdsHolds(t, r, l, c),
         Lone(h) => RdsInDb(c, d) /\ RdsKnows(r, c, d),
         c # None /\ c.err => k = TRUE \/ r.pc # "idle"
  PROVE  RdsInv'
<1>0. h \in Rds!Handles
  BY RdsKnown
<1>1. RdsTypes'
  BY DEF RdsInv, RdsTypes
<1>2. /\ rthr'[t] = r /\ \A u \in Threads \ {t} : rthr'[u] = rthr[u]
      /\ rc'[h] = c /\ dbid'[h] = d /\ kept'[h] = k /\ rlock'[h] = l
      /\ \A g \in Rds!Handles \ {h} : /\ rc'[g] = rc[g] /\ dbid'[g] = dbid[g]
                                      /\ kept'[g] = kept[g] /\ rlock'[g] = rlock[g]
  BY <1>0 DEF RdsInv, RdsTypes
<1>3. \A g \in Rds!Handles : Lone(g)' = Lone(g)
  BY DEF Lone
<1>4. ASSUME NEW u \in Threads
      PROVE  RdsHolds(u, rthr'[u], rlock'[rthr'[u].h], rc'[rthr'[u].h])
  <2>1. CASE u = t
    BY <1>2, <2>1, RdsOutsideFits
  <2>2. CASE u # t /\ rthr[u].h # h
    BY <1>2, <2>2, RdsKnown
  <2>3. CASE u # t /\ rthr[u].h = h
    <3>1. RdsHolds(u, rthr[u], rlock[h], rc[h]) /\ u # None
      BY <2>3, RdsKnown, RdsAssumption
    <3>2. RdsHolds(u, rthr[u], l, c)
      <4>1. CASE rthr[u].pc \in {"select", "command"}
        BY <2>3, <3>1, <4>1 DEF RdsHolds
      <4>2. CASE rthr[u].pc \notin {"select", "command"}
        BY <3>1, <4>2 DEF RdsHolds
      <4> QED BY <4>1, <4>2
    <3> QED BY <1>2, <2>3, <3>2
  <2> QED BY <2>1, <2>2, <2>3
<1>5. ASSUME NEW u \in Threads
      PROVE  rthr'[u].pc # "idle" =>
               rthr'[u].h[1] = idx'[u] /\ u \in users'[rthr'[u].h]
  <2>1. RdsPlaced(u, rthr[u]) /\ RdsPlaced(t, rthr[t])
    BY RdsKnown
  <2>2. CASE u = t
    BY <1>2, <2>1, <2>2, RdsOutsideFits DEF RdsPlaced
  <2>3. CASE u # t
    BY <1>2, <2>1, <2>3 DEF RdsPlaced
  <2> QED BY <2>2, <2>3
<1>6. ASSUME NEW u \in Threads, Lone(rthr'[u].h)
      PROVE  RdsKnows(rthr'[u], rc'[rthr'[u].h], dbid'[rthr'[u].h])
  <2>1. CASE u = t
    BY <1>2, <1>6, <2>1, RdsOutsideFits
  <2>2. CASE u # t /\ rthr[u].h # h
    BY <1>2, <1>6, <2>2, RdsKnown
  <2>3. CASE u # t /\ rthr[u].h = h
    <3>1. RdsPlaced(u, rthr[u]) /\ RdsPlaced(t, rthr[t])
      BY RdsKnown
    <3>2. rthr[u].pc = "idle"
      BY <1>2, <1>6, <2>3, <3>1 DEF RdsPlaced, Lone
    <3> QED BY <1>2, <2>3, <3>2 DEF RdsKnows
  <2> QED BY <2>1, <2>2, <2>3
<1>7. \A g \in Rds!Handles : Lone(g) => RdsInDb(rc'[g], dbid'[g])
  BY <1>2 DEF RdsInv
<1>8. ASSUME NEW g \in Rds!Handles PROVE RdsDead(g)'
  <2>1. CASE g = h
    BY <1>2, <2>1, RdsOutsideFits DEF RdsDead
  <2>2. CASE g # h
    <3>1. RdsDead(g)
      BY DEF RdsInv
    <3>2. \A u \in Threads : rthr[u].h = g => rthr'[u] = rthr[u]
      BY <1>2, <2>2
    <3> QED BY <1>2, <2>2, <3>1, <3>2 DEF RdsDead
  <2> QED BY <2>1, <2>2
<1>9. \A u \in Threads : rthr'[u].h \in Rds!Handles
  BY <1>1 DEF RdsTypes, RdsRecord
<1> QED BY <1>1, <1>3, <1>4, <1>5, <1>6, <1>7, <1>8, <1>9 DEF RdsInv, RdsPlaced

LEMMA RdsCalls ==
  ASSUME RdsInv, NEW t \in Threads, NEW m \in Rds!Methods, NEW d \in Dbs,
         Rds!Call(t, m, d)
  PROVE  RdsInv'
<1>0. MethodFits(m) /\ rthr[t].pc = "idle"
  BY RdsMethods DEF Rds!Call, Rds!At
<1>1. PICK role \in IF HasSlave THEN m.roles ELSE {"master"} :
        \E n \in m.cmds :
          LET h == <<idx[t], role>> IN
          /\ rthr' = [rthr EXCEPT ![t] =
               [pc |-> IF rc[h] = None THEN "connect" ELSE "lock",
                m |-> Rds!Rest(m), d |-> d, h |-> h, n |-> n]]
          /\ users' = [users EXCEPT ![h] = @ \cup {t}]
  BY DEF Rds!Call
<1> DEFINE h == <<idx[t], role>>
<1>2. PICK n \in m.cmds :
        /\ rthr' = [rthr EXCEPT ![t] =
             [pc |-> IF rc[h] = None THEN "connect" ELSE "lock",
              m |-> Rds!Rest(m), d |-> d, h |-> h, n |-> n]]
        /\ users' = [users EXCEPT ![h] = @ \cup {t}]
  BY <1>1
<1> DEFINE r == [pc |-> IF rc[h] = None THEN "connect" ELSE "lock",
                 m |-> Rds!Rest(m), d |-> d, h |-> h, n |-> n]
<1>3. h \in Rds!Handles /\ h[1] = idx[t]
  <2>1. role \in {"master", "slave"}
    BY <1>0 DEF MethodFits, MethodRecord
  <2>2. idx[t] \in 0 .. RdsConns - 1
    BY DEF RdsInv, RdsTypes
  <2> QED BY <2>1, <2>2 DEF Rds!Handles
<1>4. r \in RdsRecord
  <2>1. n \in 0 .. MaxCmds
    BY <1>0 DEF MethodFits, MethodRecord
  <2> HIDE DEF h
  <2> QED BY <1>3, <2>1 DEF RdsRecord
<1>5. r.pc \in {"connect", "lock"} /\ (r.pc = "connect" => rc[h] = None) /\ r.h = h
  BY <1>3
<1> HIDE DEF h, r
<1>6. UNCHANGED <<idx, rc, dbid, rlock, kept>>
  BY DEF Rds!Call
<1>7. rthr'[t] = r /\ \A u \in Threads \ {t} : rthr'[u] = rthr[u]
  BY <1>2 DEF RdsInv, RdsTypes, r
<1>8. RdsTypes'
  BY <1>2, <1>3, <1>4, <1>6 DEF RdsInv, RdsTypes, r
<1>9. /\ \A g \in Rds!Handles : users[g] \subseteq users'[g]
      /\ t \in users'[h]
  BY <1>2, <1>3 DEF RdsInv, RdsTypes
<1>10. \A g \in Rds!Handles : Lone(g)' => Lone(g)
  BY <1>9 DEF Lone
<1>11. ASSUME NEW u \in Threads
       PROVE  RdsHolds(u, rthr'[u], rlock[rthr'[u].h], rc[rthr'[u].h])
  BY <1>5, <1>7, RdsKnown DEF RdsHolds
<1>12. ASSUME NEW u \in Threads
       PROVE  rthr'[u].pc # "idle" => rthr'[u].h[1] = idx[u] /\ u \in users'[rthr'[u].h]
  BY <1>3, <1>5, <1>7, <1>9, RdsKnown DEF RdsPlaced
<1>13. ASSUME NEW u \in Threads
       PROVE  (Lone(rthr[u].h) => RdsKnows(rthr[u], rc[rthr[u].h], dbid[rthr[u].h]))'
  <2>1. CASE u = t
    <3>1. RdsKnows(r, rc[r.h], dbid[r.h])
      BY <1>5 DEF RdsKnows
    <3> QED BY <1>6, <1>7, <2>1, <3>1
  <2>2. CASE u # t
    <3>1. rthr[u].h \in Rds!Handles
      BY RdsKnown
    <3>2. Lone(rthr[u].h) => RdsKnows(rthr[u], rc[rthr[u].h], dbid[rthr[u].h])
      BY RdsKnown
    <3>3. rthr'[u] = rthr[u]
      BY <1>7, <2>2
    <3>4. Lone(rthr[u].h)' => Lone(rthr[u].h)
      BY <1>9, <3>1, <3>3 DEF Lone
    <3> QED BY <1>6, <3>2, <3>3, <3>4
  <2> QED BY <2>1, <2>2
<1>14. \A g \in Rds!Handles : Lone(g)' => RdsInDb(rc[g], dbid[g])
  BY <1>10 DEF RdsInv
<1>15. ASSUME NEW g \in Rds!Handles PROVE RdsDead(g)'
  <2>1. RdsDead(g)
    BY DEF RdsInv
  <2> QED BY <1>0, <1>5, <1>6, <1>7, <2>1 DEF RdsDead
<1>16. /\ \A u \in Threads : RdsHolds(u, rthr'[u], rlock'[rthr'[u].h], rc'[rthr'[u].h])
       /\ \A u \in Threads : rthr'[u].pc # "idle" =>
                             rthr'[u].h[1] = idx'[u] /\ u \in users'[rthr'[u].h]
       /\ \A g \in Rds!Handles : Lone(g)' => RdsInDb(rc'[g], dbid'[g])
  BY <1>6, <1>11, <1>12, <1>14
<1> QED BY <1>8, <1>13, <1>15, <1>16 DEF RdsInv, RdsPlaced

LEMMA RdsContexts ==
  /\ Rds!NewContext \in RdsStates /\ Rds!NewContext # None
  /\ Rds!NewContext.db = 0 /\ Rds!NewContext.err = FALSE
  /\ [Rds!NewContext EXCEPT !.auth = TRUE] \in RdsStates
  /\ [Rds!NewContext EXCEPT !.auth = TRUE] # None
  /\ [Rds!NewContext EXCEPT !.auth = TRUE].db = 0
  /\ Rds!FailedContext \in RdsStates /\ Rds!FailedContext # None
  /\ ~Rds!Usable(Rds!FailedContext)
<1>1. /\ Rds!NewContext \in Rds!Context /\ Rds!FailedContext \in Rds!Context
      /\ [Rds!NewContext EXCEPT !.auth = TRUE] \in Rds!Context
  BY RdsAssumption DEF Rds!NewContext, Rds!FailedContext, Rds!Context
<1>2. Rds!FailedContext.err = TRUE
  BY DEF Rds!FailedContext, Rds!NewContext
<1> QED BY <1>1, <1>2, RdsAssumption DEF RdsStates, Rds!NewContext, Rds!Usable

RdsPcs == {"idle", "connect", "auth", "lock", "select", "command", "crashed", "lost"}

LEMMA RdsGoto ==
  ASSUME NEW r \in RdsRecord, NEW pc \in RdsPcs
  PROVE  /\ [r EXCEPT !.pc = pc] \in RdsRecord
         /\ [r EXCEPT !.pc = pc].pc = pc /\ [r EXCEPT !.pc = pc].h = r.h
         /\ [r EXCEPT !.pc = pc].m = r.m /\ [r EXCEPT !.pc = pc].d = r.d
         /\ [r EXCEPT !.pc = pc].n = r.n
BY DEF RdsRecord, RdsPcs

LEMMA RdsSame ==
  ASSUME RdsInv, NEW h \in Rds!Handles
  PROVE  /\ rc = [rc EXCEPT ![h] = rc[h]] /\ dbid = [dbid EXCEPT ![h] = dbid[h]]
         /\ kept = [kept EXCEPT ![h] = kept[h]] /\ rlock = [rlock EXCEPT ![h] = rlock[h]]
BY DEF RdsInv, RdsTypes

LEMMA RdsConnects ==
  ASSUME RdsInv, NEW t \in Threads, Rds!Connect(t)
  PROVE  RdsInv'
<1> DEFINE h == rthr[t].h
           pc == IF HasPasswd THEN "auth" ELSE "lock"
           r == [rthr[t] EXCEPT !.pc = pc]
<1>1. rthr[t].pc = "connect" /\ UNCHANGED <<idx, dbid, rlock, kept, users>>
      /\ rthr' = [rthr EXCEPT ![t] = r]
  BY DEF Rds!Connect, Rds!At, Rds!Goto
<1>2. PICK c \in {Rds!NewContext, Rds!FailedContext} : rc' = [rc EXCEPT ![h] = c]
  BY DEF Rds!Connect
<1>3. c \in RdsStates /\ c # None
  BY RdsContexts
<1>9. Rds!Usable(c) => c.db = 0
  BY RdsContexts
<1>4. h \in Rds!Handles /\ dbid[h] \in Dbs /\ kept[h] \in BOOLEAN
      /\ rlock[h] \in Threads \cup {None}
  BY RdsKnown
<1>13. pc \in {"auth", "lock"}
  OBVIOUS
<1> HIDE DEF pc
<1>14. pc \in RdsPcs
  BY <1>13 DEF RdsPcs
<1>5. r \in RdsRecord /\ r.pc = pc /\ r.h = h
  BY <1>14, RdsKnown, RdsGoto
<1>6. /\ dbid' = [dbid EXCEPT ![h] = dbid[h]] /\ kept' = [kept EXCEPT ![h] = kept[h]]
      /\ rlock' = [rlock EXCEPT ![h] = rlock[h]]
  BY <1>1, <1>4, RdsSame
<1> HIDE DEF r
<1>7. RdsHolds(t, r, rlock[h], c) /\ RdsKnows(r, c, dbid[h])
  BY <1>3, <1>5, <1>13 DEF RdsHolds, RdsKnows
<1>8. ASSUME Lone(h) PROVE RdsInDb(c, dbid[h])
  <2>1. dbid[h] = 0
    BY <1>1, <1>8, RdsKnown DEF RdsKnows, RdsInDb
  <2> QED BY <1>3, <1>9, <2>1 DEF RdsInDb
<1>10. PICK l \in Threads \cup {None}, d \in Dbs, k \in BOOLEAN :
         l = rlock[h] /\ d = dbid[h] /\ k = kept[h]
  BY <1>4
<1>11. /\ dbid' = [dbid EXCEPT ![h] = d] /\ kept' = [kept EXCEPT ![h] = k]
       /\ rlock' = [rlock EXCEPT ![h] = l] /\ rc' = [rc EXCEPT ![h] = c]
       /\ RdsHolds(t, r, l, c) /\ RdsKnows(r, c, d) /\ (Lone(h) => RdsInDb(c, d))
  BY <1>2, <1>6, <1>7, <1>8, <1>10
<1>12. /\ h = rthr[t].h /\ rthr[t].pc # "idle" /\ UNCHANGED <<idx, users>>
       /\ rthr' = [rthr EXCEPT ![t] = r] /\ l = rlock[h]
       /\ r \in RdsRecord /\ r.h = h /\ r.pc \notin {"idle", "connect"}
  BY <1>1, <1>5, <1>10, <1>13
<1> HIDE DEF h
<1> QED BY <1>3, <1>11, <1>12, RdsMoves

\* AUTH may lose the connection, and changes nothing else the invariant speaks of
LEMMA RdsAuths ==
  ASSUME RdsInv, NEW t \in Threads, Rds!Auth(t)
  PROVE  RdsInv'
<1> DEFINE h == rthr[t].h
           r == [rthr[t] EXCEPT !.pc = "lock"]
<1>1. /\ rthr[t].pc = "auth" /\ UNCHANGED <<idx, dbid, rlock, kept, users>>
      /\ rthr' = [rthr EXCEPT ![t] = r] /\ rc[h] # None
  BY DEF Rds!Auth, Rds!At, Rds!Goto, Rds!Ctx
<1>2. /\ h \in Rds!Handles /\ rc[h] \in RdsStates /\ dbid[h] \in Dbs
      /\ kept[h] \in BOOLEAN /\ rlock[h] \in Threads \cup {None}
      /\ (Lone(h) => RdsInDb(rc[h], dbid[h]))
  BY RdsKnown
<1>3. PICK c \in RdsStates :
        /\ rc' = [rc EXCEPT ![h] = c] /\ c # None
        /\ Rds!Usable(c) => /\ Rds!Usable(rc[h]) /\ c.db = rc[h].db
                            /\ c.refused = rc[h].refused
  <2>1. CASE rc' = [rc EXCEPT ![h] = Rds!FailedContext]
    BY <2>1, RdsContexts
  <2>2. CASE /\ Rds!Usable(rc[h])
             /\ \E ok \in BOOLEAN : rc' = [rc EXCEPT ![h].auth = @ \/ ok]
    <3>1. PICK ok \in BOOLEAN : rc' = [rc EXCEPT ![h].auth = @ \/ ok]
      BY <2>2
    <3>2. rc[h] \in Rds!Context
      BY <1>1, <1>2 DEF RdsStates
    <3> DEFINE a == rc[h].auth \/ ok
               c == [rc[h] EXCEPT !.auth = a]
    <3>3. rc' = [rc EXCEPT ![h] = c] /\ a \in BOOLEAN
      BY <3>1
    <3> HIDE DEF a
    <3>4. /\ c \in Rds!Context /\ c.err = rc[h].err /\ c.alive = rc[h].alive
          /\ c.db = rc[h].db /\ c.refused = rc[h].refused
      BY <3>2, <3>3 DEF Rds!Context
    <3> HIDE DEF c
    <3> QED BY <3>3, <3>4, RdsAssumption DEF RdsStates, Rds!Usable
  <2> QED BY <2>1, <2>2 DEF Rds!Auth, Rds!Ctx
<1>4. r \in RdsRecord /\ r.pc = "lock" /\ r.h = h
  BY RdsKnown, RdsGoto DEF RdsPcs
<1>5. /\ dbid' = [dbid EXCEPT ![h] = dbid[h]] /\ kept' = [kept EXCEPT ![h] = kept[h]]
      /\ rlock' = [rlock EXCEPT ![h] = rlock[h]]
  BY <1>1, <1>2, RdsSame
<1> HIDE DEF r
<1>6. RdsHolds(t, r, rlock[h], c) /\ RdsKnows(r, c, dbid[h])
  BY <1>4 DEF RdsHolds, RdsKnows
<1>7. Lone(h) => RdsInDb(c, dbid[h])
  BY <1>1, <1>2, <1>3 DEF RdsInDb
<1>8. PICK l \in Threads \cup {None}, d \in Dbs, k \in BOOLEAN :
        l = rlock[h] /\ d = dbid[h] /\ k = kept[h]
  BY <1>2
<1>9. /\ dbid' = [dbid EXCEPT ![h] = d] /\ kept' = [kept EXCEPT ![h] = k]
      /\ rlock' = [rlock EXCEPT ![h] = l] /\ rc' = [rc EXCEPT ![h] = c]
      /\ RdsHolds(t, r, l, c) /\ RdsKnows(r, c, d) /\ (Lone(h) => RdsInDb(c, d))
  BY <1>3, <1>5, <1>6, <1>7, <1>8
<1>10. /\ h = rthr[t].h /\ rthr[t].pc # "idle" /\ UNCHANGED <<idx, users>>
       /\ rthr' = [rthr EXCEPT ![t] = r] /\ l = rlock[h]
       /\ r \in RdsRecord /\ r.h = h /\ r.pc \notin {"idle", "connect"}
  BY <1>1, <1>4, <1>8
<1> HIDE DEF h
<1> QED BY <1>3, <1>9, <1>10, RdsMoves

\* AUTH finds no context only where another thread has freed it
LEMMA RdsAuthCrashes ==
  ASSUME RdsInv, NEW t \in Threads, Rds!AuthCrash(t)
  PROVE  RdsInv'
<1> DEFINE h == rthr[t].h
           r == [rthr[t] EXCEPT !.pc = "lost"]
<1>1. /\ rthr[t].pc = "auth" /\ UNCHANGED <<idx, rc, dbid, rlock, kept, users>>
      /\ rthr' = [rthr EXCEPT ![t] = r] /\ rc[h] = None
  BY DEF Rds!AuthCrash, Rds!At, Rds!Goto, Rds!Ctx
<1>2. /\ h \in Rds!Handles /\ rc[h] \in RdsStates /\ dbid[h] \in Dbs
      /\ kept[h] \in BOOLEAN /\ rlock[h] \in Threads \cup {None}
  BY RdsKnown
<1>3. ~Lone(h)
  BY <1>1, RdsKnown DEF RdsKnows
<1>4. r \in RdsRecord /\ r.pc = "lost" /\ r.h = h
  BY RdsKnown, RdsGoto DEF RdsPcs
<1>5. /\ dbid' = [dbid EXCEPT ![h] = dbid[h]] /\ kept' = [kept EXCEPT ![h] = kept[h]]
      /\ rlock' = [rlock EXCEPT ![h] = rlock[h]] /\ rc' = [rc EXCEPT ![h] = rc[h]]
  BY <1>1, <1>2, RdsSame
<1> HIDE DEF r
<1>6. RdsHolds(t, r, rlock[h], rc[h])
  BY <1>4 DEF RdsHolds
<1>7. PICK c \in RdsStates, l \in Threads \cup {None}, d \in Dbs, k \in BOOLEAN :
        c = rc[h] /\ l = rlock[h] /\ d = dbid[h] /\ k = kept[h]
  BY <1>2
<1>8. /\ dbid' = [dbid EXCEPT ![h] = d] /\ kept' = [kept EXCEPT ![h] = k]
      /\ rlock' = [rlock EXCEPT ![h] = l] /\ rc' = [rc EXCEPT ![h] = c]
      /\ RdsHolds(t, r, l, c) /\ l = rlock[h] /\ c = None
  BY <1>1, <1>5, <1>6, <1>7
<1>9. /\ h = rthr[t].h /\ rthr[t].pc # "idle" /\ UNCHANGED <<idx, users>>
      /\ rthr' = [rthr EXCEPT ![t] = r]
      /\ r \in RdsRecord /\ r.h = h /\ r.pc \notin {"idle", "connect"}
  BY <1>1, <1>4
<1>10. /\ Lone(h) => RdsInDb(c, d) /\ RdsKnows(r, c, d)
       /\ c = None => rc[h] = None
       /\ ~(c # None /\ c.err)
  BY <1>1, <1>3, <1>8
<1> HIDE DEF h
<1> QED BY <1>8, <1>9, <1>10, RdsMoves

LEMMA RdsLocks ==
  ASSUME RdsInv, NEW t \in Threads, Rds!Lock(t)
  PROVE  RdsInv'
<1> DEFINE h == rthr[t].h
           pc == IF rthr[t].m.select THEN "select" ELSE "command"
           r == [rthr[t] EXCEPT !.pc = pc]
<1>1. rthr[t].pc = "lock" /\ rlock[h] = None /\ UNCHANGED <<idx, rc, dbid, kept, users>>
      /\ rthr' = [rthr EXCEPT ![t] = r] /\ rlock' = [rlock EXCEPT ![h] = t]
  BY DEF Rds!Lock, Rds!At, Rds!Goto
<1>4. /\ h \in Rds!Handles /\ rc[h] \in RdsStates /\ dbid[h] \in Dbs
      /\ kept[h] \in BOOLEAN
  BY RdsKnown
<1>6. /\ dbid' = [dbid EXCEPT ![h] = dbid[h]] /\ kept' = [kept EXCEPT ![h] = kept[h]]
      /\ rc' = [rc EXCEPT ![h] = rc[h]]
  BY <1>1, <1>4, RdsSame
<1>2. pc \in {"select", "command"} /\ (pc = "command" => ~rthr[t].m.select)
  OBVIOUS
<1> HIDE DEF pc
<1>3. pc \in RdsPcs
  BY <1>2 DEF RdsPcs
<1>5. r \in RdsRecord /\ r.pc = pc /\ r.h = h /\ r.m = rthr[t].m
  BY <1>3, RdsKnown, RdsGoto
<1> HIDE DEF r
<1>7. RdsHolds(t, r, t, rc[h]) /\ RdsKnows(r, rc[h], dbid[h])
  BY <1>2, <1>5 DEF RdsHolds, RdsKnows
<1>8. Lone(h) => RdsInDb(rc[h], dbid[h])
  BY RdsKnown
<1>0. h = rthr[t].h /\ rthr[t].pc # "idle"
  BY <1>1
<1>9. PICK c \in RdsStates, d \in Dbs, k \in BOOLEAN :
        c = rc[h] /\ d = dbid[h] /\ k = kept[h]
  BY <1>4
<1>10. /\ dbid' = [dbid EXCEPT ![h] = d] /\ kept' = [kept EXCEPT ![h] = k]
       /\ rc' = [rc EXCEPT ![h] = c] /\ RdsHolds(t, r, t, c)
       /\ (Lone(h) => RdsInDb(c, d) /\ RdsKnows(r, c, d))
       /\ (c = None => rc[h] = None)
  BY <1>6, <1>7, <1>8, <1>9
<1>11. r.h = h /\ r.pc \notin {"idle", "connect"} /\ t \in Threads \cup {None}
  BY <1>2, <1>5
<1> HIDE DEF h
<1> QED BY <1>0, <1>1, <1>5, <1>10, <1>11, RdsMoves

\* a method returns: what it leaves is a live context, none, or is said to be kept
LEMMA RdsReturns ==
  ASSUME RdsInv, NEW t \in Threads, rthr[t].pc \in {"select", "command"},
         UNCHANGED <<idx, users>>, NEW k \in BOOLEAN, Rds!Return(t, k),
         NEW c \in RdsStates, NEW d \in Dbs,
         rc' = [rc EXCEPT ![rthr[t].h] = c], dbid' = [dbid EXCEPT ![rthr[t].h] = d],
         Lone(rthr[t].h) => RdsInDb(c, d),
         c # None /\ c.err => k = TRUE
  PROVE  RdsInv'
<1> DEFINE h == rthr[t].h
<1>1. /\ rthr' = [rthr EXCEPT ![t] = Rds!Outside] /\ kept' = [kept EXCEPT ![h] = k]
      /\ rlock' = [rlock EXCEPT ![h] = None]
  BY DEF Rds!Return
<1>2. rlock[h] = t
  BY RdsKnown DEF RdsHolds
<1>3. RdsHolds(t, Rds!Outside, None, c) /\ RdsKnows(Rds!Outside, c, d)
  BY RdsOutsideFits
<1>0. h = rthr[t].h
  OBVIOUS
<1> HIDE DEF h
<1> QED BY <1>0, <1>1, <1>2, <1>3, RdsOutside, RdsMoves

\* ... or goes on
LEMMA RdsGoesOn ==
  ASSUME RdsInv, NEW t \in Threads, rthr[t].pc \in {"select", "command"},
         UNCHANGED <<idx, users, rlock, kept>>,
         NEW r \in RdsRecord, rthr' = [rthr EXCEPT ![t] = r],
         r.h = rthr[t].h, r.pc \notin {"idle", "connect"},
         NEW c \in RdsStates, NEW d \in Dbs,
         rc' = [rc EXCEPT ![rthr[t].h] = c], dbid' = [dbid EXCEPT ![rthr[t].h] = d],
         RdsHolds(t, r, t, c),
         Lone(rthr[t].h) => RdsInDb(c, d) /\ RdsKnows(r, c, d)
  PROVE  RdsInv'
<1> DEFINE h == rthr[t].h
<1>1. h \in Rds!Handles /\ rlock[h] = t /\ kept[h] \in BOOLEAN
  BY RdsKnown DEF RdsHolds
<1>2. rlock' = [rlock EXCEPT ![h] = t] /\ kept' = [kept EXCEPT ![h] = kept[h]]
  BY <1>1, RdsSame
<1>0. h = rthr[t].h
  OBVIOUS
<1> HIDE DEF h
<1> QED BY <1>0, <1>1, <1>2, RdsMoves

LEMMA RdsRefuses ==
  ASSUME RdsInv, NEW t \in Threads, Rds!Refuse(t)
  PROVE  RdsInv'
<1> DEFINE h == rthr[t].h
<1>1. /\ rthr[t].pc \in {"select", "command"} /\ rc[h] = None
      /\ Rds!Return(t, FALSE) /\ UNCHANGED <<idx, rc, dbid, users>>
  BY DEF Rds!Refuse, Rds!NoContext, Rds!Ctx
<1>2. h \in Rds!Handles /\ dbid[h] \in Dbs /\ (Lone(h) => RdsInDb(rc[h], dbid[h]))
      /\ rc[h] \in RdsStates
  BY RdsKnown
<1>3. rc' = [rc EXCEPT ![h] = rc[h]] /\ dbid' = [dbid EXCEPT ![h] = dbid[h]]
  BY <1>1, <1>2, RdsSame
<1>4. PICK c \in RdsStates, d \in Dbs, k \in BOOLEAN :
        c = rc[h] /\ d = dbid[h] /\ k = FALSE
  BY <1>2
<1>5. /\ rc' = [rc EXCEPT ![h] = c] /\ dbid' = [dbid EXCEPT ![h] = d] /\ Rds!Return(t, k)
      /\ (Lone(h) => RdsInDb(c, d)) /\ (c # None /\ c.err => k = TRUE)
  BY <1>1, <1>2, <1>3, <1>4
<1>6. rthr[t].pc \in {"select", "command"} /\ UNCHANGED <<idx, users>>
  BY <1>1
<1> QED BY <1>5, <1>6, RdsReturns

LEMMA RdsResets ==
  ASSUME RdsInv, NEW t \in Threads, rthr[t].pc \in {"select", "command"},
         UNCHANGED <<idx, users>>, NEW k \in BOOLEAN, Rds!Return(t, k),
         Rds!rst_handle(rthr[t].h)
  PROVE  RdsInv'
<1>1. rc' = [rc EXCEPT ![rthr[t].h] = None] /\ dbid' = [dbid EXCEPT ![rthr[t].h] = 0]
  BY DEF Rds!rst_handle
<1>2. None \in RdsStates /\ 0 \in Dbs
  BY RdsAssumption DEF RdsStates
<1>3. RdsInDb(None, 0)
  BY DEF RdsInDb
<1> QED BY <1>1, <1>2, <1>3, RdsReturns

LEMMA RdsSelects ==
  ASSUME RdsInv, NEW t \in Threads, Rds!Select(t)
  PROVE  RdsInv'
<1> DEFINE h == rthr[t].h
           r == [rthr[t] EXCEPT !.pc = "command"]
<1>1. /\ rthr[t].pc = "select" /\ UNCHANGED <<idx, users>>
      /\ rthr[t].m.select => rc[h] # None
  BY RdsKnown, RdsRests DEF Rds!Select, Rds!At, Rds!NoContext, Rds!Ctx
<1>2. /\ h \in Rds!Handles /\ rc[h] \in RdsStates /\ dbid[h] \in Dbs /\ rthr[t].d \in Dbs
      /\ (Lone(h) => RdsInDb(rc[h], dbid[h]))
  BY RdsKnown DEF RdsRecord
<1>3. /\ r \in RdsRecord /\ r.pc = "command" /\ r.h = h /\ r.m = rthr[t].m
      /\ r.d = rthr[t].d
  BY RdsKnown, RdsGoto DEF RdsPcs
<1>4. CASE /\ dbid[h] = rthr[t].d /\ Rds!Goto(t, "command")
           /\ UNCHANGED <<rc, dbid, rlock, kept>>
  <2>1. /\ rc' = [rc EXCEPT ![h] = rc[h]] /\ dbid' = [dbid EXCEPT ![h] = dbid[h]]
        /\ rthr' = [rthr EXCEPT ![t] = r]
    BY <1>2, <1>4, RdsSame DEF Rds!Goto
  <2> HIDE DEF r
  <2>2. RdsHolds(t, r, t, rc[h]) /\ RdsKnows(r, rc[h], dbid[h])
    BY <1>1, <1>3, <1>4 DEF RdsHolds, RdsKnows
  <2>3. /\ r.pc \notin {"idle", "connect"} /\ rthr[t].pc \in {"select", "command"}
        /\ UNCHANGED <<idx, users, rlock, kept>>
    BY <1>1, <1>3, <1>4
  <2> QED BY <1>2, <1>3, <2>1, <2>2, <2>3, RdsGoesOn
<1>5. CASE /\ rc[h] # None /\ Rds!Usable(rc[h])
           /\ \/ rc' = [rc EXCEPT ![h].db = rthr[t].d, ![h].refused = FALSE]
              \/ rc' = [rc EXCEPT ![h].refused = TRUE]
           /\ dbid' = [dbid EXCEPT ![h] = rthr[t].d] /\ Rds!Goto(t, "command")
           /\ UNCHANGED <<rlock, kept>>
  <2>1. rthr' = [rthr EXCEPT ![t] = r]
    BY <1>5 DEF Rds!Goto
  <2>5. rc[h] \in Rds!Context
    BY <1>2, <1>5 DEF RdsStates
  <2>2. PICK c \in RdsStates :
          /\ rc' = [rc EXCEPT ![h] = c] /\ c # None
          /\ c.refused \/ c.db = rthr[t].d
    <3> DEFINE b == [rc[h] EXCEPT !.db = rthr[t].d, !.refused = FALSE]
               e == [rc[h] EXCEPT !.refused = TRUE]
    <3>1. rc' = [rc EXCEPT ![h] = b] \/ rc' = [rc EXCEPT ![h] = e]
      BY <1>2, <1>5, RdsSame DEF RdsInv, RdsTypes
    <3>2. b \in Rds!Context /\ e \in Rds!Context /\ b.db = rthr[t].d /\ e.refused
      BY <1>2, <2>5 DEF Rds!Context
    <3> HIDE DEF b, e
    <3> QED BY <3>1, <3>2, RdsAssumption DEF RdsStates
  <2> HIDE DEF r
  <2>3. RdsHolds(t, r, t, c) /\ RdsKnows(r, c, rthr[t].d) /\ RdsInDb(c, rthr[t].d)
    BY <1>3, <2>2 DEF RdsHolds, RdsKnows, RdsInDb
  <2>4. /\ r.pc \notin {"idle", "connect"} /\ rthr[t].pc \in {"select", "command"}
        /\ UNCHANGED <<idx, users, rlock, kept>>
    BY <1>1, <1>3, <1>5
  <2> QED BY <1>2, <1>3, <1>5, <2>1, <2>2, <2>3, <2>4, RdsGoesOn
<1>6. CASE Rds!SelectFails(h) /\ Rds!Return(t, FALSE)
  BY <1>1, <1>6, RdsResets DEF Rds!SelectFails
<1> QED BY <1>4, <1>5, <1>6 DEF Rds!Select, Rds!Ctx

LEMMA RdsCommands ==
  ASSUME RdsInv, NEW t \in Threads, Rds!Command(t)
  PROVE  RdsInv'
<1> DEFINE h == rthr[t].h
           n == rthr[t].n
<1>1. rthr[t].pc = "command" /\ UNCHANGED <<idx, users>> /\ rc[h] # None
  BY DEF Rds!Command, Rds!At, Rds!Ctx
<1>2. /\ h \in Rds!Handles /\ rc[h] \in RdsStates /\ dbid[h] \in Dbs
      /\ (Lone(h) => RdsInDb(rc[h], dbid[h]) /\ RdsKnows(rthr[t], rc[h], dbid[h]))
      /\ n \in 0 .. MaxCmds /\ rthr[t] \in RdsRecord
  BY RdsKnown DEF RdsRecord
<1>3. CASE Rds!Return(t, TRUE) /\ UNCHANGED <<rc, dbid>>
  <2>1. PICK c \in RdsStates, d \in Dbs : c = rc[h] /\ d = dbid[h]
    BY <1>2
  <2>2. rc' = [rc EXCEPT ![h] = c] /\ dbid' = [dbid EXCEPT ![h] = d]
    BY <1>2, <1>3, <2>1, RdsSame
  <2>3. Lone(h) => RdsInDb(c, d)
    BY <1>2, <2>1
  <2>4. rthr[t].pc \in {"select", "command"}
    BY <1>1
  <2>5. PICK k \in BOOLEAN : k = TRUE
    OBVIOUS
  <2>6. Rds!Return(t, k) /\ (c # None /\ c.err => k = TRUE)
    BY <1>3, <2>5
  <2> QED BY <1>1, <2>2, <2>3, <2>4, <2>6, RdsReturns
<1>4. CASE Rds!rst_handle(h) /\ Rds!Return(t, FALSE)
  BY <1>1, <1>4, RdsResets
<1>5. ASSUME NEW out \in Rds!Outcomes(rc[h]), n > 0,
             rc' = IF out = "null" THEN [rc EXCEPT ![h] = Rds!FailedContext] ELSE rc,
             IF n > 1
             THEN /\ rthr' = [rthr EXCEPT ![t].n = @ - 1]
                  /\ UNCHANGED <<rlock, kept>>
             ELSE Rds!Return(t, out = "null"),
             UNCHANGED dbid
      PROVE  RdsInv'
  <2>1. PICK c \in RdsStates :
          /\ rc' = [rc EXCEPT ![h] = c] /\ c # None
          /\ out = "null" => ~Rds!Usable(c)
          /\ out # "null" => c = rc[h] /\ Rds!Usable(c)
    <3>1. CASE out = "null"
      BY <1>5, <3>1, RdsContexts
    <3>2. CASE out # "null"
      <4>1. rc' = [rc EXCEPT ![h] = rc[h]]
        BY <1>2, <1>5, <3>2, RdsSame
      <4>2. Rds!Usable(rc[h])
        BY <3>2 DEF Rds!Outcomes
      <4> QED BY <1>1, <1>2, <3>2, <4>1, <4>2
    <3> QED BY <3>1, <3>2
  <2>2. dbid' = [dbid EXCEPT ![h] = dbid[h]]
    BY <1>2, <1>5, RdsSame
  <2>3. Lone(h) => RdsInDb(c, dbid[h])
    BY <1>2, <2>1 DEF RdsInDb
  <2>4. CASE n > 1
    <3> DEFINE r == [rthr[t] EXCEPT !.n = n - 1]
    <3>1. rthr' = [rthr EXCEPT ![t] = r] /\ UNCHANGED <<rlock, kept>>
      BY <1>5, <2>4
    <3>2. n - 1 \in 0 .. MaxCmds
      BY <1>2, <2>4, RdsAssumption
    <3>3. /\ r \in RdsRecord /\ r.pc = "command" /\ r.h = h /\ r.m = rthr[t].m
          /\ r.d = rthr[t].d
      BY <1>1, <1>2, <3>2 DEF RdsRecord
    <3> HIDE DEF r
    <3>4. RdsHolds(t, r, t, c)
      BY <2>1, <3>3 DEF RdsHolds
    <3>5. Lone(h) => RdsKnows(r, c, dbid[h])
      BY <1>1, <1>2, <3>3 DEF RdsKnows
    <3>6. r.pc \notin {"idle", "connect"} /\ rthr[t].pc \in {"select", "command"}
      BY <1>1, <3>3
    <3> QED BY <1>1, <1>2, <2>1, <2>2, <2>3, <3>1, <3>3, <3>4, <3>5, <3>6, RdsGoesOn
  <2>5. CASE ~(n > 1)
    <3>1. PICK k \in BOOLEAN : k = (out = "null")
      OBVIOUS
    <3>2. Rds!Return(t, k)
      BY <1>5, <2>5, <3>1
    <3>3. c.err => k = TRUE
      BY <2>1, <3>1 DEF Rds!Usable
    <3> QED BY <1>1, <1>2, <2>1, <2>2, <2>3, <3>2, <3>3, RdsReturns
  <2> QED BY <2>4, <2>5
<1> QED BY <1>1, <1>3, <1>4, <1>5 DEF Rds!Command, Rds!Ctx

LEMMA RdsCrashes ==
  ASSUME RdsInv, NEW t \in Threads, Rds!Crash(t)
  PROVE  RdsInv'
<1> DEFINE h == rthr[t].h
           r == [rthr[t] EXCEPT !.pc = "crashed"]
<1>1. /\ rthr[t].pc = "command" /\ UNCHANGED <<idx, rc, dbid, rlock, kept, users>>
      /\ rthr' = [rthr EXCEPT ![t] = r] /\ ~rthr[t].m.tests
  BY DEF Rds!Crash, Rds!At, Rds!Goto, Rds!NoContext, Rds!Ctx
<1>2. /\ h \in Rds!Handles /\ rc[h] \in RdsStates /\ dbid[h] \in Dbs
      /\ (Lone(h) => RdsInDb(rc[h], dbid[h]))
  BY RdsKnown
<1>3. /\ r \in RdsRecord /\ r.pc = "crashed" /\ r.h = h /\ r.m = rthr[t].m
  BY RdsKnown, RdsGoto DEF RdsPcs
<1>4. rc' = [rc EXCEPT ![h] = rc[h]] /\ dbid' = [dbid EXCEPT ![h] = dbid[h]]
  BY <1>1, <1>2, RdsSame
<1> HIDE DEF r
<1>5. RdsHolds(t, r, t, rc[h]) /\ RdsKnows(r, rc[h], dbid[h])
  BY <1>1, <1>3 DEF RdsHolds, RdsKnows
<1>6. r.pc \notin {"idle", "connect"} /\ rthr[t].pc \in {"select", "command"}
  BY <1>1, <1>3
<1> QED BY <1>1, <1>2, <1>3, <1>4, <1>5, <1>6, RdsGoesOn

LEMMA RdsDies ==
  ASSUME RdsInv, NEW h \in Rds!Handles, Rds!ContextDies(h)
  PROVE  RdsInv'
<1> DEFINE c == [Rds!NewContext EXCEPT !.alive = FALSE]
<1>1. /\ rc[h] # None /\ rc' = [rc EXCEPT ![h] = c]
      /\ UNCHANGED <<idx, dbid, rlock, rthr, kept, users>>
  BY DEF Rds!ContextDies
<1>2. c \in RdsStates /\ c # None /\ ~Rds!Usable(c) /\ ~c.err
  <2>1. c \in Rds!Context /\ c.alive = FALSE /\ c.err = FALSE
    BY RdsAssumption DEF Rds!NewContext, Rds!Context
  <2> QED BY <2>1, RdsAssumption DEF RdsStates, Rds!Usable
<1> HIDE DEF c
<1>3. rc'[h] = c /\ \A g \in Rds!Handles \ {h} : rc'[g] = rc[g]
  BY <1>1 DEF RdsInv, RdsTypes
<1>4. RdsTypes'
  BY <1>1, <1>2 DEF RdsInv, RdsTypes
<1>5. \A g \in Rds!Handles : rc'[g] = None <=> rc[g] = None
  BY <1>1, <1>2, <1>3
<1>6. ASSUME NEW u \in Threads
      PROVE  /\ RdsHolds(u, rthr[u], rlock[rthr[u].h], rc'[rthr[u].h])
             /\ Lone(rthr[u].h) => RdsKnows(rthr[u], rc'[rthr[u].h], dbid[rthr[u].h])
  BY <1>5, RdsKnown DEF RdsHolds, RdsKnows
<1>7. ASSUME NEW g \in Rds!Handles
      PROVE  Lone(g) => RdsInDb(rc'[g], dbid[g])
  BY <1>2, <1>3 DEF RdsInv, RdsInDb
<1>8. ASSUME NEW g \in Rds!Handles PROVE RdsDead(g)'
  <2>1. RdsDead(g)
    BY DEF RdsInv
  <2> QED BY <1>1, <1>2, <1>3, <2>1 DEF RdsDead
<1> QED BY <1>1, <1>4, <1>6, <1>7, <1>8 DEF RdsInv, Lone, RdsPlaced

LEMMA RdsSteps == RdsInv /\ [Rds!Next]_(Rds!vars) => RdsInv'
<1> SUFFICES ASSUME RdsInv, [Rds!Next]_(Rds!vars) PROVE RdsInv'
  OBVIOUS
<1>1. ASSUME NEW t \in Threads, NEW m \in Rds!Methods, NEW d \in Dbs, Rds!Call(t, m, d)
      PROVE  RdsInv'
  BY <1>1, RdsCalls
<1>2. ASSUME NEW t \in Threads, Rds!Connect(t) PROVE RdsInv'
  BY <1>2, RdsConnects
<1>10. ASSUME NEW t \in Threads, Rds!Auth(t) PROVE RdsInv'
  BY <1>10, RdsAuths
<1>11. ASSUME NEW t \in Threads, Rds!AuthCrash(t) PROVE RdsInv'
  BY <1>11, RdsAuthCrashes
<1>3. ASSUME NEW t \in Threads, Rds!Lock(t) PROVE RdsInv'
  BY <1>3, RdsLocks
<1>4. ASSUME NEW t \in Threads, Rds!Refuse(t) PROVE RdsInv'
  BY <1>4, RdsRefuses
<1>5. ASSUME NEW t \in Threads, Rds!Select(t) PROVE RdsInv'
  BY <1>5, RdsSelects
<1>6. ASSUME NEW t \in Threads, Rds!Command(t) PROVE RdsInv'
  BY <1>6, RdsCommands
<1>7. ASSUME NEW t \in Threads, Rds!Crash(t) PROVE RdsInv'
  BY <1>7, RdsCrashes
<1>8. ASSUME NEW h \in Rds!Handles, Rds!ContextDies(h) PROVE RdsInv'
  BY <1>8, RdsDies
<1>9. CASE UNCHANGED Rds!vars
  BY <1>9 DEF Rds!vars, RdsInv, RdsTypes, RdsPlaced, Lone, RdsDead
<1> QED
  BY <1>1, <1>2, <1>3, <1>4, <1>5, <1>6, <1>7, <1>8, <1>9, <1>10, <1>11 DEF Rds!Next

LEMMA RdsFirst == Rds!Init => RdsInv
<1> SUFFICES ASSUME Rds!Init PROVE RdsInv
  OBVIOUS
<1>1. RdsTypes
  BY RdsOutside, RdsContexts, RdsAssumption DEF Rds!Init, RdsTypes
<1>2. \A t \in Threads : rthr[t] = Rds!Outside
  BY DEF Rds!Init
<1>3. ASSUME NEW h \in Rds!Handles
      PROVE  /\ rc[h] \in RdsStates /\ rc[h] # None /\ dbid[h] = 0 /\ kept[h] = TRUE
             /\ Rds!Usable(rc[h]) => rc[h].db = 0
  BY RdsContexts DEF Rds!Init
<1>4. \A h \in Rds!Handles : RdsInDb(rc[h], dbid[h]) /\ RdsDead(h)
  BY <1>3 DEF RdsInDb, RdsDead
<1> QED BY <1>1, <1>2, <1>4, RdsOutsideFits DEF RdsInv

LEMMA RdsStep == [Next]_vars => [Rds!Next]_(Rds!vars)
BY DEF Next, vars, others, rdsVars, Rds!vars

\* The invariant holds in every state of every execution of the parts.
THEOREM RdsAlways == Spec => []RdsInv
<1>1. Init => RdsInv
  BY RdsFirst DEF Init
<1>2. RdsInv /\ [Next]_vars => RdsInv'
  BY RdsStep, RdsSteps
<1> QED BY <1>1, <1>2, PTL DEF Spec

\* A command whose method names a database runs there, where no other thread uses the
\* handle, whatever contexts were lost and replaced: unless the server has answered the
\* last SELECT on the context with an error (get_handle, sel_database, rst_handle).
THEOREM InItsDatabase == Spec => []CommandInItsDb
<1>1. RdsInv => CommandInItsDb
  BY RdsInvImplies DEF CommandInItsDb
<1> QED BY <1>1, RdsAlways, PTL

\* A method that goes through sel_database, or tests its context itself, never runs a
\* command without one, though other threads may share the handle and free it; and a
\* thread whose handle nobody shares finds a context for AUTH, which runs without the
\* lock (get_handle).
THEOREM ContextIsThere == Spec => []TestedIsThere
<1>1. RdsInv => TestedIsThere
  BY RdsInvImplies DEF TestedIsThere
<1> QED BY <1>1, RdsAlways, PTL

\* Once its callers are out, a handle holds no context that hiredis knows to be dead,
\* unless the last method was one of those that keep it, or init left it there and no
\* method has been on the handle.
THEOREM DeadIsDropped == Spec => []DeadContextIsDropped
<1>1. RdsInv => DeadContextIsDropped
  BY RdsInvImplies DEF DeadContextIsDropped
<1> QED BY <1>1, RdsAlways, PTL
=============================================================================
