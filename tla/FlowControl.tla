---------------------------- MODULE FlowControl ----------------------------
(***************************************************************************)
(* CmdAmntCntrl, the flow control of one command, as ISGWMgrSvc uses it:   *)
(* a worker asks get_status in check(), processes the request unless it is *)
(* refused, and counts it with amount_inc.  An operator may set the status *)
(* at any time (CMD_SYS_SET_CONTRL_STAT).                                  *)
(*                                                                         *)
(* get_status and set_status hold status_lock_, amount_inc holds           *)
(* statiscs_lock_ (and status_lock_ while it calls set_status): the two    *)
(* sides write the same counters, so amount_inc is modelled in its steps.  *)
(***************************************************************************)
EXTENDS Integers

CONSTANTS
  Workers,
  TimeIntvl,     \* time_intvl, in seconds
  MaxReqLimit,   \* max_req_limit: requests of one period
  MaxFailRatio,  \* max_fail_ratio_limit, in percent
  MinFail,       \* failures up to which the ratio does not count (10)
  Word,          \* how many numbers an unsigned int has
  MaxTime,       \* bound: the clock
  MaxTotal       \* bound: requests counted

VARIABLES
  status,     \* 0 normal, 1 refused for this period, 2 stopped
  curReq,     \* cur_req
  curFail,    \* cur_fail_req
  timeStart,  \* time_start: when this period began
  timeNow,    \* time_now_
  clock,      \* the wall clock, in seconds
  total,      \* total_req
  locked,     \* whether statiscs_lock_ is held
  thr         \* by worker: where it is, and the time it read from the clock

counters == <<curReq, curFail, timeStart>>
vars == <<status, counters, timeNow, clock, total, locked, thr>>

\* unsigned subtraction: a time before the start of the period is far ahead
Since(t, start) == (t - start) % Word

Init ==
  /\ status = 0
  /\ curReq = 0
  /\ curFail = 0
  /\ timeStart = 0
  /\ timeNow = 0
  /\ clock = TimeIntvl
  /\ total = 0
  /\ locked = FALSE
  /\ thr = [w \in Workers |-> [pc |-> "idle", now |-> 0]]

At(w, pc) == thr[w].pc = pc
Goto(w, pc) == thr' = [thr EXCEPT ![w].pc = pc]

Tick ==
  /\ clock < MaxTime
  /\ clock' = clock + 1
  /\ UNCHANGED <<status, counters, timeNow, total, locked, thr>>

\* set_status(0) also starts the counts afresh, the ratio's divisor included
Reset == curReq' = 0 /\ curFail' = 0

\* CMD_SYS_SET_CONTRL_STAT
SetStatus(s) ==
  /\ status' = s
  /\ IF s = 0 THEN Reset ELSE UNCHANGED <<curReq, curFail>>
  /\ UNCHANGED <<timeStart, timeNow, clock, total, locked, thr>>

-----------------------------------------------------------------------------
(* check()                                                                 *)

ReadClock(w) ==
  /\ At(w, "idle")
  /\ thr' = [thr EXCEPT ![w] = [pc |-> "asking", now |-> clock]]
  /\ UNCHANGED <<status, counters, timeNow, clock, total, locked>>

\* get_status up to the lock: time_now_ is everyone's
SetTime(w) ==
  /\ At(w, "asking")
  /\ timeNow' = thr[w].now
  /\ Goto(w, "status")
  /\ UNCHANGED <<status, counters, clock, total, locked>>

PeriodOver == Since(timeNow, timeStart) > TimeIntvl

\* under status_lock_: a command refused for a period that is over is let in
GetStatus(w) ==
  /\ At(w, "status")
  /\ IF status = 1 /\ PeriodOver
     THEN status' = 0 /\ timeStart' = timeNow /\ Reset
     ELSE UNCHANGED <<status, counters>>
  /\ Goto(w, IF status' = 0 THEN "process" ELSE "idle")
  /\ UNCHANGED <<timeNow, clock, total, locked>>

-----------------------------------------------------------------------------
(* amount_inc, called when the request has been processed.                 *)

LockCounters(w) ==
  /\ At(w, "process")
  /\ total < MaxTotal
  /\ ~locked
  /\ locked' = TRUE
  /\ Goto(w, "period")
  /\ UNCHANGED <<status, counters, timeNow, clock, total>>

\* a new period begins, or this one has had its fill
Period(w) ==
  /\ At(w, "period")
  /\ IF Since(timeNow, timeStart) >= TimeIntvl
     THEN timeStart' = timeNow /\ Reset /\ UNCHANGED status
     ELSE /\ status' = IF curReq >= MaxReqLimit THEN 1 ELSE status
          /\ UNCHANGED counters
  /\ Goto(w, "count")
  /\ UNCHANGED <<timeNow, clock, total, locked>>

Count(w) ==
  /\ At(w, "count")
  /\ total' = total + 1
  /\ curReq' = curReq + 1
  /\ \/ Goto(w, "failed") /\ UNCHANGED locked
     \/ Goto(w, "idle") /\ locked' = FALSE
  /\ UNCHANGED <<status, curFail, timeStart, timeNow, clock>>

CountFailure(w) ==
  /\ At(w, "failed")
  /\ curFail' = curFail + 1
  /\ Goto(w, "ratio")
  /\ UNCHANGED <<status, curReq, timeStart, timeNow, clock, total, locked>>

\* cur_fail_ratio = 100 * cur_fail_req / cur_req; when cur_req is 0 the
\* process is killed, and nothing is modelled of it from there on
Ratio(w) ==
  /\ At(w, "ratio")
  /\ curReq # 0
  /\ status' = IF (100 * curFail) \div curReq > MaxFailRatio /\ curFail > MinFail
               THEN 1 ELSE status
  /\ locked' = FALSE
  /\ Goto(w, "idle")
  /\ UNCHANGED <<counters, timeNow, clock, total>>

Next ==
  \/ Tick
  \/ \E s \in 0 .. 2 : SetStatus(s)
  \/ \E w \in Workers :
       \/ ReadClock(w) \/ SetTime(w) \/ GetStatus(w)
       \/ LockCounters(w) \/ Period(w) \/ Count(w) \/ CountFailure(w) \/ Ratio(w)

Spec == Init /\ [][Next]_vars

-----------------------------------------------------------------------------
TypeOK ==
  /\ status \in 0 .. 2
  /\ curReq \in Nat
  /\ curFail \in Nat
  /\ timeStart \in Nat
  /\ timeNow \in Nat
  /\ clock \in Nat
  /\ total \in Nat
  /\ locked \in BOOLEAN
  /\ thr \in [Workers ->
       [pc : {"idle", "asking", "status", "process", "period", "count",
              "failed", "ratio"}, now : Nat]]

\* amount_inc has just counted a request when it works out the failure ratio,
\* and statiscs_lock_ is there to "synchronise the other statistics": the
\* number of requests it divides by is not 0.
RatioDefined == \A w \in Workers : At(w, "ratio") => curReq # 0

\* A command the operator has stopped (2, "stop all later service") stays
\* stopped until the operator says otherwise.
StoppedStays ==
  [][status = 2 => status' = 2 \/ \E s \in 0 .. 1 : SetStatus(s)]_vars
=============================================================================
