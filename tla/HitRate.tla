------------------------------- MODULE HitRate -------------------------------
(***************************************************************************)
(* The schedulers of src/scheduler-test.c and src/scheduler-perf.c, which  *)
(* go by the row hits among the accesses of each thread.  Both divide      *)
(* integers, so all that is left of a rate is whether it is 1:             *)
(* hits / accesses is 1 while every access of the thread was a hit, and    *)
(* hits / total_hits while the thread has all the hits there are.  The     *)
(* counters are replaced by what decides that.                             *)
(***************************************************************************)
EXTENDS ColumnMarks

VARIABLES
  hitters,              \* the threads with hits[thread] > 0
  accessors,            \* the threads with accesses[thread] > 0
  missed                \* the threads with hits[thread] < accesses[thread]

rateVars == <<hitters, accessors, missed>>

RatesInit == hitters = {} /\ accessors = {} /\ missed = {}

Count(thread, hit) ==
  /\ accessors' = accessors \cup {thread}
  /\ hitters' = IF hit THEN hitters \cup {thread} ELSE hitters
  /\ missed' = IF hit THEN missed ELSE missed \cup {thread}

-----------------------------------------------------------------------------
\* scheduler-test.c: first come first served; the rows opened for the thread of highest
\* priority stay open, the others are candidates for closure after a column command.

\* All 64 entries of the table are compared; those past the last core stay 0.
Threads == Cores \cup {NumCores + 1}

\* priority[thread], computed at the end of the previous schedule() from the counters.
Priority(thread) ==
  IF hitters = {} THEN 0
  ELSE (IF hitters = {thread} THEN 1 ELSE 0) + (IF accessors = {thread} THEN 1 ELSE 0)

\* get_core_highest_priority keeps the first index of the lowest value.
HighestPriority ==
  CHOOSE t \in Threads : \A u \in Threads :
    Priority(t) < Priority(u) \/ (Priority(t) = Priority(u) /\ t <= u)

TestServe ==
  /\ Ready # {} /\ Serve(FirstReady)
  /\ LET q == Served[FirstReady]
         command == Command(FirstReady)
     IN  /\ CASE command = Column -> Mark(q.addr, q.thread_id # HighestPriority)
              [] command \in {"ACT_CMD", "PRE_CMD"} -> Mark(q.addr, FALSE)
              [] OTHER -> UNCHANGED recent_colacc
         /\ Count(q.thread_id, command = Column)

TestSchedule ==
  ScheduleStep(TestServe \/ ((CloseFirst \/ NothingToClose) /\ UNCHANGED rateVars))

-----------------------------------------------------------------------------
\* scheduler-perf.c: row hits first; an access with a rate of at least threshold_open
\* takes an auto-precharge with it, and an idle cycle precharges the first bank that may
\* be precharged, whatever its state.

threshold_open == T_RP \div (T_RP + T_RCD)

Rate(thread) == IF thread \in missed THEN 0 ELSE 1

PerfServe ==
  /\ Ready # {} /\ Serve(FirstHit)
  /\ Count(Served[FirstHit].thread_id, Hits # {})

\* The second half of the cycle of a row hit.
PerfHit == Hits # {} /\ Rate(Served[FirstHit].thread_id) >= threshold_open

Prechargeable == {p \in Ranks \X Banks : IsPrechargeAllowed(p[1], p[2])}

PerfPrecharge ==
  /\ Ready = {} /\ Prechargeable # {}
  /\ LET p == FirstBank(Prechargeable) IN IssuePrechargeCommand(p[1], p[2])
  /\ UNCHANGED <<queueVars, ROB, rateVars>>

PerfIdle == Ready = {} /\ Prechargeable = {} /\ Nothing /\ UNCHANGED rateVars

PerfSchedule ==
  \/ ScheduleThen(PerfServe, IF PerfHit THEN StartAutoprecharge ELSE StartFetch)
  \/ ScheduleStep(PerfPrecharge \/ PerfIdle)
=============================================================================
