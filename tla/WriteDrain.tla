----------------------------- MODULE WriteDrain -----------------------------
(***************************************************************************)
(* What the schedulers of src/scheduler*.c share: reads are served before  *)
(* writes except while writes are drained, between two watermarks of the   *)
(* write queue; the requests served are those whose command can be issued, *)
(* in order of arrival.                                                    *)
(***************************************************************************)
EXTENDS Usimm

CONSTANTS HI_WM, LO_WM  \* watermarks of the write queue

VARIABLE drain_writes

drainVars == <<usimmVars, drain_writes>>

DrainInit == UsimmInit /\ drain_writes = FALSE

\* Whether this cycle drains writes.
FaultyDraining ==                           \* leaves a few writes in the queue for good
  \/ drain_writes /\ Len(write_queue) > LO_WM
  \/ Len(write_queue) > HI_WM

Draining ==
  \/ drain_writes /\ Len(write_queue) > LO_WM
  \/ Len(write_queue) > HI_WM
  \/ Len(read_queue) = 0

\* The queue a cycle serves, and the column command its requests end with.
Served == IF Draining THEN write_queue ELSE read_queue
Column == IF Draining THEN "COL_WRITE_CMD" ELSE "COL_READ_CMD"

Command(i) == NextCommand(Served[i].addr, Column)

Ready == IssuableIn(Served, Column)
Hits == {i \in Ready : Command(i) = Column}

FirstOf(S) == CHOOSE i \in S : \A j \in S : i <= j

Serve(i) == IF Draining THEN IssueWrite(i) ELSE IssueRead(i)

\* First come first served; and row hits first.
FirstReady == FirstOf(Ready)
FirstHit == FirstOf(IF Hits # {} THEN Hits ELSE Ready)

Nothing == UNCHANGED <<vars, queueVars, ROB>>

\* The first bank of a set, in the order of the loops over ranks and banks.
Before(p, q) == p[1] < q[1] \/ (p[1] = q[1] /\ p[2] <= q[2])
FirstBank(S) == CHOOSE p \in S : \A q \in S : Before(p, q)

\* schedule(), as the simulation loop sees it: choose is what it issues, next is where
\* it goes on.
ScheduleThen(choose, next) ==
  /\ pc = "schedule" /\ ~expt_done
  /\ drain_writes' = Draining
  /\ choose
  /\ next
  /\ UNCHANGED <<prefixtable, line, lines_left, subcycle, expt_done>>

ScheduleStep(choose) == ScheduleThen(choose, StartFetch)

\* issue_autoprecharge, which a scheduler may call after the column command of the cycle.
StartAutoprecharge == pc' = "autoprecharge" /\ UNCHANGED <<numc, num_fetch>>

Accessed == CHOOSE p \in Ranks \X Banks : cas_issued_current_cycle[p[1]][p[2]] # 0

FaultyAutoprecharge ==                      \* does not ask whether it may
  /\ pc = "autoprecharge"
  /\ LET r == Accessed[1]
         b == Accessed[2]
     IN  dram_state' = [dram_state EXCEPT ![r][b] = PrechargedBank(@, StartPrecharge(r, b))]
  /\ cas_issued_current_cycle' = NoCas
  /\ UNCHANGED <<activation_record, refresh, command_issued_current_cycle>>
  /\ StartFetch
  /\ UNCHANGED <<queueVars, coreVars, subcycle, expt_done, drain_writes>>

Autoprecharge ==
  /\ pc = "autoprecharge"
  /\ LET r == Accessed[1]
         b == Accessed[2]
     IN  IF IsAutoprechargeAllowed(r, b) THEN IssueAutoprecharge(r, b) ELSE UNCHANGED vars
  /\ StartFetch
  /\ UNCHANGED <<queueVars, coreVars, subcycle, expt_done, drain_writes>>

\* Every other step of the simulator.
OtherStep == (LoopStep \/ Stop) /\ UNCHANGED drain_writes

-----------------------------------------------------------------------------
\* Every simulation ends, whatever the traces: no request starves, neither at the
\* hands of requests to other rows of its bank, nor of a drain that other cores keep
\* supplying, nor of the refreshes; and cores, queues and scheduler never wait for
\* each other for good.
Termination == <>expt_done
=============================================================================
