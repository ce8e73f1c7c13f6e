-------------------------------- MODULE Fair --------------------------------
(***************************************************************************)
(* The scheduler of src/scheduler-fair.c: among the reads whose command    *)
(* can be issued it takes the one of the thread with the most credits.  A  *)
(* thread earns a credit per cycle and pays half of its credits for the    *)
(* data of a read.  Writes are drained for one of two reasons, which end   *)
(* the drain differently.                                                  *)
(***************************************************************************)
EXTENDS WriteDrain

CONSTANTS MAX_CREDITS, MIN_WRITES_ONCE_WRITING_HAS_BEGUN

ASSUME FairAssumption == {MAX_CREDITS, MIN_WRITES_ONCE_WRITING_HAS_BEGUN} \subseteq Nat

VARIABLES
  dbus_credits,                     \* [thread -> credits]
  writes_done_this_drain,           \* saturating: only compared with the minimum
  draining_writes_due_to_rq_empty

fairVars == <<dbus_credits, writes_done_this_drain, draining_writes_due_to_rq_empty>>

FairInit ==
  /\ dbus_credits = [c \in Cores |-> MAX_CREDITS]
  /\ writes_done_this_drain = 0 /\ draining_writes_due_to_rq_empty = FALSE

\* A credit per cycle since the last DRAM cycle.  The first one finds them at the limit.
Credited(c) ==
  IF dbus_credits[c] + PROCESSOR_CLK_MULTIPLIER > MAX_CREDITS THEN MAX_CREDITS
  ELSE dbus_credits[c] + PROCESSOR_CLK_MULTIPLIER

-----------------------------------------------------------------------------
\* Whether to drain.

BeginsHigh == ~drain_writes /\ Len(write_queue) > HI_WM
BeginsEmpty ==
  ~drain_writes /\ ~BeginsHigh /\ read_queue = <<>> /\ write_queue # <<>>

Begun == drain_writes \/ BeginsHigh \/ BeginsEmpty
DueToEmpty == draining_writes_due_to_rq_empty \/ BeginsEmpty
WritesDone == IF BeginsHigh \/ BeginsEmpty THEN 0 ELSE writes_done_this_drain

EndsLow == Len(write_queue) <= LO_WM /\ ~DueToEmpty
EndsDue ==
  Begun /\ read_queue # <<>> /\ DueToEmpty /\ WritesDone > MIN_WRITES_ONCE_WRITING_HAS_BEGUN

FairDraining == Begun /\ ~EndsLow /\ ~EndsDue /\ write_queue # <<>>

Written == IF WritesDone > MIN_WRITES_ONCE_WRITING_HAS_BEGUN THEN WritesDone ELSE WritesDone + 1

-----------------------------------------------------------------------------
\* What to issue.

FairWrites == IssuableIn(write_queue, "COL_WRITE_CMD")
FairReads == IssuableIn(read_queue, "COL_READ_CMD")

WriteHits ==
  {i \in FairWrites : NextCommand(write_queue[i].addr, "COL_WRITE_CMD") = "COL_WRITE_CMD"}

ReadHit(i) == NextCommand(read_queue[i].addr, "COL_READ_CMD") = "COL_READ_CMD"

\* A row hit counts half as much again.
Bid(i) ==
  LET credits == Credited(read_queue[i].thread_id)
  IN  IF ReadHit(i) THEN credits + credits \div 2 ELSE credits

TopRead ==
  CHOOSE i \in FairReads : \A j \in FairReads : Bid(i) > Bid(j) \/ (Bid(i) = Bid(j) /\ i <= j)

Earn == dbus_credits' = [c \in Cores |-> Credited(c)]

FairWrite ==
  /\ FairDraining /\ FairWrites # {}
  /\ IssueWrite(FirstOf(IF WriteHits # {} THEN WriteHits ELSE FairWrites))
  /\ writes_done_this_drain' = IF WriteHits # {} THEN Written ELSE WritesDone
  /\ Earn

FairRead ==
  /\ ~FairDraining /\ FairReads # {}
  /\ IssueRead(TopRead)
  /\ dbus_credits' = [c \in Cores |->
       IF ReadHit(TopRead) /\ c = read_queue[TopRead].thread_id
       THEN Credited(c) \div 2 ELSE Credited(c)]
  /\ writes_done_this_drain' = WritesDone

FairIdle ==
  /\ IF FairDraining THEN FairWrites = {} ELSE FairReads = {}
  /\ Nothing /\ Earn
  /\ writes_done_this_drain' = WritesDone

FairSchedule ==
  /\ pc = "schedule" /\ ~expt_done
  /\ FairWrite \/ FairRead \/ FairIdle
  /\ drain_writes' = FairDraining
  /\ draining_writes_due_to_rq_empty' = (DueToEmpty /\ ~EndsDue)
  /\ StartFetch
  /\ UNCHANGED <<prefixtable, line, lines_left, subcycle, expt_done>>

-----------------------------------------------------------------------------
\* What comments of the source say of it, and the code does not do.

\* "flag saying that we're only draining the write queue because there are no reads to
\* schedule": it is not raised when a drain begins while reads wait.
FlagTellsReason ==
  [][~drain_writes /\ drain_writes' /\ read_queue # <<>> =>
       ~draining_writes_due_to_rq_empty']_<<drainVars, fairVars>>
=============================================================================
