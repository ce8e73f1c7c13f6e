------------------------------- MODULE Stride -------------------------------
(***************************************************************************)
(* The scheduler of src/scheduler-stride.c on one channel: row hits first, *)
(* then other commands; then, in a cycle that is left over, precharges for *)
(* the waiting writes, and a command on speculation for a bank that no     *)
(* request of the cycle uses.                                              *)
(*                                                                         *)
(* What is predicted is left open: any row of any such bank, once there    *)
(* are requests enough to predict from, in the queues for the strides and  *)
(* among the pushed reads for the history buffer.  The buffer is reduced   *)
(* to their number, and to the position in the read queue from which on    *)
(* reads are yet to be pushed.  Its element -1, which is read before       *)
(* anything is pushed, is taken to have no link.                           *)
(***************************************************************************)
EXTENDS WriteDrain

VARIABLES
  prev_rqsize,
  pushes                \* reads pushed, saturating at Enough

strideVars == <<prev_rqsize, pushes>>

StrideInit == prev_rqsize = 0 /\ pushes = 0

\* Three addresses make a stride; a read strictly between two linked ones is the least
\* the history buffer predicts from.
Enough == 3

NewReads == Later(Len(read_queue) - prev_rqsize, 0)

PushedSoFar == IF pushes + NewReads > Enough THEN Enough ELSE pushes + NewReads

\* Isused, which has the banks of the writes only while they drain.
Uses(queue, r, b) == \E i \in DOMAIN queue : queue[i].addr.rank = r /\ queue[i].addr.bank = b

Unused(r, b) == ~Uses(read_queue, r, b) /\ ~(Draining /\ Uses(write_queue, r, b))

\* While writes drain, and none can be served, reads to other banks go on.
BypassingReads ==
  {i \in IssuableIn(read_queue, "COL_READ_CMD") :
     Draining /\ ~Uses(write_queue, read_queue[i].addr.rank, read_queue[i].addr.bank)}

\* A row that a waiting write needs closed, and no read needs.
WritePrecharges ==
  {i \in IssuableIn(write_queue, "COL_WRITE_CMD") :
     LET addr == write_queue[i].addr
     IN  /\ NextCommand(addr, "COL_WRITE_CMD") = "PRE_CMD"
         /\ ~Uses(read_queue, addr.rank, addr.bank)}

LeftOver == Ready = {} /\ BypassingReads = {} /\ WritePrecharges = {}

StrideSeen == Len(read_queue) >= Enough \/ (Draining /\ Len(write_queue) >= Enough)

SpeculateActivate ==
  /\ LeftOver /\ StrideSeen
  /\ \E r \in Ranks, b \in Banks, row \in Rows :
       /\ Unused(r, b) /\ State(r, b) = "PRECHARGING"
       /\ IssueActivateCommand(r, b, row)
  /\ UNCHANGED <<queueVars, ROB>>

SpeculatePrecharge ==
  /\ LeftOver /\ (StrideSeen \/ PushedSoFar = Enough)
  /\ \E r \in Ranks, b \in Banks :
       /\ Unused(r, b) /\ State(r, b) = "ROW_ACTIVE"
       /\ IssuePrechargeCommand(r, b)
  /\ UNCHANGED <<queueVars, ROB>>

StrideCommand ==
  \/ Ready # {} /\ Serve(FirstHit)
  \/ Ready = {} /\ BypassingReads # {} /\ IssueRead(FirstOf(BypassingReads))
  \/ /\ Ready = {} /\ BypassingReads = {} /\ WritePrecharges # {}
     /\ IssueWrite(FirstOf(WritePrecharges))
  \/ SpeculateActivate \/ SpeculatePrecharge
  \/ LeftOver /\ Nothing

\* Whether the scheduler counts a read as gone: only the loop that looks for the row
\* hits of a cycle without a drain does.
FaultyCounted == ~Draining /\ Ready # {}    \* counts the activates and precharges too

Counted == ~Draining /\ Hits # {}

StrideSchedule ==
  /\ ScheduleStep(StrideCommand)
  /\ pushes' = PushedSoFar
  /\ prev_rqsize' = IF Counted THEN Len(read_queue) - 1 ELSE Len(read_queue)
=============================================================================
