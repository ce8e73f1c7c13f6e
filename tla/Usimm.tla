-------------------------------- MODULE Usimm --------------------------------
(***************************************************************************)
(* The simulation loop of src/main.c with one channel: the cores retire    *)
(* instructions from their reorder buffers, once every                     *)
(* PROCESSOR_CLK_MULTIPLIER cycles the memory controller is updated and    *)
(* the scheduler called, and the cores fetch instructions from their       *)
(* traces.  A module that extends this one supplies the scheduler.         *)
(*                                                                         *)
(* One iteration of the loop is a sequence of steps: Retire, then          *)
(* MemoryCycle and the scheduler when the iteration is a DRAM cycle, then  *)
(* a step per fetched instruction, then Tick.  comptime holds processor    *)
(* cycles from now, and stops at -1, when the instruction may retire.      *)
(***************************************************************************)
EXTENDS RequestQueues

CONSTANTS
  MAX_RETIRE, MAX_FETCH, PIPELINEDEPTH, PROCESSOR_CLK_MULTIPLIER,
  BIGNUM,               \* the completion time of a read not yet served
  Lines,                \* [core -> [lines left -> what the next may be]]
  TraceLength           \* bound: lines of the trace of each core

\* When the data of a read that is served now reaches its core.
Arrival == (T_CAS + T_DATA_TRANS) * PROCESSOR_CLK_MULTIPLIER + PIPELINEDEPTH

ASSUME LoopAssumption ==
  /\ {PROCESSOR_CLK_MULTIPLIER, TraceLength} \subseteq Nat \ {0}
  /\ {MAX_RETIRE, MAX_FETCH, PIPELINEDEPTH} \subseteq Nat

\* No read that is served takes as long as one that is not.
ASSUME BignumAssumption ==
  /\ BIGNUM \in Nat
  /\ \A time \in {Arrival, WQ_LOOKUP_LATENCY + PIPELINEDEPTH, RQ_LOOKUP_LATENCY + PIPELINEDEPTH} :
       time <= BIGNUM

\* A line of a trace: instructions that do not access memory, and one that does.
Line == [nonmemops : Nat, opertype : {"R", "W"}, addr : LineAddresses]

ASSUME LinesAssumption ==
  \A c \in Cores : \A left \in 1 .. TraceLength : Lines[c][left] \subseteq Line

VARIABLES
  prefixtable,          \* [core -> the prefix of its addresses]
  ROB,                  \* [core -> reorder buffer]
  line,                 \* [core -> the line of the trace being consumed]
  lines_left,           \* [core -> lines not yet consumed; 0 is tracedone]
  pc,                   \* the part of the loop body to be executed next
  numc,                 \* the core that fetches
  num_fetch,            \* the instructions it has fetched in this cycle
  subcycle,             \* CYCLE_VAL % PROCESSOR_CLK_MULTIPLIER
  expt_done

coreVars == <<prefixtable, ROB, line, lines_left>>
loopVars == <<pc, numc, num_fetch, subcycle, expt_done>>
usimmVars == <<vars, queueVars, coreVars, loopVars>>

NumCores == Cardinality(Cores)

ReorderBuffer ==
  [head : Slots, tail : Slots, inflight : 0 .. ROBSIZE, comptime : [Slots -> -1 .. BIGNUM]]

\* The types of this module's variables and the queues'; TypeOK is Dram's.
UsimmTypeOK ==
  /\ read_queue \in Seq(ReadRequest) /\ write_queue \in Seq(WriteRequest)
  /\ ROB \in [Cores -> ReorderBuffer]
  /\ prefixtable \in [Cores -> 0 .. NumCores - 1]
  /\ line \in [Cores -> Line]
  /\ lines_left \in [Cores -> 0 .. TraceLength]
  /\ pc \in {"retire", "memory", "schedule", "autoprecharge", "fetch", "tick"}
  /\ numc \in Cores /\ num_fetch \in 0 .. MAX_FETCH
  /\ subcycle \in 0 .. PROCESSOR_CLK_MULTIPLIER - 1
  /\ expt_done \in BOOLEAN

\* Cycle 0 has nothing to retire and its update_memory changes nothing.
UsimmInit ==
  /\ Init /\ QueuesInit
  /\ prefixtable \in {PrefixTable(name) : name \in TraceNames}
  /\ ROB = [c \in Cores |-> [head |-> 0, tail |-> 0, inflight |-> 0,
                             comptime |-> [s \in Slots |-> -1]]]
  /\ line \in {first \in [Cores -> UNION {Lines[c][TraceLength] : c \in Cores}] :
                \A c \in Cores : first[c] \in Lines[c][TraceLength]}
  /\ lines_left = [c \in Cores |-> TraceLength]
  /\ pc = "schedule" /\ numc = 1 /\ num_fetch = 0 /\ subcycle = 0
  /\ expt_done = FALSE

-----------------------------------------------------------------------------
\* Retiring.

Slot(r, i) == (r.head + i) % ROBSIZE

\* The number of finished instructions the core retires, in order, from the head.
FaultyRetiring(r) ==                        \* does not look at inflight
  CHOOSE n \in 0 .. MAX_RETIRE :
    /\ \A i \in 0 .. n - 1 : r.comptime[Slot(r, i)] < 0
    /\ n = MAX_RETIRE \/ r.comptime[Slot(r, n)] >= 0

FaultyInOrder(r) ==                         \* looks at the head only
  IF r.inflight = 0 \/ r.comptime[r.head] >= 0 THEN 0
  ELSE IF r.inflight < MAX_RETIRE THEN r.inflight ELSE MAX_RETIRE

Retiring(r) ==
  CHOOSE n \in 0 .. MAX_RETIRE :
    /\ n <= r.inflight
    /\ \A i \in 0 .. n - 1 : r.comptime[Slot(r, i)] < 0
    /\ n = MAX_RETIRE \/ n = r.inflight \/ r.comptime[Slot(r, n)] >= 0

StartFetch == pc' = "fetch" /\ numc' = 1 /\ num_fetch' = 0

Retire ==
  /\ pc = "retire"
  /\ ROB' = [c \in Cores |->
       [ROB[c] EXCEPT !.head = Slot(ROB[c], Retiring(ROB[c])),
                      !.inflight = @ - Retiring(ROB[c])]]
  /\ IF subcycle = 0
     THEN pc' = "memory" /\ UNCHANGED <<numc, num_fetch>>
     ELSE StartFetch
  /\ UNCHANGED <<vars, queueVars, prefixtable, line, lines_left, subcycle, expt_done>>

-----------------------------------------------------------------------------
\* The DRAM cycle.

MemoryCycle ==
  /\ pc = "memory"
  /\ UpdateMemory /\ CleanQueues
  /\ pc' = "schedule"
  /\ UNCHANGED <<coreVars, numc, num_fetch, subcycle, expt_done>>

\* issue_request_command for the i-th read, which tells the reorder buffer when its
\* data arrives, and for the i-th write.
IssueRead(i) ==
  LET q == read_queue[i]
      command == NextCommand(q.addr, "COL_READ_CMD")
  IN  /\ IssueRequestCommand(q.addr, command)
      /\ IF command = "COL_READ_CMD"
         THEN /\ read_queue' = [read_queue EXCEPT ![i].request_served = TRUE]
              /\ ROB' = [ROB EXCEPT ![q.thread_id].comptime[q.instruction_id] = Arrival]
         ELSE UNCHANGED <<read_queue, ROB>>
      /\ UNCHANGED write_queue

IssueWrite(i) ==
  LET q == write_queue[i]
      command == NextCommand(q.addr, "COL_WRITE_CMD")
  IN  /\ IssueRequestCommand(q.addr, command)
      /\ IF command = "COL_WRITE_CMD"
         THEN write_queue' = [write_queue EXCEPT ![i].request_served = TRUE]
         ELSE UNCHANGED write_queue
      /\ UNCHANGED <<read_queue, ROB>>

\* What a scheduler may issue on its own.  None of those in src/ refreshes.
SchedulerCommand(r) ==
  \/ RankStep(r)
  \/ \E b \in Banks :
       \/ \E row \in Rows : IssueActivateCommand(r, b, row)
       \/ IssuePrechargeCommand(r, b) \/ IssueAutoprecharge(r, b)

\* schedule(), or a part of it, of any scheduler at all: it serves a request, issues a
\* command of its own, or does nothing.
AnySchedule ==
  /\ pc \in {"schedule", "autoprecharge"} /\ ~expt_done
  /\ \/ \E i \in DOMAIN read_queue : IssueRead(i)
     \/ \E i \in DOMAIN write_queue : IssueWrite(i)
     \/ (\E r \in Ranks : SchedulerCommand(r)) /\ UNCHANGED <<queueVars, ROB>>
     \/ UNCHANGED <<vars, queueVars, ROB>>
  /\ StartFetch \/ (pc' = "autoprecharge" /\ UNCHANGED <<numc, num_fetch>>)
  /\ UNCHANGED <<prefixtable, line, lines_left, subcycle, expt_done>>

-----------------------------------------------------------------------------
\* Fetching.

MayFetch(c) ==
  /\ pc = "fetch" /\ numc = c
  /\ lines_left[c] > 0
  /\ num_fetch < MAX_FETCH
  /\ ROB[c].inflight # ROBSIZE
  /\ ~WriteQFull

\* The fetched instruction enters the reorder buffer at the tail.
EnterROB(c, comptime) ==
  /\ ROB' = [ROB EXCEPT ![c].comptime[ROB[c].tail] = comptime,
                        ![c].tail = (@ + 1) % ROBSIZE,
                        ![c].inflight = @ + 1]
  /\ num_fetch' = num_fetch + 1
  /\ UNCHANGED <<vars, prefixtable, pc, numc, subcycle, expt_done>>

\* The trace file is read as it is needed.
NextLine(c) ==
  /\ lines_left' = [lines_left EXCEPT ![c] = @ - 1]
  /\ IF lines_left[c] > 1
     THEN \E next \in Lines[c][lines_left[c] - 1] : line' = [line EXCEPT ![c] = next]
     ELSE UNCHANGED line

FetchNonMemory(c) ==
  /\ MayFetch(c) /\ line[c].nonmemops > 0
  /\ EnterROB(c, PIPELINEDEPTH)
  /\ line' = [line EXCEPT ![c].nonmemops = @ - 1]
  /\ UNCHANGED <<lines_left, queueVars>>

\* The address of the core's line, in the address space of its trace.
Addr(c) == Prefixed(line[c].addr, prefixtable[c])

FaultyFetchRead(c) ==                       \* completes the read when it is inserted
  /\ MayFetch(c) /\ line[c].nonmemops = 0 /\ line[c].opertype = "R"
  /\ EnterROB(c, ReadMatch(Addr(c)) + PIPELINEDEPTH)
  /\ IF ReadMatch(Addr(c)) # 0
     THEN UNCHANGED read_queue
     ELSE InsertRead(Addr(c), c, ROB[c].tail)
  /\ NextLine(c) /\ UNCHANGED write_queue

FetchRead(c) ==
  /\ MayFetch(c) /\ line[c].nonmemops = 0 /\ line[c].opertype = "R"
  /\ LET latency == ReadMatch(Addr(c))
     IN  IF latency # 0
         THEN EnterROB(c, latency + PIPELINEDEPTH) /\ UNCHANGED read_queue
         ELSE EnterROB(c, BIGNUM) /\ InsertRead(Addr(c), c, ROB[c].tail)
  /\ NextLine(c) /\ UNCHANGED write_queue

FetchWrite(c) ==
  /\ MayFetch(c) /\ line[c].nonmemops = 0 /\ line[c].opertype = "W"
  /\ EnterROB(c, PIPELINEDEPTH)
  /\ IF WriteExists(Addr(c)) THEN UNCHANGED write_queue ELSE InsertWrite(Addr(c), c)
  /\ NextLine(c) /\ UNCHANGED read_queue

FetchNothing(c) ==
  /\ pc = "fetch" /\ numc = c /\ ~MayFetch(c)
  /\ IF c = NumCores
     THEN pc' = "tick" /\ UNCHANGED numc
     ELSE numc' = c + 1 /\ UNCHANGED pc
  /\ num_fetch' = 0
  /\ UNCHANGED <<vars, queueVars, coreVars, subcycle, expt_done>>

Fetch == \E c \in Cores : FetchNonMemory(c) \/ FetchRead(c) \/ FetchWrite(c) \/ FetchNothing(c)

-----------------------------------------------------------------------------
\* The end of the loop body: the test for termination, and CYCLE_VAL++.

FaultyFinished ==                           \* does not wait for the write queue
  \A c \in Cores : lines_left[c] = 0 /\ ROB[c].inflight = 0

Finished ==
  /\ \A c \in Cores : lines_left[c] = 0 /\ ROB[c].inflight = 0
  /\ write_queue = <<>>

Tick ==
  /\ pc = "tick"
  /\ expt_done' = Finished
  /\ ROB' = [c \in Cores |->
       [ROB[c] EXCEPT !.comptime = [s \in Slots |-> IF @[s] < 0 THEN -1 ELSE @[s] - 1]]]
  /\ subcycle' = (subcycle + 1) % PROCESSOR_CLK_MULTIPLIER
  /\ pc' = "retire"
  /\ UNCHANGED <<vars, queueVars, prefixtable, line, lines_left, numc, num_fetch>>

\* while (!expt_done), around the steps but the scheduler's.
LoopStep == ~expt_done /\ (Retire \/ MemoryCycle \/ Fetch \/ Tick)

Stop == expt_done /\ UNCHANGED usimmVars

\* The simulator with any scheduler: what is true of it, no scheduler can break.
UsimmNext == LoopStep \/ AnySchedule \/ Stop

UsimmSpec == UsimmInit /\ [][UsimmNext]_usimmVars

-----------------------------------------------------------------------------
\* Properties.

\* A slot of the reorder buffer that holds an instruction in flight.
InFlight(c, s) == \E i \in 0 .. ROB[c].inflight - 1 : s = Slot(ROB[c], i)

\* A read waiting in the queue owns its slot: its instruction is still in flight and
\* not complete, and no two waiting reads write to the same slot.  COL_READ_CMD
\* stores the completion time through (thread_id, instruction_id), so a slot that was
\* freed and reused in the meantime would complete another instruction.
ReadsOwnTheirSlots ==
  /\ \A i \in DOMAIN read_queue :
       LET q == read_queue[i]
       IN  ~q.request_served =>
             /\ InFlight(q.thread_id, q.instruction_id)
             /\ ROB[q.thread_id].comptime[q.instruction_id] >= 0
  /\ \A i, j \in DOMAIN read_queue :
       /\ i # j /\ ~read_queue[i].request_served /\ ~read_queue[j].request_served
       => \/ read_queue[i].thread_id # read_queue[j].thread_id
          \/ read_queue[i].instruction_id # read_queue[j].instruction_id

\* No core writes past the capacity of the write queue: all of them test it before
\* each instruction, for equality only.
WriteQueueBounded == Len(write_queue) <= WQ_CAPACITY

\* Requests for one place of the DRAM are merged, although the queues are searched for
\* a physical address: a queue never holds two.
NoTwins ==
  /\ \A i, j \in DOMAIN read_queue : i # j => read_queue[i].addr # read_queue[j].addr
  /\ \A i, j \in DOMAIN write_queue : i # j => write_queue[i].addr # write_queue[j].addr

\* "each trace accesses a different address space": traces that are not threads of one
\* application never meet in a place of the DRAM.  The prefix that tells their addresses
\* apart lands in bits of the row that only the enlarged banks have.
Requests == {read_queue[i] : i \in DOMAIN read_queue} \cup {write_queue[i] : i \in DOMAIN write_queue}

AddressSpacesApart ==
  \A p, q \in Requests :
    prefixtable[p.thread_id] # prefixtable[q.thread_id] => p.addr # q.addr

\* A read is not sent to the DRAM past an older write of the same place: what it would
\* find there is out of date until the write queue drains.
ReadsSeeWrites ==
  [][\A c \in Cores : FetchRead(c) /\ read_queue' # read_queue =>
       \A i \in DOMAIN write_queue : write_queue[i].addr # CalcDramAddr(Addr(c))]_usimmVars

\* The simulation ends with nothing left to do: no write is lost and, although the
\* loop does not look at it, no read is left in the read queue.
DoneMeansDrained ==
  expt_done => /\ write_queue = <<>>
               /\ \A i \in DOMAIN read_queue : read_queue[i].request_served

-----------------------------------------------------------------------------
\* What comments of the source say of it, and the code does not do.

\* "Also, add this to the write queue" (main.c), unless it is there already: a write
\* that is merged is merged with a write still to be sent to the DRAM.
WritesMergeWithPending ==
  [][\A c \in Cores :
       FetchWrite(c) /\ UNCHANGED write_queue =>
         \E i \in DOMAIN write_queue :
           write_queue[i].physical_address = Addr(c) /\ ~write_queue[i].request_served]_usimmVars
=============================================================================
