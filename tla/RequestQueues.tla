---------------------------- MODULE RequestQueues ----------------------------
(***************************************************************************)
(* The read queue and the write queue of a channel, in                     *)
(* src/memory_controller.c: how the cores of main.c insert requests into   *)
(* them, how a request advances by one DRAM command at a time, and when it *)
(* leaves.                                                                 *)
(*                                                                         *)
(* A request is served when its column command is issued, and stays in its *)
(* queue, still visible to the cores, until the next update_memory.        *)
(*                                                                         *)
(* update_memory sets next_command and command_issuable of each request,   *)
(* from the state of its bank, just before schedule() reads them.  They    *)
(* are operators here, evaluated when the scheduler looks at them; this is *)
(* the same, because a scheduler that issues one command stops looking.    *)
(* Requests inserted since update_memory are not seen by the scheduler     *)
(* before the next one.                                                    *)
(***************************************************************************)
EXTENDS Dram, AddressMap, Sequences

CONSTANTS
  ROBSIZE,              \* instruction_id is a slot of the core's reorder buffer
  WQ_CAPACITY, WQ_LOOKUP_LATENCY

RQ_LOOKUP_LATENCY == 1

\* A latency of 0, as in a configuration that leaves it out, is taken for no match.
ASSUME LookupAssumption == WQ_LOOKUP_LATENCY \in Nat

ASSUME QueuesAssumption == ROBSIZE \in Nat \ {0} /\ WQ_CAPACITY \in Nat

VARIABLES read_queue, write_queue

queueVars == <<read_queue, write_queue>>

\* What calc_dram_addr makes of an address, in the one channel modelled.
Address == [channel : {0}, rank : Ranks, bank : Banks, row : Rows, column : 0 .. NUM_COLUMNS - 1]

ASSUME ChannelAssumption == NUM_CHANNELS = 1

Slots == 0 .. ROBSIZE - 1

WriteRequest ==
  [physical_address : Nat, addr : Address, thread_id : Cores, request_served : BOOLEAN]
ReadRequest ==
  [physical_address : Nat, addr : Address, thread_id : Cores, instruction_id : Slots,
   request_served : BOOLEAN]

QueuesInit == read_queue = <<>> /\ write_queue = <<>>

Holds(queue, physical_address) ==
  \E i \in DOMAIN queue : queue[i].physical_address = physical_address

-----------------------------------------------------------------------------
\* What the cores call.

FaultyReadMatch(physical_address) ==        \* misses the reads that wait already
  IF Holds(write_queue, physical_address) THEN WQ_LOOKUP_LATENCY ELSE 0

FaultyMatchRead(physical_address) ==        \* misses the writes
  IF Holds(read_queue, physical_address) THEN RQ_LOOKUP_LATENCY ELSE 0

\* The latency of a read that is served by the queues, 0 if it is not.
ReadMatch(physical_address) ==
  IF Holds(write_queue, physical_address) THEN WQ_LOOKUP_LATENCY
  ELSE IF Holds(read_queue, physical_address) THEN RQ_LOOKUP_LATENCY ELSE 0

InsertRead(physical_address, core, slot) ==
  read_queue' = Append(read_queue,
    [physical_address |-> physical_address, addr |-> CalcDramAddr(physical_address),
     thread_id |-> core, instruction_id |-> slot, request_served |-> FALSE])

WriteExists(physical_address) == Holds(write_queue, physical_address)

InsertWrite(physical_address, core) ==
  write_queue' = Append(write_queue,
    [physical_address |-> physical_address, addr |-> CalcDramAddr(physical_address),
     thread_id |-> core, request_served |-> FALSE])

\* The cores stop fetching when a write queue has reached its capacity.
FaultyWriteQFull == Len(write_queue) > WQ_CAPACITY

WriteQFull == Len(write_queue) = WQ_CAPACITY

-----------------------------------------------------------------------------
\* The commands of a request.

NextCommand(addr, column) ==
  LET k == dram_state[addr.rank][addr.bank]
  IN  CASE k.state \in Closed -> "ACT_CMD"
        [] k.state \in PoweredDown -> "PWR_UP_CMD"
        [] k.state = "ROW_ACTIVE" /\ k.active_row = addr.row -> column
        [] OTHER -> "PRE_CMD"

CommandIssuable(addr, command) ==
  LET r == addr.rank
      b == addr.bank
  IN  \/ command = "ACT_CMD" /\ ActIssuable(r, b)
      \/ command = "PWR_UP_CMD" /\ PwrUpIssuable(r, b)
      \/ command = "COL_READ_CMD" /\ ReadIssuable(r, b)
      \/ command = "COL_WRITE_CMD" /\ WriteIssuable(r, b)
      \/ command = "PRE_CMD" /\ PreIssuable(r, b)

IssueRequestCommand(addr, command) ==
  LET r == addr.rank
      b == addr.bank
  IN  \/ command = "ACT_CMD" /\ RequestActivate(r, b, addr.row)
      \/ command = "PWR_UP_CMD" /\ RequestPowerUp(r, b)
      \/ command = "COL_READ_CMD" /\ RequestRead(r, b)
      \/ command = "COL_WRITE_CMD" /\ RequestWrite(r, b)
      \/ command = "PRE_CMD" /\ RequestPrecharge(r, b)

\* The requests whose command may be issued in this cycle, as indices.
IssuableIn(queue, column) ==
  {i \in DOMAIN queue :
     CommandIssuable(queue[i].addr, NextCommand(queue[i].addr, column))}

\* The first n requests of a queue, and all of them, without those that are served.
CleanedUpTo(queue) ==
  LET cleaned[n \in 0 .. Len(queue)] ==
        IF n = 0 THEN <<>>
        ELSE IF queue[n].request_served THEN cleaned[n - 1]
        ELSE Append(cleaned[n - 1], queue[n])
  IN  cleaned

Cleaned(queue) == CleanedUpTo(queue)[Len(queue)]

CleanQueues == read_queue' = Cleaned(read_queue) /\ write_queue' = Cleaned(write_queue)
=============================================================================
