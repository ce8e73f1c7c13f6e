# USIMM in TLA+

USIMM simulates the main memory of a multi-core processor. Cores replay traces of
instructions, their reads and writes wait in the queues of a memory controller, and a
scheduler chooses in every DRAM cycle which command the controller issues. The point of
the program is that a *scheduler is written by its user*: `memory_controller.c` promises
that whatever the scheduler asks for, only what a DRAM device allows is done, and that
every rank is refreshed on time. This directory holds TLA+ models of that controller, of
the queues, cores and simulation loop around it, and of the nine schedulers that come with
it; the TLC runs that check them; and TLAPS proofs that the properties of controller,
clock, queues, cores and schedulers hold for every size and timing, termination excepted.

Paths below are relative to the root of the repository; `mc.c` stands for
`src/src/memory_controller.c` and `main.c` for `src/src/main.c`.

## 1. The system

| Part | State | Operations | Talks to | Correct if |
|---|---|---|---|---|
| **DRAM timing and command legality** (`mc.c`, `memory_controller.h`, `params.h`) | `dram_state[rank][bank]`: state, open row and seven `next_<cmd>` times; `activation_record`; deadlines and counters of the refresh window; the two per-cycle flags | `is_*_allowed`, `issue_*`, `issue_request_command`, `update_memory` | called by schedulers and the loop | every command issued is legal for the device; every rank gets its refreshes; forced refreshes start on a quiet rank and fit in the window |
| **Request queues** (`mc.c`) | `read_queue`, `write_queue` | `insert_read`, `insert_write`, the two matching functions, `update_*_queue_commands`, `clean_queues` | cores insert, schedulers serve | no duplicates; a read completes its own instruction and no other; nothing is lost |
| **Cores and simulation loop** (`main.c`) | `ROB` per core, position in each trace, `CYCLE_VAL`, `expt_done` | retire, DRAM cycle, fetch, termination test | all of the above, in a fixed order | the write queue keeps its bound; the loop ends, and with nothing left |
| **Schedulers** (`scheduler*.c`, one is linked) | `drain_writes`, and marks or counters of their own | `schedule` | queues and `issue_*` | no request starves; the marks agree with the controller's state |
| **Power accounting** (`mc.c`) | time per power state and rank | `gather_stats`, `calculate_power`, `print_stats` | reads `dram_state` | each cycle is booked on a line whose legend is true (it is not always) |
| **Address mapping** (`mc.c`, `main.c`) | `prefixtable` | `calc_dram_addr`, address prefixes | cores | distinct lines map to distinct places; programs never share one |
| **Configuration, output, scripts** | parameters | parsing and printing | | |

The program has one thread. What makes it hard is not concurrency but *time*: some forty
`next_<cmd>` updates, each a maximum with an earlier one, must together imply every timing
of the device for every sequence of commands, over banks and ranks that share buses, while
refresh deadlines move and forced refreshes overwrite the state of a rank. The actors that
interleave are the cores, which insert requests at any time, the scheduler, which knows
nothing of the refreshes, and the controller. There is no persistence and no message
passing, so there are no crashes or losses to model. `PROJECT.json` lists the hazards, each
with its line and the properties that would catch it going wrong.

## 2. The modules

```
DramTiming            effects of the commands on a bank; refresh bookkeeping; constants
  AddressMap          prefixes of traces, calc_dram_addr
  RankClock           what time does to a rank, abstractly
  |  RefreshClock     ... with the clock, int and ring of the source: implements RankClock
  Dram                the controller: is_*_allowed, issue_*, update_memory
  |  PowerStats       gather_stats
  |  DramHistory      Dram with history variables: implements DramProtocol
  |  RequestQueues    (with AddressMap) read and write queues; the commands of a request
  |    Usimm          cores, reorder buffers, the loop of main.c, with any scheduler
  |      WriteDrain   what the schedulers share
  |        Fcfs       scheduler.c, scheduler-fcfs.c
  |        |  FcfsMerging   Fcfs with the memory of merged reads
  |        Pwrdn      scheduler-pwrdn.c
  |        FrFcfs     scheduler-frfcfs.c
  |        Fair       scheduler-fair.c
  |        Stride     scheduler-stride.c
  |        ColumnMarks  banks marked for closure
  |          Close    scheduler-close.c, scheduler-orcw.c
  |          HitRate  scheduler-test.c, scheduler-perf.c
  |        Simulator  Usimm with every one of these schedulers
  DramProtocol        what the device allows: the abstract specification
```

The theorems about a module are in modules of their own, which extend it and each other:

```
RefreshClockProofs    RefreshClock: the int and the ring
DramProofs            Dram: types, deadlines, forced refreshes
  DramStateProofs     Dram and PowerStats: combinations of bank states
    DramHistoryProofs   DramHistory: registers cover the timings of the device
      DramLegalProofs   DramHistory implements DramProtocol
  UsimmProofs         Usimm, with any scheduler: queues, loop; it drives Dram
    FcfsMergingProofs   slots of the reorder buffers, merged reads
      SimulatorProofs   (and DramStateProofs) the nine schedulers and their marks
```

A module whose name begins with `MC` instantiates one of these for TLC; its comments and
those of the `.cfg` files say for which case. Operators called `Faulty...` are plausible
bugs (a dropped update, a missing reset, an off-by-one). Nothing uses them; substituting one
for the definition that follows it shows that the property named with it in `PROJECT.json`
would notice.

**DramTiming and Dram.** One channel (channels share no state). The controller runs once
every `PROCESSOR_CLK_MULTIPLIER` processor cycles and all timings are multiplied by that
number, so a step of time here is a DRAM cycle. The source keeps absolute cycles but only
compares them with `CYCLE_VAL` and replaces them by `max(CYCLE_VAL + T, old)`; here they are
*the cycles left to wait*, down to 0. This makes the state space finite without a bound on
time. The refresh deadlines are relative in the same way, but are tested for equality, so
they are integers that run below 0. The activation record is the set of the ages of a
rank's activates. `UpdateMemory` is `CYCLE_VAL++` with `update_memory`; every other action
is one `issue_*` function, or one `case` of `issue_request_command`, with its guard, which
is the `is_*_allowed` function or the part of `update_read_queue_commands` or
`update_write_queue_commands` that sets `command_issuable`. `REFRESHES` stands for the
literal 8 of the source. `Spec` lets the scheduler do anything it may, refreshes included.
`LazySpec` leaves the refreshes to the controller, as every scheduler in the repository does.

**DramProtocol and DramHistory.** The protocol is written from the timing names of
`params.h`, with no `next_<cmd>` in sight: it remembers the ages of past commands and says
when a command is legal. `DramHistory` adds these ages to `Dram` as history variables; that
the resulting behaviour satisfies `DramProtocol!Spec` is the main statement about the
controller, and TLC checks it as a refinement. History variables only follow `Dram`'s steps
and never restrict them.

**PowerStats.** The line of the power statistics a cycle is booked on (`GatherStats`), and what
`print_stats` prints of that line (`Legend`), as a predicate of the banks.

**RankClock and RefreshClock.** The other modules measure time from the current cycle, and
this is an assumption about the source that `RefreshClock` discharges for what a rank's
clock decides. It keeps `CYCLE_VAL` as a count of processor cycles, the completion deadline
as an absolute cycle, the issue deadline as an `int` whose largest value is `INT_MAX`, and the
activates in
a ring of `BIG_ACTIVATION_WINDOW` entries that is cleared `T_FAW` late, one DRAM cycle's
entries at a time. `RankClock` is the same clock in the terms of `DramTiming`, whose operators
(`UpdatedRefresh`, `FlushActivateRecord`, `IsFawMet`) `Dram` is built from; `RelativeClock` says
that the one implements the other. The banks are left out of both: an activate or a refresh
happens at any time the clock allows.

**AddressMap.** A physical address is a number. `CalcDramAddr` cuts it into fields as
`calc_dram_addr` does for either mapping; `PrefixTable` is the table `main` computes from the
names of the traces, of which only "begins with MT0", "begins with MT" and "neither" matter;
`TotalRows` the enlarged banks. The two address widths of `main` are constants with the
assumption it asserts. Powers of two are a recursive function, `Pow2`, so that theorems can
speak about them. `PlacesApart` says that no two cache lines share a place of the DRAM.

**RequestQueues.** Requests are records of their physical address and what `calc_dram_addr`
makes of it, the core and reorder-buffer slot they belong to, and `request_served`. They are
matched by physical address, as in the source, and reach the DRAM by their fields.
`next_command` and `command_issuable` are computed when the scheduler looks, which is the
same as in the source because `update_memory` computes them just before. A served request
stays in its queue until `clean_queues` in the next DRAM cycle, as in the source. Trace
addresses are assumed to be those of whole cache lines. `Cleaned`, what `clean_queues` leaves
of a queue, is a recursive function, which theorems can speak about.

**Usimm.** One iteration of the loop is a sequence of steps with a program counter: `Retire`
(all cores), `MemoryCycle` and the scheduler in a DRAM cycle, one `Fetch...` per fetched
instruction in the order of the cores, `Tick`. Completion times are relative and stop at -1.
Traces are any sequences of `TraceLength` lines, each from the set `Lines` gives for its
core and position. `AnySchedule` is the scheduler as the loop knows it: it serves a request, or
issues a command of its own, or does nothing. `UsimmSpec` is the simulator with it, an abstract
specification that every scheduler implements; what holds of it, no scheduler can break.

**The schedulers.** `schedule()` is one step, since nothing runs beside it, except that an
auto-precharge, which `scheduler-frfcfs.c` and `scheduler-perf.c` issue after the column command
of the same cycle, is a step of its own with a program counter of its own (`Autoprecharge`).
`WriteDrain` has the drain of the write queue between two watermarks, which all but `Fair`
copy, and the choice among the requests that are ready: the first (`FirstReady`), or the first
row hit (`FirstHit`).
`Pwrdn` keeps the cycle a rank was put to sleep as a flag, which it is but for a statistic.
`ColumnMarks` has `recent_colacc` and the precharge of an idle cycle; `Close` and `HitRate`
differ in who marks. `FrFcfs` counts hits up to `CAPN`, beyond which the count makes no
difference. `Fair` has the credits, the bids of the reads, and the two reasons to drain, with
`writes_done_this_drain` saturating where it is no longer compared. The counters of `HitRate` grow
without bound and are used in integer divisions only: `hits / accesses` is 1 if every access was
a hit and 0 otherwise, so three sets of threads stand for them. `Stride` keeps the position
of the new reads and the number of reads pushed; which row is predicted is any row, for the
strides and links that produce it are data. Its guards are kept: banks that requests of the
cycle use are left alone, `PRECHARGING` banks are opened and `ROW_ACTIVE` ones closed, and a
prediction takes three requests at least.

**Simulator.** The variables of all schedulers, one of which is chosen in the initial state;
the others keep theirs. One run compares all policies on the same traces.

## 3. The runs

Every instance is exhaustive. Timings are chosen small but *different and in the proportions
that matter*: an update left out must show, so a bound that is implied by another in one
run is the decisive one in a second run.

| Run | Instance | Shows |
|---|---|---|
| `dram_one_rank` | 1 rank, 2 banks, all commands, 2 refreshes per window | the controller implements the device protocol (`Legal`), the four-activate window included; the refresh deadline is never jumped over and keeps room for what is owed; no window passes without its refreshes; forced refreshes fit; a rank under forced refresh takes nothing; the banks of a rank sleep as one; power is booked on a line with a false legend in one case only |
| `dram_two_ranks` | 2 ranks, 1 bank each, the controller does the refreshing | it implements the strict protocol, in which forced refreshes find nothing in progress; every accepted command is over at the deadline of its rank; the shared data bus and `T_RTRS` |
| `fcfs` | 2 cores, threads of one application or separate programs, 3 trace lines each out of 5, buffer of 2, write queue of 2, 1 rank of 2 banks, mapping 1 | reads own their slots; bound of the write queue; no twins; no read overtakes a write of its place; programs never meet in the DRAM (with too few rows they would); merging is harmless within a core; nothing left at the end |
| `schedulers` | the nine schedulers; 2 threads of an application, 2 ranks of 2 banks, mapping 0, 3 lines each out of 2 for each position | every simulation ends; the marks of sleepers, of banks to close, the counts of hits and the position of new reads agree with the controller and the queue; every scheduler implements `UsimmSpec` |
| `refresh_clock` | ints up to 255, cycles 0 to 218, a ring of 15 entries, multiplier 2 | the absolute clock implements the relative one; no activate is left behind in the ring |

Why the bounds are enough. Two banks and two ranks give every pair of "same bank, other
bank, other rank" that an update distinguishes. Two refreshes per window give "none, some
and all issued". Two rows suffice, since a bank only compares its row with a request's;
they are symmetric wherever they are only compared (not in the runs with cores, whose traces
name them). Two rows per bank and two traces make four, so that the prefixes matter. In the
runs with cores the refresh window is 24 DRAM cycles, less than a
simulation takes, so that refreshes interrupt the traffic; three lines per core with a
reorder buffer and a write queue of two fill both and wrap the buffer around; `HI_WM` 1 and
`LO_WM` 0 make drains begin and end for both reasons. `BIGNUM` (a million in the source) is
100, longer than any read waits there (`ReadsOwnTheirSlots` would fail otherwise).
The lines of `schedulers` are fixed by position, two for each, so that the traces bring
conflicts of rows in one bank by reads and writes of both cores, row hits, a second bank for
`Stride` to bypass to, and gaps after which `Pwrdn` puts the other rank to sleep. `refresh_clock`
has nine refresh windows and goes round the ring fourteen times; the latest deadline it can
compute, at cycle 218, is 218 + 36 = 254, so that `CyclesFit`, the hypothesis of the theorems
about it, holds. The scheduler may issue three refreshes where two are owed. `clock_overflow`
has an int up to 31 and goes past it. These two runs do not check for deadlock, since the model stops at `LastCycle`; all
others do.

**Fairness.** Only `Termination`, in run `schedulers`, needs any: weak fairness of the whole
next-state relation. The program is one loop without blocking calls, so it always takes its
next step; no fairness is assumed between cores, requests or commands. That requests do not
starve each other is what the run shows, not what it assumes.

## 4. Disagreements between the code and its comments

Each is a run that TLC ends with a counterexample to what the quoted comment says.

| Run | What happens |
|---|---|
| `slow_exit` | A rank that wakes from slow power-down is ready after `T_XP`: the state that selects `T_XP_DLL` is overwritten before it is tested (mc.c:910). |
| `powerup_deadline` | `is_powerup_allowed` compares with the refresh deadline of rank 0 for every rank (mc.c:1057). |
| `power_legend` | A rank asleep with a row open in a bank other than bank 0 is booked as in fast power-down with "all Banks" precharged, as bank 0 alone is inspected (mc.c:1655). `OnlyFastPowerDownMisbooked`, in `dram_one_rank`, says that this is the only false legend. |
| `merged_writes` | A write that comes after an equal write was served, but before the next DRAM cycle, is merged with it and never sent (mc.c:350). |
| `fair_drain` | The flag of a drain begun for want of reads is not lowered when the write queue runs empty; the next drain, begun at the high watermark with reads waiting, carries it and ends by the wrong rule (scheduler-fair.c:142). |
| `stride_positions` | A read that is served past a drain is not taken off `prev_rqsize`, and the next new read is never pushed (scheduler-stride.c:479). |
| `clock_overflow` | `refresh_issue_deadline` is an `int`: past its largest value it wraps, no cycle ever equals it and no refresh is forced again (memory_controller.h:102). With 32 bits this takes 2^31 processor cycles, a second or less of simulated time. |

The models show lesser oddities that no run is kept for:

- A refresh of a rank asleep with a row open in a bank other than bank 0 charges no precharge
  for that row (mc.c:1529).
- A forced refresh is said to wake a sleeping rank implicitly (mc.c:1051), but its window has no
  time for it (mc.c:1787): a rank that sleeps with a row open may have less left than waking,
  precharging and refreshing take.
- The latency of a matching read is taken for whether it matched. With `WQ_LOOKUP_LATENCY` 0, as in
  a configuration that leaves it out, a read is sent to the DRAM past a queued write of its place,
  and a second time if it waits there already (main.c:419).
- A read merged with the waiting read of *another* thread of its application retires before
  that read is served (mc.c:331); `OwnMergesWait` says it cannot happen within a core.
- A bank closed by a refresh remains a candidate of the close-page policy, which precharges it
  once more (scheduler-close.c:182; `CandidatesOpen` excepts it). In `scheduler-orcw.c` reads do not
  touch the marks: a bank marked by a write and then opened for a read is still a candidate, and
  may be closed in the next idle cycle (scheduler-orcw.c:148).
- `scheduler-perf.c` and `scheduler-test.c` divide integers: the threshold of the first is 0, so
  every row hit asks for an auto-precharge, and the priorities of the second are 0, 1 or 2; it
  keeps open the rows of the thread of *lowest* priority, and closes those of one that alone has
  hits (scheduler-test.c:41).
- `scheduler-perf.c` precharges the first bank it may in every idle cycle, mostly one that is
  closed (scheduler-perf.c:177). The simulation still ends.
- `scheduler-fair.c` compares with `>` and so stays for two writes in a drain that its
  comments would end after one (scheduler-fair.c:134).

## 5. What is proved

Every invariant and action property of the passing runs, and every refinement, is also stated
by a theorem: it holds for every number of ranks, banks, rows, refreshes, cores, slots and
trace lines, and all timings and traces that satisfy the assumptions below.

### Assumptions

They are named `ASSUME`s next to the constants, and TLC evaluates each in the runs that use
the module.

- `DramTiming`: sizes are positive; timings are naturals; a refresh window is longer than a
  precharge and its refreshes; `T_RP > 0`; `T_XP <= T_XP_DLL`.
- `DramHistory`, `RecoveryAssumption`: `T_RC`, `T_RCD` and `T_RRD` are at most
  `T_RAS + T_RP + T_RFC`, and `T_XP` at most `T_RP + T_RFC`. A forced refresh *assigns* the
  `next_<cmd>` times that other commands only raise, so what was left of a timing is forgotten
  unless the refresh itself covers it. `T_RC = T_RAS + T_RP` of any DRAM device is within it, and
  `T_RFC` is longer than all the other times named.
- `RefreshClock`: the ring has room for `T_FAW` and one more DRAM cycle. Its theorems have the
  hypothesis `CyclesFit`, that no deadline exceeds the largest int; run `clock_overflow` shows
  what happens beyond.
- `AddressMap`: at most 16 cores, since `main.c` quits with more (with one channel it quits
  with more than 4); the sizes of the geometry are powers of two, whose widths add up to
  `ADDRESS_BITS` (`main.c` asserts it); the enlarged number of rows fits an `int`.
- `RequestQueues`, `Usimm`, `Fair`: one channel; sizes are naturals; a read that is served is faster
  than `BIGNUM`; the lines of traces are of whole cache lines. `NoTwinsHolds` and
  `ReadsSeeWritesHolds` have the hypothesis `WQ_LOOKUP_LATENCY # 0`; with 0
  both are false (section 4).

### The controller

- `TypeCorrect`, `Invariance`: `Spec => [](TypeOK /\ RefreshOnSchedule)`. The deadline tests of
  `update_memory` are equalities, so what has to be shown is that the deadline is never
  skipped. `RefreshOnSchedule` is inductive with `TypeOK`: while refreshes are owed and not
  forced, the deadline is still ahead, and it lies early enough before the end of the window
  for what is owed. A refresh of the scheduler only lowers what is owed; `UpdateMemory` moves
  the deadline by what has been issued, and this never moves it below the current cycle,
  because `RefreshTail` shrinks with what is owed (`TailShrinks`). `RefreshQuotaHolds` and
  `ForcedRefreshesFitHolds` follow from it as action properties.
- `DeadlinesRespectedHolds` and `QuietAtForcedRefreshHolds`, for `LazySpec`. The invariant is
  `LazyInv`, which adds to the above that all ranks have the same deadlines, no refresh was
  issued, and `next_refresh` of every bank is at most the deadline. The first part is needed
  because `is_powerup_allowed` looks at rank 0. `CommandQuiet` goes through the commands one
  by one: the guard of each tests the deadline with the very time the command adds to
  `next_refresh`.
- `ForcedRankInactiveHolds`, `RankSleepsAsOneHolds` and `MisbookingConfined`, by `StateInv`. Neither of the
  first two is inductive alone: that a rank under forced refresh stays closed needs the
  `next_act` of its banks to be the end of the window, and `ColumnsOpen`, since an auto-precharge
  goes by what it remembers of the cycle and not by the state of the bank.
- `ControllerIsLegal` (`HSpec => Legal`): the controller implements the device protocol. The
  invariant `HInv` says, for each timing of the device, that the age of the command it counts
  from and the register that enforces it add up to at least the timing: an age grows as the
  register runs down. It has one part for each scope of a timing: the bank, the rank, the
  other banks of the rank, the data bus, the refreshes, the activation record. Its second part,
  `DoneByDeadline`, is what saves the forced refreshes: since every guard tests the deadline,
  all that may be left when one starts is a row cycle, or the end of a wake-up. The four-activate window is a counting
  argument: of the last four ages of the history, at most three can be in a record that the
  guard accepts. `DramLegalProofs` then goes through the commands: each is legal because its
  register is 0. `LazyControllerIsQuiet` (`HLazySpec => LegalAndQuiet`) adds `NapsDone`: without
  refreshes of the scheduler, sleeping and waking are over by the deadline as well.

### The clock

`ClockIsRelative` and `RingHoldsRecentHolds`, by `ClockInv`: all cycles are multiples of the
multiplier, the completion deadline is ahead of the clock, and every entry of the ring was
made within the last `T_FAW` DRAM cycles. The last is why an entry read on the next round is
not an old one. The refinement is proved step by step; `CyclesFit` makes `ToInt` the identity.

### Queues, cores, loop

These are theorems about `UsimmSpec`, the simulator with any scheduler.

- `PlacesKeptApart`: however many cores there are, a power of two or not, and with either mapping,
  distinct lines of the address spaces get distinct places. The argument: `PowOf2Cores` is a
  power of two no smaller than the number of cores (`CoresFit`), so the enlarged rows make the
  fields reach as far as the prefixed addresses do (`WidthsAre`, `AddressesAre`). Two addresses
  that agree in all fields then agree above the highest one, where both are 0, and from each
  field down to the next (`FieldsAgree`), to the offset, which is 0 in both. The lemmas about
  powers of two, quotients and remainders are proved from smallest counterexamples
  (`LeastNatural`), for lack of induction.
- `UsimmTypeCorrect` and `WriteQueueBoundedHolds`, by `UsimmInv`, which adds that each request is
  of a line of its core's address space (`Genuine`) and that no physical address is twice in a
  queue (`Single`). The cores test the bound of the write queue for equality only, so it must be
  shown that no step goes past it. `NoTwinsHolds`, `AddressSpacesApartHolds` and
  `ReadsSeeWritesHolds` follow with `PlacesKeptApart`, the step from physical addresses, which the
  queues compare, to places in the DRAM.
- `SimulatorDrivesDram`: `UsimmSpec => LazySpec`. So the theorems about the controller hold inside
  the simulator; `RefreshesInTime` is one of them.
- `ReadsOwnTheirSlotsHolds` and `DoneMeansDrainedHolds`, by `SlotInv`: the tail of a reorder buffer is
  where head and count put it, a waiting read's instruction is in flight, and no two share a
  slot. They have the hypothesis `[]InTime`, that no waiting read's completion time has run out.
  A read is given a completion time `BIGNUM` cycles away, and a scheduler that let it wait so
  long would have its instruction retired and its slot reused; nothing but the liveness of the
  scheduler rules that out. `InTime` is one conjunct of `ReadsOwnTheirSlots` (so TLC checks it in
  run `fcfs`); that the slots are in flight and distinct is what the theorem adds.
- `MergingIsSimulator`, and `OwnMergesWaitHolds`, with the same hypothesis: the older read's slot
  comes first in the buffer (`OwnersFirst`), and retiring is in order.

### The schedulers

- `SchedulersAreSchedulers`: `SimulatorSpec => UsimmSpec`. Each `schedule()` does what `AnySchedule`
  allows. `AutoInv` is needed for the step of the auto-precharges, which issue commands after
  another command of the cycle. With it the chain is `SimulatorSpec`, `UsimmSpec`, `LazySpec`,
  `Spec`, and all theorems above hold of each of the nine schedulers.
- `CandidatesOpenHolds`, `CountedRowsOpenHolds`: what a scheduler remembers of a bank is true after
  every step of the controller, for only its own commands and refreshes close rows.
- `NeverPushedTwiceHolds`: an action property of `Stride`.
- `SleepersMarkedHolds`: `Pwrdn` takes marks off by the clock and never looks at the ranks. `SleepInv`
  shows why that is right: the windows of all ranks end together and find them in forced
  refresh, in which no bank sleeps. It rests on `LazyInv` and `StateInv`, through the chain of
  refinements.

### Model-checked only

`Termination` is liveness under fairness, which is beyond the provers, and so is the hypothesis
`InTime` above. The runs of section 4 are counterexamples, which only TLC finds.

## 6. What is not modelled, and the plan

Left out for good: linked-list macros (vendored), parsing and printing, floating-point power
totals, the scripts. The loop's start-up is modelled by its outcome; empty or malformed
traces are not. Left out of `Stride`: the contents of the stride table and of the history
buffer, a list threaded through a ring, from which rows are predicted. They decide which of
the allowed commands is issued, never whether it is allowed. `Termination` holds for all
predictions.

One channel is modelled. Channels share nothing but the clock and the cores; a second one
multiplies the states beyond what TLC finishes, and adds one interaction, that a full write
queue of either stops every core.

Done: (1) `DramTiming`, `Dram`, their proofs; (2) `DramProtocol`, `DramHistory`; (3) `PowerStats`;
(4) `RequestQueues`, `Usimm`; (5) `WriteDrain`, `Fcfs`, `FcfsMerging`, `Pwrdn`, `Close`; (6) `AddressMap`;
(7) `FrFcfs`, `Fair`, `HitRate`, `Stride`, `Simulator`; (8) `RankClock`, `RefreshClock`; (9) the proofs
of section 5.

To come:

1. Proofs: types of the schedulers' variables; an `InTime` without liveness, from a bound on the
   wait of a read, for a scheduler that has one.
2. `Usimm` with several channels, on a smaller instance.

## 7. Running

```
tlc -config MCSchedulers.cfg MCSimulator    # any .cfg with the module PROJECT.json names with it
tlapm SimulatorProofs.tla                   # any module whose name ends with Proofs
```
